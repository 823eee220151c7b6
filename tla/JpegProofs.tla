------------------------------ MODULE JpegProofs ------------------------------
(* The conversion of a frame, proved for frames of every kind and size, every   *)
(* quality and buffers of every size: its memory, the types of its variables,   *)
(* that no bit of a code word is lost, that no marker is mistaken for one in    *)
(* the scan, and that the stream is the beginning of what has been emitted.     *)
(*                                                                              *)
(* The sections follow the data: bytes into the stream, code words into bytes,  *)
(* blocks into code words, lines into blocks, the header's markers, and the     *)
(* steps of fmt2jpg, which keep the invariant StateInv.                         *)
EXTENDS JpegEncoder, JpgeProofs

(* What the encoder has emitted is in the stream up to what is still in         *)
(* m_out_buf, or as much of it as jpg_buf holds.                                *)
Written(e) ==
  LET n == Len(e.emitted) - Len(e.buf)
  IN  /\ n \in Nat
      /\ e.buf = SubSeq(e.emitted, n + 1, Len(e.emitted))
      /\ e.stream = SubSeq(e.emitted, 1, Smaller(JpgBufLen, n))
(* m_bit_buffer holds n bits, the highest of its 24.                            *)
HoldsBits(buffer, n) == \E h \in Nat : h < 2^n /\ buffer = h * 2^(24 - n)
EncoderType == [bitBuffer : Int, bitsIn : 0..7, buf : Seq(Byte), stream : Seq(Byte),
                emitted : Seq(Byte), lastDC : [1..3 -> Int]]
Encoder == {e \in EncoderType : /\ HoldsBits(e.bitBuffer, e.bitsIn)
                                /\ \A c \in 1..3 : IsCoefficient(e.lastDC[c], 0)
                                /\ Len(e.buf) < OutBufSize
                                /\ Written(e)}

-------------------------------------------------------------------------------
(* Output. *)

LEMMA BytesOfSubSeq ==
  ASSUME NEW s \in Seq(Byte), NEW m \in Nat, m >= 1, NEW n \in Nat, n <= Len(s)
  PROVE  /\ SubSeq(s, m, n) \in Seq(Byte)
         /\ Len(SubSeq(s, m, n)) = IF m <= n THEN n - m + 1 ELSE 0
         /\ \A i \in 1..(n - m + 1) : SubSeq(s, m, n)[i] = s[m + i - 1]
<1>1. \A i \in m..n : s[i] \in Byte
  BY ElementOfSeq
<1> QED
  BY <1>1, SubSeqProperties

LEMMA BytesAfter ==
  ASSUME NEW s \in Seq(Byte), NEW m \in Nat, NEW n \in Nat, m <= n, n <= Len(s)
  PROVE  /\ SubSeq(s, m + 1, n) \in Seq(Byte)
         /\ Len(SubSeq(s, m + 1, n)) = n - m
         /\ \A i \in 1..(n - m) : SubSeq(s, m + 1, n)[i] = s[m + i]
<1>1. m + 1 \in Nat /\ m + 1 >= 1
  OBVIOUS
<1> DEFINE part == SubSeq(s, m + 1, n)
<1>2. /\ part \in Seq(Byte)
      /\ Len(part) = IF m + 1 <= n THEN n - (m + 1) + 1 ELSE 0
      /\ \A i \in 1..(n - (m + 1) + 1) : part[i] = s[(m + 1) + i - 1]
  BY <1>1, BytesOfSubSeq
<1> HIDE DEF part
<1>3. n - (m + 1) + 1 = n - m /\ \A i \in 1..(n - m) : (m + 1) + i - 1 = m + i
  OBVIOUS
<1>4. Len(part) = n - m
  BY <1>2
<1> QED
  BY <1>2, <1>3, <1>4 DEF part

\* put_buf adds to the beginning of some bytes the bytes that follow it.
LEMMA PutBufKeepsBeginning ==
  ASSUME NEW all \in Seq(Byte), NEW n \in Nat, NEW m \in Nat, n <= m, m <= Len(all)
  PROVE  put_buf(SubSeq(all, 1, Smaller(JpgBufLen, n)), SubSeq(all, n + 1, m))
           = SubSeq(all, 1, Smaller(JpgBufLen, m))
<1> DEFINE J == JpgBufLen
           a == Smaller(J, n)
           b == Smaller(J, m)
           stream == SubSeq(all, 1, a)
           data == SubSeq(all, n + 1, m)
           room == J - Len(stream)
           part == IF Len(data) > room THEN SubSeq(data, 1, room) ELSE data
           new == SubSeq(all, 1, b)
<1>1. J \in Nat /\ Len(all) \in Nat
  BY BufferAssumption
<1>2. a \in Nat /\ b \in Nat /\ a <= n /\ a <= b /\ b <= m /\ a <= J
  BY <1>1 DEF Smaller
<1>3. stream \in Seq(Byte) /\ Len(stream) = a /\ \A i \in 1..a : stream[i] = all[i]
  BY <1>1, <1>2, BytesOfSubSeq
<1>4. data \in Seq(Byte) /\ Len(data) = m - n /\ \A i \in 1..(m - n) : data[i] = all[n + i]
  BY <1>1, BytesOfSubSeq
<1>5. new \in Seq(Byte) /\ Len(new) = b /\ \A i \in 1..b : new[i] = all[i]
  BY <1>1, <1>2, BytesOfSubSeq
<1> HIDE DEF stream, data, new
<1>6. /\ part \in Seq(Byte) /\ Len(part) = b - a
      /\ \A i \in 1..(b - a) : part[i] = all[a + i]
  <2>1. CASE Len(data) > room
    <3>1. room \in Nat /\ room <= Len(data) /\ b = J /\ room = b - a
      BY <1>1, <1>2, <1>3, <1>4, <2>1 DEF Smaller
    <3>2. /\ SubSeq(data, 1, room) \in Seq(Byte) /\ Len(SubSeq(data, 1, room)) = room
          /\ \A i \in 1..room : SubSeq(data, 1, room)[i] = data[i]
      BY <1>4, <3>1, BytesOfSubSeq
    <3>3. part = SubSeq(data, 1, room)
      BY <2>1
    <3>4. a = n \/ room = 0
      BY <1>1, <1>2, <3>1 DEF Smaller
    <3> HIDE DEF part, room, a, b
    <3> QED
      BY <1>1, <1>2, <1>4, <3>1, <3>2, <3>3, <3>4, SMTT(30)
  <2>2. CASE ~(Len(data) > room)
    <3>1. part = data
      BY <2>2
    <3>2. CASE a = n /\ b = m
      <4> HIDE DEF part, a, b
      <4> QED
        BY <1>4, <3>1, <3>2
    <3>3. CASE m = n
      <4>1. a = b
        BY <3>3
      <4> HIDE DEF part, a, b
      <4> QED
        BY <1>2, <1>4, <3>1, <3>3, <4>1
    <3>4. (a = n /\ b = m) \/ m = n
      BY <1>1, <1>2, <1>3, <1>4, <2>2 DEF Smaller
    <3> QED
      BY <3>2, <3>3, <3>4
  <2> QED
    BY <2>1, <2>2
<1>7. put_buf(stream, data) = stream \o part
  BY DEF put_buf
<1> HIDE DEF part, a, b, J
<1>8. /\ stream \o part \in Seq(Byte) /\ Len(stream \o part) = b
      /\ \A i \in 1..b : (stream \o part)[i] = IF i <= a THEN stream[i] ELSE part[i - a]
  <2> HIDE DEF room
  <2>1. Len(stream) + Len(part) = b
    BY <1>2, <1>3, <1>6
  <2>2. /\ stream \o part \in Seq(Byte) /\ Len(stream \o part) = Len(stream) + Len(part)
        /\ \A i \in 1..(Len(stream) + Len(part)) :
             (stream \o part)[i] = IF i <= Len(stream) THEN stream[i] ELSE part[i - Len(stream)]
    <3>1. stream \in Seq(Byte) /\ part \in Seq(Byte)
      BY <1>3, <1>6
    <3> HIDE DEF stream, part
    <3> QED
      BY <3>1, ConcatProperties
  <2> QED
    BY <1>3, <2>1, <2>2
<1>9. \A i \in 1..b : (stream \o part)[i] = new[i]
  <2>1. ASSUME NEW i \in 1..b
        PROVE  (stream \o part)[i] = new[i]
    <3>1. CASE i <= a
      <4>1. i \in 1..a
        BY <1>2, <3>1
      <4>2. (stream \o part)[i] = stream[i]
        BY <1>8, <3>1
      <4>3. stream[i] = all[i] /\ new[i] = all[i]
        BY <1>3, <1>5, <4>1
      <4> QED
        BY <4>2, <4>3
    <3>2. CASE ~(i <= a)
      <4>1. i - a \in 1..(b - a) /\ a + (i - a) = i
        BY <1>2, <3>2
      <4> QED
        BY <1>5, <1>6, <1>8, <3>2, <4>1
    <3> QED
      BY <3>1, <3>2
  <2> QED
    BY <2>1
<1>10. stream \o part = new
  BY <1>5, <1>8, <1>9, SeqEqual
<1> QED
  BY <1>7, <1>10 DEF stream, data, new, a, b, J

\* The end of what was emitted, followed by more, is the end of what is emitted then.
LEMMA SubSeqOfMore ==
  ASSUME NEW s \in Seq(Byte), NEW t \in Seq(Byte), NEW n \in Nat, n <= Len(s)
  PROVE  /\ SubSeq(s, n + 1, Len(s)) \o t = SubSeq(s \o t, n + 1, Len(s \o t))
         /\ \A k \in 0..n : SubSeq(s, 1, k) = SubSeq(s \o t, 1, k)
<1> DEFINE all == s \o t
           end == SubSeq(s, n + 1, Len(s))
           new == SubSeq(all, n + 1, Len(all))
<1>1. /\ all \in Seq(Byte) /\ Len(all) = Len(s) + Len(t)
      /\ \A i \in 1..(Len(s) + Len(t)) : all[i] = IF i <= Len(s) THEN s[i] ELSE t[i - Len(s)]
  BY ConcatProperties
<1>2. Len(s) \in Nat /\ Len(t) \in Nat
  BY LenProperties
<1> HIDE DEF all
<1>3. /\ end \in Seq(Byte) /\ Len(end) = Len(s) - n
      /\ \A i \in 1..(Len(s) - n) : end[i] = s[n + i]
  BY <1>2, BytesOfSubSeq
<1>4. /\ new \in Seq(Byte) /\ Len(new) = Len(s) + Len(t) - n
      /\ \A i \in 1..(Len(s) + Len(t) - n) : new[i] = all[n + i]
  BY <1>1, <1>2, BytesOfSubSeq
<1> HIDE DEF end, new
<1>5. end \o t = new
  <2>1. /\ end \o t \in Seq(Byte) /\ Len(end \o t) = Len(end) + Len(t)
        /\ \A i \in 1..(Len(end) + Len(t)) :
             (end \o t)[i] = IF i <= Len(end) THEN end[i] ELSE t[i - Len(end)]
    BY <1>3, ConcatProperties
  <2>2. ASSUME NEW i \in 1..Len(new)
        PROVE  (end \o t)[i] = new[i]
    <3>1. i \in 1..(Len(end) + Len(t)) /\ n + i \in 1..(Len(s) + Len(t))
      BY <1>2, <1>3, <1>4
    <3>2. new[i] = all[n + i]
      BY <1>4
    <3>3. CASE i <= Len(s) - n
      <4>1. i \in 1..(Len(s) - n) /\ i <= Len(end) /\ n + i <= Len(s)
        BY <1>2, <1>3, <3>3
      <4> QED
        BY <1>1, <1>3, <2>1, <3>1, <3>2, <4>1
    <3>4. CASE ~(i <= Len(s) - n)
      <4>1. ~(i <= Len(end)) /\ ~(n + i <= Len(s)) /\ i - Len(end) = n + i - Len(s)
        BY <1>2, <1>3, <3>4
      <4> QED
        BY <1>1, <2>1, <3>1, <3>2, <4>1, SMTT(30)
    <3> QED
      BY <3>3, <3>4
  <2>3. Len(end \o t) = Len(new)
    BY <1>2, <1>3, <1>4, <2>1
  <2> QED
    BY <1>4, <2>1, <2>2, <2>3, SeqEqual
<1>6. ASSUME NEW k \in 0..n
      PROVE  SubSeq(s, 1, k) = SubSeq(all, 1, k)
  <2>1. k \in Nat /\ k <= Len(s) /\ k <= Len(all)
    BY <1>1, <1>2
  <2>2. /\ SubSeq(s, 1, k) \in Seq(Byte) /\ Len(SubSeq(s, 1, k)) = k
        /\ \A i \in 1..k : SubSeq(s, 1, k)[i] = s[i]
    BY <2>1, BytesOfSubSeq
  <2>3. /\ SubSeq(all, 1, k) \in Seq(Byte) /\ Len(SubSeq(all, 1, k)) = k
        /\ \A i \in 1..k : SubSeq(all, 1, k)[i] = all[i]
    BY <1>1, <2>1, BytesOfSubSeq
  <2>4. \A i \in 1..k : s[i] = all[i]
    BY <1>1, <1>2, <2>1
  <2> QED
    BY <2>2, <2>3, <2>4, SeqEqual
<1> QED
  BY <1>5, <1>6 DEF all, end, new

LEMMA WholeMultiple ==
  ASSUME NEW a \in Nat, NEW b \in Nat, b >= 1
  PROVE  (a \div b) * b \in Nat /\ (a \div b) * b <= a /\ a - (a \div b) * b < b
<1>1. (a \div b) * b \in Nat
  OBVIOUS
<1>2. (a \div b) * b <= a
  OBVIOUS
<1>3. a - (a \div b) * b < b
  OBVIOUS
<1> QED
  BY <1>1, <1>2, <1>3

LEMMA EmitKeeps ==
  ASSUME NEW e \in Encoder, NEW bytes \in Seq(Byte)
  PROVE  /\ Emit(e, bytes) \in Encoder
         /\ Emit(e, bytes).emitted = e.emitted \o bytes
         /\ Emit(e, bytes).bitBuffer = e.bitBuffer /\ Emit(e, bytes).bitsIn = e.bitsIn
         /\ Emit(e, bytes).lastDC = e.lastDC
<1> DEFINE n == Len(e.emitted) - Len(e.buf)
           O == OutBufSize
           all == e.buf \o bytes
           flushed == (Len(all) \div O) * O
           emitted == e.emitted \o bytes
           buf == SubSeq(all, flushed + 1, Len(all))
           stream == put_buf(e.stream, SubSeq(all, 1, flushed))
           m == n + flushed
           new == Emit(e, bytes)
<1>1. e \in EncoderType /\ Written(e) /\ Len(e.buf) < OutBufSize
  BY DEF Encoder
<1>2. /\ e.buf \in Seq(Byte) /\ e.stream \in Seq(Byte) /\ e.emitted \in Seq(Byte)
      /\ e.bitBuffer \in Int /\ e.bitsIn \in 0..7 /\ e.lastDC \in [1..3 -> Int]
  BY <1>1 DEF EncoderType
<1>3. new = [e EXCEPT !.buf = buf, !.stream = stream, !.emitted = emitted]
  BY DEF Emit
<1>4. /\ new.bitBuffer = e.bitBuffer /\ new.bitsIn = e.bitsIn /\ new.lastDC = e.lastDC
      /\ new.buf = buf /\ new.stream = stream /\ new.emitted = emitted
      /\ new = [bitBuffer |-> e.bitBuffer, bitsIn |-> e.bitsIn, buf |-> buf, stream |-> stream,
                emitted |-> emitted, lastDC |-> e.lastDC]
  BY <1>1, <1>3 DEF EncoderType
<1> HIDE DEF new
<1>5. /\ n \in Nat /\ e.buf = SubSeq(e.emitted, n + 1, Len(e.emitted))
      /\ e.stream = SubSeq(e.emitted, 1, Smaller(JpgBufLen, n))
  BY <1>1 DEF Written
<1>6. Len(e.emitted) \in Nat /\ Len(e.buf) \in Nat /\ Len(bytes) \in Nat /\ n <= Len(e.emitted)
  <2>1. /\ Len(e.emitted) \in Nat /\ Len(e.buf) \in Nat /\ Len(bytes) \in Nat
    BY <1>2, LenProperties
  <2>2. \A a, b \in Nat : a - b <= a
    OBVIOUS
  <2> QED
    BY <2>1, <2>2, Zenon
<1>7. /\ emitted \in Seq(Byte) /\ Len(emitted) = Len(e.emitted) + Len(bytes)
      /\ all \in Seq(Byte) /\ Len(all) = Len(e.buf) + Len(bytes)
  BY <1>2, ConcatProperties
<1>8. /\ all = SubSeq(emitted, n + 1, Len(emitted))
      /\ \A k \in 0..n : SubSeq(e.emitted, 1, k) = SubSeq(emitted, 1, k)
  <2> HIDE DEF n
  <2>1. /\ SubSeq(e.emitted, n + 1, Len(e.emitted)) \o bytes
             = SubSeq(e.emitted \o bytes, n + 1, Len(e.emitted \o bytes))
        /\ \A k \in 0..n : SubSeq(e.emitted, 1, k) = SubSeq(e.emitted \o bytes, 1, k)
    BY <1>2, <1>5, <1>6, SubSeqOfMore
  <2>2. all = SubSeq(e.emitted, n + 1, Len(e.emitted)) \o bytes
    BY <1>5
  <2> HIDE DEF all
  <2> QED
    BY <2>1, <2>2
<1> HIDE DEF all, emitted
<1>9. Len(emitted) = n + Len(all) /\ Len(all) \in Nat
  <2> DEFINE a == Len(e.emitted)
             b == Len(e.buf)
  <2>1. a \in Nat /\ b \in Nat /\ n = a - b /\ Len(emitted) = a + Len(bytes)
        /\ Len(all) = b + Len(bytes) /\ Len(bytes) \in Nat
    BY <1>6, <1>7
  <2> HIDE DEF a, b, n
  <2> QED
    BY <2>1
<1> HIDE DEF n
<1>10. flushed \in Nat /\ flushed <= Len(all) /\ Len(all) - flushed < O
  <2>1. Len(all) \in Nat
    BY <1>9
  <2>2. O \in Nat /\ O >= 1
    BY BufferAssumption
  <2> HIDE DEF O
  <2> QED
    BY <2>1, <2>2, WholeMultiple
<1> HIDE DEF flushed, O
<1>11. \A i \in 1..Len(all) : all[i] = emitted[n + i]
  <2>1. n + 1 \in Nat /\ n + 1 >= 1 /\ Len(emitted) \in Nat
    BY <1>5, <1>9
  <2>2. \A i \in 1..(Len(emitted) - (n + 1) + 1) :
          SubSeq(emitted, n + 1, Len(emitted))[i] = emitted[n + 1 + i - 1]
    BY <1>7, <2>1, BytesOfSubSeq
  <2>3. \A i \in 1..Len(all) : /\ i \in 1..(Len(emitted) - (n + 1) + 1)
                               /\ n + 1 + i - 1 = n + i
    BY <1>5, <1>9
  <2> QED
    BY <1>8, <2>2, <2>3, Zenon
<1>12. /\ buf \in Seq(Byte) /\ Len(buf) = Len(all) - flushed
       /\ buf = SubSeq(emitted, m + 1, Len(emitted))
  <2>1. /\ buf \in Seq(Byte) /\ Len(buf) = Len(all) - flushed
        /\ \A i \in 1..(Len(all) - flushed) : buf[i] = all[flushed + i]
    BY <1>7, <1>9, <1>10, BytesAfter
  <2> DEFINE other == SubSeq(emitted, m + 1, Len(emitted))
  <2>2. /\ other \in Seq(Byte) /\ Len(other) = Len(all) - flushed
        /\ \A i \in 1..(Len(all) - flushed) : other[i] = emitted[m + i]
    <3>1. m \in Nat /\ m <= Len(emitted) /\ Len(emitted) - m = Len(all) - flushed
      BY <1>5, <1>9, <1>10
    <3> HIDE DEF m
    <3>2. /\ other \in Seq(Byte) /\ Len(other) = Len(emitted) - m
          /\ \A i \in 1..(Len(emitted) - m) : other[i] = emitted[m + i]
      BY <1>7, <1>9, <3>1, BytesAfter, SMTT(30)
    <3> QED
      BY <3>1, <3>2
  <2> HIDE DEF other, buf
  <2>3. \A i \in 1..(Len(all) - flushed) : all[flushed + i] = emitted[m + i]
    <3>1. ASSUME NEW i \in 1..(Len(all) - flushed)
          PROVE  all[flushed + i] = emitted[m + i]
      <4>1. flushed + i \in 1..Len(all) /\ n + (flushed + i) = m + i
        BY <1>5, <1>9, <1>10
      <4> QED
        BY <1>11, <4>1
    <3> QED
      BY <3>1
  <2>4. buf = other
    BY <2>1, <2>2, <2>3, SeqEqual
  <2> QED
    BY <2>1, <2>4 DEF other
<1>13. SubSeq(all, 1, flushed) = SubSeq(emitted, n + 1, m)
  <2> DEFINE a == SubSeq(all, 1, flushed)
             b == SubSeq(emitted, n + 1, m)
  <2>1. /\ a \in Seq(Byte) /\ Len(a) = flushed /\ \A i \in 1..flushed : a[i] = all[i]
    BY <1>7, <1>9, <1>10, BytesOfSubSeq
  <2>2. /\ b \in Seq(Byte) /\ Len(b) = flushed /\ \A i \in 1..flushed : b[i] = emitted[n + i]
    BY <1>5, <1>7, <1>9, <1>10, BytesAfter, SMTT(30)
  <2> HIDE DEF a, b
  <2>3. \A i \in 1..flushed : all[i] = emitted[n + i]
    BY <1>9, <1>10, <1>11
  <2>4. a = b
    BY <2>1, <2>2, <2>3, SeqEqual
  <2> QED
    BY <2>4 DEF a, b
<1>14. e.stream = SubSeq(emitted, 1, Smaller(JpgBufLen, n))
  <2>1. Smaller(JpgBufLen, n) \in 0..n
    BY <1>5, BufferAssumption DEF Smaller
  <2> QED
    BY <1>5, <1>8, <2>1
<1>15. stream = SubSeq(emitted, 1, Smaller(JpgBufLen, m))
  <2>1. m \in Nat /\ n <= m /\ m <= Len(emitted)
    BY <1>5, <1>9, <1>10
  <2> QED
    BY <1>5, <1>7, <1>13, <1>14, <2>1, PutBufKeepsBeginning
<1>16. stream \in Seq(Byte)
  <2>1. Smaller(JpgBufLen, m) \in Nat /\ Smaller(JpgBufLen, m) <= Len(emitted)
    BY <1>5, <1>9, <1>10, BufferAssumption DEF Smaller
  <2> HIDE DEF stream, m
  <2>2. SubSeq(emitted, 1, Smaller(JpgBufLen, m)) \in Seq(Byte)
    <3>1. 1 \in Nat /\ 1 >= 1
      OBVIOUS
    <3> QED
      BY <1>7, <2>1, <3>1, BytesOfSubSeq
  <2> QED
    BY <1>15, <2>2
<1> HIDE DEF buf, stream
<1>17. Len(emitted) - Len(buf) = m /\ m \in Nat
  BY <1>5, <1>9, <1>10, <1>12
<1>18. Written(new)
  BY <1>4, <1>12, <1>15, <1>17 DEF Written
<1>19. new \in EncoderType
  BY <1>2, <1>4, <1>7, <1>12, <1>16 DEF EncoderType
<1>20. new \in Encoder
  <2>1. HoldsBits(e.bitBuffer, e.bitsIn) /\ \A c \in 1..3 : IsCoefficient(e.lastDC[c], 0)
    BY DEF Encoder
  <2>2. Len(new.buf) < OutBufSize
    BY <1>4, <1>10, <1>12 DEF O
  <2> QED
    BY <1>4, <1>18, <1>19, <2>1, <2>2 DEF Encoder
<1> QED
  BY <1>4, <1>20 DEF new, emitted

LEMMA FlushKeeps ==
  ASSUME NEW e \in Encoder
  PROVE  /\ flush_output_buffer(e) \in Encoder
         /\ flush_output_buffer(e).emitted = e.emitted
<1> DEFINE n == Len(e.emitted) - Len(e.buf)
           stream == put_buf(e.stream, e.buf)
           len == Len(e.emitted)
           new == flush_output_buffer(e)
<1>1. e \in EncoderType /\ Written(e)
  BY DEF Encoder
<1>2. /\ e.buf \in Seq(Byte) /\ e.stream \in Seq(Byte) /\ e.emitted \in Seq(Byte)
      /\ e.bitBuffer \in Int /\ e.bitsIn \in 0..7 /\ e.lastDC \in [1..3 -> Int]
  BY <1>1 DEF EncoderType
<1>3. new = [bitBuffer |-> e.bitBuffer, bitsIn |-> e.bitsIn, buf |-> <<>>, stream |-> stream,
             emitted |-> e.emitted, lastDC |-> e.lastDC]
  <2>1. new = [e EXCEPT !.buf = <<>>, !.stream = stream]
    BY DEF flush_output_buffer
  <2> HIDE DEF new, stream
  <2> QED
    BY <1>1, <2>1 DEF EncoderType
<1>4. /\ new.bitBuffer = e.bitBuffer /\ new.bitsIn = e.bitsIn /\ new.lastDC = e.lastDC
      /\ new.buf = <<>> /\ new.stream = stream /\ new.emitted = e.emitted
  BY <1>3
<1> HIDE DEF new
<1>5. /\ n \in Nat /\ e.buf = SubSeq(e.emitted, n + 1, len)
      /\ e.stream = SubSeq(e.emitted, 1, Smaller(JpgBufLen, n))
  BY <1>1 DEF Written
<1>6. len \in Nat /\ n <= len
  <2>1. len \in Nat /\ Len(e.buf) \in Nat
    BY <1>2, LenProperties
  <2>2. \A a, b \in Nat : a - b <= a
    OBVIOUS
  <2> QED
    BY <2>1, <2>2, Zenon
<1> HIDE DEF n, len
<1>7. stream = SubSeq(e.emitted, 1, Smaller(JpgBufLen, len))
  <2>1. len <= Len(e.emitted)
    BY <1>6 DEF len
  <2> QED
    BY <1>2, <1>5, <1>6, <2>1, PutBufKeepsBeginning, SMTT(30)
<1>8. stream \in Seq(Byte)
  <2>1. Smaller(JpgBufLen, len) \in Nat /\ Smaller(JpgBufLen, len) <= Len(e.emitted)
    BY <1>6, BufferAssumption DEF Smaller, len
  <2> QED
    BY <1>2, <1>7, <2>1, BytesOfSubSeq
<1> HIDE DEF stream
<1>9. <<>> \in Seq(Byte) /\ Len(<<>>) = 0
  BY EmptySeq
<1>10. Written(new)
  <2>1. Len(new.emitted) - Len(new.buf) = len
    BY <1>4, <1>6, <1>9 DEF len
  <2>2. new.buf = SubSeq(new.emitted, len + 1, Len(new.emitted))
    <3>1. len \in Int /\ len + 1 \in Int /\ len < len + 1
      BY <1>6
    <3> QED
      BY <1>4, <3>1, SubSeqEmpty DEF len
  <2> QED
    BY <1>4, <1>6, <1>7, <2>1, <2>2 DEF Written
<1>11. new \in EncoderType
  BY <1>2, <1>3, <1>8, <1>9 DEF EncoderType, new
<1>12. new \in Encoder
  <2>1. HoldsBits(e.bitBuffer, e.bitsIn) /\ \A c \in 1..3 : IsCoefficient(e.lastDC[c], 0)
    BY DEF Encoder
  <2>2. Len(new.buf) < OutBufSize
    BY <1>4, <1>9, BufferAssumption
  <2> QED
    BY <1>4, <1>10, <1>11, <2>1, <2>2 DEF Encoder
<1> QED
  BY <1>4, <1>12 DEF new

\* The bits that wait in m_bit_buffer for the rest of their byte.
Waiting(e) == Bits(e.bitBuffer \div 2^(24 - e.bitsIn), e.bitsIn)

LEMMA HeldBits ==
  ASSUME NEW n \in 0..7, NEW h \in Nat, h < 2^n, NEW buffer, buffer = h * 2^(24 - n)
  PROVE  /\ buffer \in Nat /\ buffer < 2^24
         /\ buffer \div 2^(24 - n) = h /\ buffer % 2^(24 - n) = 0
<1> DEFINE d == 2^(24 - n)
           t == 2^n
<1>1. d \in Nat /\ 1 <= d /\ t \in Nat
  <2>1. n \in 0..24 /\ 24 - n \in 0..24
    OBVIOUS
  <2> QED
    BY <2>1, PowerStep
<1>2. t * d = 2^24
  <2>1. n \in Nat /\ 24 - n \in Nat /\ n + (24 - n) = 24 /\ n + (24 - n) <= 24
    OBVIOUS
  <2>2. 2^n * 2^(24 - n) = 2^(n + (24 - n))
    BY <2>1, PowerSum
  <2> QED
    BY <2>1, <2>2
<1>3. h < t /\ buffer = h * d
  OBVIOUS
<1> HIDE DEF d, t
<1>4. buffer \in Nat /\ buffer < t * d
  BY <1>1, <1>3, ProductGrows
<1>5. buffer \div d = h
  <2>1. buffer = h * d + 0 /\ 0 < d
    BY <1>1, <1>3
  <2> QED
    BY <1>1, <1>4, <2>1, QuotientIs
<1>6. buffer % d = 0
  <2>1. buffer = (buffer \div d) * d + (buffer % d) /\ buffer % d \in Nat
    BY <1>1, <1>4, SMT
  <2>2. h * d \in Nat
    BY <1>1
  <2> QED
    BY <1>3, <1>5, <2>1, <2>2
<1> QED
  BY <1>2, <1>4, <1>5, <1>6 DEF d

\* What becomes of a byte, and the bits of a byte and of a code word.
StuffedByte == [b \in Byte |-> Stuffed(b)]
ByteBits == [b \in Byte |-> Bits(b, 8)]
WordBits == [w \in CodeWord |-> Bits(w.bits, w.size)]

LEMMA BitFunctions ==
  /\ StuffedByte \in [Byte -> Seq(Byte)] /\ Spells(StuffedByte, Byte, Byte)
  /\ ByteBits \in [Byte -> Seq(Binary)] /\ Spells(ByteBits, Byte, Binary)
  /\ WordBits \in [CodeWord -> Seq(Binary)] /\ Spells(WordBits, CodeWord, Binary)
<1>1. ASSUME NEW b \in Byte
      PROVE  Stuffed(b) \in Seq(Byte)
  <2>1. 255 \in Byte /\ 0 \in Byte
    BY DEF Byte
  <2>2. <<b>> \in Seq(Byte) /\ <<255, 0>> \in Seq(Byte)
    BY <2>1
  <2> QED
    BY <2>2 DEF Stuffed
<1>2. ASSUME NEW b \in Byte
      PROVE  Bits(b, 8) \in Seq(Binary)
  <2>1. b \in Nat /\ 8 \in 0..24
    BY DEF Byte
  <2> QED
    BY <2>1, BitsType
<1>3. ASSUME NEW w \in CodeWord
      PROVE  Bits(w.bits, w.size) \in Seq(Binary)
  <2>1. w.bits \in Nat /\ w.size \in 0..24
    BY DEF CodeWord
  <2> QED
    BY <2>1, BitsType
<1>4. /\ StuffedByte \in [Byte -> Seq(Byte)]
      /\ ByteBits \in [Byte -> Seq(Binary)]
      /\ WordBits \in [CodeWord -> Seq(Binary)]
  BY <1>1, <1>2, <1>3 DEF StuffedByte, ByteBits, WordBits
<1> HIDE DEF StuffedByte, ByteBits, WordBits
<1>5. Spells(StuffedByte, Byte, Byte)
  BY <1>4, SpellsType
<1>6. Spells(ByteBits, Byte, Binary)
  BY <1>4, SpellsType
<1>7. Spells(WordBits, CodeWord, Binary)
  BY <1>4, SpellsType
<1> QED
  BY <1>4, <1>5, <1>6, <1>7

\* One or two bytes are the bits of the number they stand for.
LEMMA BytesBits ==
  ASSUME NEW bytes \in Seq(Byte), Len(bytes) <= 2
  PROVE  /\ BytesValue(bytes) \in Nat
         /\ Joined(ByteBits, bytes) = Bits(BytesValue(bytes), 8 * Len(bytes))
<1>1. Len(bytes) = 0 \/ Len(bytes) = 1 \/ Len(bytes) = 2
  <2> DEFINE n == Len(bytes)
  <2>1. n \in Nat /\ n <= 2
    BY LenProperties
  <2> HIDE DEF n
  <2>2. n = 0 \/ n = 1 \/ n = 2
    BY <2>1
  <2> QED
    BY <2>2 DEF n
<1>2. \A b \in Byte : b \in Nat /\ b < 2^8 /\ ByteBits[b] = Bits(b, 8)
  <2>1. \A b \in Byte : b \in Nat /\ b < 2^8
    <3>1. 2^8 = 256
      BY SMT
    <3> QED
      BY <3>1, ByteBounds DEF Between, Byte
  <2>2. \A b \in Byte : ByteBits[b] = Bits(b, 8)
    BY Zenon DEF ByteBits
  <2> QED
    BY <2>1, <2>2
<1>3. ByteBits \in [Byte -> Seq(Binary)]
  BY BitFunctions
<1> HIDE DEF ByteBits
<1>4. CASE Len(bytes) = 0
  <2>1. bytes = <<>> /\ BytesValue(bytes) = 0
    BY <1>4, EmptySeq DEF BytesValue
  <2>2. Joined(ByteBits, <<>>) = <<>>
    <3>1. 0 \in Byte
      BY DEF Byte
    <3> QED
      BY <1>3, <3>1, JoinedShort
  <2>3. Bits(0, 0) = <<>>
    BY DEF Bits
  <2>4. 8 * Len(bytes) = 0
    BY <1>4
  <2> QED
    BY <2>1, <2>2, <2>3, <2>4
<1>5. CASE Len(bytes) = 1
  <2>1. bytes[1] \in Byte /\ bytes = <<bytes[1]>> /\ BytesValue(bytes) = bytes[1]
    <3>1. bytes[1] \in Byte
      BY <1>5, ElementOfSeq
    <3>2. bytes = <<bytes[1]>>
      <4> DEFINE b == bytes[1]
                 t == <<b>>
      <4>1. t \in Seq(Byte) /\ Len(t) = 1 /\ t[1] = bytes[1]
        BY <3>1
      <4>2. \A i \in 1..1 : i = 1
        OBVIOUS
      <4> HIDE DEF t
      <4>3. bytes = t
        BY <1>5, <4>1, <4>2, SeqEqual
      <4> QED
        BY <4>3 DEF t
    <3> QED
      BY <1>5, <3>1, <3>2 DEF BytesValue
  <2>2. Joined(ByteBits, <<bytes[1]>>) = ByteBits[bytes[1]]
    BY <1>3, <2>1, JoinedShort
  <2>3. 8 * Len(bytes) = 8
    BY <1>5
  <2> QED
    BY <1>2, <2>1, <2>2, <2>3
<1>6. CASE Len(bytes) = 2
  <2> DEFINE a == bytes[1]
             b == bytes[2]
  <2>1. a \in Byte /\ b \in Byte
    <3>1. 1 \in 1..Len(bytes) /\ 2 \in 1..Len(bytes)
      BY <1>6
    <3> QED
      BY <3>1, ElementOfSeq, Zenon
  <2>2. BytesValue(bytes) = 256 * a + b
    BY <1>6 DEF BytesValue
  <2>3. bytes = <<a>> \o <<b>>
    <3> DEFINE t == <<a>> \o <<b>>
    <3>1. t \in Seq(Byte) /\ Len(t) = 2 /\ t[1] = bytes[1] /\ t[2] = bytes[2]
      BY <2>1
    <3>2. \A i \in 1..2 : i = 1 \/ i = 2
      OBVIOUS
    <3> HIDE DEF t
    <3>3. bytes = t
      BY <1>6, <3>1, <3>2, SeqEqual
    <3> QED
      BY <3>3 DEF t
  <2> HIDE DEF a, b
  <2>4. Joined(ByteBits, <<a>> \o <<b>>) = ByteBits[a] \o ByteBits[b]
    <3>1. <<a>> \in Seq(Byte) /\ <<b>> \in Seq(Byte)
      BY <2>1
    <3>2. Joined(ByteBits, <<a>> \o <<b>>) = Joined(ByteBits, <<a>>) \o Joined(ByteBits, <<b>>)
      <4> DEFINE x == <<a>>
                 y == <<b>>
      <4> HIDE DEF x, y
      <4>1. Joined(ByteBits, x \o y) = Joined(ByteBits, x) \o Joined(ByteBits, y)
        <5>1. x \in Seq(Byte) /\ y \in Seq(Byte)
          BY <3>1 DEF x, y
        <5>2. Spells(ByteBits, Byte, Binary)
          BY BitFunctions
        <5> QED
          BY <5>1, <5>2, JoinedConcat, SMTT(30)
      <4> QED
        BY <4>1 DEF x, y
    <3>3. Joined(ByteBits, <<a>>) = ByteBits[a] /\ Joined(ByteBits, <<b>>) = ByteBits[b]
      BY <1>3, <2>1, JoinedShort
    <3> QED
      BY <3>2, <3>3
  <2>5. Bits(a * 2^8 + b, 8 + 8) = Bits(a, 8) \o Bits(b, 8)
    <3> DEFINE v == a * 2^8 + b
               size == 8 + 8
    <3>1. a \in Nat /\ b \in Nat /\ b < 2^8 /\ 8 \in Nat /\ 8 + 8 <= 24
      BY <1>2, <2>1
    <3>2. v = a * 2^8 + b /\ size = 8 + 8
      OBVIOUS
    <3>4. SplitsInto(v, size, a, 8, b, 8)
      BY <3>1, <3>2 DEF SplitsInto
    <3> HIDE DEF v, size
    <3>3. Bits(v, size) = Bits(a, 8) \o Bits(b, 8)
      BY <3>4, BitsConcat
    <3> QED
      BY <3>3 DEF v, size
  <2>6. a * 2^8 + b = 256 * a + b /\ 256 * a + b \in Nat /\ 8 * Len(bytes) = 16 /\ 8 + 8 = 16
    <3>1. a \in Nat /\ b \in Nat /\ 2^8 = 256
      BY <1>2, <2>1, SMT
    <3> QED
      BY <1>6, <3>1
  <2> QED
    BY <1>2, <2>1, <2>2, <2>3, <2>4, <2>5, <2>6
<1> QED
  BY <1>1, <1>4, <1>5, <1>6

(* From e to new, some bytes have been emitted, stuffed, and the bits that were *)
(* waiting and these bits are those of the bytes and what is waiting now.       *)
Carried(e, bits, new) ==
  \E bytes \in Seq(Byte) :
     /\ new.emitted = e.emitted \o Joined(StuffedByte, bytes)
     /\ Waiting(e) \o bits = Joined(ByteBits, bytes) \o Waiting(new)

LEMMA PutBitsKeeps ==
  ASSUME NEW e \in Encoder, NEW word \in CodeWord
  PROVE  /\ put_bits(e, word) \in Encoder
         /\ Carried(e, Bits(word.bits, word.size), put_bits(e, word))
         /\ put_bits(e, word).lastDC = e.lastDC
<1> DEFINE in == e.bitsIn + word.size
           n == in \div 8
           r == in % 8
           buffer == e.bitBuffer + word.bits * 2^(24 - in)
           left == (buffer % 2^(24 - 8 * n)) * 2^(8 * n)
           filled == [e EXCEPT !.bitsIn = r, !.bitBuffer = left]
           bytes == [i \in 1..n |-> CutByte(buffer, i)]
           new == put_bits(e, word)
<1>1. new = Emit(filled, FlattenSeq([i \in 1..n |-> Stuffed((buffer \div 2^(24 - 8 * i)) % 256)]))
  BY DEF put_bits
<1>2. /\ e \in EncoderType /\ Written(e) /\ Len(e.buf) < OutBufSize
      /\ HoldsBits(e.bitBuffer, e.bitsIn) /\ \A c \in 1..3 : IsCoefficient(e.lastDC[c], 0)
  BY DEF Encoder
<1>3. /\ e.buf \in Seq(Byte) /\ e.stream \in Seq(Byte) /\ e.emitted \in Seq(Byte)
      /\ e.bitBuffer \in Int /\ e.bitsIn \in 0..7 /\ e.lastDC \in [1..3 -> Int]
  BY <1>2 DEF EncoderType
<1>4. word.bits \in Nat /\ word.bits < 2^word.size /\ word.size \in 0..16
  BY DEF CodeWord
<1>5. in \in 0..23 /\ n \in 0..2 /\ r \in 0..7 /\ in = 8 * n + r
  <2>1. in \in 0..23
    <3> DEFINE k == e.bitsIn
               m == word.size
    <3>1. k \in 0..7
      BY <1>3
    <3>2. m \in 0..16
      BY <1>4
    <3>3. in = k + m
      OBVIOUS
    <3> HIDE DEF k, m, in
    <3> QED
      BY <3>1, <3>2, <3>3
  <2> HIDE DEF in
  <2>2. in \in Int /\ 0 <= in /\ in <= 23
    BY <2>1
  <2>3. /\ in \div 8 \in Int /\ 0 <= in \div 8 /\ in \div 8 <= 2
        /\ in % 8 \in Int /\ 0 <= in % 8 /\ in % 8 <= 7
        /\ in = 8 * (in \div 8) + (in % 8)
    BY <2>2, SMT
  <2> QED
    BY <2>1, <2>3
<1>6. PICK h \in Nat : h < 2^e.bitsIn /\ e.bitBuffer = h * 2^(24 - e.bitsIn)
  BY <1>2 DEF HoldsBits
<1> DEFINE all == h * 2^word.size + word.bits
<1>7. all \in Nat /\ all < 2^in /\ buffer = all * 2^(24 - in)
  <2>1. /\ all \in Nat /\ all < 2^(e.bitsIn + word.size)
        /\ h * 2^(24 - e.bitsIn) + word.bits * 2^(24 - (e.bitsIn + word.size))
             = all * 2^(24 - (e.bitsIn + word.size))
    BY <1>3, <1>4, <1>6, BitsTogether
  <2> QED
    BY <1>6, <2>1
<1> HIDE DEF all, buffer
<1>8. PICK rest \in Nat : IsCut(buffer, in, all, rest)
  <2> HIDE DEF in
  <2> QED
    BY <1>5, <1>7, CutIntoBytes
<1>9. /\ rest < 2^r /\ left = rest * 2^(24 - r)
      /\ \A i \in 1..n : CutByte(buffer, i) \in Byte
      /\ all = BytesValue(bytes) * 2^r + rest
  BY <1>8 DEF IsCut
<1> HIDE DEF in, n, r, left
<1>10. bytes \in Seq(Byte) /\ Len(bytes) = n
  <2>1. n \in Nat
    BY <1>5
  <2> QED
    BY <1>9, <2>1
<1>11. filled = [bitBuffer |-> left, bitsIn |-> r, buf |-> e.buf, stream |-> e.stream,
                 emitted |-> e.emitted, lastDC |-> e.lastDC]
  <2>1. e \in EncoderType /\ filled = [e EXCEPT !.bitsIn = r, !.bitBuffer = left]
    BY <1>2
  <2> HIDE DEF filled
  <2> QED
    BY <2>1 DEF EncoderType
<1> HIDE DEF filled
<1>12. /\ filled.bitBuffer = left /\ filled.bitsIn = r /\ filled.buf = e.buf
       /\ filled.stream = e.stream /\ filled.emitted = e.emitted /\ filled.lastDC = e.lastDC
  BY <1>11
<1>13. filled \in Encoder
  <2>1. HoldsBits(left, r)
    BY <1>9 DEF HoldsBits
  <2>2. left \in Int
    BY <1>5, <1>9, HeldBits
  <2>3. filled \in EncoderType
    BY <1>3, <1>5, <1>11, <2>2 DEF EncoderType
  <2>4. Written(filled)
    BY <1>2, <1>12 DEF Written
  <2> QED
    BY <1>2, <1>12, <2>1, <2>3, <2>4 DEF Encoder
<1>14. FlattenSeq([i \in 1..n |-> Stuffed((buffer \div 2^(24 - 8 * i)) % 256)])
         = Joined(StuffedByte, bytes)
  <2>1. \A i \in 1..n : StuffedByte[bytes[i]] = Stuffed((buffer \div 2^(24 - 8 * i)) % 256)
    BY <1>9, Zenon DEF StuffedByte, CutByte
  <2>2. [i \in 1..n |-> Stuffed((buffer \div 2^(24 - 8 * i)) % 256)]
          = [i \in 1..Len(bytes) |-> StuffedByte[bytes[i]]]
    BY <1>10, <2>1, Zenon
  <2> QED
    BY <2>2, Zenon DEF Joined
<1> HIDE DEF bytes, new
<1>15. Joined(StuffedByte, bytes) \in Seq(Byte)
  BY <1>10, BitFunctions, JoinedConcat
<1>16. new \in Encoder /\ new.emitted = e.emitted \o Joined(StuffedByte, bytes)
  BY <1>1, <1>12, <1>13, <1>14, <1>15, EmitKeeps, ZenonT(40)
<1>17. new.bitBuffer = left /\ new.bitsIn = r /\ new.lastDC = e.lastDC
  BY <1>1, <1>12, <1>13, <1>14, <1>15, EmitKeeps
<1>18. Waiting(e) = Bits(h, e.bitsIn) /\ Waiting(new) = Bits(rest, r)
  <2>1. e.bitBuffer \div 2^(24 - e.bitsIn) = h
    BY <1>3, <1>6, HeldBits
  <2>2. left \div 2^(24 - r) = rest
    BY <1>5, <1>9, HeldBits
  <2> QED
    BY <1>17, <2>1, <2>2 DEF Waiting
<1>19. Bits(all, in) = Bits(h, e.bitsIn) \o Bits(word.bits, word.size)
  <2> DEFINE k == e.bitsIn
             m == word.size
             x == word.bits
  <2>1. k \in 0..7
    BY <1>3
  <2>6. m \in 0..16
    BY <1>4
  <2>2. h \in Nat /\ h < 2^k /\ x \in Nat /\ x < 2^m
    BY <1>4, <1>6
  <2>3. all = h * 2^m + x /\ in = k + m
    BY DEF all, in
  <2> HIDE DEF k, m, x
  <2>4. k \in Nat /\ m \in Nat /\ k + m <= 24
    BY <2>1, <2>6
  <2>5. Bits(all, in) = Bits(h, k) \o Bits(x, m)
    <3>1. SplitsInto(all, in, h, k, x, m)
      BY <2>2, <2>3, <2>4 DEF SplitsInto
    <3> QED
      BY <3>1, BitsConcat
  <2> QED
    BY <2>5 DEF k, m, x
<1>20. Bits(all, in) = Joined(ByteBits, bytes) \o Bits(rest, r)
  <2>1. BytesValue(bytes) \in Nat /\ Joined(ByteBits, bytes) = Bits(BytesValue(bytes), 8 * n)
    BY <1>5, <1>10, BytesBits
  <2>2. 8 * n \in Nat /\ r \in Nat /\ 8 * n + r <= 24
    BY <1>5
  <2> DEFINE v == BytesValue(bytes)
             k == 8 * n
  <2>4. all = v * 2^r + rest /\ in = k + r
    BY <1>5, <1>9
  <2>5. v \in Nat /\ k \in Nat /\ Joined(ByteBits, bytes) = Bits(v, k) /\ k + r <= 24
    BY <2>1, <2>2
  <2> HIDE DEF v, k
  <2>6. Bits(all, in) = Bits(v, k) \o Bits(rest, r)
    <3>1. SplitsInto(all, in, v, k, rest, r)
      BY <1>9, <2>2, <2>4, <2>5 DEF SplitsInto
    <3> QED
      BY <3>1, BitsConcat
  <2> QED
    BY <2>5, <2>6
<1>21. Carried(e, Bits(word.bits, word.size), new)
  BY <1>10, <1>16, <1>18, <1>19, <1>20 DEF Carried
<1> QED
  BY <1>16, <1>17, <1>21 DEF new

Distributes(F, x, y) == Joined(F, x \o y) = Joined(F, x) \o Joined(F, y)

LEMMA JoinedDistributes ==
  ASSUME NEW S, NEW T, NEW F, Spells(F, S, T), NEW x \in Seq(S), NEW y \in Seq(S)
  PROVE  Distributes(F, x, y) /\ Joined(F, x) \in Seq(T)
  BY JoinedConcat, SMT DEF Distributes

LEMMA BytesJoined ==
  ASSUME NEW x \in Seq(Byte), NEW y \in Seq(Byte)
  PROVE  /\ x \o y \in Seq(Byte)
         /\ Joined(StuffedByte, x) \in Seq(Byte) /\ Joined(ByteBits, x) \in Seq(Binary)
         /\ Joined(StuffedByte, x \o y) = Joined(StuffedByte, x) \o Joined(StuffedByte, y)
         /\ Joined(ByteBits, x \o y) = Joined(ByteBits, x) \o Joined(ByteBits, y)
<1>1. Spells(StuffedByte, Byte, Byte)
  BY BitFunctions
<1>2. Spells(ByteBits, Byte, Binary)
  BY BitFunctions
<1>3. Joined(StuffedByte, x) \in Seq(Byte) /\ Distributes(StuffedByte, x, y)
  BY <1>1, JoinedDistributes, Zenon
<1>4. Joined(ByteBits, x) \in Seq(Binary) /\ Distributes(ByteBits, x, y)
  BY <1>2, JoinedDistributes, Zenon
<1>5. x \o y \in Seq(Byte)
  BY ConcatProperties
<1> QED
  BY <1>3, <1>4, <1>5, Zenon DEF Distributes

LEMMA WordsJoined ==
  ASSUME NEW x \in Seq(CodeWord), NEW y \in Seq(CodeWord)
  PROVE  /\ Joined(WordBits, x) \in Seq(Binary)
         /\ Joined(WordBits, x \o y) = Joined(WordBits, x) \o Joined(WordBits, y)
<1>1. Spells(WordBits, CodeWord, Binary)
  BY BitFunctions
<1>2. Joined(WordBits, x) \in Seq(Binary) /\ Distributes(WordBits, x, y)
  BY <1>1, JoinedDistributes, Zenon
<1> QED
  BY <1>2, Zenon DEF Distributes

LEMMA WaitingType ==
  ASSUME NEW e \in Encoder
  PROVE  Waiting(e) \in Seq(Binary)
<1> DEFINE k == e.bitsIn
           buffer == e.bitBuffer
           v == buffer \div 2^(24 - k)
<1>1. e \in EncoderType /\ HoldsBits(buffer, k)
  BY DEF Encoder
<1>2. k \in 0..7
  BY <1>1 DEF EncoderType
<1>3. PICK h \in Nat : h < 2^k /\ buffer = h * 2^(24 - k)
  BY <1>1 DEF HoldsBits
<1> HIDE DEF buffer, k
<1>4. v = h
  BY <1>2, <1>3, HeldBits
<1>5. k \in 0..24
  BY <1>2
<1> HIDE DEF v
<1>6. Bits(v, k) \in Seq(Binary)
  BY <1>4, <1>5, BitsType
<1> QED
  BY <1>6 DEF Waiting, v, buffer, k

LEMMA NothingCarried ==
  ASSUME NEW e \in Encoder
  PROVE  Carried(e, <<>>, e)
<1>1. 0 \in Byte
  BY DEF Byte
<1>2. <<>> \in Seq(Byte)
  OBVIOUS
<1>3. Joined(StuffedByte, <<>>) = <<>> /\ Joined(ByteBits, <<>>) = <<>>
  BY <1>1, BitFunctions, JoinedShort
<1> DEFINE out == e.emitted
           waiting == Waiting(e)
<1>4. out \in Seq(Byte) /\ waiting \in Seq(Binary)
  BY WaitingType DEF Encoder, EncoderType
<1> HIDE DEF out, waiting
<1>5. out = out \o <<>> /\ waiting \o <<>> = <<>> \o waiting
  BY <1>4, ConcatEmptySeq
<1>6. /\ e.emitted = e.emitted \o Joined(StuffedByte, <<>>)
      /\ Waiting(e) \o <<>> = Joined(ByteBits, <<>>) \o Waiting(e)
  BY <1>3, <1>5 DEF out, waiting
<1> QED
  BY <1>2, <1>6, Zenon DEF Carried

LEMMA CarriedOn ==
  ASSUME NEW e \in Encoder, NEW f \in Encoder, NEW g \in Encoder,
         NEW a \in Seq(Binary), NEW b \in Seq(Binary),
         Carried(e, a, f), Carried(f, b, g)
  PROVE  Carried(e, a \o b, g)
<1>1. PICK x \in Seq(Byte) : /\ f.emitted = e.emitted \o Joined(StuffedByte, x)
                             /\ Waiting(e) \o a = Joined(ByteBits, x) \o Waiting(f)
  BY Zenon DEF Carried
<1>2. PICK y \in Seq(Byte) : /\ g.emitted = f.emitted \o Joined(StuffedByte, y)
                             /\ Waiting(f) \o b = Joined(ByteBits, y) \o Waiting(g)
  BY Zenon DEF Carried
<1> DEFINE out == e.emitted
           sx == Joined(StuffedByte, x)
           sy == Joined(StuffedByte, y)
           bx == Joined(ByteBits, x)
           by == Joined(ByteBits, y)
           we == Waiting(e)
           wf == Waiting(f)
           wg == Waiting(g)
           all == x \o y
<1>4. sx \in Seq(Byte) /\ sy \in Seq(Byte) /\ bx \in Seq(Binary) /\ by \in Seq(Binary)
  BY BytesJoined
<1>5. all \in Seq(Byte) /\ Joined(StuffedByte, all) = sx \o sy
  BY BytesJoined
<1>6. Joined(ByteBits, all) = bx \o by
  BY BytesJoined
<1>7. out \in Seq(Byte) /\ we \in Seq(Binary) /\ wf \in Seq(Binary) /\ wg \in Seq(Binary)
  BY WaitingType DEF Encoder, EncoderType
<1>8. /\ f.emitted = out \o sx /\ g.emitted = f.emitted \o sy
      /\ we \o a = bx \o wf /\ wf \o b = by \o wg
  BY <1>1, <1>2
<1> HIDE DEF out, sx, sy, bx, by, we, wf, wg, all
<1> DEFINE Then(q, r) == q \o r
<1>3. ASSUME NEW S, NEW q \in Seq(S), NEW r \in Seq(S), NEW u \in Seq(S)
      PROVE  Then(Then(q, r), u) = Then(q, Then(r, u))
  BY ConcatAssociative, SMTT(30)
<1> HIDE DEF Then
<1>9. \A q, r, u \in Seq(Byte) : Then(Then(q, r), u) = Then(q, Then(r, u))
  BY <1>3
<1>10. \A q, r, u \in Seq(Binary) : Then(Then(q, r), u) = Then(q, Then(r, u))
  BY <1>3
<1> USE DEF Then
<1>12. /\ f.emitted = Then(out, sx) /\ g.emitted = Then(f.emitted, sy)
       /\ Then(we, a) = Then(bx, wf) /\ Then(wf, b) = Then(by, wg)
  BY <1>8, Zenon
<1> HIDE DEF Then
<1>13. g.emitted = Then(out, Then(sx, sy))
  BY <1>4, <1>7, <1>9, <1>12
<1>14. Then(we, Then(a, b)) = Then(Then(bx, by), wg)
  <2>1. Then(we, Then(a, b)) = Then(Then(we, a), b)
    BY <1>7, <1>10
  <2>2. Then(Then(bx, wf), b) = Then(bx, Then(wf, b))
    BY <1>4, <1>7, <1>10
  <2>3. Then(bx, Then(by, wg)) = Then(Then(bx, by), wg)
    BY <1>4, <1>7, <1>10
  <2> QED
    BY <1>12, <2>1, <2>2, <2>3
<1>11. /\ g.emitted = e.emitted \o Joined(StuffedByte, all)
       /\ Waiting(e) \o (a \o b) = Joined(ByteBits, all) \o Waiting(g)
  BY <1>5, <1>6, <1>13, <1>14, Zenon DEF out, we, wg, Then
<1> QED
  BY <1>5, <1>11, Zenon DEF Carried

(* put_bits for one word after the other: the bits of the words, in order and   *)
(* without a gap, are in the bytes emitted and in what is waiting.              *)
THEOREM WordsAreWritten ==
  ASSUME NEW e \in Encoder, NEW words \in Seq(CodeWord)
  PROVE  /\ PutWords(e, words) \in Encoder
         /\ Carried(e, Joined(WordBits, words), PutWords(e, words))
         /\ PutWords(e, words).lastDC = e.lastDC
<1> DEFINE n == Len(words)
           Body(f) == [k \in 0..n |-> IF k = 0 THEN e ELSE put_bits(f[k - 1], words[k])]
           after == CHOOSE f : f = Body(f)
           F == [k \in 1..n |-> [s \in Encoder |-> put_bits(s, words[k])]]
           part(k) == SubSeq(words, 1, k)
<1>1. PutWords(e, words) = after[n]
  BY DEF PutWords
<1>2. n \in Nat
  BY LenProperties
<1>3. \A k \in 1..n : words[k] \in CodeWord
  BY ElementOfSeq
<1>4. part(n) = words
  BY SubSeqFull
<1>5. \A k \in 1..n : part(k) = part(k - 1) \o <<words[k]>>
  <2>1. ASSUME NEW k \in 1..n
        PROVE  part(k) = part(k - 1) \o <<words[k]>>
    <3>1. 1 \in 1..n /\ k \in 1..n
      BY <1>2
    <3> QED
      BY <3>1, SubSeqRecursiveSecond
  <2> QED
    BY <2>1
<1>6. \A k \in 1..n : part(k - 1) \in Seq(CodeWord)
  <2>1. ASSUME NEW k \in 1..n
        PROVE  part(k - 1) \in Seq(CodeWord)
    <3>1. \A i \in 1..(k - 1) : words[i] \in CodeWord
      BY ElementOfSeq
    <3>2. 1 \in Int /\ k - 1 \in Int
      OBVIOUS
    <3> QED
      BY <3>1, <3>2, SubSeqProperties
  <2> QED
    BY <2>1
<1>7. part(0) = <<>>
  <2>1. 1 \in Int /\ 0 \in Int /\ 0 < 1
    OBVIOUS
  <2> QED
    BY <2>1, SubSeqEmpty
<1> HIDE DEF n, part
<1>8. F \in [1..n -> [Encoder -> Encoder]]
  BY <1>3, PutBitsKeeps
<1>9. PICK g \in [0..n -> Encoder] : IsLoop(g, n, e, F)
  <2> HIDE DEF F
  <2> QED
    BY <1>2, <1>8, LoopExists
<1>10. g = Body(g)
  <2>1. ASSUME NEW k \in 0..n
        PROVE  g[k] = IF k = 0 THEN e ELSE put_bits(g[k - 1], words[k])
    <3>1. CASE k = 0
      BY <1>9, <3>1 DEF IsLoop
    <3>2. CASE k # 0
      <4>1. k \in 1..n /\ k - 1 \in 0..n
        BY <1>2, <3>2
      <4>2. g[k] = F[k][g[k - 1]] /\ g[k - 1] \in Encoder
        <5> HIDE DEF F
        <5> QED
          BY <1>9, <4>1 DEF IsLoop
      <4> QED
        BY <3>2, <4>1, <4>2
    <3> QED
      BY <3>1, <3>2
  <2> QED
    BY <2>1
<1>11. after = Body(after)
  <2> HIDE DEF Body
  <2> QED
    BY <1>10
<1> HIDE DEF after
<1> DEFINE Good(k) == /\ after[k] \in Encoder /\ Carried(e, Joined(WordBits, part(k)), after[k])
                      /\ after[k].lastDC = e.lastDC
           S == {k \in 0..n : Good(k)}
<1>12. Spells(WordBits, CodeWord, Binary) /\ WordBits \in [CodeWord -> Seq(Binary)]
  BY BitFunctions
<1>13. 0 \in S
  <2>1. after[0] = e /\ 0 \in 0..n
    BY <1>2, <1>11
  <2>2. Joined(WordBits, part(0)) = <<>>
    <3>1. [bits |-> 0, size |-> 0] \in CodeWord
      <4>1. 0 \in Int /\ 0 <= 0 /\ 0 \in 0..16 /\ 0 < 2^0
        OBVIOUS
      <4> QED
        BY <4>1 DEF CodeWord
    <3> QED
      BY <1>7, <1>12, <3>1, JoinedShort
  <2>3. Good(0)
    BY <2>1, <2>2, NothingCarried
  <2> HIDE DEF Good
  <2> QED
    BY <2>1, <2>3
<1>14. ASSUME NEW k \in 1..n, k - 1 \in S
       PROVE  k \in S
  <2> DEFINE old == after[k - 1]
             new == after[k]
             word == words[k]
             before == part(k - 1)
  <2>1. new = put_bits(old, word) /\ k \in 0..n
    BY <1>2, <1>11
  <2>2. old \in Encoder /\ Carried(e, Joined(WordBits, before), old) /\ old.lastDC = e.lastDC
    BY <1>14
  <2>3. word \in CodeWord /\ before \in Seq(CodeWord) /\ part(k) = before \o <<word>>
    BY <1>3, <1>5, <1>6
  <2> HIDE DEF old, new, word, before
  <2>4. /\ new \in Encoder /\ Carried(old, Bits(word.bits, word.size), new)
        /\ new.lastDC = old.lastDC
    BY <2>1, <2>2, <2>3, PutBitsKeeps
  <2>5. Bits(word.bits, word.size) = WordBits[word]
    BY <2>3 DEF WordBits
  <2>6. Joined(WordBits, <<word>>) = WordBits[word]
    BY <1>12, <2>3, JoinedShort
  <2> DEFINE last == <<word>>
             a == Joined(WordBits, before)
             b == Joined(WordBits, last)
  <2>7. last \in Seq(CodeWord) /\ Joined(WordBits, last) = WordBits[word]
    BY <2>3, <2>6
  <2>8. part(k) = before \o last
    BY <2>3
  <2> HIDE DEF last
  <2>14. before \in Seq(CodeWord) /\ last \in Seq(CodeWord)
    BY <2>3, <2>7
  <2>9. a \in Seq(Binary) /\ b \in Seq(Binary)
    BY <2>14, WordsJoined
  <2>10. Joined(WordBits, before \o last) = a \o b
    BY <2>14, WordsJoined
  <2>11. Carried(e, a, old) /\ Carried(old, b, new)
    BY <2>2, <2>4, <2>5, <2>7
  <2> HIDE DEF a, b
  <2>12. Carried(e, a \o b, new)
    BY <2>2, <2>4, <2>9, <2>11, CarriedOn
  <2>13. Good(k)
    BY <2>2, <2>4, <2>8, <2>10, <2>12 DEF new
  <2> HIDE DEF Good
  <2> QED
    BY <2>1, <2>13
<1>15. \A k \in 0..n : k \in S
  <2> HIDE DEF S
  <2> QED
    BY <1>2, <1>13, <1>14, InductionUpTo
<1>16. n \in S
  BY <1>2, <1>15
<1>17. Good(n)
  <2> HIDE DEF Good
  <2> QED
    BY <1>16
<1> QED
  BY <1>1, <1>4, <1>17

(* Sequences of bytes in which 0xFF is always followed by 0, and an encoder     *)
(* that has emitted the header and then such a sequence.                        *)
Unmarked == {s \in Seq(Byte) : \A i \in 1..Len(s) : s[i] = 255 => i < Len(s) /\ s[i + 1] = 0}
Scanning(h) == {e \in Encoder : \E s \in Unmarked : e.emitted = h \o s}

LEMMA UnmarkedConcat ==
  ASSUME NEW s \in Unmarked, NEW t \in Unmarked
  PROVE  s \o t \in Unmarked
<1> DEFINE m == Len(s)
           n == Len(t)
           u == s \o t
<1>1. s \in Seq(Byte) /\ t \in Seq(Byte)
  BY DEF Unmarked
<1>2. /\ \A i \in 1..m : s[i] = 255 => i < m /\ s[i + 1] = 0
      /\ \A i \in 1..n : t[i] = 255 => i < n /\ t[i + 1] = 0
  BY DEF Unmarked
<1>3. /\ u \in Seq(Byte) /\ Len(u) = m + n
      /\ \A i \in 1..(m + n) : u[i] = IF i <= m THEN s[i] ELSE t[i - m]
  BY <1>1, ConcatProperties
<1>4. m \in Nat /\ n \in Nat
  BY <1>1, LenProperties
<1> HIDE DEF m, n, u
<1>5. ASSUME NEW i \in 1..(m + n), u[i] = 255
      PROVE  i < m + n /\ u[i + 1] = 0
  <2>1. CASE i <= m
    <3>1. i \in 1..m /\ s[i] = 255
      BY <1>3, <1>4, <1>5, <2>1
    <3>2. i < m /\ s[i + 1] = 0
      BY <1>2, <3>1
    <3>3. i + 1 \in 1..(m + n) /\ i + 1 <= m /\ i < m + n
      BY <1>4, <3>2
    <3> QED
      BY <1>3, <3>2, <3>3
  <2>2. CASE ~(i <= m)
    <3>1. i - m \in 1..n /\ t[i - m] = 255
      BY <1>3, <1>4, <1>5, <2>2
    <3>2. i - m < n /\ t[(i - m) + 1] = 0
      BY <1>2, <3>1
    <3>3. /\ i + 1 \in 1..(m + n) /\ ~(i + 1 <= m) /\ i < m + n
          /\ (i + 1) - m = (i - m) + 1
      BY <1>4, <2>2, <3>2
    <3> QED
      BY <1>3, <3>2, <3>3
  <2> QED
    BY <2>1, <2>2
<1>6. \A i \in 1..Len(u) : u[i] = 255 => i < Len(u) /\ u[i + 1] = 0
  BY <1>3, <1>5
<1>7. u \in Unmarked
  BY <1>3, <1>6, Zenon DEF Unmarked
<1> QED
  BY <1>7 DEF u

LEMMA StuffedUnmarked ==
  ASSUME NEW bytes \in Seq(Byte)
  PROVE  Joined(StuffedByte, bytes) \in Unmarked
<1>1. ASSUME NEW b \in Byte
      PROVE  Stuffed(b) \in Unmarked
  <2>1. CASE b = 255
    <3> DEFINE t == <<255, 0>>
    <3>1. 255 \in Byte /\ 0 \in Byte
      BY DEF Byte
    <3>2. t \in Seq(Byte) /\ Len(t) = 2 /\ t[1] = 255 /\ t[2] = 0
      BY <3>1
    <3>3. Stuffed(b) = t
      BY <2>1 DEF Stuffed
    <3> HIDE DEF t
    <3>4. \A i \in 1..2 : t[i] = 255 => i < 2 /\ t[i + 1] = 0
      <4>1. \A i \in 1..2 : i = 1 \/ i = 2
        OBVIOUS
      <4> QED
        BY <3>2, <4>1
    <3> QED
      BY <3>2, <3>3, <3>4, ZenonT(40) DEF Unmarked
  <2>2. CASE b # 255
    <3> DEFINE t == <<b>>
    <3>1. t \in Seq(Byte) /\ Len(t) = 1 /\ t[1] = b
      OBVIOUS
    <3>2. Stuffed(b) = t
      BY <2>2 DEF Stuffed
    <3> HIDE DEF t
    <3>3. \A i \in 1..Len(t) : t[i] # 255
      BY <2>2, <3>1
    <3>4. t \in Unmarked
      BY <3>1, <3>3, Zenon DEF Unmarked
    <3> QED
      BY <3>2, <3>4
  <2> QED
    BY <2>1, <2>2
<1>2. <<>> \in Unmarked
  BY EmptySeq DEF Unmarked
<1>3. \A s, t \in Unmarked : s \o t \in Unmarked
  BY UnmarkedConcat
<1>4. StuffedByte \in [Byte -> Unmarked]
  BY <1>1, Zenon DEF StuffedByte
<1> DEFINE seqs == [i \in 1..Len(bytes) |-> StuffedByte[bytes[i]]]
<1>5. seqs \in Seq(Unmarked)
  <2> HIDE DEF StuffedByte, Unmarked, seqs
  <2> QED
    BY <1>4, JoinedOf DEF seqs
<1> HIDE DEF seqs, Unmarked
<1>6. FlattenSeq(seqs) \in Unmarked
  BY <1>2, <1>3, <1>5, FlattenSeqIn
<1> QED
  BY <1>6, Zenon DEF Joined, seqs

LEMMA CarriedScans ==
  ASSUME NEW h \in Seq(Byte), NEW e \in Scanning(h), NEW new \in Encoder,
         NEW bits, Carried(e, bits, new)
  PROVE  new \in Scanning(h)
<1>1. PICK s \in Unmarked : e.emitted = h \o s
  BY DEF Scanning
<1>2. PICK bytes \in Seq(Byte) : new.emitted = e.emitted \o Joined(StuffedByte, bytes)
  BY Zenon DEF Carried
<1> DEFINE t == Joined(StuffedByte, bytes)
           u == s \o t
<1>3. t \in Unmarked
  BY StuffedUnmarked
<1>4. u \in Unmarked
  BY <1>3, UnmarkedConcat
<1>5. s \in Seq(Byte) /\ t \in Seq(Byte)
  BY <1>3 DEF Unmarked
<1> HIDE DEF t
<1>6. (h \o s) \o t = h \o (s \o t)
  BY <1>5, ConcatAssociative
<1>7. new.emitted = h \o u
  BY <1>1, <1>2, <1>6, Zenon DEF t
<1> HIDE DEF u
<1> QED
  BY <1>4, <1>7 DEF Scanning

LEMMA ScanningEncodes ==
  ASSUME NEW h, NEW e \in Scanning(h)
  PROVE  e \in Encoder
  BY DEF Scanning

-------------------------------------------------------------------------------
(* Blocks. *)

SampleBlock == [comp : 0..2, sample : [0..63 -> Sample]]

\* The tables after jpg_open: no step is 0.
QuantReady == \A t \in 1..2 : \A i \in 1..64 : Between(quant[t][i], 1, 255)

\* The tables of a component, and what code_block makes of a block's samples.
Table(comp) == IF comp = 0 THEN 1 ELSE 2
CoefOf(block) ==
  load_quantized_coefficients(quant[Table(block.comp)], DCT2D(block.sample))

\* code_block: the coefficients of the block leave as the words of
\* code_coefficients_pass_two, and the next block is coded less the first of them.
LEMMA BlockIsWritten ==
  ASSUME QuantReady, NEW e \in Encoder, NEW block \in SampleBlock
  PROVE  LET c == block.comp + 1
             words == code_coefficients_pass_two(Table(block.comp), CoefOf(block), e.lastDC[c])
         IN  /\ IsBlock(CoefOf(block)) /\ words \in Seq(CodeWord)
             /\ code_block(e, block) \in Encoder
             /\ Carried(e, Joined(WordBits, words), code_block(e, block))
             /\ code_block(e, block).lastDC = [e.lastDC EXCEPT ![c] = CoefOf(block)[0]]
<1> DEFINE t == Table(block.comp)
           q == quant[t]
           sample == DCT2D(block.sample)
           coef == CoefOf(block)
           c == block.comp + 1
           last == e.lastDC[c]
           dc == coef[0]
           words == code_coefficients_pass_two(t, coef, last)
           next == [e EXCEPT !.lastDC[c] = dc]
<1>1. code_block(e, block) = PutWords(next, words)
  BY DEF code_block, CoefOf, Table
<1>2. block.comp \in 0..2 /\ block.sample \in [0..63 -> Sample]
  BY DEF SampleBlock
<1>3. t \in 1..2 /\ c \in 1..3
  <2> DEFINE comp == block.comp
  <2>1. comp \in 0..2
    BY <1>2
  <2>2. t = (IF comp = 0 THEN 1 ELSE 2) /\ c = comp + 1
    BY DEF Table
  <2> HIDE DEF t, c, comp
  <2> QED
    BY <2>1, <2>2
<1> HIDE DEF t, c
<1>4. \A k \in 0..63 : IsCoefficient(sample[k], k)
  <2>1. \A k \in 0..63 : Between(block.sample[k], -128, 127)
    BY <1>2 DEF Sample
  <2> QED
    BY <2>1, TransformRange
<1>5. IsBlock(coef)
  <2>1. \A k \in 1..64 : Between(q[k], 1, 255)
    BY <1>3 DEF QuantReady
  <2>2. coef = load_quantized_coefficients(q, sample)
    BY DEF CoefOf, t
  <2> HIDE DEF q, coef, sample
  <2> QED
    BY <1>4, <2>1, <2>2, QuantizedRange DEF IsBlock
<1> HIDE DEF sample
<1> HIDE DEF coef
<1>6. IsCoefficient(dc, 0)
  <2>1. 0 \in 0..63
    OBVIOUS
  <2> QED
    BY <1>5, <2>1 DEF IsBlock
<1>7. /\ e \in EncoderType /\ Written(e) /\ Len(e.buf) < OutBufSize
      /\ HoldsBits(e.bitBuffer, e.bitsIn) /\ \A k \in 1..3 : IsCoefficient(e.lastDC[k], 0)
  BY DEF Encoder
<1>8. IsCoefficient(last, 0)
  BY <1>3, <1>7
<1>9. words \in Seq(CodeWord)
  <2> HIDE DEF last
  <2>1. PICK d \in CodedWord, bits \in CodeWord, rest, end \in Seq(CodedWord) :
          words = <<d, bits>> \o rest \o end
    <3>1. IsCodedBlock(words)
      BY <1>3, <1>5, <1>8, BlockCoded
    <3> HIDE DEF words
    <3> QED
      BY <3>1 DEF IsCodedBlock
  <2>2. CodedWord \subseteq CodeWord
    BY DEF CodedWord
  <2>3. d \in CodeWord /\ rest \in Seq(CodeWord) /\ end \in Seq(CodeWord)
    BY <2>2, SeqMonotonic
  <2>4. <<d, bits>> \in Seq(CodeWord)
    BY <2>3
  <2>5. <<d, bits>> \o rest \in Seq(CodeWord)
    BY <2>3, <2>4, ConcatProperties
  <2> QED
    BY <2>1, <2>3, <2>5, ConcatProperties
<1> HIDE DEF words, dc
<1>10. /\ next \in Encoder /\ next.emitted = e.emitted
       /\ next.lastDC = [e.lastDC EXCEPT ![c] = dc]
       /\ next.bitBuffer = e.bitBuffer /\ next.bitsIn = e.bitsIn
  <2>1. /\ e.buf \in Seq(Byte) /\ e.stream \in Seq(Byte) /\ e.emitted \in Seq(Byte)
        /\ e.bitBuffer \in Int /\ e.bitsIn \in 0..7 /\ e.lastDC \in [1..3 -> Int]
    BY <1>7 DEF EncoderType
  <2> DEFINE lastDC == [e.lastDC EXCEPT ![c] = dc]
  <2>2. lastDC \in [1..3 -> Int] /\ \A k \in 1..3 : IsCoefficient(lastDC[k], 0)
    <3>1. dc \in Int
      BY <1>6 DEF IsCoefficient, Between
    <3> QED
      BY <1>3, <1>6, <1>7, <2>1, <3>1
  <2> HIDE DEF lastDC
  <2>3. next = [bitBuffer |-> e.bitBuffer, bitsIn |-> e.bitsIn, buf |-> e.buf,
                stream |-> e.stream, emitted |-> e.emitted, lastDC |-> lastDC]
    <3>1. next = [e EXCEPT !.lastDC = lastDC]
      BY DEF lastDC
    <3> HIDE DEF next
    <3>2. e \in EncoderType
      BY <1>7
    <3> QED
      BY <3>1, <3>2 DEF EncoderType
  <2> HIDE DEF next
  <2>4. /\ next.bitBuffer = e.bitBuffer /\ next.bitsIn = e.bitsIn
        /\ next.buf = e.buf /\ next.stream = e.stream
        /\ next.emitted = e.emitted /\ next.lastDC = lastDC
    BY <2>3
  <2>5. next \in EncoderType
    BY <2>1, <2>2, <2>3 DEF EncoderType
  <2>6. Written(next)
    BY <1>7, <2>4 DEF Written
  <2>7. next \in Encoder
    BY <1>7, <2>2, <2>4, <2>5, <2>6 DEF Encoder
  <2> QED
    BY <2>4, <2>7 DEF lastDC
<1> HIDE DEF next
<1> DEFINE new == PutWords(next, words)
           bits == Joined(WordBits, words)
<1>11. new \in Encoder /\ Carried(next, bits, new) /\ new.lastDC = next.lastDC
  BY <1>9, <1>10, WordsAreWritten
<1> HIDE DEF new, bits
<1>12. Carried(e, bits, new)
  <2>1. Waiting(next) = Waiting(e)
    BY <1>10 DEF Waiting
  <2> QED
    BY <1>10, <1>11, <2>1, Zenon DEF Carried
<1>13. IsBlock(coef) /\ words \in Seq(CodeWord) /\ code_block(e, block) = new
  BY <1>1, <1>5, <1>9 DEF new
<1>14. code_block(e, block).lastDC = [e.lastDC EXCEPT ![c] = coef[0]]
  BY <1>10, <1>11, <1>13 DEF dc
<1> QED
  BY <1>11, <1>12, <1>13, <1>14, Zenon DEF bits, words, last, coef, c, t

LEMMA CodeBlockKeeps ==
  ASSUME QuantReady, NEW h \in Seq(Byte), NEW e \in Scanning(h), NEW block \in SampleBlock
  PROVE  code_block(e, block) \in Scanning(h)
<1> DEFINE bits == Joined(WordBits, code_coefficients_pass_two(Table(block.comp), CoefOf(block),
                                                               e.lastDC[block.comp + 1]))
<1>1. code_block(e, block) \in Encoder /\ Carried(e, bits, code_block(e, block))
  BY BlockIsWritten, ScanningEncodes
<1> HIDE DEF bits
<1> QED
  BY <1>1, CarriedScans

\* What the encoder keeps of a pixel, and a line of the lines of an MCU row.
Pixel(f) == IF Comps(f) = 1 THEN Byte ELSE Byte \X Byte \X Byte
Line(f) == [1..(McusPerRow(f) * McuSize(f)) -> Pixel(f)]

LEMMA FrameSizes ==
  ASSUME NEW f \in Frames
  PROVE  /\ f.width \in Nat /\ 2 <= f.width /\ f.width < 65536 /\ f.width % 2 = 0
         /\ f.height \in Nat /\ 1 <= f.height /\ f.height < 65536
         /\ f.format \in {"GRAYSCALE", "RGB888", "RGB565", "YUV422"}
         /\ f.quality \in Nat
         /\ McuSize(f) \in {8, 16} /\ (McuSize(f) = 8 <=> Comps(f) = 1)
         /\ Comps(f) \in {1, 3} /\ (Comps(f) = 1 <=> f.format = "GRAYSCALE")
         /\ McusPerRow(f) \in Nat
         /\ McusPerRow(f) * McuSize(f) \in Nat /\ f.width <= McusPerRow(f) * McuSize(f)
<1>1. /\ f.width \in Widths /\ f.height \in Heights /\ f.format \in Formats
      /\ f.quality \in Qualities
  BY DEF Frames
<1>3. f.width \in Nat /\ 2 <= f.width /\ f.width < 65536 /\ f.width % 2 = 0
  BY <1>1, SizeAssumption
<1>4. /\ f.height \in Nat /\ 1 <= f.height /\ f.height < 65536
      /\ f.format \in {"GRAYSCALE", "RGB888", "RGB565", "YUV422"}
      /\ f.quality \in Nat
  <2>1. f.height \in Nat /\ 1 <= f.height /\ f.height < 65536
    BY <1>1, SizeAssumption
  <2>2. f.format \in {"GRAYSCALE", "RGB888", "RGB565", "YUV422"}
    BY <1>1, FormatAssumption
  <2>3. f.quality \in Nat
    BY <1>1, SizeAssumption
  <2> QED
    BY <2>1, <2>2, <2>3
<1>5. /\ McuSize(f) \in {8, 16} /\ (McuSize(f) = 8 <=> Comps(f) = 1)
      /\ Comps(f) \in {1, 3} /\ (Comps(f) = 1 <=> f.format = "GRAYSCALE")
  BY DEF McuSize, Comps
<1>6. /\ McusPerRow(f) \in Nat
      /\ McusPerRow(f) * McuSize(f) \in Nat /\ f.width <= McusPerRow(f) * McuSize(f)
  <2> DEFINE w == f.width
             m == McuSize(f)
  <2>1. w \in Nat
    BY <1>3
  <2>2. m = 8 \/ m = 16
    BY <1>5
  <2>3. McusPerRow(f) = (w + m - 1) \div m
    BY DEF McusPerRow
  <2> HIDE DEF w, m
  <2>4. CASE m = 8
    BY <2>1, <2>3, <2>4, SMT DEF w, m
  <2>5. CASE m = 16
    BY <2>1, <2>3, <2>5, SMT DEF w, m
  <2> QED
    BY <2>2, <2>4, <2>5
<1> QED
  BY <1>3, <1>4, <1>5, <1>6

LEMMA BlocksType ==
  ASSUME NEW f \in Frames, NEW lines \in Seq(Line(f)), Len(lines) = McuSize(f)
  PROVE  Blocks(f, lines) \in Seq(SampleBlock)
<1> DEFINE n == McusPerRow(f)
           w == n * McuSize(f)
           made(c, sample) == [comp |-> c, sample |-> sample]
           lum(i) == [k \in 1..4 |->
                        made(0, load_block_8_8(lines, 2 * (i - 1) + ((k - 1) % 2),
                                               (k - 1) \div 2, 0))]
           chrom(i) == [c \in 1..2 |-> made(c, load_block_16_8(lines, i - 1, c))]
           grey == [i \in 1..n |-> made(0, load_block_8_8_grey(lines, i - 1))]
           colour == [i \in 1..n |-> lum(i) \o chrom(i)]
<1>1. n \in Nat /\ w \in Nat
  BY FrameSizes
<1>2. Blocks(f, lines) = IF Comps(f) = 1 THEN grey ELSE FlattenSeq(colour)
  BY DEF Blocks
<1>3. \A r \in 1..McuSize(f) : lines[r] \in [1..w -> Pixel(f)]
  BY ElementOfSeq DEF Line
<1>4. \A c \in 0..2, s \in [0..63 -> Sample] : made(c, s) \in SampleBlock
  BY DEF SampleBlock
<1> HIDE DEF made
<1>5. CASE Comps(f) = 1
  <2>1. w = 8 * n /\ McuSize(f) = 8
    BY <1>1, <1>5, FrameSizes
  <2>2. \A r \in 1..8 : lines[r] \in [1..w -> Byte]
    BY <1>3, <1>5, <2>1 DEF Pixel
  <2>3. ASSUME NEW i \in 1..n
        PROVE  made(0, load_block_8_8_grey(lines, i - 1)) \in SampleBlock
    <3> HIDE DEF n, w
    <3>1. i - 1 \in Nat /\ 8 * (i - 1) + 8 <= w
      BY <1>1, <2>1
    <3>2. load_block_8_8_grey(lines, i - 1) \in [0..63 -> Sample]
      BY <1>1, <2>2, <3>1, GreyBlock
    <3>3. 0 \in 0..2
      OBVIOUS
    <3> QED
      BY <1>4, <3>2, <3>3
  <2>4. grey \in Seq(SampleBlock)
    <3> HIDE DEF n
    <3> QED
      BY <1>1, <2>3
  <2> QED
    BY <1>2, <1>5, <2>4
<1>6. CASE Comps(f) # 1
  <2>1. w = 16 * n /\ McuSize(f) = 16
    BY <1>1, <1>6, FrameSizes
  <2>2. \A r \in 1..16 : lines[r] \in [1..w -> Byte \X Byte \X Byte]
    BY <1>3, <1>6, <2>1 DEF Pixel
  <2> HIDE DEF n, w
  <2>3. ASSUME NEW i \in 1..n, NEW k \in 1..4
        PROVE  made(0, load_block_8_8(lines, 2 * (i - 1) + ((k - 1) % 2), (k - 1) \div 2, 0))
                 \in SampleBlock
    <3> DEFINE x == 2 * (i - 1) + ((k - 1) % 2)
               y == (k - 1) \div 2
    <3>1. y \in 0..1 /\ (k - 1) % 2 \in 0..1
      OBVIOUS
    <3>2. x \in Nat /\ 8 * x + 8 <= w /\ 0 \in 0..2
      BY <1>1, <2>1, <3>1
    <3> HIDE DEF x, y
    <3>3. load_block_8_8(lines, x, y, 0) \in [0..63 -> Sample]
      BY <1>1, <2>2, <3>1, <3>2, ColourBlock
    <3> QED
      BY <1>4, <3>2, <3>3 DEF x, y
  <2>4. ASSUME NEW i \in 1..n, NEW c \in 1..2
        PROVE  made(c, load_block_16_8(lines, i - 1, c)) \in SampleBlock
    <3>1. i - 1 \in Nat /\ 16 * (i - 1) + 16 <= w /\ c \in 0..2
      BY <1>1, <2>1
    <3>2. load_block_16_8(lines, i - 1, c) \in [0..63 -> Sample]
      BY <1>1, <2>2, <3>1, MeanBlock
    <3> QED
      BY <1>4, <3>1, <3>2
  <2>5. ASSUME NEW i \in 1..n
        PROVE  lum(i) \o chrom(i) \in Seq(SampleBlock)
    <3>1. lum(i) \in Seq(SampleBlock)
      BY <2>3
    <3>2. chrom(i) \in Seq(SampleBlock)
      BY <2>4
    <3> HIDE DEF lum, chrom
    <3> QED
      BY <3>1, <3>2, ConcatProperties
  <2> HIDE DEF lum, chrom
  <2>6. colour \in Seq(Seq(SampleBlock))
    BY <1>1, <2>5
  <2> HIDE DEF colour
  <2>7. FlattenSeq(colour) \in Seq(SampleBlock)
    BY <2>6, FlattenSeqType
  <2> QED
    BY <1>2, <1>6, <2>7
<1> QED
  BY <1>5, <1>6

\* process_mcu_row: code_block for one block after the other.
LEMMA McuRowKeeps ==
  ASSUME QuantReady, NEW h \in Seq(Byte), NEW e \in Scanning(h),
         NEW f \in Frames, NEW lines \in Seq(Line(f)), Len(lines) = McuSize(f)
  PROVE  process_mcu_row(e, f, lines) \in Scanning(h)
<1> DEFINE blocks == Blocks(f, lines)
           n == Len(blocks)
           Body(g) == [k \in 0..n |-> IF k = 0 THEN e ELSE code_block(g[k - 1], blocks[k])]
           after == CHOOSE g : g = Body(g)
           F == [k \in 1..n |-> [s \in Scanning(h) |-> code_block(s, blocks[k])]]
<1>1. process_mcu_row(e, f, lines) = after[n]
  BY DEF process_mcu_row
<1>2. blocks \in Seq(SampleBlock)
  BY BlocksType
<1> HIDE DEF blocks
<1>3. n \in Nat
  BY <1>2, LenProperties
<1>4. \A k \in 1..n : blocks[k] \in SampleBlock
  BY <1>2, ElementOfSeq
<1> HIDE DEF n
<1>5. F \in [1..n -> [Scanning(h) -> Scanning(h)]]
  BY <1>4, CodeBlockKeeps
<1>6. PICK g \in [0..n -> Scanning(h)] : IsLoop(g, n, e, F)
  <2> HIDE DEF F
  <2> QED
    BY <1>3, <1>5, LoopExists
<1>7. g = Body(g)
  <2>1. ASSUME NEW k \in 0..n
        PROVE  g[k] = IF k = 0 THEN e ELSE code_block(g[k - 1], blocks[k])
    <3>1. CASE k = 0
      BY <1>6, <3>1 DEF IsLoop
    <3>2. CASE k # 0
      <4>1. k \in 1..n /\ k - 1 \in 0..n
        BY <1>3, <3>2
      <4>2. g[k] = F[k][g[k - 1]] /\ g[k - 1] \in Scanning(h)
        <5> HIDE DEF F
        <5> QED
          BY <1>6, <4>1 DEF IsLoop
      <4> QED
        BY <3>2, <4>1, <4>2
    <3> QED
      BY <3>1, <3>2
  <2> QED
    BY <2>1
<1>8. after = Body(after)
  <2> HIDE DEF Body
  <2> QED
    BY <1>7
<1> HIDE DEF after
<1>9. after[0] \in Scanning(h)
  BY <1>3, <1>8
<1>10. ASSUME NEW k \in 1..n, after[k - 1] \in Scanning(h)
       PROVE  after[k] \in Scanning(h)
  <2>1. after[k] = code_block(after[k - 1], blocks[k])
    BY <1>3, <1>8
  <2> QED
    BY <1>4, <1>10, <2>1, CodeBlockKeeps
<1>11. \A k \in 0..n : after[k] \in Scanning(h)
  BY <1>3, <1>9, <1>10, LoopInvariant
<1> QED
  BY <1>1, <1>3, <1>11

\* An encoder that has ended the picture.
Ended(h) == {e \in Encoder : \E s \in Unmarked : e.emitted = h \o s \o Marker(217)}

\* process_end_of_image: what is left of the lines, the bits left over, EOI.
LEMMA EndKeeps ==
  ASSUME QuantReady, NEW h \in Seq(Byte), NEW e \in Scanning(h),
         NEW f \in Frames, NEW lines \in Seq(Line(f)), Len(lines) < McuSize(f)
  PROVE  process_end_of_image(e, f, lines) \in Ended(h)
<1> DEFINE m == McuSize(f) - Len(lines)
           more == [i \in 1..m |-> Last(lines)]
           full == lines \o more
           coded == IF lines = <<>> THEN e ELSE process_mcu_row(e, f, full)
           ones == [bits |-> 127, size |-> 7]
           filled == put_bits(coded, ones)
<1>1. process_end_of_image(e, f, lines) = flush_output_buffer(Emit(filled, Marker(217)))
  BY DEF process_end_of_image
<1>2. Len(lines) \in Nat /\ m \in Nat /\ McuSize(f) = Len(lines) + m
  <2>1. Len(lines) \in Nat /\ McuSize(f) \in Nat
    BY FrameSizes, LenProperties
  <2> QED
    BY <2>1
<1> HIDE DEF m
<1>3. coded \in Scanning(h)
  <2>1. CASE lines = <<>>
    BY <2>1
  <2>2. CASE lines # <<>>
    <3>1. Last(lines) \in Line(f)
      <4>1. Len(lines) \in 1..Len(lines) /\ Last(lines) = lines[Len(lines)]
        BY <1>2, <2>2, EmptySeq DEF Last
      <4> QED
        BY <4>1, ElementOfSeq
    <3>2. more \in Seq(Line(f)) /\ Len(more) = m
      BY <1>2, <3>1
    <3> HIDE DEF more
    <3>3. full \in Seq(Line(f)) /\ Len(full) = McuSize(f)
      BY <1>2, <3>2, ConcatProperties
    <3> HIDE DEF full
    <3> QED
      BY <2>2, <3>3, McuRowKeeps
  <2> QED
    BY <2>1, <2>2
<1> HIDE DEF coded
<1>4. filled \in Scanning(h)
  <2>1. ones \in CodeWord
    <3>1. 7 \in 0..16 /\ 127 \in Int /\ 0 <= 127 /\ 127 < 2^7
      OBVIOUS
    <3> QED
      BY <3>1 DEF CodeWord
  <2> DEFINE bits == Bits(ones.bits, ones.size)
  <2> HIDE DEF ones
  <2>2. filled \in Encoder /\ Carried(coded, bits, filled)
    BY <1>3, <2>1, ScanningEncodes, PutBitsKeeps
  <2> HIDE DEF filled, bits
  <2> QED
    BY <1>3, <2>2, CarriedScans
<1> HIDE DEF filled
<1>5. Marker(217) \in Seq(Byte)
  <2>1. 255 \in Byte /\ 217 \in Byte
    BY DEF Byte
  <2> QED
    BY <2>1 DEF Marker
<1> DEFINE end == Marker(217)
           last == Emit(filled, end)
           new == flush_output_buffer(last)
<1>6. PICK s \in Unmarked : filled.emitted = h \o s
  BY <1>4 DEF Scanning
<1> HIDE DEF end
<1>7. last \in Encoder /\ last.emitted = filled.emitted \o end
  BY <1>4, <1>5, ScanningEncodes, EmitKeeps, SMTT(30) DEF end
<1> HIDE DEF last
<1>8. new \in Encoder /\ new.emitted = last.emitted
  BY <1>7, FlushKeeps
<1> HIDE DEF new
<1>9. new.emitted = h \o s \o end
  BY <1>6, <1>7, <1>8
<1>10. new \in Ended(h)
  BY <1>8, <1>9, Zenon DEF Ended, end
<1> QED
  BY <1>1, <1>10 DEF new, last, end

-------------------------------------------------------------------------------
(* Lines. *)

BytesPerPixel(f) == CASE f.format = "GRAYSCALE" -> 1
                      [] f.format = "RGB888" -> 3
                      [] OTHER -> 2

LEMMA LineBytes ==
  ASSUME NEW f \in Frames
  PROVE  /\ BytesPerPixel(f) \in 1..3
         /\ f.format = "GRAYSCALE" => BytesPerPixel(f) = 1
         /\ f.format = "RGB888" => BytesPerPixel(f) = 3
         /\ f.format \in {"RGB565", "YUV422"} => BytesPerPixel(f) = 2
<1>1. f.format \in {"GRAYSCALE", "RGB888", "RGB565", "YUV422"}
  BY FrameSizes
<1> QED
  BY <1>1 DEF BytesPerPixel

LEMMA Bits565 ==
  ASSUME NEW x \in Byte, NEW y \in Byte
  PROVE  x - (x % 8) \in Byte /\ (x % 8) * 32 + (y \div 32) * 4 \in Byte /\ (y % 32) * 8 \in Byte
<1>1. x \in Int /\ 0 <= x /\ x <= 255 /\ y \in Int /\ 0 <= y /\ y <= 255
  BY ByteBounds DEF Between
<1>2. \A n \in Int : 0 <= n /\ n <= 255 => n \in Byte
  BY DEF Byte
<1>3. x - (x % 8) \in Int /\ 0 <= x - (x % 8) /\ x - (x % 8) <= 255
  BY <1>1
<1>4. /\ (x % 8) * 32 + (y \div 32) * 4 \in Int /\ 0 <= (x % 8) * 32 + (y \div 32) * 4
      /\ (x % 8) * 32 + (y \div 32) * 4 <= 255
  BY <1>1
<1>5. (y % 32) * 8 \in Int /\ 0 <= (y % 32) * 8 /\ (y % 32) * 8 <= 255
  BY <1>1
<1> QED
  BY <1>2, <1>3, <1>4, <1>5

\* convert_line_format makes the pixels of a line of a line of bytes.
LEMMA ConvertType ==
  ASSUME NEW f \in Frames,
         NEW src, \A k \in 0..(f.width * BytesPerPixel(f) - 1) : src[k] \in Byte,
         NEW c \in 1..f.width
  PROVE  /\ f.format = "GRAYSCALE" => convert_line_format(f.format, f.width, src)[c] \in Byte
         /\ f.format # "GRAYSCALE" =>
              convert_line_format(f.format, f.width, src)[c] \in Byte \X Byte \X Byte
<1> DEFINE w == f.width
           b == BytesPerPixel(f)
           line == convert_line_format(f.format, w, src)
<1>1. w \in Nat /\ w % 2 = 0 /\ f.format \in {"GRAYSCALE", "RGB888", "RGB565", "YUV422"}
  BY FrameSizes
<1>2. CASE f.format = "GRAYSCALE"
  <2>1. line = [k \in 1..w |-> src[k - 1]]
    BY <1>2 DEF convert_line_format
  <2>2. b = 1
    BY <1>2, LineBytes
  <2> HIDE DEF line, w, b
  <2>3. c - 1 \in 0..(w * b - 1) /\ c \in 1..w
    BY <1>1, <2>2 DEF w
  <2>4. line[c] = src[c - 1]
    BY <2>1, <2>3
  <2> QED
    BY <1>2, <2>3, <2>4 DEF line, w, b
<1>3. CASE f.format = "RGB888"
  <2>1. line = [k \in 1..w |-> <<src[3 * k - 1], src[3 * k - 2], src[3 * k - 3]>>]
    BY <1>3 DEF convert_line_format
  <2>2. b = 3
    BY <1>3, LineBytes
  <2> HIDE DEF line, w, b
  <2>3. /\ 3 * c - 1 \in 0..(w * b - 1) /\ 3 * c - 2 \in 0..(w * b - 1)
        /\ 3 * c - 3 \in 0..(w * b - 1) /\ c \in 1..w
    BY <1>1, <2>2 DEF w
  <2>4. src[3 * c - 1] \in Byte /\ src[3 * c - 2] \in Byte /\ src[3 * c - 3] \in Byte
    BY <2>3 DEF w, b
  <2>5. line[c] = <<src[3 * c - 1], src[3 * c - 2], src[3 * c - 3]>>
    BY <2>1, <2>3
  <2>6. line[c] \in Byte \X Byte \X Byte
    BY <2>4, <2>5
  <2> QED
    BY <1>3, <2>6 DEF line, w
<1>4. CASE f.format = "RGB565"
  <2> DEFINE pixel(k) == LET x == src[2 * k - 2]
                             y == src[2 * k - 1]
                         IN  <<x - (x % 8), (x % 8) * 32 + (y \div 32) * 4, (y % 32) * 8>>
  <2>1. line = [k \in 1..w |-> pixel(k)]
    BY <1>4 DEF convert_line_format
  <2>2. b = 2
    BY <1>4, LineBytes
  <2> HIDE DEF line, w, b
  <2>3. /\ 2 * c - 1 \in 0..(w * b - 1) /\ 2 * c - 2 \in 0..(w * b - 1) /\ c \in 1..w
    BY <1>1, <2>2 DEF w
  <2> DEFINE x == src[2 * c - 2]
             y == src[2 * c - 1]
  <2>4. x \in Byte /\ y \in Byte
    BY <2>3 DEF w, b
  <2>5. pixel(c) = <<x - (x % 8), (x % 8) * 32 + (y \div 32) * 4, (y % 32) * 8>>
    OBVIOUS
  <2>6. line[c] = pixel(c)
    BY <2>1, <2>3
  <2> HIDE DEF x, y, pixel
  <2>7. x - (x % 8) \in Byte /\ (x % 8) * 32 + (y \div 32) * 4 \in Byte /\ (y % 32) * 8 \in Byte
    BY <2>4, Bits565
  <2> QED
    BY <1>4, <2>5, <2>6, <2>7 DEF line, w
<1>5. CASE f.format = "YUV422"
  <2> DEFINE pixel(k) == LET pair == 4 * ((k - 1) \div 2)
                         IN  yuv2rgb(src[pair + 2 * ((k - 1) % 2)], src[pair + 1], src[pair + 3])
  <2>1. line = [k \in 1..(2 * ((w + 1) \div 2)) |-> pixel(k)]
    BY <1>5 DEF convert_line_format
  <2>2. b = 2
    BY <1>5, LineBytes
  <2>3. 2 * ((w + 1) \div 2) = w
    <3>1. \A n \in Nat : n % 2 = 0 => 2 * ((n + 1) \div 2) = n
      OBVIOUS
    <3> QED
      BY <1>1, <3>1
  <2> DEFINE p == (c - 1) \div 2
             o == (c - 1) % 2
  <2> HIDE DEF line, w, b
  <2>4. p \in Nat /\ o \in 0..1 /\ 2 * p + 2 <= w /\ c \in 1..w
    BY <1>1 DEF w
  <2> HIDE DEF p, o
  <2>5. /\ 4 * p + 2 * o \in 0..(w * b - 1) /\ 4 * p + 1 \in 0..(w * b - 1)
        /\ 4 * p + 3 \in 0..(w * b - 1)
    BY <1>1, <2>2, <2>4
  <2>6. src[4 * p + 2 * o] \in Byte /\ src[4 * p + 1] \in Byte /\ src[4 * p + 3] \in Byte
    BY <2>5 DEF w, b
  <2>7. pixel(c) = yuv2rgb(src[4 * p + 2 * o], src[4 * p + 1], src[4 * p + 3])
    BY DEF p, o
  <2> HIDE DEF pixel
  <2>8. line[c] = pixel(c)
    BY <2>1, <2>3, <2>4
  <2>9. pixel(c) \in Byte \X Byte \X Byte
    BY <2>6, <2>7, YuvType
  <2> QED
    BY <1>5, <2>8, <2>9 DEF line, w
<1> QED
  BY <1>1, <1>2, <1>3, <1>4, <1>5

\* load_mcu: a line of the lines of an MCU row.
LEMMA McuLineType ==
  ASSUME NEW f \in Frames, NEW src, \A k \in 0..(f.width * BytesPerPixel(f) - 1) : src[k] \in Byte
  PROVE  McuLine(f, convert_line_format(f.format, f.width, src)) \in Line(f)
<1> DEFINE w == f.width
           line == convert_line_format(f.format, w, src)
           ycc == [c \in 1..w |-> IF Comps(f) = 1 THEN line[c] ELSE RGB_to_YCC(line[c])]
           n == McusPerRow(f) * McuSize(f)
<1>1. McuLine(f, line) = [c \in 1..n |-> ycc[IF c > w THEN w ELSE c]]
  BY DEF McuLine
<1>2. w \in Nat /\ 2 <= w /\ n \in Nat /\ (Comps(f) = 1 <=> f.format = "GRAYSCALE")
  BY FrameSizes
<1>3. ASSUME NEW c \in 1..w
      PROVE  ycc[c] \in Pixel(f)
  <2>1. /\ f.format = "GRAYSCALE" => line[c] \in Byte
        /\ f.format # "GRAYSCALE" => line[c] \in Byte \X Byte \X Byte
    BY ConvertType
  <2> HIDE DEF line
  <2>2. ycc[c] = IF Comps(f) = 1 THEN line[c] ELSE RGB_to_YCC(line[c])
    OBVIOUS
  <2> HIDE DEF ycc, w
  <2> QED
    BY <1>2, <2>1, <2>2, YccType DEF Pixel
<1>4. ASSUME NEW c \in 1..n
      PROVE  (IF c > w THEN w ELSE c) \in 1..w
  <2> HIDE DEF w, n
  <2> QED
    BY <1>2
<1> HIDE DEF ycc, w, n
<1>5. McuLine(f, line) \in [1..n -> Pixel(f)]
  BY <1>1, <1>3, <1>4
<1> QED
  BY <1>5 DEF Line, n, line, w

-------------------------------------------------------------------------------
(* Markers. *)

LEMMA BytesConcat ==
  ASSUME NEW s \in Seq(Byte), NEW t \in Seq(Byte)
  PROVE  s \o t \in Seq(Byte)
  BY ConcatProperties

LEMMA ShortBytes ==
  /\ \A a \in Byte : <<a>> \in Seq(Byte)
  /\ \A a, b \in Byte : <<a, b>> \in Seq(Byte)
  /\ \A a, b, c \in Byte : <<a, b, c>> \in Seq(Byte)
  OBVIOUS

LEMMA WordType ==
  ASSUME NEW i \in Nat, i < 65536
  PROVE  Word(i) \in Seq(Byte)
<1>1. i \div 256 \in Byte /\ i % 256 \in Byte
  BY SMT DEF Byte
<1> QED
  BY <1>1, ShortBytes DEF Word

LEMMA MarkerType ==
  ASSUME NEW m \in Byte
  PROVE  Marker(m) \in Seq(Byte)
<1>1. 255 \in Byte
  BY DEF Byte
<1> QED
  BY <1>1, ShortBytes DEF Marker

LEMMA App0Type == emit_jfif_app0 \in Seq(Byte)
<1>1. Marker(224) \in Seq(Byte) /\ Word(16) \in Seq(Byte) /\ Word(1) \in Seq(Byte)
  BY MarkerType, WordType DEF Byte
<1>2. <<74, 70, 73, 70, 0, 1, 1, 0>> \in Seq(Byte) /\ <<0, 0>> \in Seq(Byte)
  BY DEF Byte
<1> QED
  BY <1>1, <1>2, BytesConcat DEF emit_jfif_app0

LEMMA DqtType ==
  ASSUME NEW comps \in {1, 3}, NEW tables,
         \A i \in Nat : 1 <= i /\ i <= 2 => tables[i] \in Seq(Byte)
  PROVE  emit_dqt(comps, tables) \in Seq(Byte)
<1> DEFINE n == IF comps = 3 THEN 2 ELSE 1
           piece(i) == Marker(219) \o Word(64 + 1 + 2) \o <<i - 1>> \o tables[i]
           pieces == [i \in 1..n |-> piece(i)]
<1>1. n \in Nat /\ n <= 2
  OBVIOUS
<1> HIDE DEF n
<1>2. ASSUME NEW i \in 1..n
      PROVE  piece(i) \in Seq(Byte)
  <2>1. i - 1 \in Byte /\ i \in Nat /\ 1 <= i /\ i <= 2
    BY <1>1 DEF Byte
  <2>2. <<i - 1>> \in Seq(Byte)
    BY <2>1, ShortBytes
  <2>3. tables[i] \in Seq(Byte)
    BY <2>1
  <2>4. Marker(219) \in Seq(Byte)
    BY MarkerType DEF Byte
  <2>5. Word(64 + 1 + 2) \in Seq(Byte)
    BY WordType
  <2> QED
    BY <2>2, <2>3, <2>4, <2>5, BytesConcat
<1> HIDE DEF piece
<1>3. pieces \in Seq(Seq(Byte))
  BY <1>1, <1>2
<1>4. emit_dqt(comps, tables) = FlattenSeq(pieces)
  BY DEF emit_dqt, n, piece
<1> HIDE DEF pieces
<1> QED
  BY <1>3, <1>4, FlattenSeqType

LEMMA SofType ==
  ASSUME NEW comps \in {1, 3}, NEW width, Word(width) \in Seq(Byte),
         NEW height, Word(height) \in Seq(Byte)
  PROVE  emit_sof(comps, width, height) \in Seq(Byte)
<1> DEFINE piece(i) == <<i, IF comps = 3 /\ i = 1 THEN 34 ELSE 17, IF i > 1 THEN 1 ELSE 0>>
           pieces == [i \in 1..comps |-> piece(i)]
<1>1. comps \in Nat /\ comps <= 3
  OBVIOUS
<1>2. ASSUME NEW i \in 1..comps
      PROVE  piece(i) \in Seq(Byte)
  <2>1. i \in Byte /\ 34 \in Byte /\ 17 \in Byte /\ 1 \in Byte /\ 0 \in Byte
    BY <1>1 DEF Byte
  <2> QED
    BY <2>1, ShortBytes
<1> HIDE DEF piece
<1>3. pieces \in Seq(Seq(Byte))
  BY <1>1, <1>2
<1> HIDE DEF pieces
<1>4. FlattenSeq(pieces) \in Seq(Byte)
  BY <1>3, FlattenSeqType
<1>6. Word(3 * comps + 2 + 5 + 1) \in Seq(Byte)
  BY <1>1, WordType
<1>7. 192 \in Byte /\ 8 \in Byte /\ comps \in Byte
  BY <1>1 DEF Byte
<1>8. Marker(192) \in Seq(Byte) /\ <<8>> \in Seq(Byte) /\ <<comps>> \in Seq(Byte)
  BY <1>7, MarkerType, ShortBytes
<1> QED
  BY <1>4, <1>6, <1>8, BytesConcat DEF emit_sof, pieces, piece

LEMMA DhtType ==
  ASSUME NEW class \in {"DC", "AC"}, NEW t \in 1..2
  PROVE  emit_dht(class, t) \in Seq(Byte)
<1> DEFINE bits == m_huff_bits[class][t]
           val == m_huff_val[class][t]
           id == (t - 1) + (IF class = "AC" THEN 16 ELSE 0)
<1>1. bits \in Seq(Byte) /\ val \in Seq(Byte) /\ Len(val) \in Nat /\ Len(val) <= 162
  <2>1. PICK n : IsHuffmanSpec(bits, val, n)
    BY StandardTables
  <2> HIDE DEF bits, val
  <2> QED
    BY <2>1 DEF IsHuffmanSpec, Byte
<1> HIDE DEF bits, val
<1>2. id \in Byte /\ 196 \in Byte
  BY DEF Byte
<1> HIDE DEF id
<1>3. Word(Len(val) + 2 + 1 + 16) \in Seq(Byte)
  BY <1>1, WordType
<1>4. Marker(196) \in Seq(Byte) /\ <<id>> \in Seq(Byte)
  BY <1>2, MarkerType, ShortBytes
<1>5. emit_dht(class, t) = Marker(196) \o Word(Len(val) + 2 + 1 + 16) \o <<id>> \o bits \o val
  BY DEF emit_dht, bits, val, id
<1> QED
  BY <1>1, <1>3, <1>4, <1>5, BytesConcat

LEMMA DhtsType ==
  ASSUME NEW comps \in {1, 3}
  PROVE  emit_dhts(comps) \in Seq(Byte)
<1>1. /\ emit_dht("DC", 1) \in Seq(Byte) /\ emit_dht("AC", 1) \in Seq(Byte)
      /\ emit_dht("DC", 2) \in Seq(Byte) /\ emit_dht("AC", 2) \in Seq(Byte)
  BY DhtType
<1>2. <<>> \in Seq(Byte)
  BY EmptySeq
<1> QED
  BY <1>1, <1>2, BytesConcat DEF emit_dhts

LEMMA SosType ==
  ASSUME NEW comps \in {1, 3}
  PROVE  emit_sos(comps) \in Seq(Byte)
<1> DEFINE piece(i) == <<i, IF i = 1 THEN 0 ELSE 17>>
           pieces == [i \in 1..comps |-> piece(i)]
<1>1. comps \in Nat /\ comps <= 3
  OBVIOUS
<1>2. ASSUME NEW i \in 1..comps
      PROVE  piece(i) \in Seq(Byte)
  <2>1. i \in Byte /\ 17 \in Byte /\ 0 \in Byte
    BY <1>1 DEF Byte
  <2> QED
    BY <2>1, ShortBytes
<1> HIDE DEF piece
<1>3. pieces \in Seq(Seq(Byte))
  BY <1>1, <1>2
<1> HIDE DEF pieces
<1>4. FlattenSeq(pieces) \in Seq(Byte)
  BY <1>3, FlattenSeqType
<1>5. Word(2 * comps + 2 + 1 + 3) \in Seq(Byte)
  BY <1>1, WordType
<1>6. 218 \in Byte /\ comps \in Byte /\ 0 \in Byte /\ 63 \in Byte
  BY <1>1 DEF Byte
<1>7. Marker(218) \in Seq(Byte) /\ <<comps>> \in Seq(Byte) /\ <<0, 63, 0>> \in Seq(Byte)
  BY <1>6, MarkerType, ShortBytes
<1>8. emit_sos(comps) = Marker(218) \o Word(2 * comps + 2 + 1 + 3) \o <<comps>>
                        \o FlattenSeq(pieces) \o <<0, 63, 0>>
  BY DEF emit_sos, pieces, piece
<1> QED
  BY <1>4, <1>5, <1>7, <1>8, BytesConcat

-------------------------------------------------------------------------------
(* The invariant. *)

(* What is allocated depends on where fmt2jpg is, whatever the encoder holds.   *)
HeapInv ==
  /\ "jpg_buf" \in heap <=> pc # "idle"
  /\ "mcu_lines" \in heap <=> pc \in {"line", "scan"}
  /\ "line" \in heap <=> pc = "scan"
  /\ heap \subseteq {"jpg_buf", "mcu_lines", "line"}
PcInv == pc \in {"idle", "init", "line", "scan", "done"}
\* The type of m_quantization_tables.
Tables == [1..2 -> [1..64 -> Byte]]

(* Where fmt2jpg is decides which of its arguments and lines are meaningful.    *)
FrameInv ==
  /\ IF pc = "idle" THEN frame = NoFrame ELSE frame \in Frames
  /\ IF pc \in {"scan", "done"} THEN row \in Nat /\ row <= frame.height ELSE row = 0
LinesInv ==
  IF pc = "scan" THEN mcuLines \in Seq(Line(frame)) /\ Len(mcuLines) < McuSize(frame)
                 ELSE mcuLines = <<>>
(* The tables are those of the last quality, and made before anything is coded. *)
TablesInv ==
  /\ quant \in Tables
  /\ lastQuality \in Nat /\ lastQuality <= 100
  /\ lastQuality # 0 => QuantReady
  /\ pc \in {"line", "scan"} => lastQuality # 0
(* What has been emitted is the header, then the scan, then the end.            *)
EncInv ==
  /\ enc \in Encoder
  /\ pc \in {"line", "scan"} => enc \in Scanning(Header(frame, quant))
  /\ pc = "done" => enc \in Ended(Header(frame, quant))
StateInv == PcInv /\ FrameInv /\ LinesInv /\ TablesInv /\ EncInv

LEMMA QualityType ==
  ASSUME NEW f \in Frames
  PROVE  Quality(f) \in Nat /\ 1 <= Quality(f) /\ Quality(f) <= 100
  BY FrameSizes DEF Quality

LEMMA TableBytes ==
  ASSUME NEW tables \in Tables
  PROVE  \A i \in Nat : 1 <= i /\ i <= 2 => tables[i] \in Seq(Byte)
<1>1. ASSUME NEW i \in 1..2
      PROVE  tables[i] \in Seq(Byte)
  <2>1. tables[i] \in [1..64 -> Byte]
    BY Zenon DEF Tables
  <2>2. [1..64 -> Byte] \subseteq Seq(Byte)
    <3>1. 64 \in Nat
      OBVIOUS
    <3> QED
      BY <3>1, SeqDef, Zenon
  <2> QED
    BY <2>1, <2>2, Zenon
<1> QED
  BY <1>1

\* The tables of a quality are fit for coding.
LEMMA TablesFit ==
  ASSUME NEW f \in Frames
  PROVE  /\ quantization_tables(Quality(f)) \in Tables
         /\ \A t \in 1..2 : \A i \in 1..64 :
              Between(quantization_tables(Quality(f))[t][i], 1, 255)
<1>1. Quality(f) \in 1..100
  BY QualityType
<1>2. quantization_tables(Quality(f)) \in [1..2 -> [1..64 -> 1..255]]
  BY <1>1, QuantizationTablesType
<1> DEFINE tables == quantization_tables(Quality(f))
<1> HIDE DEF tables
<1>3. \A x \in 1..255 : Between(x, 1, 255)
  BY DEF Between
<1>4. ASSUME NEW t \in 1..2, NEW i \in 1..64
      PROVE  tables[t][i] \in 1..255
  <2>1. tables[t] \in [1..64 -> 1..255]
    BY <1>2, Zenon DEF tables
  <2> QED
    BY <2>1, ZenonT(40)
<1>5. tables \in Tables
  <2>1. 1..255 \subseteq Byte
    BY DEF Byte
  <2>2. [1..64 -> 1..255] \subseteq [1..64 -> Byte]
    BY <2>1, ZenonT(40)
  <2>3. [1..2 -> [1..64 -> 1..255]] \subseteq [1..2 -> [1..64 -> Byte]]
    BY <2>2, ZenonT(40)
  <2> QED
    BY <1>2, <2>3, Zenon DEF Tables, tables
<1> QED
  BY <1>3, <1>4, <1>5, Zenon DEF tables

LEMMA NewEncoderType == NewEncoder \in Encoder
<1>1. IsCoefficient(0, 0)
  BY DEF IsCoefficient, Between
<1>2. 0 < 2^24 /\ 0 \in 0..7
  OBVIOUS
<1>3. <<>> \in Seq(Byte) /\ Len(<<>>) = 0
  BY EmptySeq
<1>4. <<0, 0, 0>> \in [1..3 -> Int] /\ \A c \in 1..3 : <<0, 0, 0>>[c] = 0
  OBVIOUS
<1>5. NewEncoder \in EncoderType
  BY <1>2, <1>3, <1>4 DEF NewEncoder, EncoderType
<1>6. Written(NewEncoder)
  <2>1. SubSeq(<<>>, 1, 0) = <<>>
    OBVIOUS
  <2>2. Smaller(JpgBufLen, 0) = 0
    BY BufferAssumption DEF Smaller
  <2> QED
    BY <1>3, <2>1, <2>2 DEF Written, NewEncoder
<1>7. 0 < OutBufSize
  BY BufferAssumption
<1>8. HoldsBits(0, 0)
  <2>1. 0 < 2^0 /\ 0 = 0 * 2^(24 - 0)
    OBVIOUS
  <2> QED
    BY <2>1 DEF HoldsBits
<1> QED
  BY <1>1, <1>3, <1>4, <1>5, <1>6, <1>7, <1>8 DEF Encoder, NewEncoder

\* A table fit for coding is written byte by byte.
LEMMA HeaderType ==
  ASSUME NEW f \in Frames, NEW tables, \A i \in Nat : 1 <= i /\ i <= 2 => tables[i] \in Seq(Byte)
  PROVE  Header(f, tables) \in Seq(Byte)
<1>1. /\ Comps(f) \in {1, 3} /\ f.width \in Nat /\ f.width < 65536
      /\ f.height \in Nat /\ f.height < 65536
  BY FrameSizes
<1>2. Marker(216) \in Seq(Byte)
  BY MarkerType DEF Byte
<1>3. emit_dqt(Comps(f), tables) \in Seq(Byte)
  BY <1>1, DqtType
<1>4. emit_sof(Comps(f), f.width, f.height) \in Seq(Byte)
  <2>1. Word(f.width) \in Seq(Byte) /\ Word(f.height) \in Seq(Byte)
    BY <1>1, WordType
  <2> QED
    BY <1>1, <2>1, SofType
<1>5. emit_dhts(Comps(f)) \in Seq(Byte) /\ emit_sos(Comps(f)) \in Seq(Byte)
  BY <1>1, DhtsType, SosType
<1> QED
  BY <1>2, <1>3, <1>4, <1>5, App0Type, BytesConcat DEF Header

LEMMA HeaderBytes ==
  ASSUME NEW f \in Frames, NEW tables \in Tables
  PROVE  Header(f, tables) \in Seq(Byte)
<1>1. \A i \in Nat : 1 <= i /\ i <= 2 => tables[i] \in Seq(Byte)
  BY TableBytes
<1> QED
  BY <1>1, HeaderType

\* The bytes of a line of the frame.
LEMMA LineInFrame ==
  ASSUME NEW w \in Nat, NEW h \in Nat, NEW r \in Nat, r < h, NEW b \in Nat, b <= 3,
         NEW k \in Nat, k < w * b
  PROVE  r * (w * b) + k \in Nat /\ r * (w * b) + k <= 3 * w * h - 1
<1>1. w * b \in Nat /\ w * h \in Nat /\ r * (w * b) \in Nat /\ h * (w * b) \in Nat
  OBVIOUS
<1>2. (r + 1) * (w * b) <= h * (w * b)
  OBVIOUS
<1>3. (r + 1) * (w * b) = r * (w * b) + w * b
  OBVIOUS
<1>4. h * (w * b) = b * (w * h)
  OBVIOUS
<1>5. b * (w * h) <= 3 * (w * h)
  OBVIOUS
<1>6. 3 * (w * h) = 3 * w * h
  OBVIOUS
<1> QED
  BY <1>1, <1>2, <1>3, <1>4, <1>5, <1>6

LEMMA SourceType ==
  ASSUME NEW f \in Frames, NEW r \in Nat, r < f.height,
         NEW k \in 0..(f.width * BytesPerPixel(f) - 1)
  PROVE  Source(f.pattern, r * (f.width * BytesPerPixel(f)) + k) \in Byte
<1>1. f.width \in Nat /\ f.height \in Nat
  BY FrameSizes
<1>2. BytesPerPixel(f) \in Nat /\ BytesPerPixel(f) <= 3
  BY LineBytes
<1>3. k \in Nat /\ k < f.width * BytesPerPixel(f)
  BY <1>1, <1>2
<1>4. r * (f.width * BytesPerPixel(f)) + k \in 0..(3 * f.width * f.height - 1)
  BY <1>1, <1>2, <1>3, LineInFrame
<1> HIDE DEF Frames
<1> QED
  BY <1>4, SourceAssumption DEF Byte

-------------------------------------------------------------------------------
(* The steps. *)

\* The ways back to idle.
LEMMA IdleKeeps ==
  ASSUME StateInv, NEW blocks, Idle(blocks), UNCHANGED <<lastQuality, quant>>
  PROVE  StateInv'
<1>1. TablesInv'
  <2>1. QuantReady => QuantReady'
    BY DEF QuantReady
  <2> QED
    BY <2>1 DEF StateInv, TablesInv, Idle
<1>2. EncInv'
  BY NewEncoderType DEF EncInv, Idle
<1>3. PcInv' /\ FrameInv' /\ LinesInv'
  BY DEF PcInv, FrameInv, LinesInv, Idle
<1> QED
  BY <1>1, <1>2, <1>3 DEF StateInv

LEMMA JpgOpenKeeps ==
  ASSUME StateInv, JpgOpen
  PROVE  StateInv'
<1>1. frame \in Frames /\ pc = "init" /\ pc' = "line" /\ frame' = frame /\ row' = row /\ row = 0
  BY DEF StateInv, FrameInv, JpgOpen
<1>2. PcInv' /\ FrameInv' /\ LinesInv'
  BY <1>1 DEF PcInv, FrameInv, LinesInv, JpgOpen
<1>3. Quality(frame) \in Nat /\ 1 <= Quality(frame) /\ Quality(frame) <= 100
  BY <1>1, QualityType
<1>4. /\ lastQuality' = Quality(frame)
      /\ quant' = IF lastQuality # Quality(frame)
                  THEN quantization_tables(Quality(frame)) ELSE quant
  BY DEF JpgOpen
<1>12. quant' \in Tables
  BY <1>1, <1>4, TablesFit DEF StateInv, TablesInv
<1>5. \A t \in 1..2 : \A i \in 1..64 : Between(quant'[t][i], 1, 255)
  <2>1. CASE lastQuality = Quality(frame)
    <3>1. quant' = quant /\ lastQuality # 0
      BY <1>3, <1>4, <2>1
    <3>2. QuantReady
      BY <3>1 DEF StateInv, TablesInv
    <3> QED
      BY <3>1, <3>2 DEF QuantReady
  <2>2. CASE lastQuality # Quality(frame)
    <3>1. quant' = quantization_tables(Quality(frame))
      BY <1>4, <2>2
    <3> QED
      BY <1>1, <3>1, TablesFit
  <2> QED
    BY <2>1, <2>2
<1>6. QuantReady'
  BY <1>5 DEF QuantReady
<1>7. TablesInv'
  BY <1>3, <1>4, <1>6, <1>12 DEF TablesInv
<1> DEFINE header == Header(frame, quant')
<1>8. enc' = Emit(NewEncoder, header)
  BY DEF JpgOpen
<1>9. \A i \in Nat : 1 <= i /\ i <= 2 => quant'[i] \in Seq(Byte)
  BY <1>7, TableBytes DEF TablesInv
<1>10. header \in Seq(Byte)
  BY <1>1, <1>9, HeaderType
<1> HIDE DEF header
<1>13. NewEncoder.emitted = <<>> /\ <<>> \o header = header \o <<>>
  BY <1>10, ConcatEmptySeq DEF NewEncoder
<1>14. enc' \in Encoder /\ enc'.emitted = NewEncoder.emitted \o header
  BY <1>8, <1>10, NewEncoderType, EmitKeeps
<1>15. <<>> \in Unmarked
  BY EmptySeq DEF Unmarked
<1>16. enc' \in Scanning(header)
  BY <1>13, <1>14, <1>15, Zenon DEF Scanning
<1>11. EncInv'
  BY <1>1, <1>14, <1>16 DEF EncInv, header
<1> QED
  BY <1>2, <1>7, <1>11 DEF StateInv

LEMMA ScanLineKeeps ==
  ASSUME StateInv, ScanLine
  PROVE  StateInv'
<1> DEFINE n == frame.width * BytesPerPixel(frame)
           src == [k \in 0..(n - 1) |-> Source(frame.pattern, row * n + k)]
           line == McuLine(frame, convert_line_format(frame.format, frame.width, src))
           lines == Append(mcuLines, line)
<1>1. /\ pc = "scan" /\ frame \in Frames /\ row \in Nat /\ row < frame.height
      /\ pc' = pc /\ frame' = frame /\ row' = row + 1
      /\ lastQuality' = lastQuality /\ quant' = quant
      /\ IF Len(lines) = McuSize(frame)
         THEN mcuLines' = <<>> /\ enc' = process_mcu_row(enc, frame, lines)
         ELSE mcuLines' = lines /\ enc' = enc
  BY DEF StateInv, FrameInv, ScanLine, BytesPerPixel
<1>2. frame.height \in Nat
  BY <1>1, FrameSizes
<1>3. PcInv' /\ FrameInv'
  BY <1>1, <1>2 DEF StateInv, PcInv, FrameInv
<1>4. QuantReady
  BY <1>1 DEF StateInv, TablesInv
<1>5. QuantReady'
  BY <1>1, <1>4 DEF QuantReady
<1>6. TablesInv'
  BY <1>1, <1>5 DEF StateInv, TablesInv
<1>7. \A k \in 0..(n - 1) : src[k] \in Byte
  BY <1>1, SourceType
<1> HIDE DEF src
<1>8. line \in Line(frame)
  BY <1>1, <1>7, McuLineType
<1> HIDE DEF line, n
<1>9. mcuLines \in Seq(Line(frame)) /\ Len(mcuLines) < McuSize(frame)
  BY <1>1 DEF StateInv, LinesInv
<1>10. lines \in Seq(Line(frame)) /\ Len(lines) = Len(mcuLines) + 1
  BY <1>8, <1>9, AppendProperties
<1>11. Len(mcuLines) \in Nat /\ McuSize(frame) \in Nat /\ 0 < McuSize(frame)
  BY <1>1, <1>9, FrameSizes, LenProperties, SMTT(30)
<1> HIDE DEF lines
<1>12. CASE Len(lines) = McuSize(frame)
  <2> DEFINE h == Header(frame, quant)
             new == process_mcu_row(enc, frame, lines)
  <2>1. h \in Seq(Byte) /\ enc \in Scanning(h)
    BY <1>1, HeaderBytes DEF StateInv, TablesInv, EncInv
  <2>4. enc' = new /\ mcuLines' = <<>> /\ Header(frame', quant') = h
    BY <1>1, <1>12
  <2> HIDE DEF h
  <2>5. new \in Scanning(h)
    BY <1>1, <1>4, <1>10, <1>12, <2>1, McuRowKeeps
  <2> HIDE DEF new
  <2>2. EncInv'
    BY <1>1, <2>4, <2>5, ScanningEncodes DEF EncInv
  <2>3. LinesInv'
    BY <1>1, <1>11, <2>4, EmptySeq DEF LinesInv
  <2> QED
    BY <1>3, <1>6, <2>2, <2>3 DEF StateInv
<1>13. CASE Len(lines) # McuSize(frame)
  <2>1. mcuLines' = lines /\ enc' = enc
    BY <1>1, <1>13
  <2>2. Len(lines) < McuSize(frame)
    BY <1>9, <1>10, <1>11, <1>13
  <2>3. LinesInv'
    BY <1>1, <1>10, <2>1, <2>2 DEF LinesInv
  <2>4. EncInv'
    BY <1>1, <2>1 DEF StateInv, EncInv
  <2> QED
    BY <1>3, <1>6, <2>3, <2>4 DEF StateInv
<1> QED
  BY <1>12, <1>13

LEMMA FinishKeeps ==
  ASSUME StateInv, Finish
  PROVE  StateInv'
<1>1. /\ pc = "scan" /\ frame \in Frames /\ row = frame.height
      /\ pc' = "done" /\ frame' = frame /\ row' = row
      /\ lastQuality' = lastQuality /\ quant' = quant /\ mcuLines' = <<>>
      /\ enc' = process_end_of_image(enc, frame, mcuLines)
  BY DEF StateInv, FrameInv, Finish
<1>2. frame.height \in Nat
  BY <1>1, FrameSizes
<1>3. PcInv' /\ FrameInv' /\ LinesInv'
  BY <1>1, <1>2 DEF PcInv, FrameInv, LinesInv
<1>4. QuantReady
  BY <1>1 DEF StateInv, TablesInv
<1>5. TablesInv'
  <2>1. QuantReady'
    BY <1>1, <1>4 DEF QuantReady
  <2> QED
    BY <1>1, <2>1 DEF StateInv, TablesInv
<1>6. mcuLines \in Seq(Line(frame)) /\ Len(mcuLines) < McuSize(frame)
  BY <1>1 DEF StateInv, LinesInv
<1>7. EncInv'
  <2> DEFINE h == Header(frame, quant)
             new == process_end_of_image(enc, frame, mcuLines)
  <2>1. h \in Seq(Byte) /\ enc \in Scanning(h)
    BY <1>1, HeaderBytes DEF StateInv, TablesInv, EncInv
  <2>2. enc' = new /\ Header(frame', quant') = h
    BY <1>1
  <2> HIDE DEF h
  <2>3. new \in Ended(h)
    BY <1>1, <1>4, <1>6, <2>1, EndKeeps
  <2>4. new \in Encoder
    BY <2>3 DEF Ended
  <2> HIDE DEF new
  <2> QED
    BY <1>1, <2>2, <2>3, <2>4 DEF EncInv
<1> QED
  BY <1>3, <1>5, <1>7 DEF StateInv

LEMMA StateKept == StateInv /\ [Next]_vars => StateInv'
<1> SUFFICES ASSUME StateInv, [Next]_vars PROVE StateInv'
  OBVIOUS
<1>1. ASSUME NEW f \in Frames, Fmt2jpg(f) PROVE StateInv'
  <2>1. QuantReady => QuantReady'
    BY <1>1 DEF QuantReady, Fmt2jpg
  <2> QED
    BY <1>1, <2>1 DEF Fmt2jpg, StateInv, PcInv, FrameInv, LinesInv, TablesInv, EncInv
<1>2. CASE InitFails
  BY <1>2, IdleKeeps DEF InitFails
<1>3. CASE JpgOpen
  BY <1>3, JpgOpenKeeps
<1>4. CASE LineFails
  BY <1>4, IdleKeeps DEF LineFails
<1>5. CASE AllocLine
  <2>1. /\ frame \in Frames /\ frame' = frame /\ row' = 0 /\ mcuLines' = mcuLines
        /\ pc = "line" /\ pc' = "scan" /\ mcuLines = <<>>
        /\ enc' = enc /\ lastQuality' = lastQuality /\ quant' = quant
    BY <1>5 DEF AllocLine, StateInv, FrameInv, LinesInv
  <2>2. QuantReady => QuantReady'
    BY <2>1 DEF QuantReady
  <2>3. frame.height \in Nat /\ 1 <= frame.height /\ McuSize(frame) \in Nat /\ 0 < McuSize(frame)
    BY <2>1, FrameSizes
  <2>4. FrameInv'
    BY <2>1, <2>3 DEF FrameInv
  <2>5. LinesInv'
    BY <2>1, <2>3, EmptySeq DEF LinesInv
  <2> QED
    BY <2>1, <2>2, <2>4, <2>5 DEF StateInv, PcInv, TablesInv, EncInv
<1>6. CASE ScanLine
  BY <1>6, ScanLineKeeps
<1>7. CASE Finish
  BY <1>7, FinishKeeps
<1>8. CASE Release
  BY <1>8, IdleKeeps DEF Release
<1>9. CASE UNCHANGED vars
  <2>1. QuantReady => QuantReady'
    BY <1>9 DEF QuantReady, vars
  <2> QED
    BY <1>9, <2>1 DEF vars, StateInv, PcInv, FrameInv, LinesInv, TablesInv, EncInv
<1> QED
  BY <1>1, <1>2, <1>3, <1>4, <1>5, <1>6, <1>7, <1>8, <1>9 DEF Next

LEMMA StateStarts == Init => StateInv
<1> SUFFICES ASSUME Init PROVE StateInv
  OBVIOUS
<1>1. PcInv /\ FrameInv /\ LinesInv
  BY DEF Init, PcInv, FrameInv, LinesInv
<1>3. TablesInv
  <2>1. 0 \in Byte
    BY DEF Byte
  <2>2. quant \in Tables
    BY <2>1, Zenon DEF Init, Tables
  <2> QED
    BY <2>2 DEF Init, TablesInv
<1>2. EncInv
  BY NewEncoderType DEF Init, EncInv
<1> QED
  BY <1>1, <1>2, <1>3 DEF StateInv

LEMMA StreamFits ==
  ASSUME NEW e \in Encoder
  PROVE  /\ Len(e.stream) <= JpgBufLen
         /\ e.stream = SubSeq(e.emitted, 1, Smaller(JpgBufLen, Len(e.emitted) - Len(e.buf)))
         /\ e.bitsIn \in 0..7 /\ e.bitBuffer \in Int /\ 0 <= e.bitBuffer /\ e.bitBuffer < 2^24
         /\ e.bitBuffer % 2^(24 - e.bitsIn) = 0
         /\ Len(e.buf) < OutBufSize
         /\ \A i \in 1..Len(e.emitted) : e.emitted[i] \in 0..255
<1> DEFINE n == Len(e.emitted) - Len(e.buf)
           m == Smaller(JpgBufLen, n)
<1>1. /\ e \in EncoderType /\ HoldsBits(e.bitBuffer, e.bitsIn)
      /\ Len(e.buf) < OutBufSize /\ Written(e)
  BY DEF Encoder
<1>2. /\ e.emitted \in Seq(Byte) /\ e.buf \in Seq(Byte) /\ e.bitsIn \in 0..7
      /\ e.bitBuffer \in Int
  BY <1>1 DEF EncoderType
<1>3. n \in Nat /\ e.stream = SubSeq(e.emitted, 1, m)
  BY <1>1 DEF Written
<1>4. Len(e.emitted) \in Nat /\ Len(e.buf) \in Nat /\ n <= Len(e.emitted)
  <2>1. Len(e.emitted) \in Nat /\ Len(e.buf) \in Nat
    BY <1>2, LenProperties
  <2>2. \A a, b \in Nat : a - b <= a
    OBVIOUS
  <2> QED
    BY <2>1, <2>2
<1> HIDE DEF n
<1>5. m \in Nat /\ m <= JpgBufLen /\ m <= Len(e.emitted)
  BY <1>3, <1>4, BufferAssumption DEF Smaller
<1> HIDE DEF m
<1>6. Len(e.stream) <= JpgBufLen
  <2>1. Len(SubSeq(e.emitted, 1, m)) = IF 1 <= m THEN m - 1 + 1 ELSE 0
    BY <1>2, <1>4, <1>5, BytesOfSubSeq
  <2>2. Len(e.stream) = m
    BY <1>3, <1>5, <2>1
  <2> QED
    BY <1>5, <2>2
<1>7. \A i \in 1..Len(e.emitted) : e.emitted[i] \in 0..255
  BY <1>2, ElementOfSeq DEF Byte
<1>8. 0 <= e.bitBuffer /\ e.bitBuffer < 2^24 /\ e.bitBuffer % 2^(24 - e.bitsIn) = 0
  <2> DEFINE k == e.bitsIn
             buffer == e.bitBuffer
  <2>1. k \in 0..7
    BY <1>2
  <2>2. PICK h \in Nat : h < 2^k /\ buffer = h * 2^(24 - k)
    BY <1>1 DEF HoldsBits
  <2> HIDE DEF k, buffer
  <2>3. buffer \in Nat /\ buffer < 2^24 /\ buffer % 2^(24 - k) = 0
    BY <2>1, <2>2, HeldBits
  <2>4. 0 <= buffer
    BY <2>3
  <2> QED
    BY <2>3, <2>4 DEF k, buffer
<1> QED
  BY <1>1, <1>2, <1>3, <1>6, <1>7, <1>8 DEF n, m

LEMMA TypeFollows == StateInv /\ HeapInv => TypeOK
<1> SUFFICES ASSUME StateInv, HeapInv PROVE TypeOK
  OBVIOUS
<1>1. ASSUME NEW f \in Frames
      PROVE  f # NoFrame
  BY FrameSizes DEF NoFrame
<1>2. /\ pc \in {"idle", "init", "line", "scan", "done"}
      /\ frame \in Frames \cup {NoFrame} /\ (frame = NoFrame <=> pc = "idle")
      /\ heap \subseteq {"jpg_buf", "mcu_lines", "line"}
  BY <1>1 DEF StateInv, PcInv, FrameInv, HeapInv
<1>3. ASSUME pc # "idle" PROVE frame \in Frames
  BY <1>3 DEF StateInv, FrameInv
<1>4. ASSUME pc # "idle" PROVE row \in 0..frame.height
  <2>1. frame.height \in Nat
    BY <1>3, <1>4, FrameSizes
  <2> QED
    BY <2>1, <1>4 DEF StateInv, FrameInv
<1>5. ASSUME pc # "idle"
      PROVE  /\ Len(mcuLines) < McuSize(frame)
             /\ \A i \in 1..Len(mcuLines) :
                  Len(mcuLines[i]) = McusPerRow(frame) * McuSize(frame)
  <2>1. McuSize(frame) \in Nat /\ 0 < McuSize(frame) /\ McusPerRow(frame) * McuSize(frame) \in Nat
    BY <1>3, <1>5, FrameSizes
  <2>2. mcuLines \in Seq(Line(frame)) /\ Len(mcuLines) < McuSize(frame)
    <3>1. CASE pc = "scan"
      BY <3>1 DEF StateInv, LinesInv
    <3>2. CASE pc # "scan"
      <4>1. mcuLines = <<>>
        BY <3>2 DEF StateInv, LinesInv
      <4> QED
        BY <2>1, <4>1, EmptySeq
    <3> QED
      BY <3>1, <3>2
  <2>3. ASSUME NEW i \in 1..Len(mcuLines)
        PROVE  Len(mcuLines[i]) = McusPerRow(frame) * McuSize(frame)
    <3>1. mcuLines[i] \in Line(frame)
      BY <2>2, ElementOfSeq
    <3> DEFINE n == McusPerRow(frame) * McuSize(frame)
    <3>2. mcuLines[i] \in [1..n -> Pixel(frame)] /\ n \in Nat
      BY <2>1, <3>1 DEF Line
    <3> HIDE DEF n
    <3>3. Len(mcuLines[i]) = n
      BY <3>2
    <3> QED
      BY <3>3 DEF n
  <2> QED
    BY <2>2, <2>3
<1>6. enc \in Encoder
  BY DEF StateInv, EncInv
<1>7. /\ enc.bitsIn \in 0..7 /\ enc.bitBuffer \in 0..(2^24 - 1)
      /\ enc.bitBuffer % 2^(24 - enc.bitsIn) = 0
      /\ Len(enc.buf) < OutBufSize /\ Len(enc.stream) <= JpgBufLen
      /\ \A i \in 1..Len(enc.emitted) : enc.emitted[i] \in 0..255
  <2>1. \A x \in Int : 0 <= x /\ x < 2^24 => x \in 0..(2^24 - 1)
    BY SMT
  <2> QED
    BY <1>6, <2>1, StreamFits, ZenonT(40)
<1>8. lastQuality \in 0..100
  BY DEF StateInv, TablesInv
<1>9. quant \in [1..2 -> [1..64 -> 0..255]]
  BY Zenon DEF StateInv, TablesInv, Tables, Byte
<1> QED
  BY <1>2, <1>4, <1>5, <1>7, <1>8, <1>9 DEF TypeOK

\* What stands between the beginning and the end of some bytes.
LEMMA PartBetween ==
  ASSUME NEW h \in Seq(Byte), NEW s \in Seq(Byte), NEW t \in Seq(Byte), NEW all, all = h \o s \o t
  PROVE  SubSeq(all, Len(h) + 1, Len(all) - Len(t)) = s
<1> DEFINE l == Len(h)
           m == Len(s)
           n == Len(t)
           hs == h \o s
           part == SubSeq(all, l + 1, l + m)
<1>1. l \in Nat /\ m \in Nat /\ n \in Nat
  BY LenProperties
<1>2. /\ hs \in Seq(Byte) /\ Len(hs) = l + m
      /\ \A i \in 1..(l + m) : hs[i] = IF i <= l THEN h[i] ELSE s[i - l]
  BY ConcatProperties
<1>3. all = hs \o t
  OBVIOUS
<1> HIDE DEF hs
<1>4. /\ all \in Seq(Byte) /\ Len(all) = Len(hs) + n
      /\ \A i \in 1..(Len(hs) + n) : all[i] = IF i <= Len(hs) THEN hs[i] ELSE t[i - Len(hs)]
  <2> DEFINE u == hs \o t
  <2>1. hs \in Seq(Byte)
    BY <1>2
  <2>2. /\ u \in Seq(Byte) /\ Len(u) = Len(hs) + n
        /\ \A i \in 1..(Len(hs) + n) : u[i] = IF i <= Len(hs) THEN hs[i] ELSE t[i - Len(hs)]
    BY <2>1, ConcatProperties
  <2>3. all = u
    BY <1>3
  <2> HIDE DEF u
  <2> QED
    BY <2>2, <2>3
<1> HIDE DEF l, m, n
<1>5. Len(all) - n = l + m /\ l + m <= Len(all) /\ l <= l + m /\ (l + m) - l = m
  BY <1>1, <1>2, <1>4
<1>6. l + m \in Nat
  BY <1>1
<1>7. part \in Seq(Byte) /\ Len(part) = m /\ \A i \in 1..m : part[i] = all[l + i]
  BY <1>1, <1>4, <1>5, <1>6, BytesAfter, SMTT(30)
<1>8. ASSUME NEW i \in 1..m
      PROVE  all[l + i] = s[i]
  <2>1. l + i \in 1..(l + m) /\ l + i \in 1..(l + m + n) /\ ~(l + i <= l) /\ (l + i) - l = i
    BY <1>1
  <2>2. all[l + i] = hs[l + i]
    BY <1>2, <1>4, <2>1
  <2> QED
    BY <1>2, <2>1, <2>2
<1> HIDE DEF part
<1>9. part = s
  <2>1. s \in Seq(Byte) /\ Len(s) = m
    BY DEF m
  <2>2. \A i \in 1..m : part[i] = s[i]
    BY <1>7, <1>8
  <2> QED
    BY <1>7, <2>1, <2>2, SeqEqual
<1> QED
  BY <1>5, <1>9 DEF part, l, n

\* Between the header and the end there is what was emitted for the lines.
LEMMA ScanFollows == StateInv => NoMarkerInScan
<1> SUFFICES ASSUME StateInv, pc \in {"line", "scan", "done"}
             PROVE  NoMarkerInScan
  BY DEF NoMarkerInScan
<1> DEFINE h == Header(frame, quant)
           end == IF pc = "done" THEN Marker(217) ELSE <<>>
           all == enc.emitted
           scan == SubSeq(all, Len(h) + 1, Len(all) - Len(end))
<1>1. h \in Seq(Byte)
  BY HeaderBytes DEF StateInv, FrameInv, TablesInv
<1>2. end \in Seq(Byte)
  <2>1. Marker(217) \in Seq(Byte)
    BY MarkerType DEF Byte
  <2>2. <<>> \in Seq(Byte)
    OBVIOUS
  <2> QED
    BY <2>1, <2>2
<1>3. PICK s \in Unmarked : all = h \o s \o end
  <2>1. CASE pc = "done"
    <3>1. enc \in Ended(h)
      BY <2>1 DEF StateInv, EncInv
    <3> HIDE DEF h
    <3> QED
      BY <2>1, <3>1 DEF Ended
  <2>2. CASE pc # "done"
    <3>1. enc \in Scanning(h)
      BY <2>2 DEF StateInv, EncInv
    <3> HIDE DEF h
    <3>2. PICK s \in Unmarked : all = h \o s
      BY <3>1 DEF Scanning
    <3>3. s \in Seq(Byte)
      BY DEF Unmarked
    <3> DEFINE hs == h \o s
    <3>4. hs \in Seq(Byte)
      BY <1>1, <3>3, ConcatProperties
    <3> HIDE DEF hs
    <3>5. hs = hs \o <<>>
      BY <3>4, ConcatEmptySeq
    <3>6. end = <<>>
      BY <2>2
    <3> QED
      BY <3>2, <3>5, <3>6, Zenon DEF hs
  <2> QED
    BY <2>1, <2>2
<1> HIDE DEF h, end, all
<1>4. s \in Seq(Byte)
  BY DEF Unmarked
<1>5. scan = s
  BY <1>1, <1>2, <1>3, <1>4, PartBetween
<1>6. \A i \in 1..Len(scan) : scan[i] = 255 => i < Len(scan) /\ scan[i + 1] = 0
  BY <1>5 DEF Unmarked
<1>7. all = h \o scan \o end
  BY <1>3, <1>5, Zenon
<1> QED
  BY <1>6, <1>7, Zenon DEF NoMarkerInScan, h, end, all

(* Every step takes and gives back exactly the blocks of the place it leaves    *)
(* and the place it reaches.                                                    *)
LEMMA HeapFollowsPc == PcInv /\ HeapInv /\ [Next]_vars => PcInv' /\ HeapInv'
<1> SUFFICES ASSUME PcInv, HeapInv, [Next]_vars PROVE PcInv' /\ HeapInv'
  OBVIOUS
<1> USE DEF PcInv, HeapInv
<1>1. ASSUME NEW f \in Frames, Fmt2jpg(f) PROVE PcInv' /\ HeapInv'
  BY <1>1 DEF Fmt2jpg
<1>2. CASE InitFails
  BY <1>2 DEF InitFails, Idle
<1>3. CASE JpgOpen
  BY <1>3 DEF JpgOpen
<1>4. CASE LineFails
  BY <1>4 DEF LineFails, Idle
<1>5. CASE AllocLine
  BY <1>5 DEF AllocLine
<1>6. CASE ScanLine
  BY <1>6 DEF ScanLine
<1>7. CASE Finish
  BY <1>7 DEF Finish
<1>8. CASE Release
  BY <1>8 DEF Release, Idle
<1>9. CASE UNCHANGED vars
  BY <1>9 DEF vars
<1> QED
  BY <1>1, <1>2, <1>3, <1>4, <1>5, <1>6, <1>7, <1>8, <1>9 DEF Next

-------------------------------------------------------------------------------
(* The theorems. *)

(* fmt2jpg leaves nothing allocated when it fails and only the picture when it  *)
(* succeeds.                                                                    *)
THEOREM NothingLeaks == Spec => []MemoryReturned
<1>1. Init => PcInv /\ HeapInv
  BY DEF Init, PcInv, HeapInv
<1>2. PcInv /\ HeapInv => MemoryReturned
  BY DEF PcInv, HeapInv, MemoryReturned
<1> QED
  BY <1>1, HeapFollowsPc, <1>2, PTL DEF Spec

(* Every variable keeps its type: the bit buffer stays within its 24 bits,      *)
(* m_out_buf is never left full and the stream never outgrows jpg_buf.          *)
THEOREM TypesKept == Spec => []TypeOK
<1>1. Init => PcInv /\ HeapInv
  BY DEF Init, PcInv, HeapInv
<1> QED
  BY <1>1, StateStarts, StateKept, HeapFollowsPc, TypeFollows, PTL DEF Spec

(* Whatever the sizes of m_out_buf and jpg_buf, and wherever in a block the     *)
(* buffer is flushed, the stream is the beginning of what has been emitted.     *)
THEOREM StreamIsBeginning == Spec => []BeginningKept
<1>1. StateInv => BeginningKept
  BY StreamFits DEF StateInv, EncInv, BeginningKept
<1> QED
  BY <1>1, StateStarts, StateKept, PTL DEF Spec

(* However the code words fall on the bytes, a decoder meets no marker between  *)
(* the header and the end of the picture, and the file consists of these three. *)
THEOREM ScanHasNoMarker == Spec => []NoMarkerInScan
  BY StateStarts, StateKept, ScanFollows, PTL DEF Spec

===============================================================================
