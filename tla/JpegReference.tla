----------------------------- MODULE JpegReference -----------------------------
(* What the bytes of a baseline JPEG file say, read as the file format has it   *)
(* and not as the encoder wrote it: segments are found by their declared        *)
(* lengths, Huffman codes rebuilt from the file's own tables, coefficients put  *)
(* back by diagonals.  And the cosine transform itself, as a matrix product.    *)
EXTENDS Integers, Sequences, SequencesExt

Smaller(a, b) == IF a < b THEN a ELSE b
Distance(a, b) == IF a < b THEN b - a ELSE a - b
Ceiling(a, b) == (a + b - 1) \div b

-------------------------------------------------------------------------------
(* Segments.  file[p] is the 0xFF of a marker. *)

Number(file, p) == file[p] * 256 + file[p + 1]
SegmentStarts(file) ==
  LET at[n \in 1..9] ==
        IF n = 1 THEN 3
        ELSE LET p == at[n - 1]
             IN  IF file[p + 1] = 218 THEN p ELSE p + 2 + Number(file, p + 2)
  IN  {at[n] : n \in 1..9}
OfKind(file, marker) == {p \in SegmentStarts(file) : file[p + 1] = marker}
Segment(file, marker) == CHOOSE p \in OfKind(file, marker) : TRUE

(* The quantiser steps of table t, in zigzag order.                             *)
StepsOf(file, t) ==
  LET p == CHOOSE s \in OfKind(file, 219) : file[s + 4] = t IN SubSeq(file, p + 5, p + 68)

(* The codes of Huffman table t (16 more for AC): code length and value, symbol *)
CodesOf(file, t) ==
  LET p == CHOOSE s \in OfKind(file, 196) : file[s + 4] = t
      count(l) == file[p + 4 + l]
      first[l \in 1..16] == IF l = 1 THEN 0 ELSE 2 * (first[l - 1] + count(l - 1))
      before[l \in 1..16] == IF l = 1 THEN 0 ELSE before[l - 1] + count(l - 1)
  IN  [code \in UNION {{<<l, first[l] + i>> : i \in 0..(count(l) - 1)} : l \in 1..16} |->
         file[p + 21 + before[code[1]] + code[2] - first[code[1]]]]

(* The bits between SOS and EOI without the stuffed bytes, and whether every    *)
(* 0xFF among them was stuffed.                                                 *)
ScanBytes(file) ==
  LET sos == Segment(file, 218) IN SubSeq(file, sos + 2 + Number(file, sos + 2), Len(file) - 2)
WellStuffed(scan) == \A i \in 1..Len(scan) : scan[i] = 255 => i < Len(scan) /\ scan[i + 1] = 0
Unstuffed(scan) ==
  LET kept[n \in 0..Len(scan)] ==
        IF n = 0 THEN <<>>
        ELSE IF n > 1 /\ scan[n] = 0 /\ scan[n - 1] = 255 THEN kept[n - 1]
        ELSE Append(kept[n - 1], scan[n])
  IN  kept[Len(scan)]

-------------------------------------------------------------------------------
(* Entropy coded blocks.  Bit 0 is the first of the data; past its end all are  *)
(* ones.  No more than 16 bits are read at a time.                              *)

Bit(data, k) == IF k \div 8 < Len(data) THEN (data[k \div 8 + 1] \div 2^(7 - (k % 8))) % 2 ELSE 1
BitsAt(data, k, n) ==
  LET value[i \in 0..16] == IF i = 0 THEN 0 ELSE 2 * value[i - 1] + Bit(data, k + i - 1)
  IN  value[n]
SymbolAt(data, k, codes) ==
  LET fits == {l \in 1..16 : <<l, BitsAt(data, k, l)>> \in DOMAIN codes}
      l == CHOOSE n \in fits : TRUE
  IN  IF fits = {} THEN [symbol |-> 0, size |-> 16]
      ELSE [symbol |-> codes[<<l, BitsAt(data, k, l)>>], size |-> l]
SignedAt(data, k, n) ==
  LET v == BitsAt(data, k, n) IN IF n > 0 /\ v < 2^(n - 1) THEN v - 2^n + 1 ELSE v

(* A block that is being read: where it goes on, the place in zigzag order of   *)
(* the next coefficient and the coefficients so far.                            *)
BlockStart(data, k, dcCodes, predicted) ==
  LET dc == SymbolAt(data, k, dcCodes)
  IN  [at |-> k + dc.size + dc.symbol, next |-> 1,
       coef |-> [i \in 0..63 |->
                   IF i = 0 THEN predicted + SignedAt(data, k + dc.size, dc.symbol) ELSE 0]]
ReadOn(data, acCodes, b) ==
  LET ac == SymbolAt(data, b.at, acCodes)
      run == ac.symbol \div 16
      bits == ac.symbol % 16
  IN  IF b.next > 63 THEN b
      ELSE IF ac.symbol = 0 THEN [at |-> b.at + ac.size, next |-> 64, coef |-> b.coef]
      ELSE IF bits = 0 THEN [at |-> b.at + ac.size, next |-> b.next + 16, coef |-> b.coef]
      ELSE [at |-> b.at + ac.size + bits, next |-> b.next + run + 1,
            coef |-> [b.coef EXCEPT ![Smaller(b.next + run, 63)] =
                                      SignedAt(data, b.at + ac.size, bits)]]

(* The block at bit k: its coefficients in zigzag order and where it ends.      *)
BlockAt(data, k, dcCodes, acCodes, predicted) ==
  LET after[n \in 0..63] == IF n = 0 THEN BlockStart(data, k, dcCodes, predicted)
                            ELSE ReadOn(data, acCodes, after[n - 1])
  IN  after[63]

(* The blocks of the scan, one after the other: where the next one starts, the  *)
(* first coefficient of the last one of each component, and the blocks so far.  *)
(* The components take turns as in mcu.                                         *)
ReadBlock(data, mcu, dcCodes, acCodes, n, s) ==
  LET c == mcu[((n - 1) % Len(mcu)) + 1]
      t == Smaller(c, 1)
      b == BlockAt(data, s.at, dcCodes[t], acCodes[t], s.dc[c + 1])
  IN  IF s.at >= 8 * Len(data) THEN s        \* nothing left to read
      ELSE [at |-> b.at, dc |-> [s.dc EXCEPT ![c + 1] = b.coef[0]],
            blocks |-> Append(s.blocks, [comp |-> c, coef |-> b.coef])]
BlocksRead(data, mcu, dcCodes, acCodes, count) ==
  LET after[n \in 0..count] ==
        IF n = 0 THEN [at |-> 0, dc |-> <<0, 0, 0>>, blocks |-> <<>>]
        ELSE ReadBlock(data, mcu, dcCodes, acCodes, n, after[n - 1])
  IN  after[count]

(* The file: its size, its components with their quantiser steps, the blocks in *)
(* the order of the scan, and whether nothing but filling follows them.         *)
Decoded(file) ==
  LET sof == Segment(file, 192)
      height == Number(file, sof + 5)
      width == Number(file, sof + 7)
      comps == file[sof + 9]
      h(c) == file[sof + 8 + 3 * c] \div 16
      v(c) == file[sof + 8 + 3 * c] % 16
      hMax == h(1)     vMax == v(1)
      mcu == FlattenSeq([c \in 1..comps |-> [k \in 1..(h(c) * v(c)) |-> c - 1]])
      mcus == Ceiling(width, 8 * hMax) * Ceiling(height, 8 * vMax)
      data == Unstuffed(ScanBytes(file))
      dcCodes == [t \in 0..(comps \div 2) |-> CodesOf(file, t)]
      acCodes == [t \in 0..(comps \div 2) |-> CodesOf(file, 16 + t)]
      final == BlocksRead(data, mcu, dcCodes, acCodes, mcus * Len(mcu))
  IN  [width |-> width, height |-> height,
       steps |-> [t \in 0..(comps \div 2) |-> StepsOf(file, t)],
       blocks |-> final.blocks,
       complete |-> Len(final.blocks) = mcus * Len(mcu),
       clean |-> /\ SubSeq(file, 1, 2) = <<255, 216>>
                 /\ SubSeq(file, Len(file) - 1, Len(file)) = <<255, 217>>
                 /\ WellStuffed(ScanBytes(file))
                 /\ final.at <= 8 * Len(data) /\ 8 * Len(data) < final.at + 8]

-------------------------------------------------------------------------------
(* The place of the coefficient in row u and column v in zigzag order.          *)
Zigzag(u, v) ==
  LET d == u + v
      past == IF d < 8 THEN 0 ELSE d - 7
      before == IF d < 8 THEN (d * (d + 1)) \div 2 ELSE 64 - ((15 - d) * (16 - d)) \div 2
  IN  before - past + (IF d % 2 = 0 THEN v ELSE u)

(* 4096 times half the cosine of k/16 of pi; the DCT of a block to the nearest  *)
(* integer.                                                                     *)
HalfCosine(k) ==
  LET quarter == <<2048, 2009, 1892, 1703, 1448, 1138, 784, 400, 0>>
      m == IF k % 32 > 16 THEN 32 - (k % 32) ELSE k % 32
  IN  IF m <= 8 THEN quarter[m + 1] ELSE -quarter[17 - m]
Basis(u, x) == IF u = 0 THEN 1448 ELSE HalfCosine((2 * x + 1) * u)
Product(a, b) == a[0] * b[0] + a[1] * b[1] + a[2] * b[2] + a[3] * b[3]
                 + a[4] * b[4] + a[5] * b[5] + a[6] * b[6] + a[7] * b[7]
Descaled(x) == (x + 524288) \div 1048576
Transform(sample) ==
  LET basis == [u \in 0..7 |-> [x \in 0..7 |-> Basis(u, x)]]
      rows == [y \in 0..7 |-> [u \in 0..7 |->
                 Product([x \in 0..7 |-> sample[8 * y + x]], basis[u]) \div 16]]
  IN  [k \in 0..63 |-> Descaled(Product([y \in 0..7 |-> rows[y][k % 8]], basis[k \div 8]))]

===============================================================================
