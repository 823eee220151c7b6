--------------------------------- MODULE Jpge ---------------------------------
(* The arithmetic of the JPEG encoder (src/components/conversions/jpge.cpp,     *)
(* yuv.c, to_jpg.cpp) as operators: what becomes of a pixel, of an 8x8 block    *)
(* and of a code word.  The encoder's state machine is in JpegEncoder.          *)
(*                                                                              *)
(* A shift to the right of a negative number rounds down, as \div does.         *)
EXTENDS Integers, Sequences, SequencesExt, JpegTables

CONSTANTS OutBufSize,   \* JPGE_OUT_BUF_SIZE
          JpgBufLen     \* jpg_buf_len of fmt2jpg

-------------------------------------------------------------------------------
(* Pixels. *)

clamp(i) == IF i < 0 THEN 0 ELSE IF i > 255 THEN 255 ELSE i

(* yuv_table: each column is a straight line, truncated towards zero.           *)
Trunc(n, d) == IF n < 0 THEN -((-n) \div d) ELSE n \div d
yuv_table(i) == [vY  |-> Trunc(116385 * i - 1860550, 100000),
                 vVr |-> Trunc(1595960 * i - 204282880, 1000000),
                 vVg |-> Trunc(-39130 * i + 5008640, 100000),
                 vUg |-> Trunc(-81300 * i + 10406400, 100000),
                 vUb |-> Trunc(2017860 * i - 258286000, 1000000)]

yuv2rgb(y, u, v) ==
  <<clamp(yuv_table(y).vY + yuv_table(v).vVr),
    clamp(yuv_table(y).vY + yuv_table(u).vUg + yuv_table(v).vVg),
    clamp(yuv_table(y).vY + yuv_table(u).vUb)>>

RGB_to_YCC(p) ==
  <<(p[1] * 19595 + p[2] * 38470 + p[3] * 7471 + 32768) \div 65536,
    clamp(128 + ((-11059 * p[1] - 21709 * p[2] + 32768 * p[3] + 32768) \div 65536)),
    clamp(128 + ((32768 * p[1] - 27439 * p[2] - 5329 * p[3] + 32768) \div 65536))>>

(* convert_line_format: the pixels of one line, src[k] being its byte k; grey   *)
(* levels for GRAYSCALE and RGB otherwise.  YUV422 is read two pixels at a      *)
(* time, so an odd width yields one pixel more than the line has room for.      *)
convert_line_format(format, width, src) ==
  CASE format = "GRAYSCALE" -> [c \in 1..width |-> src[c - 1]]
    [] format = "RGB888" ->
         [c \in 1..width |-> <<src[3 * c - 1], src[3 * c - 2], src[3 * c - 3]>>]
    [] format = "RGB565" ->
         [c \in 1..width |->
            LET a == src[2 * c - 2]
                b == src[2 * c - 1]
            IN  <<a - (a % 8), (a % 8) * 32 + (b \div 32) * 4, (b % 32) * 8>>]
    [] format = "YUV422" ->
         [c \in 1..(2 * ((width + 1) \div 2)) |->
            LET pair == 4 * ((c - 1) \div 2)
            IN  yuv2rgb(src[pair + 2 * ((c - 1) % 2)], src[pair + 1], src[pair + 3])]

-------------------------------------------------------------------------------
(* Blocks of 64 samples, row after row, index 0..63. *)

DCT_DESCALE(x, n) == (x + 2^(n - 1)) \div 2^n
Int16(x) == ((x + 32768) % 65536) - 32768
DCT_MUL(x, c) == Int16(x) * c

DCT1D(s0, s1, s2, s3, s4, s5, s6, s7) ==
  LET t3 == s3 + s4    t4 == s3 - s4    t2 == s2 + s5    t5 == s2 - s5
      t1 == s1 + s6    t6 == s1 - s6    t0 == s0 + s7    t7 == s0 - s7
      t10 == t0 + t3   t13 == t0 - t3   t11 == t1 + t2   t12 == t1 - t2
      even == DCT_MUL(t12 + t13, 4433)
      z5 == DCT_MUL(t4 + t6 + t5 + t7, 9633)
      u1 == DCT_MUL(t4 + t7, -7373)         u2 == DCT_MUL(t5 + t6, -20995)
      u3 == DCT_MUL(t4 + t6, -16069) + z5   u4 == DCT_MUL(t5 + t7, -3196) + z5
  IN  <<t10 + t11,
        DCT_MUL(t7, 12299) + u1 + u4,
        even + DCT_MUL(t13, 6270),
        DCT_MUL(t6, 25172) + u2 + u3,
        t10 - t11,
        DCT_MUL(t5, 16819) + u2 + u4,
        even + DCT_MUL(t12, -15137),
        DCT_MUL(t4, 2446) + u1 + u3>>

(* DCT2D: first the rows, kept ROW_BITS = 2 bits larger, then the columns; the  *)
(* outputs 0 and 4 carry no CONST_BITS = 13 fraction.                           *)
DCT2D(p) ==
  LET row == [r \in 0..7 |-> DCT1D(p[8*r], p[8*r + 1], p[8*r + 2], p[8*r + 3],
                                   p[8*r + 4], p[8*r + 5], p[8*r + 6], p[8*r + 7])]
      q == [k \in 0..63 |-> LET v == row[k \div 8][(k % 8) + 1]
                            IN  IF k % 4 = 0 THEN v * 4 ELSE DCT_DESCALE(v, 11)]
      col == [c \in 0..7 |-> DCT1D(q[c], q[c + 8], q[c + 16], q[c + 24],
                                   q[c + 32], q[c + 40], q[c + 48], q[c + 56])]
  IN  [k \in 0..63 |-> LET v == col[k % 8][k \div 8 + 1]
                       IN  IF (k \div 8) % 4 = 0 THEN DCT_DESCALE(v, 5) ELSE DCT_DESCALE(v, 18)]

(* load_quantized_coefficients: in zigzag order, rounded to the nearest step.   *)
load_quantized_coefficients(q, sample) ==
  [i \in 0..63 |-> LET s == sample[s_zag[i + 1]]
                       j == (IF s < 0 THEN -s ELSE s) + q[i + 1] \div 2
                   IN  IF j < q[i + 1] THEN 0
                       ELSE IF s < 0 THEN -(j \div q[i + 1]) ELSE j \div q[i + 1]]

(* load_block_8_8 and load_block_8_8_grey: block (x, y) of component c of the   *)
(* lines of the MCU row.                                                        *)
load_block_8_8(lines, x, y, c) ==
  [k \in 0..63 |-> lines[8 * y + k \div 8 + 1][8 * x + (k % 8) + 1][c + 1] - 128]
load_block_8_8_grey(lines, x) ==
  [k \in 0..63 |-> lines[k \div 8 + 1][8 * x + (k % 8) + 1] - 128]

(* load_block_16_8: the mean of 2x2 pixels, rounded by 0 and 2 in turn.         *)
load_block_16_8(lines, x, c) ==
  [k \in 0..63 |->
     LET r == 2 * (k \div 8) + 1
         p == 16 * x + 2 * (k % 8) + 1
         round == IF (k \div 8 + k) % 2 = 0 THEN 0 ELSE 2
     IN  (lines[r][p][c + 1] + lines[r][p + 1][c + 1]
          + lines[r + 1][p][c + 1] + lines[r + 1][p + 1][c + 1] + round) \div 4 - 128]

-------------------------------------------------------------------------------
(* Code words: a record of some bits and how many there are. *)

Category(v) == CHOOSE n \in 0..16 : /\ -(2^n) < v /\ v < 2^n
                                    /\ n > 0 => v <= -(2^(n - 1)) \/ 2^(n - 1) <= v
Magnitude(v) == [bits |-> IF v < 0 THEN v - 1 + 2^Category(v) ELSE v, size |-> Category(v)]

(* A turn of the loop over a block's coefficients: a coefficient that is not 0  *)
(* is preceded by the number of zeros it follows, 16 of them at a time.         *)
code_coefficient(codes, s, v) ==
  IF v = 0 THEN [words |-> s.words, run |-> s.run + 1]
  ELSE [words |-> s.words \o [z \in 1..(s.run \div 16) |-> codes[240]]
                  \o <<codes[16 * (s.run % 16) + Category(v)], Magnitude(v)>>,
        run |-> 0]

(* code_coefficients_pass_two: the words of one block.  The first coefficient   *)
(* is coded less that of the block before it; zeros at the end are one word.    *)
code_coefficients_pass_two(table, coef, last) ==
  LET codes == m_huff_codes["AC"][table]
      dc == coef[0] - last
      after[i \in 0..63] == IF i = 0 THEN [words |-> <<>>, run |-> 0]
                            ELSE code_coefficient(codes, after[i - 1], coef[i])
  IN  <<m_huff_codes["DC"][table][Category(dc)], Magnitude(dc)>>
      \o after[63].words \o (IF after[63].run = 0 THEN <<>> ELSE <<codes[0]>>)

===============================================================================
