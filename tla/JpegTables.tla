------------------------------ MODULE JpegTables ------------------------------
(* The constant tables of the JPEG encoder (src/components/conversions/       *)
(* jpge.cpp) and the two that it derives from them: the Huffman codes and the  *)
(* quantisation tables.  Arrays that start at 0 in C start at 1 here; the      *)
(* entry bits[0], always 0, is left out.                                       *)
EXTENDS Integers, Sequences

s_zag ==
  <<0, 1, 8, 16, 9, 2, 3, 10, 17, 24, 32, 25, 18, 11, 4, 5, 12, 19, 26, 33, 40, 48, 41, 34, 27, 20, 13, 6, 7, 14, 21, 28, 35, 42, 49, 56, 57, 50, 43,
    36, 29, 22, 15, 23, 30, 37, 44, 51, 58, 59, 52, 45, 38, 31, 39, 46, 53, 60, 61, 54, 47, 55, 62, 63>>

s_std_lum_quant ==
  <<16, 11, 12, 14, 12, 10, 16, 14, 13, 14, 18, 17, 16, 19, 24, 40, 26, 24, 22, 22, 24, 49, 35, 37, 29, 40, 58, 51, 61, 60, 57, 51, 56, 55, 64, 72, 92,
    78, 64, 68, 87, 69, 55, 56, 80, 109, 81, 87, 95, 98, 103, 104, 103, 62, 77, 113, 121, 112, 100, 120, 92, 101, 103, 99>>

s_std_croma_quant ==
  <<17, 18, 18, 24, 21, 24, 47, 26, 26, 47, 99, 66, 56, 66, 99, 99, 99, 99, 99, 99, 99, 99, 99, 99, 99, 99, 99, 99, 99, 99, 99, 99, 99, 99, 99, 99, 99,
    99, 99, 99, 99, 99, 99, 99, 99, 99, 99, 99, 99, 99, 99, 99, 99, 99, 99, 99, 99, 99, 99, 99, 99, 99, 99, 99>>

s_dc_lum_bits == <<0, 1, 5, 1, 1, 1, 1, 1, 1, 0, 0, 0, 0, 0, 0, 0>>
s_dc_lum_val == <<0, 1, 2, 3, 4, 5, 6, 7, 8, 9, 10, 11>>
s_ac_lum_bits == <<0, 2, 1, 3, 3, 2, 4, 3, 5, 5, 4, 4, 0, 0, 1, 125>>
s_ac_lum_val ==
  <<1, 2, 3, 0, 4, 17, 5, 18, 33, 49, 65, 6, 19, 81, 97, 7, 34, 113, 20, 50, 129, 145, 161, 8, 35, 66, 177, 193, 21, 82, 209, 240, 36, 51, 98, 114, 130,
    9, 10, 22, 23, 24, 25, 26, 37, 38, 39, 40, 41, 42, 52, 53, 54, 55, 56, 57, 58, 67, 68, 69, 70, 71, 72, 73, 74, 83, 84, 85, 86, 87, 88, 89, 90, 99,
    100, 101, 102, 103, 104, 105, 106, 115, 116, 117, 118, 119, 120, 121, 122, 131, 132, 133, 134, 135, 136, 137, 138, 146, 147, 148, 149, 150, 151,
    152, 153, 154, 162, 163, 164, 165, 166, 167, 168, 169, 170, 178, 179, 180, 181, 182, 183, 184, 185, 186, 194, 195, 196, 197, 198, 199, 200, 201,
    202, 210, 211, 212, 213, 214, 215, 216, 217, 218, 225, 226, 227, 228, 229, 230, 231, 232, 233, 234, 241, 242, 243, 244, 245, 246, 247, 248, 249, 250>>
s_dc_chroma_bits == <<0, 3, 1, 1, 1, 1, 1, 1, 1, 1, 1, 0, 0, 0, 0, 0>>
s_dc_chroma_val == <<0, 1, 2, 3, 4, 5, 6, 7, 8, 9, 10, 11>>
s_ac_chroma_bits == <<0, 2, 1, 2, 4, 4, 3, 4, 7, 5, 4, 4, 0, 1, 2, 119>>
s_ac_chroma_val ==
  <<0, 1, 2, 3, 17, 4, 5, 33, 49, 6, 18, 65, 81, 7, 97, 113, 19, 34, 50, 129, 8, 20, 66, 145, 161, 177, 193, 9, 35, 51, 82, 240, 21, 98, 114, 209, 10,
    22, 36, 52, 225, 37, 241, 23, 24, 25, 26, 38, 39, 40, 41, 42, 53, 54, 55, 56, 57, 58, 67, 68, 69, 70, 71, 72, 73, 74, 83, 84, 85, 86, 87, 88, 89,
    90, 99, 100, 101, 102, 103, 104, 105, 106, 115, 116, 117, 118, 119, 120, 121, 122, 130, 131, 132, 133, 134, 135, 136, 137, 138, 146, 147, 148, 149,
    150, 151, 152, 153, 154, 162, 163, 164, 165, 166, 167, 168, 169, 170, 178, 179, 180, 181, 182, 183, 184, 185, 186, 194, 195, 196, 197, 198, 199,
    200, 201, 202, 210, 211, 212, 213, 214, 215, 216, 217, 218, 226, 227, 228, 229, 230, 231, 232, 233, 234, 242, 243, 244, 245, 246, 247, 248, 249, 250>>

-------------------------------------------------------------------------------

(* compute_huffman_table: huff_size lists the code lengths in order ...        *)
HuffSize(bits) ==
  LET upTo[l \in 0..16] == IF l = 0 THEN 0 ELSE upTo[l - 1] + bits[l]
  IN  [p \in 1..upTo[16] |-> CHOOSE l \in 1..16 : upTo[l - 1] < p /\ p <= upTo[l]]

(* ... huff_code counts up within a length and shifts when the length grows    *)
HuffCode(size) ==
  LET code[p \in 1..Len(size)] ==
        IF p = 1 THEN 0 ELSE (code[p - 1] + 1) * 2^(size[p] - size[p - 1])
  IN  [p \in 1..Len(size) |-> code[p]]

(* ... and codes / code_sizes are indexed by the symbol; size 0 where the       *)
(* symbol has no code.                                                         *)
compute_huffman_table(bits, val) ==
  LET size == HuffSize(bits)
      code == HuffCode(size)
      at   == [v \in {val[p] : p \in 1..Len(val)} |-> CHOOSE p \in 1..Len(val) : val[p] = v]
  IN  [v \in 0..255 |-> IF v \in DOMAIN at THEN [bits |-> code[at[v]], size |-> size[at[v]]]
                                            ELSE [bits |-> 0, size |-> 0]]

(* m_huff_bits and m_huff_val, by class (DC, AC) and by table (0 luminance, 1   *)
(* chrominance), and the codes made of them.                                    *)
m_huff_bits == [DC |-> <<s_dc_lum_bits, s_dc_chroma_bits>>, AC |-> <<s_ac_lum_bits, s_ac_chroma_bits>>]
m_huff_val  == [DC |-> <<s_dc_lum_val, s_dc_chroma_val>>, AC |-> <<s_ac_lum_val, s_ac_chroma_val>>]

m_huff_codes ==
  [class \in {"DC", "AC"} |->
     [t \in 1..2 |-> compute_huffman_table(m_huff_bits[class][t], m_huff_val[class][t])]]

(* compute_quant_table *)
compute_quant_table(quality, std) ==
  LET q == IF quality < 50 THEN 5000 \div quality ELSE 200 - quality * 2
      Scaled(j) == (j * q + 50) \div 100
  IN  [i \in 1..64 |-> IF Scaled(std[i]) < 1 THEN 1
                       ELSE IF Scaled(std[i]) > 255 THEN 255 ELSE Scaled(std[i])]

(* m_quantization_tables after jpg_open has seen this quality *)
quantization_tables(quality) ==
  <<compute_quant_table(quality, s_std_lum_quant), compute_quant_table(quality, s_std_croma_quant)>>

===============================================================================
