------------------------------ MODULE JpegEncoder ------------------------------
(* Conversion of a frame to a JPEG picture: fmt2jpg, convert_image and          *)
(* memory_stream (src/components/conversions/to_jpg.cpp) with the jpeg_encoder  *)
(* they drive (jpge.cpp), one frame after another.                              *)
(*                                                                              *)
(* Everything runs in the task that calls fmt2jpg, so a step is one call that   *)
(* allocates or one scanline.  memory_stream::put_buf never reports an error:   *)
(* m_all_stream_writes_succeeded stays true and is left out, and so are the     *)
(* returns it guards.  The Huffman tables are made once and never change.       *)
EXTENDS Jpge, JpegReference

CONSTANTS Formats, Widths, Heights, Qualities,   \* the arguments of fmt2jpg
          Patterns,                              \* names of frame contents
          Source(_, _)                           \* byte k of a frame of that content

(* Every size the camera is asked for (src/main/Kconfig.projbuild) is even.     *)
ASSUME SizeAssumption ==
  /\ \A w \in Widths : w \in Nat /\ 2 <= w /\ w < 65536 /\ w % 2 = 0
  /\ \A h \in Heights : h \in Nat /\ 1 <= h /\ h < 65536
  /\ \A q \in Qualities : q \in Nat /\ q <= 255
ASSUME FormatAssumption == Formats \subseteq {"GRAYSCALE", "RGB888", "RGB565", "YUV422"}
ASSUME BufferAssumption == OutBufSize \in Nat \ {0} /\ JpgBufLen \in Nat \ {0}

VARIABLES
  pc,           \* where fmt2jpg is: idle, init, line, scan, end, done
  frame,        \* its arguments
  heap,         \* the blocks allocated and not yet freed
  row,          \* i of the loop in convert_image
  mcuLines,     \* m_mcu_lines up to m_mcu_y_ofs
  enc,          \* the bit buffer, m_out_buf, the stream and m_last_dc_val
  lastQuality,  \* m_last_quality
  quant         \* m_quantization_tables
vars == <<pc, frame, heap, row, mcuLines, enc, lastQuality, quant>>

Frames == [format : Formats, width : Widths, height : Heights,
           quality : Qualities, pattern : Patterns]

(* A frame consists of bytes.                                                   *)
ASSUME SourceAssumption ==
  \A f \in Frames : \A k \in 0..(3 * f.width * f.height - 1) : Source(f.pattern, k) \in 0..255
NoFrame == [format |-> "none"]

-------------------------------------------------------------------------------
(* Output. *)

\* Mutant: the space already used is not taken off.
PutBufAnywhere(stream, data) ==
  stream \o (IF Len(data) > JpgBufLen THEN SubSeq(data, 1, JpgBufLen) ELSE data)

\* Mutant: data that does not fit is dropped as a whole.
PutBufOrNothing(stream, data) ==
  IF Len(stream) + Len(data) > JpgBufLen THEN stream ELSE stream \o data

(* memory_stream::put_buf: what does not fit into the buffer is cut off.        *)
put_buf(stream, data) ==
  LET room == JpgBufLen - Len(stream)
  IN  stream \o (IF Len(data) > room THEN SubSeq(data, 1, room) ELSE data)

(* emit_byte for each of some bytes, with its flush_output_buffer: m_out_buf    *)
(* goes to the stream whenever it is full.                                      *)
Emit(e, bytes) ==
  LET all == e.buf \o bytes
      flushed == (Len(all) \div OutBufSize) * OutBufSize
  IN  [e EXCEPT !.buf = SubSeq(all, flushed + 1, Len(all)),
                !.stream = put_buf(@, SubSeq(all, 1, flushed)),
                !.emitted = @ \o bytes]

flush_output_buffer(e) == [e EXCEPT !.buf = <<>>, !.stream = put_buf(@, e.buf)]

\* Mutant: 0xFF is not followed by 0.
NotStuffed(b) == <<b>>

Stuffed(b) == IF b = 255 THEN <<255, 0>> ELSE <<b>>

(* put_bits: whole bytes leave the 24 used bits of m_bit_buffer; 0xFF is        *)
(* followed by 0.  The bits of the word fall on bits that are 0 (TypeOK), where *)
(* | is +.                                                                      *)
put_bits(e, word) ==
  LET in == e.bitsIn + word.size
      n == in \div 8
      buffer == e.bitBuffer + word.bits * 2^(24 - in)
      Byte(i) == (buffer \div 2^(24 - 8 * i)) % 256
  IN  Emit([e EXCEPT !.bitsIn = in % 8,
                     !.bitBuffer = (buffer % 2^(24 - 8 * n)) * 2^(8 * n)],
           FlattenSeq([i \in 1..n |-> Stuffed(Byte(i))]))

PutWords(e, words) ==
  LET after[k \in 0..Len(words)] == IF k = 0 THEN e ELSE put_bits(after[k - 1], words[k])
  IN  after[Len(words)]

-------------------------------------------------------------------------------
(* Markers: the bytes between the start of the file and the first scanline.     *)

Word(i) == <<i \div 256, i % 256>>
Marker(m) == <<255, m>>

emit_jfif_app0 == Marker(224) \o Word(16) \o <<74, 70, 73, 70, 0, 1, 1, 0>>
                  \o Word(1) \o Word(1) \o <<0, 0>>
emit_dqt(comps, tables) ==
  FlattenSeq([i \in 1..(IF comps = 3 THEN 2 ELSE 1) |->
                Marker(219) \o Word(64 + 1 + 2) \o <<i - 1>> \o tables[i]])
emit_sof(comps, width, height) ==
  Marker(192) \o Word(3 * comps + 2 + 5 + 1) \o <<8>> \o Word(height) \o Word(width) \o <<comps>>
  \o FlattenSeq([i \in 1..comps |-> <<i, IF comps = 3 /\ i = 1 THEN 34 ELSE 17,
                                      IF i > 1 THEN 1 ELSE 0>>])
emit_dht(class, t) ==
  Marker(196) \o Word(Len(m_huff_val[class][t]) + 2 + 1 + 16)
  \o <<(t - 1) + (IF class = "AC" THEN 16 ELSE 0)>> \o m_huff_bits[class][t] \o m_huff_val[class][t]
emit_dhts(comps) == emit_dht("DC", 1) \o emit_dht("AC", 1)
                    \o (IF comps = 3 THEN emit_dht("DC", 2) \o emit_dht("AC", 2) ELSE <<>>)
emit_sos(comps) ==
  Marker(218) \o Word(2 * comps + 2 + 1 + 3) \o <<comps>>
  \o FlattenSeq([i \in 1..comps |-> <<i, IF i = 1 THEN 0 ELSE 17>>]) \o <<0, 63, 0>>

-------------------------------------------------------------------------------
(* The encoder. *)

(* convert_image: Y_ONLY for grey frames, H2V2 for the others.                  *)
Comps(f) == IF f.format = "GRAYSCALE" THEN 1 ELSE 3
Header(f, tables) ==
  Marker(216) \o emit_jfif_app0 \o emit_dqt(Comps(f), tables)
  \o emit_sof(Comps(f), f.width, f.height) \o emit_dhts(Comps(f)) \o emit_sos(Comps(f))
McuSize(f) == IF Comps(f) = 1 THEN 8 ELSE 16                  \* m_mcu_x = m_mcu_y
McusPerRow(f) == (f.width + McuSize(f) - 1) \div McuSize(f)
Quality(f) == IF f.quality = 0 THEN 1 ELSE IF f.quality > 100 THEN 100 ELSE f.quality

NewEncoder == [bitBuffer |-> 0, bitsIn |-> 0, buf |-> <<>>, stream |-> <<>>,
               emitted |-> <<>>, lastDC |-> <<0, 0, 0>>]

(* code_block *)
code_block(e, block) ==
  LET table == IF block.comp = 0 THEN 1 ELSE 2
      coef == load_quantized_coefficients(quant[table], DCT2D(block.sample))
  IN  PutWords([e EXCEPT !.lastDC[block.comp + 1] = coef[0]],
               code_coefficients_pass_two(table, coef, e.lastDC[block.comp + 1]))

(* process_mcu_row: the blocks of each MCU, luminance first.                    *)
Blocks(f, lines) ==
  LET Block(c, sample) == [comp |-> c, sample |-> sample]
  IN  IF Comps(f) = 1
      THEN [i \in 1..McusPerRow(f) |-> Block(0, load_block_8_8_grey(lines, i - 1))]
      ELSE FlattenSeq([i \in 1..McusPerRow(f) |->
             [k \in 1..4 |-> Block(0, load_block_8_8(lines, 2 * (i - 1) + ((k - 1) % 2), (k - 1) \div 2, 0))]
             \o [c \in 1..2 |-> Block(c, load_block_16_8(lines, i - 1, c))]])
process_mcu_row(e, f, lines) ==
  LET blocks == Blocks(f, lines)
      after[k \in 0..Len(blocks)] == IF k = 0 THEN e ELSE code_block(after[k - 1], blocks[k])
  IN  after[Len(blocks)]

(* load_mcu: the line of the picture, its last pixel repeated to the MCU's edge *)
McuLine(f, line) ==
  LET ycc == [c \in 1..f.width |-> IF Comps(f) = 1 THEN line[c] ELSE RGB_to_YCC(line[c])]
  IN  [c \in 1..(McusPerRow(f) * McuSize(f)) |-> ycc[IF c > f.width THEN f.width ELSE c]]

\* Mutant: the unused lines of the last MCU row keep the first line.
EndWithFirstLine(e, f, lines) ==
  LET full == lines \o [i \in 1..(McuSize(f) - Len(lines)) |-> Head(lines)]
      coded == IF lines = <<>> THEN e ELSE process_mcu_row(e, f, full)
  IN  flush_output_buffer(Emit(put_bits(coded, [bits |-> 127, size |-> 7]), Marker(217)))

(* process_end_of_image: the last line repeated to the MCU's lower edge, the    *)
(* bits left over filled up with ones, EOI.                                     *)
process_end_of_image(e, f, lines) ==
  LET full == lines \o [i \in 1..(McuSize(f) - Len(lines)) |-> Last(lines)]
      coded == IF lines = <<>> THEN e ELSE process_mcu_row(e, f, full)
  IN  flush_output_buffer(Emit(put_bits(coded, [bits |-> 127, size |-> 7]), Marker(217)))

-------------------------------------------------------------------------------
Idle(blocks) == /\ pc' = "idle" /\ heap' = heap \ blocks
                /\ frame' = NoFrame /\ row' = 0 /\ mcuLines' = <<>> /\ enc' = NewEncoder

Init == /\ pc = "idle" /\ heap = {}
        /\ frame = NoFrame /\ row = 0 /\ mcuLines = <<>> /\ enc = NewEncoder
        /\ lastQuality = 0
        /\ quant = [t \in 1..2 |-> [i \in 1..64 |-> 0]]

(* fmt2jpg allocates the picture and gives up when it cannot.                   *)
Fmt2jpg(f) == /\ pc = "idle"
              /\ pc' = "init" /\ frame' = f /\ heap' = heap \cup {"jpg_buf"}
              /\ UNCHANGED <<row, mcuLines, enc, lastQuality, quant>>

(* init and jpg_open: no lines, no encoder; the tables are those of the quality *)
InitFails == /\ pc = "init"
             /\ Idle({"jpg_buf"})
             /\ UNCHANGED <<lastQuality, quant>>
JpgOpen == /\ pc = "init"
           /\ pc' = "line" /\ heap' = heap \cup {"mcu_lines"}
           /\ lastQuality' = Quality(frame)
           /\ quant' = IF lastQuality # Quality(frame)
                       THEN quantization_tables(Quality(frame)) ELSE quant
           /\ mcuLines' = <<>>
           /\ enc' = Emit(NewEncoder, Header(frame, quant'))
           /\ UNCHANGED <<frame, row>>

\* Mutant: the picture stays allocated.
LineFailsAndKeeps == /\ pc = "line"
                     /\ Idle({"mcu_lines"})
                     /\ UNCHANGED <<lastQuality, quant>>

(* The scan line cannot be allocated: the destructor of the encoder frees its   *)
(* lines, fmt2jpg the picture.                                                  *)
LineFails == /\ pc = "line"
             /\ Idle({"mcu_lines", "jpg_buf"})
             /\ UNCHANGED <<lastQuality, quant>>
AllocLine == /\ pc = "line"
             /\ pc' = "scan" /\ heap' = heap \cup {"line"} /\ row' = 0
             /\ UNCHANGED <<frame, mcuLines, enc, lastQuality, quant>>

(* One turn of the loop: convert_line_format, then process_scanline(line).      *)
ScanLine ==
  /\ pc = "scan" /\ row < frame.height
  /\ LET bytesPerLine == frame.width * (CASE frame.format = "GRAYSCALE" -> 1
                                          [] frame.format = "RGB888" -> 3
                                          [] OTHER -> 2)
         src == [k \in 0..(bytesPerLine - 1) |-> Source(frame.pattern, row * bytesPerLine + k)]
         lines == Append(mcuLines, McuLine(frame, convert_line_format(frame.format, frame.width, src)))
     IN  IF Len(lines) = McuSize(frame)
         THEN mcuLines' = <<>> /\ enc' = process_mcu_row(enc, frame, lines)
         ELSE mcuLines' = lines /\ UNCHANGED enc
  /\ row' = row + 1
  /\ UNCHANGED <<pc, frame, heap, lastQuality, quant>>

(* free(line), process_scanline(NULL), deinit: the picture is the caller's.     *)
Finish == /\ pc = "scan" /\ row = frame.height
          /\ pc' = "done" /\ heap' = heap \ {"line", "mcu_lines"}
          /\ enc' = process_end_of_image(enc, frame, mcuLines)
          /\ mcuLines' = <<>>
          /\ UNCHANGED <<frame, row, lastQuality, quant>>

(* The caller frees the picture (src/main/main.c).                              *)
Release == /\ pc = "done"
           /\ Idle({"jpg_buf"})
           /\ UNCHANGED <<lastQuality, quant>>

Next == \/ \E f \in Frames : Fmt2jpg(f)
        \/ InitFails \/ JpgOpen
        \/ LineFails \/ AllocLine
        \/ ScanLine \/ Finish
        \/ Release

Spec == Init /\ [][Next]_vars

-------------------------------------------------------------------------------
(* Every variable has its type; the bits of m_bit_buffer that are not in use    *)
(* are 0, m_out_buf is never left full and the picture never outgrows jpg_buf.  *)
TypeOK ==
  /\ pc \in {"idle", "init", "line", "scan", "done"}
  /\ frame \in Frames \cup {NoFrame} /\ (frame = NoFrame <=> pc = "idle")
  /\ heap \subseteq {"jpg_buf", "mcu_lines", "line"}
  /\ pc # "idle" => row \in 0..frame.height
  /\ pc # "idle" => /\ Len(mcuLines) < McuSize(frame)
                    /\ \A i \in 1..Len(mcuLines) :
                         Len(mcuLines[i]) = McusPerRow(frame) * McuSize(frame)
  /\ enc.bitsIn \in 0..7 /\ enc.bitBuffer \in 0..(2^24 - 1)
  /\ enc.bitBuffer % 2^(24 - enc.bitsIn) = 0
  /\ Len(enc.buf) < OutBufSize /\ Len(enc.stream) <= JpgBufLen
  /\ \A i \in 1..Len(enc.emitted) : enc.emitted[i] \in 0..255
  /\ lastQuality \in 0..100 /\ quant \in [1..2 -> [1..64 -> 0..255]]

(* memory_stream holds what the encoder has emitted, in order and without a     *)
(* gap, up to what is still in m_out_buf; when jpg_buf is too small it holds    *)
(* the beginning.  (put_buf in to_jpg.cpp, flush_output_buffer in jpge.cpp.)    *)
BeginningKept ==
  enc.stream = SubSeq(enc.emitted, 1, Smaller(JpgBufLen, Len(enc.emitted) - Len(enc.buf)))

(* A decoder that looks for the next marker finds none between the header and   *)
(* the end: in what put_bits emits, wherever the words of the blocks fall on    *)
(* the bytes, 0xFF is followed by 0.                                            *)
NoMarkerInScan ==
  pc \in {"line", "scan", "done"} =>
    LET header == Header(frame, quant)
        end == IF pc = "done" THEN Marker(217) ELSE <<>>
        scan == SubSeq(enc.emitted, Len(header) + 1, Len(enc.emitted) - Len(end))
    IN  /\ enc.emitted = header \o scan \o end
        /\ \A i \in 1..Len(scan) : scan[i] = 255 => i < Len(scan) /\ scan[i + 1] = 0

(* When fmt2jpg gives up nothing stays allocated, and when it succeeds nothing  *)
(* but the picture (the error paths of to_jpg.cpp and the encoder's destructor) *)
MemoryReturned == /\ pc = "idle" => heap = {}
                  /\ pc = "done" => heap = {"jpg_buf"}

(* What the frame shows: its pixels as the encoder sees them, the last column   *)
(* and the last line continued for ever; a chrominance sample is the mean of    *)
(* four pixels, rounded down and to the nearest like the fields of a chessboard *)
(* so that a plane keeps its mean.                                              *)
Picture(f) ==
  LET bytesPerPixel == CASE f.format = "GRAYSCALE" -> 1 [] f.format = "RGB888" -> 3 [] OTHER -> 2
      line(r) == LET n == f.width * bytesPerPixel
                     src == [k \in 0..(n - 1) |-> Source(f.pattern, r * n + k)]
                 IN  convert_line_format(f.format, f.width, src)
  IN  [r \in 0..(f.height - 1) |->
         LET l == line(r)
         IN  [c \in 0..(f.width - 1) |->
                IF f.format = "GRAYSCALE" THEN <<l[c + 1]>> ELSE RGB_to_YCC(l[c + 1])]]
BlockShown(f, picture, n) ==
  LET At(r, c, comp) == picture[Smaller(r, f.height - 1)][Smaller(c, f.width - 1)][comp + 1]
      perMcu == IF f.format = "GRAYSCALE" THEN 1 ELSE 6
      size == IF f.format = "GRAYSCALE" THEN 8 ELSE 16
      perRow == Ceiling(f.width, size)
      top == size * (((n - 1) \div perMcu) \div perRow)
      left == size * (((n - 1) \div perMcu) % perRow)
      k == (n - 1) % perMcu
      mean(r, c, comp) == (At(r, c, comp) + At(r, c + 1, comp)
                           + At(r + 1, c, comp) + At(r + 1, c + 1, comp)
                           + (IF (r \div 2 + c \div 2) % 2 = 0 THEN 0 ELSE 2)) \div 4
  IN  [i \in 0..63 |->
         (IF k < 4 THEN At(top + 8 * (k \div 2) + i \div 8, left + 8 * (k % 2) + (i % 8), 0)
                   ELSE mean(top + 2 * (i \div 8), left + 2 * (i % 8), k - 3)) - 128]

(* A block of coefficients is the transform of what it covers to within half a  *)
(* quantiser step (and the rounding of the arithmetic).                         *)
Rounding == 1
BlockIsShown(coef, steps, shown) ==
  \A i \in 0..63 :
     LET z == Zigzag(i \div 8, i % 8)
     IN  2 * Distance(coef[z] * steps[z + 1], shown[i]) <= steps[z + 1] + 2 * Rounding

Shows(read, f, picture) ==
  /\ read.clean /\ read.complete
  /\ read.width = f.width /\ read.height = f.height
  /\ \A n \in 1..Len(read.blocks) :
       BlockIsShown(read.blocks[n].coef, read.steps[Smaller(read.blocks[n].comp, 1)],
                    Transform(BlockShown(f, picture, n)))

(* The picture fmt2jpg hands over, unless jpg_buf was too small for it, is a    *)
(* JPEG file of the frame's size in which a decoder finds the frame: in the     *)
(* order of the scan each block is the cosine transform of the pixels it covers.*)
PictureShowsFrame ==
  pc = "done" /\ enc.stream = enc.emitted =>
    Shows(Decoded(enc.stream), frame, Picture(frame))

===============================================================================
