---------------------------- MODULE JpegCompress ----------------------------
(***************************************************************************)
(* put_jpeg_grey_memory() of framebuffet.c: a grey picture goes through    *)
(* the JPEG library row by row into a buffer of fixed size.  The           *)
(* destination manager that framebuffet.c gives to the library sets its    *)
(* pointers back when the buffer is full and asks the library to suspend,  *)
(* which the caller, who ignores what jpeg_write_scanlines() returns, does *)
(* not expect.                                                             *)
(*                                                                         *)
(* One step is one row or one MCU: a component without subsampling has one *)
(* block to the MCU and one row of MCUs to the iMCU row.  What is encoded  *)
(* is abstracted to its number of bytes; an error of the library ends the  *)
(* process (jpeg_std_error).                                               *)
(***************************************************************************)
EXTENDS Integers, Sequences, FiniteSetsExt

CONSTANTS
  image_height,  \* rows of the picture
  MCUs_per_row,
  DCTSIZE,       \* rows of a block, 8 in the code
  HeaderSizes,   \* bytes of the markers before the data
  MCUSizes,      \* bytes that an MCU may add
  BufSizes       \* sizes that the buffer may have

CompressAssumption ==
  /\ image_height \in Nat \ {0} /\ MCUs_per_row \in Nat \ {0}
  /\ DCTSIZE \in Nat \ {0} /\ HeaderSizes \subseteq Nat \ {0}
  /\ MCUSizes \subseteq Nat /\ BufSizes \subseteq Nat \ {0}

VARIABLES
  size,             \* what each part of the picture takes
  bufsize, stream, free_in_buffer, jpegsize,  \* the destination manager
  at,               \* where the call is
  y, next_scanline, in_row_ctr,
  call_pass_startup,
  buffer,           \* the rows in the main buffer; rowgroup_ctr is its length
  rows_to_go,
  cur_iMCU_row, mcu_ctr, suspended

inputVars == <<size, bufsize>>
destVars  == <<stream, free_in_buffer>>
rowVars   == <<y, next_scanline, in_row_ctr>>
mainVars  == <<buffer, rows_to_go, cur_iMCU_row, mcu_ctr, suspended>>
vars == <<inputVars, destVars, jpegsize, at, rowVars, call_pass_startup, mainVars>>

total_iMCU_rows == (image_height + DCTSIZE - 1) \div DCTSIZE
MCUs == (0..total_iMCU_rows - 1) \X (0..MCUs_per_row - 1)

Init ==
  /\ size \in [file : HeaderSizes, frame : HeaderSizes,
               mcu : [MCUs -> MCUSizes], flush : {0, 1}]
  /\ bufsize \in BufSizes
  /\ stream = << >> /\ free_in_buffer = bufsize /\ jpegsize = 0
  /\ at = "start" /\ y = 0 /\ next_scanline = 0 /\ in_row_ctr = 0
  /\ call_pass_startup = TRUE /\ buffer = << >> /\ rows_to_go = image_height
  /\ cur_iMCU_row = 0 /\ mcu_ctr = 0 /\ suspended = FALSE

-----------------------------------------------------------------------------
(* The destination.                                                        *)

\* The buffer counts as full as soon as its last byte is written.
Fits(n) == n = 0 \/ n < free_in_buffer

Emit(part, n) ==
  stream' = Append(stream, part) /\ free_in_buffer' = free_in_buffer - n

empty_output_buffer == stream' = << >> /\ free_in_buffer' = bufsize

\* A marker cannot be suspended: the library ends the process instead.
EmitMarker(part, n, next) ==
  \/ Fits(n) /\ Emit(part, n) /\ at' = next
  \/ ~Fits(n) /\ empty_output_buffer /\ at' = "exited"

-----------------------------------------------------------------------------
(* The call.                                                               *)

jpeg_start_compress ==
  /\ at = "start" /\ EmitMarker("file_header", size.file, "write")
  /\ UNCHANGED <<inputVars, jpegsize, rowVars, call_pass_startup, mainVars>>

jpeg_write_scanlines ==
  /\ at = "write" /\ in_row_ctr' = 0 /\ call_pass_startup' = FALSE
  /\ IF call_pass_startup THEN EmitMarker("frame_header", size.frame, "main")
                          ELSE at' = "main" /\ UNCHANGED destVars
  /\ UNCHANGED <<inputVars, jpegsize, y, next_scanline, mainVars>>

\* At the bottom of the picture the last row is repeated.
pre_process_data ==
  /\ at = "main" /\ cur_iMCU_row < total_iMCU_rows
  /\ Len(buffer) < DCTSIZE /\ in_row_ctr = 0
  /\ in_row_ctr' = 1 /\ rows_to_go' = rows_to_go - 1
  /\ buffer' = IF rows_to_go' = 0
               THEN [n \in 1..DCTSIZE |-> IF n <= Len(buffer) THEN buffer[n] ELSE y]
               ELSE Append(buffer, y)
  /\ UNCHANGED <<inputVars, destVars, jpegsize, at, y, next_scanline,
                 call_pass_startup, cur_iMCU_row, mcu_ctr, suspended>>

\* Back to the caller, who takes the next row whatever is returned.
ReturnRows(n) ==
  /\ next_scanline' = next_scanline + n /\ y' = y + 1
  /\ at' = IF y' < image_height THEN "write" ELSE "finish"

NeedsInput ==
  /\ at = "main" /\ ReturnRows(in_row_ctr)
  /\ \/ cur_iMCU_row = total_iMCU_rows
     \/ Len(buffer) < DCTSIZE /\ in_row_ctr = 1
  /\ UNCHANGED <<inputVars, destVars, jpegsize, in_row_ctr, call_pass_startup,
                 mainVars>>

Encoding == at = "main" /\ cur_iMCU_row < total_iMCU_rows /\ Len(buffer) = DCTSIZE
mcu == <<cur_iMCU_row, mcu_ctr>>

\* encode_mcu_huff(), and at the end of a row of MCUs the hack undone.
EncodeMCU ==
  /\ Encoding /\ Fits(size.mcu[mcu])
  /\ Emit([mcu |-> mcu, rows |-> buffer], size.mcu[mcu])
  /\ IF mcu_ctr + 1 < MCUs_per_row
     THEN /\ mcu_ctr' = mcu_ctr + 1
          /\ UNCHANGED <<buffer, cur_iMCU_row, suspended, in_row_ctr>>
     ELSE /\ mcu_ctr' = 0 /\ cur_iMCU_row' = cur_iMCU_row + 1
          /\ buffer' = << >> /\ suspended' = FALSE
          /\ in_row_ctr' = IF suspended THEN in_row_ctr + 1 ELSE in_row_ctr
  /\ UNCHANGED <<inputVars, jpegsize, at, y, next_scanline, call_pass_startup,
                 rows_to_go>>

\* Mutant: the library tries again by itself.
TryAgain ==
  /\ Encoding /\ ~Fits(size.mcu[mcu]) /\ empty_output_buffer
  /\ UNCHANGED <<inputVars, jpegsize, at, rowVars, call_pass_startup, mainVars>>

\* The buffer is full in the middle of an MCU: nothing of the MCU is kept, and
\* the last row passed is said not to have been taken.
Suspend ==
  /\ Encoding /\ ~Fits(size.mcu[mcu]) /\ empty_output_buffer
  /\ in_row_ctr' = (IF suspended THEN in_row_ctr ELSE in_row_ctr - 1)
  /\ suspended' = TRUE
  /\ ReturnRows(in_row_ctr')
  /\ UNCHANGED <<inputVars, jpegsize, call_pass_startup, buffer, rows_to_go,
                 cur_iMCU_row, mcu_ctr>>

\* Mutant: the rows are not counted.
FinishAnyway ==
  /\ at = "finish" /\ EmitMarker("flush", size.flush, "trailer")
  /\ UNCHANGED <<inputVars, jpegsize, rowVars, call_pass_startup, mainVars>>

jpeg_finish_compress ==
  /\ at = "finish"
  /\ \/ next_scanline < image_height /\ at' = "exited" /\ UNCHANGED destVars
     \/ next_scanline >= image_height /\ EmitMarker("flush", size.flush, "trailer")
  /\ UNCHANGED <<inputVars, jpegsize, rowVars, call_pass_startup, mainVars>>

EOISize == 2

\* The trailer, and with term_destination() the size that is returned.
write_file_trailer ==
  /\ at = "trailer" /\ EmitMarker("EOI", EOISize, "returned")
  /\ jpegsize' = IF at' = "returned" THEN bufsize - free_in_buffer' ELSE jpegsize
  /\ UNCHANGED <<inputVars, rowVars, call_pass_startup, mainVars>>

Next ==
  \/ jpeg_start_compress \/ jpeg_write_scanlines \/ pre_process_data
  \/ NeedsInput \/ EncodeMCU \/ Suspend \/ jpeg_finish_compress
  \/ write_file_trailer

Spec == Init /\ [][Next]_vars /\ WF_vars(Next)

-----------------------------------------------------------------------------
(* Properties.                                                             *)

\* Types; the row counter, which is unsigned, is never taken below zero
\* (process_data_simple_main).
TypeOK ==
  /\ at \in {"start", "write", "main", "finish", "trailer", "returned", "exited"}
  /\ in_row_ctr \in {0, 1} /\ free_in_buffer \in 1..bufsize
  /\ y \in 0..image_height /\ next_scanline \in 0..y
  /\ rows_to_go \in 0..image_height /\ cur_iMCU_row \in 0..total_iMCU_rows
  /\ mcu_ctr \in 0..MCUs_per_row - 1 /\ Len(buffer) <= DCTSIZE
  /\ {suspended, call_pass_startup} \subseteq BOOLEAN /\ jpegsize \in 0..bufsize

\* The rows of an iMCU row, the last of the picture repeated.
RowsOf(r) ==
  [n \in 1..DCTSIZE |-> LET row == r * DCTSIZE + n - 1
                        IN IF row < image_height THEN row ELSE image_height - 1]

Picture ==
  <<"file_header", "frame_header">>
    \o [n \in 1..total_iMCU_rows * MCUs_per_row |->
          LET r == (n - 1) \div MCUs_per_row
          IN [mcu |-> <<r, (n - 1) % MCUs_per_row>>, rows |-> RowsOf(r)]]
    \o <<"flush", "EOI">>

PictureSize ==
  size.file + size.frame + MapThenSumSet(LAMBDA b : size.mcu[b], MCUs)
    + size.flush + EOISize

\* A picture that is returned is whole, from the header to the end marker, with
\* every block in its place, and its size is right: although the caller does
\* not look at what jpeg_write_scanlines() returns, a suspension always leaves
\* a row short at the end (put_jpeg_grey_memory, jpeg_finish_compress).
ReturnedWhole ==
  at = "returned" => stream = Picture /\ jpegsize = PictureSize

\* The process ends only for a picture that does not fit into the buffer with
\* a byte to spare (empty_output_buffer, emit_byte).
ExitsOnlyWhenFull == at = "exited" => PictureSize >= bufsize

\* The call ends, even if a single block is larger than the buffer.
CompressionEnds == <>(at \in {"returned", "exited"})

=============================================================================
