------------------------------ MODULE Memories ------------------------------
(***************************************************************************)
(* Three memories, each against what its callers are told: the chip behind *)
(* the DallasEPROM library (DallasEPROM), a virtual array of the JPEG      *)
(* library (JpegVirtual), and that library's pools (JpegMemory).           *)
(***************************************************************************)

CONSTANTS
  Pages, Rows, StatusBits, Chips, MaxOps, MaxFaults,
  rows_in_array, maxaccess, MinHeights, RowValues,
  ALIGN, HDR, MAX_ALLOC_CHUNK, first_pool_slop, extra_pool_slop, MIN_SLOP,
  CONTROL, ObjectSizes, Widths, Heights, MaxAllocs

VARIABLES
  chip, progPin, connected, faults, mem, scratch, selected, cut, pc, row, auth,
  calls, ret, data, before, clean,
  pre_zero, rows_in_mem, rowsperchunk, b_s_open, mem_buffer, cur_start_row,
  first_undef_row, dirty, temp_file, access, exited,
  m, made, memoryCalls

EPROM   == INSTANCE DallasEPROM
Virtual == INSTANCE JpegVirtual WITH Values <- RowValues
Memory  == INSTANCE JpegMemory WITH MaxCalls <- MaxAllocs, calls <- memoryCalls

epromVars   == <<chip, progPin, connected, faults, mem, scratch, selected, cut,
                 pc, row, auth, calls, ret, data, before, clean>>
virtualVars == <<pre_zero, rows_in_mem, rowsperchunk, b_s_open, mem_buffer,
                 cur_start_row, first_undef_row, dirty, temp_file, access, exited>>
memoryVars  == <<m, made, memoryCalls>>

-----------------------------------------------------------------------------
(* Properties, which the modules explain.                                  *)

\* DallasEPROM: whatever the chip misses, it holds what was asked for, errors
\* change nothing, what is said to be read is torn at most where the chip left,
\* and a call that was heard to its end has done its work (writePage, lockPage,
\* readPage, isPageLocked).
ChipTellsTruth == EPROM!ChipTellsTruth

\* JpegVirtual: a window over buffer and file is a plain array
\* (access_virt_sarray, do_sarray_io).
ImplementsArray == Virtual!ImplementsArray

\* JpegMemory: objects do not overlap, the count is what is held, nothing is left
\* after a picture.  JpegVirtual: an array reads from its file only what it wrote,
\* and zeroes ahead of the writer (jmemmgr.c).
MemoryHolds ==
  /\ Memory!ObjectsApart /\ Memory!TotalIsHeld /\ Memory!NothingLeft
  /\ Virtual!TypeOK /\ Virtual!ReadsWhatWasWritten /\ Virtual!ReadsZeroes

=============================================================================
