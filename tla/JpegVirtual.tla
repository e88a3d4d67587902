---------------------------- MODULE JpegVirtual ----------------------------
(***************************************************************************)
(* A virtual array of the JPEG memory manager (jmemmgr.c): a strip of the  *)
(* array is in memory, the rest in a temporary file.  Sample and block     *)
(* arrays have the same code.  A row is a value; the strip is cut into     *)
(* chunks because an allocation has a largest size.                        *)
(***************************************************************************)
EXTENDS Integers, FiniteSetsExt

CONSTANTS
  rows_in_array, maxaccess,
  MinHeights,  \* how many times maxaccess rows fit into the memory
  Values       \* values that callers write; 0 is what is zeroed

VirtualAssumption ==
  /\ {rows_in_array, maxaccess} \subseteq Nat \ {0}
  /\ MinHeights \subseteq Nat \ {0} /\ Values \subseteq Nat \ {0}

Contents == Values \cup {0}
Unwritten == -1

VARIABLES
  pre_zero, rows_in_mem, rowsperchunk, b_s_open,  \* from the request
  mem_buffer, cur_start_row, first_undef_row, dirty,
  temp_file,    \* the rows of the temporary file, Unwritten past its end
  access,       \* the rows given to the caller last
  exited        \* why the process has ended

request == <<pre_zero, rows_in_mem, rowsperchunk, b_s_open>>
vars == <<request, mem_buffer, cur_start_row, first_undef_row, dirty,
          temp_file, access, exited>>

AllRows == 0..rows_in_array - 1

\* request_virt_sarray() and realize_virt_arrays(): the buffer is full height,
\* or there is a file.  Memory comes with whatever is in it.
Init ==
  /\ pre_zero \in BOOLEAN
  /\ \E m \in MinHeights :
       LET fits == (rows_in_array - 1) \div maxaccess + 1 <= m
       IN /\ rows_in_mem = (IF fits THEN rows_in_array ELSE m * maxaccess)
          /\ b_s_open = ~fits
  /\ rowsperchunk \in 1..rows_in_mem
  /\ \E c \in Contents : mem_buffer = [n \in 0..rows_in_mem - 1 |-> c]
  /\ cur_start_row = 0 /\ first_undef_row = 0 /\ dirty = FALSE
  /\ temp_file = [r \in AllRows |-> Unwritten]
  /\ access = [first |-> 0, rows |-> 0, writable |-> FALSE] /\ exited = "no"

-----------------------------------------------------------------------------
(* Input and output of the strip.                                          *)

\* Rows of the chunk b to transfer: those that are defined and in the file.
ChunkRows(b, start) ==
  LET thisrow == start + b * rowsperchunk
  IN Min({rowsperchunk, rows_in_mem - b * rowsperchunk,
          first_undef_row - thisrow, rows_in_array - thisrow})

Chunks == 0..(rows_in_mem - 1) \div rowsperchunk

\* The row of the file at which each chunk begins.
Offsets(start) ==
  LET offset[b \in Chunks] ==
        IF b = 0 THEN start ELSE offset[b - 1] + ChunkRows(b - 1, start)
  IN offset

\* do_sarray_io(): places in the buffer and rows of the file that belong
\* together, chunk by chunk until one has no rows.
Transfers(start) ==
  LET done == {b \in Chunks : \A a \in 0..b : ChunkRows(a, start) > 0}
  IN UNION {{<<b * rowsperchunk + k, Offsets(start)[b] + k>> :
               k \in 0..ChunkRows(b, start) - 1} : b \in done}

Stored(file, pairs) ==
  [r \in AllRows |-> IF \E p \in pairs : p[2] = r
                     THEN mem_buffer[(CHOOSE p \in pairs : p[2] = r)[1]]
                     ELSE file[r]]

Loaded(file, pairs) ==
  [n \in 0..rows_in_mem - 1 |-> IF \E p \in pairs : p[1] = n
                                THEN file[(CHOOSE p \in pairs : p[1] = n)[2]]
                                ELSE mem_buffer[n]]

-----------------------------------------------------------------------------
(* access_virt_sarray()                                                    *)

Exit(why) ==
  /\ exited' = why
  /\ UNCHANGED <<request, mem_buffer, cur_start_row, first_undef_row, dirty,
                 temp_file, access>>

\* Forwards the window starts with the rows wanted, backwards it ends there.
NewStart(first, end) ==
  IF first > cur_start_row THEN first ELSE Max({end - rows_in_mem, 0})

\* Mutant: what is in the buffer is written only when it was zeroed before.
FlushIfZero(file) == IF dirty /\ pre_zero THEN Stored(file, Transfers(cur_start_row)) ELSE file

Flushed(file) == IF dirty THEN Stored(file, Transfers(cur_start_row)) ELSE file

\* The rows to zero.
UndefinedRows(first, end, writable) ==
  (IF first_undef_row < first THEN first ELSE first_undef_row)..end - 1

Outside(first, end) == first < cur_start_row \/ end > cur_start_row + rows_in_mem

\* The end of the access, with the strip from row start on in the buffer.
Grant(first, end, writable, start, buffer) ==
  /\ first_undef_row' = IF writable /\ first_undef_row < end
                        THEN end ELSE first_undef_row
  /\ mem_buffer' = [n \in DOMAIN buffer |->
                      IF pre_zero /\ start + n \in UndefinedRows(first, end, writable)
                      THEN 0 ELSE buffer[n]]
  /\ cur_start_row' = start
  /\ access' = [first |-> first, rows |-> end - first, writable |-> writable]
  /\ UNCHANGED <<request, exited>>

BadAccess(first, end, writable) ==
  \/ end > rows_in_array \/ end - first > maxaccess
  \/ first_undef_row < end
       /\ IF writable THEN first_undef_row < first ELSE ~pre_zero

access_virt_sarray(first, n, writable) ==
  LET end   == first + n
      start == NewStart(first, end)
      file  == Flushed(temp_file)
      pairs == Transfers(start)
  IN \/ BadAccess(first, end, writable) /\ Exit("bad access")
     \/ /\ ~BadAccess(first, end, writable) /\ Outside(first, end)
        /\ \/ ~b_s_open /\ Exit("no backing store")
           \/ /\ b_s_open /\ \E p \in pairs : file[p[2]] = Unwritten
              /\ Exit("read past the end")
           \/ /\ b_s_open /\ \A p \in pairs : file[p[2]] # Unwritten
              /\ temp_file' = file /\ dirty' = writable
              /\ Grant(first, end, writable, start, Loaded(file, pairs))
     \/ /\ ~BadAccess(first, end, writable) /\ ~Outside(first, end)
        /\ dirty' = (dirty \/ writable) /\ UNCHANGED temp_file
        /\ Grant(first, end, writable, cur_start_row, mem_buffer)

\* The caller writes a row that it was given.
WriteRow(r, v) ==
  /\ access.writable /\ r \in access.first..access.first + access.rows - 1
  /\ mem_buffer' = [mem_buffer EXCEPT ![r - cur_start_row] = v]
  /\ UNCHANGED <<request, cur_start_row, first_undef_row, dirty, temp_file,
                 access, exited>>

Next ==
  /\ exited = "no"
  /\ \/ \E first \in AllRows, n \in 1..maxaccess + 1, w \in BOOLEAN :
          access_virt_sarray(first, n, w)
     \/ \E r \in AllRows, v \in Values : WriteRow(r, v)

Spec == Init /\ [][Next]_vars

-----------------------------------------------------------------------------
(* Properties.                                                             *)

TypeOK ==
  /\ mem_buffer \in [0..rows_in_mem - 1 -> Contents]
  /\ cur_start_row \in AllRows /\ first_undef_row \in 0..rows_in_array
  /\ temp_file \in [AllRows -> Contents \cup {Unwritten}]
  /\ access.first >= cur_start_row
  /\ access.first + access.rows <= cur_start_row + rows_in_mem

\* The file is never asked for a row that was not written to it, nor an array
\* without a file for one that is not in memory (do_sarray_io,
\* access_virt_sarray).
ReadsWhatWasWritten == exited \in {"no", "bad access"}

\* A reader that is ahead of the writer sees zeroes, wherever the window was
\* before (access_virt_sarray).
ReadsZeroes ==
  \A r \in access.first..access.first + access.rows - 1 :
    r >= first_undef_row => mem_buffer[r - cur_start_row] = 0

\* A row is in the buffer if the window is on it, else in the file.
RowNow(r) ==
  IF r >= first_undef_row THEN 0
  ELSE IF r \in cur_start_row..cur_start_row + rows_in_mem - 1
       THEN mem_buffer[r - cur_start_row] ELSE temp_file[r]

Plain == INSTANCE PlainArray
  WITH Rows <- rows_in_array, MaxAccess <- maxaccess, preZero <- pre_zero,
       row <- [r \in AllRows |-> RowNow(r)], defined <- first_undef_row,
       grant <- access

\* To its callers the window over buffer and file is a plain array.
ImplementsArray == Plain!Spec

=============================================================================
