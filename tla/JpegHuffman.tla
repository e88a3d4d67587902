---------------------------- MODULE JpegHuffman ----------------------------
(***************************************************************************)
(* The entropy encoder of the JPEG library (jchuff.c): the codes derived   *)
(* from a table of counts, a block as a sequence of symbols and bits, the  *)
(* bit buffer with its stuffed bytes, and an MCU that is given up when the *)
(* destination of framebuffet.c is full, which starts again from its       *)
(* beginning.  JpegCompress has the calls and no contents.                 *)
(*                                                                         *)
(* The widths are constants: the code has bytes of 8 bits, a buffer of 24, *)
(* runs of up to 15 and 64 coefficients, and counts for 16 lengths.  One   *)
(* component, one block to an MCU, and no restart markers.                 *)
(***************************************************************************)
EXTENDS Integers, FiniteSetsExt, SequencesExt

CONSTANTS
  ByteBits, BufferBits, MaxRun, Coefficients,
  DCTables, ACTables,  \* what bits[] may be
  DCSymbols, ACSymbols,\* huffval[]: numbers of bits, pairs of a run and that
  Blocks,              \* blocks that are encoded
  Frees,               \* sizes of the destination's buffer
  MaxMCUs              \* bound: MCUs

HuffmanAssumption ==
  /\ {ByteBits, BufferBits, Coefficients} \subseteq Nat \ {0, 1} /\ MaxRun \in Nat
  /\ \A t \in DCTables \cup ACTables : Len(t) + ByteBits - 1 <= BufferBits
  /\ \A b \in Blocks : b \in [0..Coefficients - 1 -> Int]
  /\ Frees \subseteq Nat \ {0} /\ MaxMCUs \in Nat

VARIABLES
  dc, ac,          \* dc_derived_tbls and ac_derived_tbls
  bufsize,
  saved,           \* put_buffer, put_bits and last_dc_val
  out,             \* the bytes in the destination's buffer
  mcus,            \* MCUs tried
  at,              \* "start", "scan", "finished" or "exited"
  block,           \* the block just encoded, with the prediction for it
  expected         \* the bits that out and the bit buffer should hold (history)

vars == <<dc, ac, bufsize, saved, out, mcus, at, block, expected>>

Init ==
  /\ dc = << >> /\ ac = << >> /\ bufsize \in Frees /\ out = << >>
  /\ saved = [put_buffer |-> 0, put_bits |-> 0, last_dc_val |-> 0]
  /\ mcus = 0 /\ at = "start" /\ block = << >> /\ expected = << >>

-----------------------------------------------------------------------------
(* jpeg_make_c_derived_tbl()                                               *)

\* Figure C.1: code lengths in the order of the symbols.
huffsize(bits) == FlattenSeq([l \in 1..Len(bits) |-> [n \in 1..bits[l] |-> l]])

\* Figure C.2: consecutive codes, continued at the next length.
huffcode(bits) ==
  LET size == huffsize(bits)
      code[p \in 1..Len(size)] ==
        IF p = 1 THEN 0 ELSE (code[p - 1] + 1) * 2^(size[p] - size[p - 1])
  IN code

\* No code is all ones: the code after the last of a length still fits.
Legal(bits) ==
  \A p \in DOMAIN huffsize(bits) : huffcode(bits)[p] + 1 < 2^huffsize(bits)[p]

\* The symbols that have no code are left out.
Derived(bits, symbols) ==
  LET coded == {n \in 1..Len(symbols) : n <= Len(huffsize(bits))}
  IN [s \in {symbols[n] : n \in coded} |->
        LET p == CHOOSE n \in coded : symbols[n] = s
        IN [code |-> huffcode(bits)[p], size |-> huffsize(bits)[p]]]

start_pass_huff ==
  /\ at = "start"
  /\ \E d \in DCTables, a \in ACTables :
       IF Legal(d) /\ Legal(a)
       THEN /\ dc' = Derived(d, DCSymbols) /\ ac' = Derived(a, ACSymbols)
            /\ at' = "scan"
       ELSE at' = "exited" /\ UNCHANGED <<dc, ac>>
  /\ UNCHANGED <<bufsize, saved, out, mcus, block, expected>>

-----------------------------------------------------------------------------
(* encode_one_block()                                                      *)

Abs(v) == IF v < 0 THEN -v ELSE v
nbits(v) == Min({n \in 0..Abs(v) : Abs(v) < 2^n})

Symbol(table, s) == <<[from |-> table, symbol |-> s]>>

\* The bits of a value; of a negative one those of the number below it.
Value(v) ==
  IF v = 0 THEN << >>
  ELSE <<[code |-> IF v < 0 THEN v - 1 ELSE v, size |-> nbits(v)]>>

\* A symbol for each full run before the one that ends.
FullRuns(r) ==
  FlattenSeq([n \in 1..r \div (MaxRun + 1) |-> Symbol("ac", <<MaxRun, 0>>)])

ACCoefficient(acc, v) ==
  IF v = 0 THEN [acc EXCEPT !.r = @ + 1]
  ELSE [r |-> 0,
        parts |-> acc.parts \o FullRuns(acc.r)
                    \o Symbol("ac", <<acc.r % (MaxRun + 1), nbits(v)>>) \o Value(v)]

\* The block as symbols and values; the zeroes at its end are one symbol.
Parts(b, last_dc_val) ==
  LET diff == b[0] - last_dc_val
      all  == FoldLeft(ACCoefficient,
                [r |-> 0, parts |-> Symbol("dc", nbits(diff)) \o Value(diff)],
                [k \in 1..Coefficients - 1 |-> b[k]])
  IN all.parts \o IF all.r > 0 THEN Symbol("ac", <<0, 0>>) ELSE << >>

HasCode(part) ==
  "from" \notin DOMAIN part
    \/ part.symbol \in (IF part.from = "dc" THEN DOMAIN dc ELSE DOMAIN ac)

Coded(part) ==
  IF "from" \notin DOMAIN part THEN part
  ELSE IF part.from = "dc" THEN dc[part.symbol] ELSE ac[part.symbol]

-----------------------------------------------------------------------------
(* emit_bits() on the working state.  Once the destination is full, ok is  *)
(* FALSE and the callers return.                                           *)

FF == 2^ByteBits - 1

emit_byte(w, c) ==
  IF ~w.ok THEN w
  ELSE [w EXCEPT !.out = Append(@, c), !.ok = Len(w.out) + 1 < bufsize]

Stuffed(w, c) ==
  IF c = FF THEN emit_byte(emit_byte(w, c), 0) ELSE emit_byte(w, c)

emit_bits(w, part) ==
  LET put_bits   == w.put_bits + part.size
      put_buffer == (part.code % 2^part.size) * 2^(BufferBits - put_bits) + w.put_buffer
      whole      == put_bits \div ByteBits
      c(k)       == (put_buffer \div 2^(BufferBits - k * ByteBits)) % 2^ByteBits
  IN IF ~w.ok THEN w
     ELSE [FoldLeft(LAMBDA u, k : Stuffed(u, c(k)), w, [k \in 1..whole |-> k]) EXCEPT
             !.put_buffer = (put_buffer * 2^(whole * ByteBits)) % 2^BufferBits,
             !.put_bits = put_bits - whole * ByteBits]

Working == [out |-> out, ok |-> TRUE, put_buffer |-> saved.put_buffer,
            put_bits |-> saved.put_bits]

\* The bits of a number, the highest first.
BitsOf(v, n) == [k \in 1..n |-> (v \div 2^(n - k)) % 2]
Pending == BitsOf(saved.put_buffer \div 2^(BufferBits - saved.put_bits), saved.put_bits)

BitsOfParts(parts) ==
  FlattenSeq([k \in DOMAIN parts |-> BitsOf(Coded(parts[k]).code, Coded(parts[k]).size)])

\* Mutant: an MCU that is given up leaves its bits in the bit buffer.
SaveAnyway(w, b) ==
  saved' = [put_buffer |-> w.put_buffer, put_bits |-> w.put_bits,
            last_dc_val |-> IF w.ok THEN b[0] ELSE saved.last_dc_val]

\* The state is stored when the MCU is complete, and only then.
Save(w, b) ==
  saved' = IF w.ok THEN [put_buffer |-> w.put_buffer, put_bits |-> w.put_bits,
                         last_dc_val |-> b[0]]
                   ELSE saved

\* How many parts come before one without a code.
CodedParts(parts) ==
  Max({n \in 0..Len(parts) : \A k \in 1..n : HasCode(parts[k])})

\* A part without a code ends the process, unless the buffer is full before;
\* a full buffer is emptied.
encode_mcu_huff(b) ==
  LET parts == Parts(b, saved.last_dc_val)
      n     == CodedParts(parts)
      w     == FoldLeft(LAMBDA u, part : emit_bits(u, Coded(part)), Working,
                        SubSeq(parts, 1, n))
  IN /\ at = "scan" /\ mcus < MaxMCUs /\ mcus' = mcus + 1
     /\ IF w.ok /\ n < Len(parts)
        THEN at' = "exited" /\ UNCHANGED <<saved, out, expected, block>>
        ELSE /\ Save(w, b) /\ out' = IF w.ok THEN w.out ELSE << >>
             /\ expected' = IF w.ok THEN expected \o BitsOfParts(parts) ELSE Pending
             /\ block' = (IF w.ok THEN <<b, saved.last_dc_val>> ELSE << >>)
             /\ UNCHANGED at
     /\ UNCHANGED <<dc, ac, bufsize>>

\* flush_bits() fills the last byte with ones; it cannot be given up.
finish_pass_huff ==
  LET w == emit_bits(Working, [code |-> 2^(ByteBits - 1) - 1, size |-> ByteBits - 1])
  IN /\ at = "scan" /\ out' = (IF w.ok THEN w.out ELSE << >>)
     /\ at' = IF w.ok THEN "finished" ELSE "exited"
     /\ saved' = IF w.ok THEN [saved EXCEPT !.put_buffer = 0, !.put_bits = 0] ELSE saved
     /\ UNCHANGED <<dc, ac, bufsize, mcus, block, expected>>

Next == start_pass_huff \/ finish_pass_huff \/ \E b \in Blocks : encode_mcu_huff(b)

Spec == Init /\ [][Next]_vars

-----------------------------------------------------------------------------
(* Properties.                                                             *)

IsStuffing(n) == n > 1 /\ out[n] = 0 /\ out[n - 1] = FF

\* What a decoder reads: the bytes without the stuffed ones.
Read ==
  FlattenSeq([n \in DOMAIN out |-> IF IsStuffing(n) THEN << >> ELSE BitsOf(out[n], ByteBits)])

\* The destination holds the codes of the MCUs since it was emptied, bit by
\* bit and less than a byte behind, whatever was given up in between; at the
\* end ones are added (emit_bits, encode_mcu_huff).
StreamIsCodes ==
  /\ saved.put_bits < ByteBits
  /\ at = "scan" => Read \o Pending = expected
  /\ at = "finished" => /\ IsPrefix(expected, Read) /\ Len(Read) - Len(expected) < ByteBits
                        /\ \A k \in Len(expected) + 1..Len(Read) : Read[k] = 1

\* Nothing in the data looks like a marker (emit_bits, flush_bits).
NoMarkerInside ==
  \A n \in DOMAIN out : out[n] = FF => n < Len(out) /\ out[n + 1] = 0

\* Blocks can be told apart as they are read: the bits of one are never the
\* beginning of another's, for every table that is accepted
\* (jpeg_make_c_derived_tbl, encode_one_block).
Decodable ==
  block # << >> =>
    LET bits == BitsOfParts(Parts(block[1], block[2]))
    IN \A b \in Blocks \ {block[1]} :
         LET parts == Parts(b, block[2])
         IN (\A k \in DOMAIN parts : HasCode(parts[k]))
              => ~IsPrefix(bits, BitsOfParts(parts))

=============================================================================
