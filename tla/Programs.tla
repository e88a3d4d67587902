------------------------------ MODULE Programs ------------------------------
(***************************************************************************)
(* Instances of the parts whose properties are about what single calls     *)
(* leave behind: those of Servos, of Memories and of Natives, and the      *)
(* entropy encoder of the JPEG library.  None of them shares state with    *)
(* another, so a behaviour is one of the part chosen at its beginning; the *)
(* variables of the others stay what they are.                             *)
(*                                                                         *)
(* Three servos, two of them with their pins crossed, and offsets around a *)
(* change of the high byte and of the sign.  Two pages of two rows, of     *)
(* which one has its bit in the status byte.  The first and the last servo *)
(* pin, an angle in the middle and one at the end, a pulse width that only *)
(* the first pin has room for in the chip's cycle, and bounds that make a  *)
(* degree wider and narrower.  Integers of                                 *)
(* five bits and a clock of eight, which wraps after 256, and a leg that   *)
(* moves in one clock tick or in four.  Pictures of three rows and five    *)
(* columns in two by two blocks, so that a row and a column are left over: *)
(* all pixels but one of a colour, and columns in two colours.  An array   *)
(* of four rows through a window of two or four.  Pools that hold two      *)
(* small objects and arrays of more rows than fit into an allocation.      *)
(* Bytes of three bits, so that all ones come up, and runs longer than a   *)
(* symbol can say; tables that are codes and tables that are none.         *)
(***************************************************************************)
EXTENDS Servos, Memories, Natives, Integers, Sequences

VARIABLES
  program, dc, ac, bufsize, saved, out, mcus, at, block, expected

Pixel == (0..2) \X (0..4)

\* All pixels of one colour but one, and columns of two colours.
SomePictures ==
  {[p \in Pixel |-> IF p = one THEN <<a, 200 - a>> ELSE <<115, 95>>] :
     one \in Pixel, a \in {100, 122}}
  \cup {[p \in Pixel |-> colour[p[2]]] :
          colour \in [0..4 -> {<<100, 100>>, <<100, 130>>}]}

SomeSlop  == [p \in 0..1 |-> IF p = 0 THEN 4 ELSE 9]
ExtraSlop == [p \in 0..1 |-> IF p = 0 THEN 0 ELSE 4]

Huffman == INSTANCE JpegHuffman
  WITH ByteBits <- 3, BufferBits <- 7, MaxRun <- 1, Coefficients <- 4,
       DCTables <- {<<1, 1, 1>>, <<0, 3>>, <<1, 2>>},
       ACTables <- {<<1, 1, 1, 1>>, <<0, 2, 2>>, <<0, 3, 1>>, <<1, 0, 3>>,
                    <<1, 1, 2>>, <<0, 4>>, <<1, 1, 1>>},
       DCSymbols <- <<0, 1, 2>>,
       ACSymbols <- <<<<0, 0>>, <<0, 1>>, <<1, 0>>, <<1, 1>>>>,
       Blocks <- {[k \in 0..3 |-> b[k + 1]] :
                    b \in {0, -2} \X {0, 1} \X {0, 1} \X {-1, 0, 1}},
       Frees <- {2, 3, 5, 30}, MaxMCUs <- 2

ASSUME InstancesAssumption ==
  /\ EPROM!ChipAssumption /\ Shield!ShieldAssumption /\ Leg!InterpolationAssumption
  /\ Search!BlobAssumption /\ Virtual!VirtualAssumption
  /\ Memory!MemoryAssumption /\ Huffman!HuffmanAssumption

SomeMap     == <<0, 2, 1>>
SomeEarlier == {-256, 255}
SomeBounds  == {<<544, 4095>>, <<1400, 1585>>}

boardVars   == <<epromVars, shieldVars, legVars>>
huffmanVars == <<dc, ac, bufsize, saved, out, mcus, at, block, expected>>
jpegVars    == <<virtualVars, memoryVars, huffmanVars>>
nativeVars  == <<searchVars, jpegVars>>
everything  == <<program, vars, boardVars, nativeVars>>

\* The programs that are not chosen have one initial state each.
ProgramsInit ==
  /\ program \in {"offsets", "eprom", "shield", "leg", "search", "virtual",
                  "memory", "huffman"}
  /\ Init /\ EPROM!Init /\ Shield!Init /\ Leg!Init
  /\ Search!Init /\ Virtual!Init /\ Memory!Init /\ Huffman!Init
  /\ program # "offsets" => \A p \in Pins : value[p] = 255
  /\ program # "eprom" => chip = "EPROM" /\ progPin
  /\ program # "shield" => inTime = [p \in ShieldPins |-> TRUE]
  /\ program # "leg" => now = 1 /\ position = 2
  /\ program # "virtual" =>
       pre_zero /\ rows_in_mem = 2 /\ rowsperchunk = 1 /\ mem_buffer[0] = 0
  /\ program # "huffman" => bufsize = 30

Offsets(A) == program = "offsets" /\ A /\ UNCHANGED <<program, boardVars, nativeVars>>

Dallas(A) ==
  program = "eprom" /\ A /\ UNCHANGED <<program, vars, shieldVars, legVars, nativeVars>>
Mech(A) ==
  program = "shield" /\ A /\ UNCHANGED <<program, vars, epromVars, legVars, nativeVars>>
OneLeg(A) ==
  program = "leg" /\ A /\ UNCHANGED <<program, vars, epromVars, shieldVars, nativeVars>>

Searching(A) ==
  program = "search" /\ A /\ UNCHANGED <<program, vars, boardVars, jpegVars>>

Accessing(A) ==
  /\ program = "virtual" /\ A
  /\ UNCHANGED <<program, vars, boardVars, searchVars, memoryVars, huffmanVars>>
Allocating(A) ==
  /\ program = "memory" /\ A
  /\ UNCHANGED <<program, vars, boardVars, searchVars, virtualVars, huffmanVars>>
Encoding(A) ==
  /\ program = "huffman" /\ A
  /\ UNCHANGED <<program, vars, boardVars, searchVars, virtualVars, memoryVars>>

ProgramsNext ==
  \/ Offsets(Next) \/ Dallas(EPROM!Next) \/ Mech(Shield!Next) \/ OneLeg(Leg!Next)
  \/ Searching(Search!Next)
  \/ Accessing(Virtual!Next) \/ Allocating(Memory!Next) \/ Encoding(Huffman!Next)

ProgramsSpec == ProgramsInit /\ [][ProgramsNext]_everything

-----------------------------------------------------------------------------
(* The property of the instance that is in none of the modules above: a    *)
(* conjunction of its own properties, with the types of its state.         *)

\* JpegHuffman: the destination holds the codes of the blocks, without anything
\* that looks like a marker, and they can be told apart (encode_mcu_huff).
CodesReadBack ==
  Huffman!StreamIsCodes /\ Huffman!NoMarkerInside /\ Huffman!Decodable

=============================================================================
