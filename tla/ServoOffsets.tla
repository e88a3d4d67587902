---------------------------- MODULE ServoOffsets ----------------------------
(***************************************************************************)
(* The servo offset tool (offsets.pde): an offset for each servo, adjusted *)
(* over the serial line, stored in two bytes of EEPROM that are written    *)
(* one after the other, and read back by the tool and by the robot         *)
(* (getOffset of robot.pde), with a reset of the board at any time.        *)
(***************************************************************************)
EXTENDS Integers

CONSTANTS
  NUM_SERVOS,  \* 9 in the code
  ssmap,       \* ServoShieldPins.h: from the servo's number to its pin
  Earlier,     \* offsets that an earlier session may have stored
  MaxPresses   \* bound: presses of + and -

Int16 == {i \in Int : -32768 <= i /\ i <= 32767}
Pins == 0..NUM_SERVOS - 1

ASSUME OffsetsAssumption ==
  /\ NUM_SERVOS \in Nat \ {0}
  /\ ssmap \in [1..NUM_SERVOS -> Pins]
  /\ \A m, n \in 1..NUM_SERVOS : ssmap[m] = ssmap[n] => m = n
  /\ MaxPresses \in Nat /\ Earlier \subseteq Int16

VARIABLES
  presses,
  offsets,  \* the offsets in RAM, by pin
  cservo,   \* the pin that + and - adjust
  eeprom,   \* by pin, the two bytes
  saving,   \* the number of the servo that save() has come to, 0 outside
  half,     \* the first byte of the servo has been written
  value,    \* by pin, the offset whose writing was begun last (history)
  torn      \* pins of which only the first byte was written (history)

ramVars == <<offsets, cservo, saving, half>>
vars == <<presses, ramVars, eeprom, value, torn>>

High(val) == (val \div 256) % 256
Low(val)  == val % 256

\* Mutant: the first byte is not read as that of a signed number.
JoinUnsigned(hi, lo) == hi * 256 + lo

\* readInt(), getOffset(): an int has 16 bits.
Join(hi, lo) ==
  LET tmp == hi * 256 + lo
  IN IF tmp >= 32768 THEN tmp - 65536 ELSE tmp

Bytes(val) == <<High(val), Low(val)>>

Init ==
  /\ offsets = [p \in Pins |-> 0] /\ cservo = 0 /\ presses = 0
  /\ saving = 0 /\ half = FALSE
  /\ value \in [Pins -> Earlier] /\ torn = {}
  /\ eeprom = [p \in Pins |-> Bytes(value[p])]

\* setup() again, in the middle of whatever was being done.
ResetBoard ==
  /\ offsets' = [p \in Pins |-> 0] /\ cservo' = 0
  /\ saving' = 0 /\ half' = FALSE
  /\ UNCHANGED <<presses, eeprom, value, torn>>

\* A digit: of the digits for the servos the last is not accepted.
ChooseServo(n) ==
  /\ saving = 0 /\ cservo' = IF n < NUM_SERVOS THEN ssmap[n] ELSE cservo
  /\ UNCHANGED <<presses, offsets, saving, half, eeprom, value, torn>>

\* + and -, within the range of an int.
Adjust(d) ==
  /\ saving = 0 /\ presses < MaxPresses /\ presses' = presses + 1
  /\ offsets[cservo] + d \in Int16
  /\ offsets' = [offsets EXCEPT ![cservo] = @ + d]
  /\ UNCHANGED <<cservo, saving, half, eeprom, value, torn>>

\* r
Read ==
  /\ saving = 0 /\ offsets' = [p \in Pins |-> Join(eeprom[p][1], eeprom[p][2])]
  /\ UNCHANGED <<presses, cservo, saving, half, eeprom, value, torn>>

\* s: save() begins.
Save ==
  /\ saving = 0 /\ saving' = 1 /\ half' = FALSE
  /\ UNCHANGED <<presses, offsets, cservo, eeprom, value, torn>>

\* storeInt(): the high byte of a servo's offset.
StoreHigh ==
  /\ saving # 0 /\ ~half /\ half' = TRUE
  /\ LET p == ssmap[saving]
     IN /\ eeprom' = [eeprom EXCEPT ![p] = <<High(offsets[p]), @[2]>>]
        /\ value' = [value EXCEPT ![p] = offsets[p]]
        /\ torn' = torn \cup {p}
  /\ UNCHANGED <<presses, offsets, cservo, saving>>

\* storeInt(): the low byte.
StoreLow ==
  /\ saving # 0 /\ half /\ half' = FALSE
  /\ LET p == ssmap[saving]
     IN /\ eeprom' = [eeprom EXCEPT ![p] = <<@[1], Low(offsets[p])>>]
        /\ torn' = torn \ {p}
  /\ saving' = IF saving < NUM_SERVOS THEN saving + 1 ELSE 0
  /\ UNCHANGED <<presses, offsets, cservo, value>>

Next ==
  \/ ResetBoard \/ Read \/ Save \/ StoreHigh \/ StoreLow
  \/ \E n \in 1..NUM_SERVOS : ChooseServo(n)
  \/ \E d \in {-1, 1} : Adjust(d)

Spec == Init /\ [][Next]_vars

-----------------------------------------------------------------------------
(* Properties.                                                             *)

\* Types; what is read stays a 16-bit number (storeInt, readInt).
TypeOK ==
  /\ offsets \in [Pins -> Int16] /\ cservo \in Pins
  /\ presses \in 0..MaxPresses
  /\ eeprom \in [Pins -> (0..255) \X (0..255)]
  /\ saving \in 0..NUM_SERVOS /\ half \in BOOLEAN
  /\ value \in [Pins -> Int16] /\ torn \subseteq Pins

\* What was stored is read back, and a reset between the two bytes of a servo
\* costs at most 255 of its offset, whatever was stored before (storeInt,
\* readInt, getOffset).
ReadsBack ==
  \A p \in Pins :
    LET found == Join(eeprom[p][1], eeprom[p][2])
    IN IF p \in torn THEN found <= value[p] + 255 /\ value[p] <= found + 255
                     ELSE found = value[p]

\* What is kept is right, with the types of what is read.
OffsetsKept == TypeOK /\ ReadsBack

=============================================================================
