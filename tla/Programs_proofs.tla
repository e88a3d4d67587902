--------------------------- MODULE Programs_proofs ---------------------------
(***************************************************************************)
(* The parts whose properties are about what single calls leave behind,    *)
(* those of Servos, of Memories and of Natives.                            *)
(*                                                                         *)
(* The offset tool: for any number of servos, any wiring and any 16-bit    *)
(* offsets, what was stored is read back, and a reset between the two      *)
(* bytes of a servo costs at most 255 of its offset.  The MechShield       *)
(* library: for any positions and bounds, what record, degrees and chip    *)
(* say agrees.  The interpolation of a leg: for integers of any range, the *)
(* leg stays on its way and moves on.                                      *)
(*                                                                         *)
(* The DallasEPROM library, for any number of pages and rows, any width of *)
(* the status byte and any number of missed transactions: what the chip    *)
(* holds is what the calls asked for and what they said of it.  The        *)
(* virtual arrays of the JPEG library, for any size of array, access,      *)
(* strip and chunk: to its callers each is a plain array.  Its memory      *)
(* manager, for objects and arrays of any size and any failures of         *)
(* malloc(): what is given out lies apart in what is held.                 *)
(*                                                                         *)
(* The colour search, for pictures of any size in blocks of any number: it *)
(* finds the target where there is one and nowhere else.                   *)
(***************************************************************************)
EXTENDS Servos, Memories, Natives, Integers, SequenceTheorems, FiniteSetTheorems,
        WellFoundedInduction, TLAPS

(***************************************************************************)
(* The offset tool.                                                        *)
(***************************************************************************)

\* The bytes of a 16-bit number are bytes (storeInt).
LEMMA BytesAreBytes ==
  ASSUME NEW v \in Int16
  PROVE  High(v) \in 0..255 /\ Low(v) \in 0..255
<1>1. v \in Int
  BY DEF Int16
<1> QED
  BY <1>1 DEF High, Low

\* Any two bytes are read as a 16-bit number (readInt).
LEMMA JoinIsInt16 ==
  ASSUME NEW hi \in 0..255, NEW lo \in 0..255
  PROVE  Join(hi, lo) \in Int16
BY DEF Join, Int16

\* The high byte is the quotient, in two's complement (storeInt).
LEMMA HighByte ==
  ASSUME NEW v \in Int16
  PROVE  \E q \in Int : /\ v = 256 * q + Low(v)
                        /\ q < 0 => High(v) = q + 256
                        /\ q >= 0 => High(v) = q
<1> DEFINE q == v \div 256
<1>1. v \in Int /\ v >= -32768 /\ v < 32768
  BY DEF Int16
<1>2. q \in Int /\ v % 256 \in 0..255
  BY <1>1
<1>3. v = 256 * q + Low(v)
  BY <1>1 DEF Low
<1>4. High(v) = q % 256 /\ Low(v) = v % 256
  BY DEF High, Low
<1> HIDE DEF q
<1>5. q \in -128..127
  BY <1>1, <1>2, <1>3, <1>4
<1>6. q < 0 => q % 256 = q + 256
  BY <1>5
<1>7. q >= 0 => q % 256 = q
  BY <1>5
<1> QED
  BY <1>2, <1>3, <1>4, <1>6, <1>7

\* readInt() of a number's high byte with any low byte: only the low byte of
\* the number is replaced.
LEMMA JoinHigh ==
  ASSUME NEW v \in Int16, NEW lo \in 0..255
  PROVE  Join(High(v), lo) = v - Low(v) + lo
<1>1. PICK q \in Int : /\ v = 256 * q + Low(v)
                       /\ q < 0 => High(v) = q + 256
                       /\ q >= 0 => High(v) = q
  BY HighByte
<1>2. v \in Int /\ v >= -32768 /\ v <= 32767 /\ Low(v) \in 0..255 /\ High(v) \in 0..255
  BY BytesAreBytes DEF Int16
<1> DEFINE hi == High(v)
<1>3. hi \in 0..255
  BY <1>2
<1>5. v = 256 * q + Low(v) /\ (q < 0 => hi = q + 256) /\ (q >= 0 => hi = q)
  BY <1>1
<1> HIDE DEF hi
<1>4. Join(hi, lo) = IF hi * 256 + lo >= 32768 THEN hi * 256 + lo - 65536
                                              ELSE hi * 256 + lo
  BY <1>3 DEF Join
<1>6. CASE q < 0
  <2>1. hi * 256 + lo >= 32768 /\ hi * 256 + lo - 65536 = v - Low(v) + lo
    BY <1>2, <1>3, <1>5, <1>6
  <2> QED
    BY <1>4, <2>1 DEF hi
<1>7. CASE q >= 0
  <2>1. hi * 256 + lo < 32768 /\ hi * 256 + lo = v - Low(v) + lo
    BY <1>2, <1>3, <1>5, <1>7
  <2>2. ~(hi * 256 + lo >= 32768)
    BY <1>3, <2>1
  <2> QED
    BY <1>4, <2>1, <2>2 DEF hi
<1> QED
  BY <1>1, <1>6, <1>7

\* storeInt and readInt are inverse to each other for every 16-bit number.
LEMMA RoundTrip ==
  ASSUME NEW v \in Int16
  PROVE  Join(High(v), Low(v)) = v
<1>1. v \in Int /\ Low(v) \in 0..255
  BY BytesAreBytes DEF Int16
<1>2. Join(High(v), Low(v)) = v - Low(v) + Low(v)
  BY <1>1, JoinHigh
<1> QED
  BY <1>1, <1>2

\* With the low byte of another number the result is off by 255 at most.
LEMMA HalfRead ==
  ASSUME NEW v \in Int16, NEW lo \in 0..255
  PROVE  Join(High(v), lo) <= v + 255 /\ v <= Join(High(v), lo) + 255
<1>1. v \in Int /\ Low(v) \in 0..255
  BY BytesAreBytes DEF Int16
<1>2. Join(High(v), lo) = v - Low(v) + lo
  BY JoinHigh
<1> QED
  BY <1>1, <1>2

\* The memory holds the high byte of each value whose writing was begun, and
\* the low byte as well once it was written; while save() is between the two
\* bytes of a servo, the offset in RAM is the one it began with.
Stored ==
  \A p \in Pins : /\ eeprom[p][1] = High(value[p])
                  /\ p \notin torn => eeprom[p][2] = Low(value[p])

Halfway ==
  saving # 0 /\ half => value[ssmap[saving]] = offsets[ssmap[saving]]

IInv == TypeOK /\ Stored /\ Halfway

LEMMA InitInvariant == Init => IInv
<1> SUFFICES ASSUME Init PROVE IInv
  OBVIOUS
<1> USE OffsetsAssumption
<1>1. value \in [Pins -> Int16]
  BY DEF Init
<1>2. eeprom \in [Pins -> (0..255) \X (0..255)]
  BY <1>1, BytesAreBytes DEF Init, Bytes
<1>3. 0 \in Pins /\ 0 \in Int16
  BY DEF Pins, Int16
<1>4. offsets \in [Pins -> Int16] /\ cservo \in Pins
  BY <1>3 DEF Init
<1>5. saving \in 0..NUM_SERVOS /\ presses \in 0..MaxPresses
  BY DEF Init
<1>6. half \in BOOLEAN /\ torn \subseteq Pins
  BY DEF Init
<1>7. TypeOK
  BY <1>1, <1>2, <1>4, <1>5, <1>6 DEF TypeOK
<1>8. Stored
  BY <1>1 DEF Init, Stored, Bytes
<1> QED
  BY <1>7, <1>8 DEF IInv, Halfway, Init

LEMMA StepKeepsInvariant == IInv /\ [Next]_vars => IInv'
<1> SUFFICES ASSUME IInv, [Next]_vars PROVE IInv'
  OBVIOUS
<1> USE OffsetsAssumption
<1>t. TypeOK /\ Stored /\ Halfway
  BY DEF IInv
<1>1. CASE ResetBoard
  <2>1. 0 \in Pins /\ 0 \in Int16 /\ 0 \in 0..NUM_SERVOS
    BY DEF Pins, Int16
  <2>2. offsets' \in [Pins -> Int16] /\ half' \in BOOLEAN
    BY <1>1, <2>1 DEF ResetBoard
  <2>3. TypeOK'
    BY <1>t, <1>1, <2>1, <2>2 DEF ResetBoard, TypeOK
  <2>4. Stored' /\ Halfway'
    BY <1>t, <1>1 DEF ResetBoard, Stored, Halfway
  <2> QED
    BY <2>3, <2>4 DEF IInv
<1>2. CASE Read
  <2>1. \A p \in Pins : eeprom[p][1] \in 0..255 /\ eeprom[p][2] \in 0..255
    BY <1>t DEF TypeOK
  <2>2. \A p \in Pins : Join(eeprom[p][1], eeprom[p][2]) \in Int16
    BY <2>1, JoinIsInt16
  <2>3. offsets' \in [Pins -> Int16]
    BY <1>2, <2>2 DEF Read
  <2>4. TypeOK'
    BY <1>t, <1>2, <2>3 DEF Read, TypeOK
  <2>5. Stored' /\ Halfway'
    BY <1>t, <1>2 DEF Read, Stored, Halfway
  <2> QED
    BY <2>4, <2>5 DEF IInv
<1>3. CASE Save
  <2>1. saving' = 1 /\ half' = FALSE
    BY <1>3 DEF Save
  <2>a. saving' \in 0..NUM_SERVOS
    BY <2>1
  <2>b. half' \in BOOLEAN
    BY <2>1
  <2>2. TypeOK'
    BY <1>t, <1>3, <2>a, <2>b DEF Save, TypeOK
  <2>3. Stored' /\ Halfway'
    BY <1>t, <1>3 DEF Save, Stored, Halfway
  <2> QED
    BY <2>2, <2>3 DEF IInv
<1>4. CASE StoreHigh
  <2> DEFINE p == ssmap[saving]
  <2>1. saving \in 1..NUM_SERVOS /\ p \in Pins
    BY <1>t, <1>4 DEF StoreHigh, TypeOK
  <2>2. offsets[p] \in Int16 /\ eeprom[p][2] \in 0..255
    BY <1>t, <2>1 DEF TypeOK
  <2>3. High(offsets[p]) \in 0..255
    BY <2>2, BytesAreBytes
  <2>4. /\ eeprom' = [eeprom EXCEPT ![p] = <<High(offsets[p]), eeprom[p][2]>>]
        /\ value' = [value EXCEPT ![p] = offsets[p]]
        /\ torn' = torn \cup {p}
    BY <1>4 DEF StoreHigh
  <2>5. eeprom' \in [Pins -> (0..255) \X (0..255)] /\ value' \in [Pins -> Int16]
    BY <1>t, <2>1, <2>2, <2>3, <2>4 DEF TypeOK
  <2>6. TypeOK'
    BY <1>t, <1>4, <2>1, <2>4, <2>5 DEF TypeOK, StoreHigh
  <2>7. Stored'
    BY <1>t, <2>1, <2>4 DEF Stored, TypeOK
  <2>8. Halfway'
    BY <1>t, <1>4, <2>1, <2>4 DEF Halfway, StoreHigh, TypeOK
  <2> QED
    BY <2>6, <2>7, <2>8 DEF IInv
<1>5. CASE StoreLow
  <2> DEFINE p == ssmap[saving]
  <2>1. saving \in 1..NUM_SERVOS /\ p \in Pins
    BY <1>t, <1>5 DEF StoreLow, TypeOK
  <2>2. offsets[p] \in Int16 /\ eeprom[p][1] \in 0..255
    BY <1>t, <2>1 DEF TypeOK
  <2>3. Low(offsets[p]) \in 0..255
    BY <2>2, BytesAreBytes
  <2>4. /\ eeprom' = [eeprom EXCEPT ![p] = <<eeprom[p][1], Low(offsets[p])>>]
        /\ torn' = torn \ {p} /\ UNCHANGED <<value, offsets>>
    BY <1>5 DEF StoreLow
  <2>5. eeprom' \in [Pins -> (0..255) \X (0..255)]
    BY <1>t, <2>1, <2>2, <2>3, <2>4 DEF TypeOK
  <2>6. value[p] = offsets[p]
    BY <1>t, <1>5 DEF Halfway, StoreLow
  <2>a. saving' \in 0..NUM_SERVOS
    BY <1>5, <2>1 DEF StoreLow
  <2>b. half' \in BOOLEAN /\ torn' \subseteq Pins
    BY <1>t, <1>5, <2>4 DEF StoreLow, TypeOK
  <2>7. TypeOK'
    BY <1>t, <1>5, <2>4, <2>5, <2>a, <2>b DEF TypeOK, StoreLow
  <2>8. Stored'
    BY <1>t, <2>1, <2>4, <2>6 DEF Stored, TypeOK
  <2>9. Halfway'
    BY <1>5 DEF Halfway, StoreLow
  <2> QED
    BY <2>7, <2>8, <2>9 DEF IInv
<1>6. ASSUME NEW n \in 1..NUM_SERVOS, ChooseServo(n) PROVE IInv'
  BY <1>t, <1>6 DEF ChooseServo, IInv, TypeOK, Stored, Halfway
<1>7. ASSUME NEW d \in {-1, 1}, Adjust(d) PROVE IInv'
  <2>1. offsets' \in [Pins -> Int16]
    BY <1>t, <1>7 DEF Adjust, TypeOK
  <2>2. presses' \in 0..MaxPresses
    BY <1>t, <1>7 DEF Adjust, TypeOK
  <2> QED
    BY <1>t, <1>7, <2>1, <2>2 DEF Adjust, IInv, TypeOK, Stored, Halfway
<1>8. CASE UNCHANGED vars
  BY <1>t, <1>8 DEF vars, ramVars, IInv, TypeOK, Stored, Halfway
<1> QED
  BY <1>1, <1>2, <1>3, <1>4, <1>5, <1>6, <1>7, <1>8 DEF Next

LEMMA InvariantMeans == IInv => OffsetsKept
<1> SUFFICES ASSUME IInv PROVE ReadsBack
  BY DEF IInv, OffsetsKept
<1> SUFFICES ASSUME NEW p \in Pins
             PROVE  LET found == Join(eeprom[p][1], eeprom[p][2])
                    IN IF p \in torn THEN found <= value[p] + 255 /\ value[p] <= found + 255
                                     ELSE found = value[p]
  BY DEF ReadsBack
<1>1. value[p] \in Int16 /\ eeprom[p][2] \in 0..255
  BY DEF IInv, TypeOK
<1>2. eeprom[p][1] = High(value[p])
  BY DEF IInv, Stored
<1>3. CASE p \in torn
  BY <1>1, <1>2, <1>3, HalfRead
<1>4. CASE p \notin torn
  <2>1. eeprom[p][2] = Low(value[p])
    BY <1>4 DEF IInv, Stored
  <2> QED
    BY <1>1, <1>2, <1>4, <2>1, RoundTrip
<1> QED
  BY <1>3, <1>4

\* What was stored is read back, and a torn offset is off by 255 at most; what
\* is read is a 16-bit number and save() stays within the servos (storeInt,
\* readInt, save).
THEOREM OffsetsReadBack == Spec => []OffsetsKept
<1>1. Init => IInv
  BY InitInvariant
<1>2. IInv /\ [Next]_vars => IInv'
  BY StepKeepsInvariant
<1>3. IInv => OffsetsKept
  BY InvariantMeans
<1> QED
  BY <1>1, <1>2, <1>3, PTL DEF Spec

-----------------------------------------------------------------------------
(* Quotients, for the other two.                                           *)

\* Division by a positive number.
LEMMA Division ==
  ASSUME NEW a \in Int, NEW b \in Int, b > 0
  PROVE  /\ a \div b \in Int /\ a % b \in Int
         /\ a = b * (a \div b) + (a % b) /\ 0 <= a % b /\ a % b < b
<1>1. a = b * (a \div b) + (a % b)
  OBVIOUS
<1>2. a \div b \in Int /\ a % b \in Int /\ 0 <= a % b /\ a % b < b
  OBVIOUS
<1>. QED BY <1>1, <1>2

\* Quotient and remainder are the only ones.
LEMMA Quotient ==
  ASSUME NEW a \in Int, NEW b \in Int, b > 0, NEW q \in Int, NEW r \in Int,
         a = b * q + r, 0 <= r, r < b
  PROVE  a \div b = q /\ a % b = r
OBVIOUS


\* Products with a number that is not negative.
LEMMA Monotone ==
  ASSUME NEW a \in Int, NEW b \in Int, NEW c \in Int, a <= b, 0 <= c
  PROVE  a * c <= b * c /\ c * a <= c * b /\ a * c \in Int /\ b * c \in Int
OBVIOUS

(***************************************************************************)
(* The MechShield library.                                                 *)
(***************************************************************************)

\* A cycle is longer than the latest start.
LEMMA Cycle == Shield!CYCLE \in Nat /\ Shield!CYCLE > 22
BY DEF Shield!CYCLE

\* The chip's registers have room for a pulse, which is the ticks if it ends in
\* the cycle, and none if it ends in the next one.
LEMMA Pulses ==
  ASSUME NEW pin \in 1..12, NEW ticks \in Nat
  PROVE  LET r   == Shield!Pulse(pin, ticks)
             end == Shield!Start(pin) + ticks
         IN /\ r \in [on : 0..Shield!CYCLE - 1, off : 0..2 * Shield!CYCLE - 1]
            /\ end < Shield!CYCLE => Shield!Length(r) = ticks
            /\ end \in Shield!CYCLE..2 * Shield!CYCLE - 1 => Shield!Length(r) = 0
<1> DEFINE C   == Shield!CYCLE
           on  == (pin - 1) * 2
           off == (on + ticks) % (2 * C)
<1>1. on \in 0..22 /\ C \in Nat /\ C > 22
  BY Cycle
<1>2. Shield!Start(pin) = on /\ Shield!Pulse(pin, ticks) = [on |-> on, off |-> off]
  BY DEF Shield!Start, Shield!Pulse, Shield!OFFSET_MULTIPLIER
<1> HIDE DEF on
<1>3. off \in 0..2 * C - 1 /\ (on + ticks < 2 * C => off = on + ticks)
  BY <1>1 DEF Shield!CYCLE
<1> HIDE DEF off
<1>4. Shield!Length([on |-> on, off |-> off]) = IF off >= C THEN 0 ELSE (off - on) % C
  BY DEF Shield!Length
<1>5. on + ticks < C => (off - on) % C = ticks
  BY <1>1, <1>3 DEF Shield!CYCLE
<1> HIDE DEF C
<1>6. on + ticks < C => Shield!Length([on |-> on, off |-> off]) = ticks
  BY <1>1, <1>3, <1>4, <1>5
<1>7. on + ticks \in C..2 * C - 1 => Shield!Length([on |-> on, off |-> off]) = 0
  BY <1>1, <1>3, <1>4
<1>. QED BY <1>1, <1>2, <1>3, <1>6, <1>7 DEF C

\* From degrees to ticks, of which there are w, and back.
LEMMA DegreesBack ==
  ASSUME NEW d \in 0..180, NEW w \in Int, w >= 180
  PROVE  LET q == (d * w) \div 180
         IN 0 <= q /\ q <= w /\ (q * 180) \div w \in {d - 1, d}
<1> DEFINE q == (d * w) \div 180
           x == (q * 180) \div w
<1>1. d * w \in Int /\ 0 * w <= d * w /\ d * w <= 180 * w
  BY Monotone
<1>2. q \in Int /\ q * 180 <= d * w /\ d * w < q * 180 + 180
  BY <1>1
<1>3. 0 <= q /\ q <= w
  BY <1>1, <1>2
<1>4. x \in Int /\ w * x <= q * 180 /\ q * 180 < w * x + w
  <2>1. q * 180 \in Int /\ w \in Int /\ w > 0
    BY <1>2
  <2> HIDE DEF q
  <2>. QED BY <2>1, Division
<1> HIDE DEF q, x
<1>5. x <= d
  <2> SUFFICES ASSUME d + 1 <= x PROVE FALSE
    BY <1>4
  <2>1. w * (d + 1) <= w * x
    BY <1>4, Monotone
  <2>2. w * (d + 1) = d * w + w
    OBVIOUS
  <2>. QED BY <1>1, <1>2, <1>4, <2>1, <2>2
<1>6. x >= d - 1
  <2> SUFFICES ASSUME x + 1 <= d - 1 PROVE FALSE
    BY <1>4
  <2>1. w * (x + 1) <= w * (d - 1)
    BY <1>4, Monotone
  <2>2. w * (x + 1) = w * x + w /\ w * (d - 1) = d * w - w
    BY <1>4
  <2>. QED BY <1>1, <1>2, <1>4, <2>1, <2>2
<1>7. x \in {d - 1, d}
  BY <1>4, <1>5, <1>6
<1>. QED BY <1>3, <1>7 DEF q, x

\* The pulse width of a position is within the bounds, and that of degrees is
\* in proportion.
LEMMA TicksBetween ==
  ASSUME NEW pos \in Nat, NEW min \in Nat, NEW max \in Nat, min < max
  PROVE  /\ Shield!TicksOf(pos, min, max) \in min..max
         /\ pos \in 0..180 => Shield!TicksOf(pos, min, max) = min + (pos * (max - min)) \div 180
<1>1. Shield!TicksOf(pos, min, max) \in Int => Shield!TicksOf(pos, min, max) \in min..max
  BY DEF Shield!TicksOf, Shield!Constrain
<1>2. ASSUME NEW v \in 0..180
      PROVE  Shield!MapRange(v, 0, 180, min, max) = min + (v * (max - min)) \div 180
  <2>1. v * (max - min) \in Int /\ v * (max - min) >= 0
    <3>1. v \in Int /\ 0 <= v /\ max - min \in Int /\ 0 <= max - min
      OBVIOUS
    <3>. QED BY <3>1, Monotone
  <2>2. (v - 0) * (max - min) = v * (max - min) /\ 180 - 0 = 180
    OBVIOUS
  <2>. QED BY <2>1, <2>2 DEF Shield!MapRange
<1>3. ASSUME NEW v \in 0..180
      PROVE  min + (v * (max - min)) \div 180 \in min..max
  <2>1. v * (max - min) \in Int /\ 0 * (max - min) <= v * (max - min)
          /\ v * (max - min) <= 180 * (max - min)
    <3>1. 0 <= v /\ v <= 180 /\ v \in Int /\ max - min \in Int /\ 0 <= max - min
      OBVIOUS
    <3>. QED BY <3>1, Monotone
  <2>. QED BY <2>1
<1>4. ASSUME pos < 200
      PROVE  Shield!TicksOf(pos, min, max) =
               min + (Shield!Constrain(pos, 0, 180) * (max - min)) \div 180
  <2>1. Shield!Constrain(pos, 0, 180) \in 0..180
    BY DEF Shield!Constrain
  <2>2. Shield!TicksOf(pos, min, max) =
          Shield!Constrain(Shield!MapRange(Shield!Constrain(pos, 0, 180), 0, 180, min, max),
                           min, max)
    BY <1>4 DEF Shield!TicksOf
  <2>3. \A t \in min..max : Shield!Constrain(t, min, max) = t
    BY DEF Shield!Constrain
  <2>. QED BY <1>2, <1>3, <2>1, <2>2, <2>3
<1>5. pos < 200 => Shield!TicksOf(pos, min, max) \in min..max
  <2>1. Shield!Constrain(pos, 0, 180) \in 0..180
    BY DEF Shield!Constrain
  <2>. QED BY <1>3, <1>4, <2>1
<1>6. pos >= 200 => Shield!TicksOf(pos, min, max) \in min..max
  BY DEF Shield!TicksOf, Shield!Constrain
<1>7. pos \in 0..180 => pos < 200 /\ Shield!Constrain(pos, 0, 180) = pos
  BY DEF Shield!Constrain
<1>. QED BY <1>4, <1>5, <1>6, <1>7

\* Degrees that were asked for last are in the record, and the pulse at the
\* chip is that of the record, if it arrived.
Registers == [on : 0..Shield!CYCLE - 1, off : 0..2 * Shield!CYCLE - 1]

ShieldInv ==
  /\ servos \in [ShieldPins -> [ticks : Nat, min : Nat, max : Nat]]
  /\ pwm \in [ShieldPins -> Registers] /\ awake \in BOOLEAN
  /\ asked \in [ShieldPins -> Int] /\ inTime \in [ShieldPins -> BOOLEAN]
  /\ \A p \in ShieldPins :
       /\ servos[p].min < servos[p].max
       /\ asked[p] \in 0..180 =>
            servos[p].ticks = servos[p].min
              + (asked[p] * (servos[p].max - servos[p].min)) \div 180
       /\ asked[p] # -1 /\ inTime[p] => pwm[p] = Shield!Pulse(p, servos[p].ticks)

LEMMA ShieldMeans == ShieldInv => Shield!DegreesReadBack
<1> SUFFICES ASSUME ShieldInv, NEW p \in ShieldPins, asked[p] \in 0..180,
                    servos[p].max - servos[p].min >= 180
             PROVE  Shield!getPosition(p) \in {asked[p] - 1, asked[p]}
  BY DEF Shield!DegreesReadBack, ShieldInv
<1> DEFINE w == servos[p].max - servos[p].min
           q == (asked[p] * w) \div 180
<1>1. /\ servos[p].ticks \in Int /\ servos[p].min \in Int /\ servos[p].max \in Int
      /\ servos[p].ticks = servos[p].min + q /\ w \in Int
  BY DEF ShieldInv
<1>2. 0 <= q /\ q <= w /\ (q * 180) \div w \in {asked[p] - 1, asked[p]}
  BY <1>1, DegreesBack
<1>3. q \in Int
  BY <1>1
<1>4. Shield!getPosition(p) = 0 + ((q * 180) \div w)
  <2>1. /\ (servos[p].ticks - servos[p].min) * (180 - 0) = q * 180 /\ q * 180 >= 0
    <3>1. servos[p].ticks - servos[p].min = q /\ 180 - 0 = 180
      BY <1>1, <1>3
    <3> HIDE DEF q
    <3>. QED BY <1>2, <1>3, <3>1
  <2>. QED BY <2>1 DEF Shield!getPosition, Shield!getPositionMicro, Shield!MapRange
<1> HIDE DEF q
<1>5. (q * 180) \div w \in Int
  BY <1>2
<1>. QED BY <1>2, <1>4, <1>5

LEMMA ShieldInit == Shield!ShieldAssumption /\ Shield!Init => ShieldInv
<1> SUFFICES ASSUME Shield!ShieldAssumption, Shield!Init PROVE ShieldInv
  OBVIOUS
<1>1. ASSUME NEW p \in ShieldPins
      PROVE  /\ servos[p] = [ticks |-> 1500, min |-> 1000, max |-> 2000]
             /\ asked[p] = 1500 /\ p \in 1..12 /\ pwm[p] \in Registers
             /\ inTime[p] => pwm[p] = Shield!Pulse(p, servos[p].ticks)
  <2>1. /\ servos[p] = [ticks |-> 1500, min |-> 1000, max |-> 2000]
        /\ asked[p] = 1500 /\ p \in 1..12
        /\ pwm[p] = IF inTime[p] THEN Shield!Pulse(p, 1500) ELSE [on |-> 0, off |-> Shield!CYCLE]
    BY DEF Shield!Init, Shield!ShieldAssumption, Shield!DefaultServo,
           Shield!DEFAULT_PULSE_WIDTH, Shield!MIN_PULSE_WIDTH, Shield!MAX_PULSE_WIDTH
  <2>2. Shield!Pulse(p, 1500) \in Registers
    <3> DEFINE t == 1500
    <3>1. p \in 1..12 /\ t \in Nat
      BY <2>1
    <3> HIDE DEF t
    <3>2. Shield!Pulse(p, t) \in Registers
      BY <3>1, Pulses DEF Registers
    <3>. QED BY <3>2 DEF t
  <2>3. [on |-> 0, off |-> Shield!CYCLE] \in Registers
    BY Cycle DEF Registers
  <2>. QED BY <2>1, <2>2, <2>3
<1>2. /\ servos \in [ShieldPins -> [ticks : Nat, min : Nat, max : Nat]]
      /\ asked \in [ShieldPins -> Int]
  BY DEF Shield!Init, Shield!DefaultServo, Shield!DEFAULT_PULSE_WIDTH,
         Shield!MIN_PULSE_WIDTH, Shield!MAX_PULSE_WIDTH
<1>3. pwm \in [ShieldPins -> Registers]
  BY <1>1 DEF Shield!Init
<1>4. inTime \in [ShieldPins -> BOOLEAN] /\ awake \in BOOLEAN
  BY Zenon DEF Shield!Init
<1>. QED BY <1>1, <1>2, <1>3, <1>4 DEF ShieldInv

\* The registers of a pin are sent, or are not.
LEMMA Transmits ==
  ASSUME ShieldInv, NEW pin \in ShieldPins, NEW reg \in Registers,
         Shield!Transmit(pin, reg)
  PROVE  /\ pwm' \in [ShieldPins -> Registers]
         /\ inTime' \in [ShieldPins -> BOOLEAN]
         /\ \A p \in ShieldPins : p # pin => pwm'[p] = pwm[p] /\ inTime'[p] = inTime[p]
         /\ inTime'[pin] => pwm'[pin] = reg
         /\ pwm'[pin] \in {pwm[pin], reg}
<1>1. PICK ok \in BOOLEAN : /\ pwm' = IF ok THEN [pwm EXCEPT ![pin] = reg] ELSE pwm
                            /\ inTime' = [inTime EXCEPT ![pin] = ok]
  BY DEF Shield!Transmit
<1>2. /\ pwm \in [ShieldPins -> Registers]
      /\ inTime \in [ShieldPins -> BOOLEAN]
  BY DEF ShieldInv
<1>3. inTime' \in [ShieldPins -> BOOLEAN]
  BY <1>1, <1>2, Zenon
<1>4. inTime'[pin] = ok
  BY <1>1, <1>2
<1>. QED BY <1>1, <1>2, <1>3, <1>4

LEMMA ShieldStep ==
  Shield!ShieldAssumption /\ ShieldInv /\ [Shield!Next]_Shield!vars => ShieldInv'
<1> SUFFICES ASSUME Shield!ShieldAssumption, ShieldInv, [Shield!Next]_Shield!vars
             PROVE  ShieldInv'
  OBVIOUS
<1>1. /\ servos \in [ShieldPins -> [ticks : Nat, min : Nat, max : Nat]]
      /\ asked \in [ShieldPins -> Int]
      /\ \A p \in ShieldPins : servos[p].min < servos[p].max
  BY DEF ShieldInv
<1>2. ASSUME NEW pin \in ShieldPins, NEW pos \in ShieldPositions, Shield!setPosition(pin, pos)
      PROVE  ShieldInv'
  <2> DEFINE t == Shield!TicksOf(pos, servos[pin].min, servos[pin].max)
  <2>1. /\ servos' = [servos EXCEPT ![pin].ticks = t]
        /\ Shield!Transmit(pin, Shield!Pulse(pin, t))
        /\ asked' = [asked EXCEPT ![pin] = pos]
    BY <1>2 DEF Shield!setPosition
  <2>2. /\ pos \in Nat /\ pin \in 1..12
        /\ servos[pin].min \in Nat /\ servos[pin].max \in Nat
        /\ servos[pin].min < servos[pin].max
    BY <1>1 DEF Shield!ShieldAssumption
  <2>3. /\ t \in Nat
        /\ pos \in 0..180 =>
             t = servos[pin].min + (pos * (servos[pin].max - servos[pin].min)) \div 180
    <3>1. /\ t \in servos[pin].min..servos[pin].max
          /\ pos \in 0..180 =>
               t = servos[pin].min + (pos * (servos[pin].max - servos[pin].min)) \div 180
      <4>1. \A mn, mx \in Nat : mn < mx =>
              /\ Shield!TicksOf(pos, mn, mx) \in mn..mx
              /\ pos \in 0..180 =>
                   Shield!TicksOf(pos, mn, mx) = mn + (pos * (mx - mn)) \div 180
        BY <2>2, TicksBetween
      <4>. QED BY <2>2, <4>1, Zenon
    <3> HIDE DEF t
    <3>2. t \in Nat
      BY <2>2, <3>1
    <3>. QED BY <3>1, <3>2
  <2> HIDE DEF t
  <2>4. Shield!Pulse(pin, t) \in Registers
    BY <2>2, <2>3, Pulses DEF Registers
  <2>5. /\ pwm' \in [ShieldPins -> Registers]
        /\ inTime' \in [ShieldPins -> BOOLEAN]
        /\ \A p \in ShieldPins : p # pin => pwm'[p] = pwm[p] /\ inTime'[p] = inTime[p]
        /\ inTime'[pin] => pwm'[pin] = Shield!Pulse(pin, t)
    BY <2>1, <2>4, Transmits
  <2>6. /\ servos' \in [ShieldPins -> [ticks : Nat, min : Nat, max : Nat]]
        /\ asked' \in [ShieldPins -> Int]
        /\ servos'[pin].ticks = t /\ servos'[pin].min = servos[pin].min
        /\ servos'[pin].max = servos[pin].max /\ asked'[pin] = pos
        /\ \A p \in ShieldPins : p # pin => servos'[p] = servos[p] /\ asked'[p] = asked[p]
    BY <1>1, <2>1, <2>2, <2>3
  <2>7. ASSUME NEW p \in ShieldPins
        PROVE  /\ servos'[p].min < servos'[p].max
               /\ asked'[p] \in 0..180 =>
                    servos'[p].ticks = servos'[p].min
                      + (asked'[p] * (servos'[p].max - servos'[p].min)) \div 180
               /\ asked'[p] # -1 /\ inTime'[p] => pwm'[p] = Shield!Pulse(p, servos'[p].ticks)
    <3>1. CASE p = pin
      BY <2>2, <2>3, <2>5, <2>6, <3>1
    <3>2. CASE p # pin
      BY <2>5, <2>6, <3>2 DEF ShieldInv
    <3>. QED BY <3>1, <3>2
  <2>8. awake' \in BOOLEAN
    BY <1>2, Zenon DEF Shield!setPosition, ShieldInv
  <2>. QED BY <2>5, <2>6, <2>7, <2>8 DEF ShieldInv
<1>3. ASSUME NEW pin \in ShieldPins, NEW b \in Bounds, Shield!setBounds(pin, b)
      PROVE  ShieldInv'
  <2>1. b[1] \in Nat /\ b[2] \in Nat /\ b[1] < b[2]
    <3>1. b \in (0..Shield!INT_MAX) \X (0..Shield!INT_MAX) /\ b[1] < b[2]
      BY DEF Shield!ShieldAssumption
    <3>2. 0..Shield!INT_MAX \subseteq Nat
      BY DEF Shield!INT_MAX
    <3>. QED BY <3>1, <3>2
  <2>2. /\ servos' = [servos EXCEPT ![pin] =
                         [ticks |-> servos[pin].ticks, min |-> b[1], max |-> b[2]]]
        /\ asked' = [asked EXCEPT ![pin] = -1] /\ pwm' = pwm /\ inTime' = inTime
        /\ awake' = awake
    BY <1>3 DEF Shield!setBounds
  <2>3. /\ servos' \in [ShieldPins -> [ticks : Nat, min : Nat, max : Nat]]
        /\ asked' \in [ShieldPins -> Int] /\ asked'[pin] = -1
        /\ servos'[pin].min = b[1] /\ servos'[pin].max = b[2]
        /\ \A p \in ShieldPins : p # pin => servos'[p] = servos[p] /\ asked'[p] = asked[p]
    BY <1>1, <2>1, <2>2
  <2>4. ASSUME NEW p \in ShieldPins
        PROVE  /\ servos'[p].min < servos'[p].max
               /\ asked'[p] \in 0..180 =>
                    servos'[p].ticks = servos'[p].min
                      + (asked'[p] * (servos'[p].max - servos'[p].min)) \div 180
               /\ asked'[p] # -1 /\ inTime'[p] => pwm'[p] = Shield!Pulse(p, servos'[p].ticks)
    <3>1. CASE p = pin
      BY <2>1, <2>3, <3>1
    <3>2. CASE p # pin
      BY <2>2, <2>3, <3>2 DEF ShieldInv
    <3>. QED BY <3>1, <3>2
  <2>. QED BY <2>2, <2>3, <2>4 DEF ShieldInv
<1>4. ASSUME NEW pin \in ShieldPins, NEW v \in Values, Shield!analogWrite(pin, v)
      PROVE  ShieldInv'
  <2> DEFINE reg == [on |-> 0, off |-> Shield!Constrain(v, 0, Shield!CYCLE - 1)]
  <2>1. reg \in Registers
    BY Cycle DEF Shield!ShieldAssumption, Shield!Constrain, Registers
  <2>2. /\ Shield!Transmit(pin, reg) /\ asked' = [asked EXCEPT ![pin] = -1]
        /\ servos' = servos /\ awake' = awake
    BY <1>4 DEF Shield!analogWrite
  <2> HIDE DEF reg
  <2>3. /\ pwm' \in [ShieldPins -> Registers]
        /\ inTime' \in [ShieldPins -> BOOLEAN]
        /\ \A p \in ShieldPins : p # pin => pwm'[p] = pwm[p] /\ inTime'[p] = inTime[p]
    BY <2>1, <2>2, Transmits
  <2>4. /\ asked' \in [ShieldPins -> Int] /\ asked'[pin] = -1
        /\ \A p \in ShieldPins : p # pin => asked'[p] = asked[p]
    BY <1>1, <2>2
  <2>5. ASSUME NEW p \in ShieldPins
        PROVE  /\ asked'[p] \in 0..180 => asked'[p] = asked[p]
               /\ asked'[p] # -1 /\ inTime'[p] => pwm'[p] = Shield!Pulse(p, servos'[p].ticks)
    <3>1. CASE p = pin
      BY <2>4, <3>1
    <3>2. CASE p # pin
      BY <2>2, <2>3, <2>4, <3>2 DEF ShieldInv
    <3>. QED BY <3>1, <3>2
  <2>. QED BY <2>2, <2>3, <2>4, <2>5 DEF ShieldInv
<1>5. CASE Shield!sleep \/ Shield!wake \/ UNCHANGED Shield!vars
  <2>1. servos' = servos /\ pwm' = pwm /\ asked' = asked /\ inTime' = inTime
    BY <1>5 DEF Shield!sleep, Shield!wake, Shield!vars
  <2>2. awake' \in BOOLEAN
    BY <1>5, Zenon DEF Shield!sleep, Shield!wake, Shield!vars, ShieldInv
  <2>. QED BY <2>1, <2>2 DEF ShieldInv
<1>. QED BY <1>2, <1>3, <1>4, <1>5 DEF Shield!Next

LEMMA ShieldTypes == Shield!ShieldAssumption /\ ShieldInv => Shield!TypeOK
<1> SUFFICES ASSUME ShieldInv PROVE Shield!TypeOK
  OBVIOUS
<1>1. /\ awake \in BOOLEAN /\ inTime \in [ShieldPins -> BOOLEAN]
      /\ asked \in [ShieldPins -> Int]
  BY Zenon DEF ShieldInv
<1>2. ASSUME NEW p \in ShieldPins
      PROVE  /\ servos[p].ticks \in Nat /\ servos[p].min \in Nat /\ servos[p].max \in Nat
             /\ servos[p].min < servos[p].max
             /\ pwm[p].on \in 0..Shield!CYCLE - 1 /\ pwm[p].off \in 0..2 * Shield!CYCLE - 1
  BY DEF ShieldInv, Registers
<1>. QED BY <1>1, <1>2, Zenon DEF Shield!TypeOK

LEMMA ShieldPulses == Shield!ShieldAssumption /\ ShieldInv => Shield!PulseIsTicks
<1> SUFFICES ASSUME Shield!ShieldAssumption, ShieldInv, NEW p \in ShieldPins,
                    asked[p] # -1, inTime[p]
             PROVE  LET end == Shield!Start(p) + servos[p].ticks
                    IN /\ end < Shield!CYCLE => Shield!Length(pwm[p]) = servos[p].ticks
                       /\ end \in Shield!CYCLE..2 * Shield!CYCLE - 1 => Shield!Length(pwm[p]) = 0
  BY DEF Shield!PulseIsTicks
<1>1. p \in 1..12 /\ servos[p].ticks \in Nat /\ pwm[p] = Shield!Pulse(p, servos[p].ticks)
  BY DEF ShieldInv, Shield!ShieldAssumption
<1>. QED BY <1>1, Pulses

\* For all bounds that a board's integers hold and whatever transmissions fail,
\* getPosition() returns the degrees that setPosition() was given, or one less,
\* and after a call that returned 0 the pulse is as long as the record says if it
\* ends in the chip's cycle, and none if it ends in the next.  Of the pulse after
\* a failed transmission nothing is said.
THEOREM ServosAreRight == Shield!ShieldAssumption /\ Shield!Spec => []ServosStayRight
<1> DEFINE I == Shield!ShieldAssumption /\ ShieldInv
<1>1. Shield!ShieldAssumption /\ Shield!Init => I
  BY ShieldInit
<1>2. I /\ [Shield!Next]_Shield!vars => I'
  <2>1. Shield!ShieldAssumption => Shield!ShieldAssumption'
    BY DEF Shield!ShieldAssumption
  <2>. QED BY <2>1, ShieldStep
<1>3. I => ServosStayRight
  BY ShieldMeans, ShieldTypes, ShieldPulses DEF ServosStayRight
<1> HIDE DEF I
<1>. QED BY <1>1, <1>2, <1>3, PTL DEF Shield!Spec

(***************************************************************************)
(* The interpolation of a leg.                                             *)
(***************************************************************************)

\* An int and the scale fit a whole number of times into a long.
LEMMA Ranges ==
  ASSUME Leg!InterpolationAssumption
  PROVE  /\ Leg!HalfInt \in Int /\ Leg!HalfInt > 0 /\ IntRange = 2 * Leg!HalfInt
         /\ IntRange \in Int /\ Scale \in Int /\ Scale > 0 /\ LongRange \in Int
         /\ LongRange > 0
         /\ \E k \in Int : k > 0 /\ LongRange = Scale * (IntRange * k)
         /\ LongRange >= Scale * IntRange /\ LongRange >= IntRange
<1> DEFINE b == Scale * IntRange
           k == LongRange \div b
<1>1. /\ IntRange \in Nat /\ IntRange > 0 /\ Scale \in Nat /\ Scale > 0
      /\ LongRange \in Nat /\ LongRange > 0 /\ IntRange % 2 = 0 /\ LongRange % b = 0
  BY DEF Leg!InterpolationAssumption
<1>2. /\ Leg!HalfInt \in Int /\ Leg!HalfInt > 0 /\ IntRange = 2 * Leg!HalfInt
  BY <1>1 DEF Leg!HalfInt
<1>3. b \in Int /\ b >= IntRange
  <2>1. 1 * IntRange <= Scale * IntRange /\ Scale * IntRange \in Int
    BY <1>1, Monotone
  <2>. QED BY <2>1, <1>1
<1>4. k \in Int /\ LongRange = b * k
  <2> HIDE DEF b
  <2>1. k \in Int
    BY <1>1, <1>3
  <2>2. LongRange = b * k + (LongRange % b)
    BY <1>1, <1>3, Division
  <2>. QED BY <1>1, <1>3, <2>1, <2>2
<1>5. k > 0
  <2> HIDE DEF k
  <2> SUFFICES ASSUME k <= 0 PROVE FALSE
    BY <1>4
  <2>1. b * k <= b * 0
    <3> HIDE DEF b
    <3>. QED BY <1>1, <1>3, <1>4, Monotone
  <2>. QED BY <1>1, <1>4, <2>1
<1>6. LongRange >= b
  <2> HIDE DEF k
  <2>1. b * 1 <= b * k
    <3> HIDE DEF b
    <3>. QED BY <1>1, <1>3, <1>4, <1>5, Monotone
  <2>. QED BY <1>3, <1>4, <2>1
<1>7. LongRange = Scale * (IntRange * k)
  <2> HIDE DEF k
  <2>. QED BY <1>1, <1>4
<1>8. k \in Int /\ k > 0 /\ LongRange = Scale * (IntRange * k)
  BY <1>4, <1>5, <1>7
<1> HIDE DEF k
<1>. QED BY <1>1, <1>2, <1>3, <1>6, <1>8

\* Cutting a number to an int takes whole ranges off it (moveNow).
LEMMA CutToInt ==
  ASSUME Leg!InterpolationAssumption, NEW n \in Leg!Ints, NEW k \in Int
  PROVE  Leg!Int16(IntRange * k + n) = n
<1>1. /\ Leg!HalfInt \in Int /\ Leg!HalfInt > 0 /\ IntRange = 2 * Leg!HalfInt
      /\ IntRange \in Int /\ IntRange > 0
  BY Ranges
<1>2. n \in Int /\ -Leg!HalfInt <= n /\ n < Leg!HalfInt
  BY <1>1 DEF Leg!Ints
<1>3. IntRange * k \in Int /\ IntRange * (k - 1) \in Int
        /\ IntRange * k = IntRange * (k - 1) + IntRange
  BY <1>1
<1>4. CASE n >= 0
  <2>1. (IntRange * k + n) % IntRange = n
    <3>1. IntRange * k + n \in Int /\ n < IntRange
      BY <1>1, <1>2, <1>3
    <3>. QED BY <1>1, <1>2, <1>4, <3>1, Quotient
  <2>. QED BY <1>1, <1>2, <2>1 DEF Leg!Int16
<1>5. CASE n < 0
  <2>1. (IntRange * k + n) % IntRange = IntRange + n
    <3> DEFINE a == IntRange * k + n
               j == k - 1
               r == IntRange + n
    <3>1. /\ a \in Int /\ r \in Int /\ j \in Int /\ 0 <= r /\ r < IntRange
          /\ a = IntRange * j + r
      BY <1>1, <1>2, <1>3, <1>5
    <3> HIDE DEF a, j, r
    <3>2. a % IntRange = r
      BY <1>1, <3>1, Quotient
    <3>. QED BY <3>2 DEF a, r
  <2>. QED BY <1>1, <1>2, <1>5, <2>1 DEF Leg!Int16
<1>. QED BY <1>2, <1>4, <1>5

LEMMA IntIsItself ==
  ASSUME Leg!InterpolationAssumption, NEW n \in Leg!Ints
  PROVE  Leg!Int16(n) = n
<1>1. IntRange \in Int /\ n \in Int
  BY Ranges DEF Leg!Ints
<1>2. IntRange * 0 + n = n
  BY <1>1
<1>3. Leg!Int16(IntRange * 0 + n) = n
  BY CutToInt
<1>. QED BY <1>2, <1>3

LEMMA IntIsInt ==
  ASSUME Leg!InterpolationAssumption, NEW n \in Int
  PROVE  Leg!Int16(n) \in Leg!Ints
<1>1. /\ Leg!HalfInt \in Int /\ Leg!HalfInt > 0 /\ IntRange = 2 * Leg!HalfInt
      /\ IntRange \in Int /\ IntRange > 0
  BY Ranges
<1>2. n % IntRange \in Int /\ 0 <= n % IntRange /\ n % IntRange < IntRange
  BY <1>1
<1>. QED BY <1>1, <1>2 DEF Leg!Int16, Leg!Ints

LEMMA LongIsItself ==
  ASSUME Leg!InterpolationAssumption, NEW n \in Int
  PROVE  /\ Leg!Long(n) \in 0..LongRange - 1
         /\ n \in 0..LongRange - 1 => Leg!Long(n) = n
BY Ranges DEF Leg!Long

\* What part of a distance is on the way.
LEMMA PartOfWay ==
  ASSUME NEW a \in Int, NEW d \in Int, NEW r \in Int, a > 0, 0 <= r, r < a
  PROVE  /\ (d * r) \div a \in Int
         /\ d >= 0 => 0 <= (d * r) \div a /\ (d * r) \div a <= d
         /\ d <= 0 => d <= (d * r) \div a /\ (d * r) \div a <= 0
<1> DEFINE q == (d * r) \div a
<1>1. /\ d * r \in Int /\ d * a \in Int
      /\ d >= 0 => 0 <= d * r /\ d * r <= d * a
      /\ d <= 0 => d * r <= 0 /\ d * a <= d * r
  <2>1. d >= 0 => d * r <= d * a /\ d * 0 <= d * r
    BY Monotone
  <2>2. d <= 0 => (-d) * r <= (-d) * a /\ (-d) * 0 <= (-d) * r
    BY Monotone
  <2>. QED BY <2>1, <2>2
<1>2. q \in Int /\ a * q <= d * r /\ d * r < a * q + a
  BY <1>1, Division
<1> HIDE DEF q
<1>3. d >= 0 => 0 <= q /\ q <= d
  <2>1. ASSUME d >= 0, q <= -1 PROVE FALSE
    <3>1. a * q <= a * (-1)
      BY <1>2, <2>1, Monotone
    <3>. QED BY <1>1, <1>2, <2>1, <3>1
  <2>2. ASSUME d >= 0, d + 1 <= q PROVE FALSE
    <3>1. a * (d + 1) <= a * q /\ a * (d + 1) = d * a + a
      BY <1>2, <2>2, Monotone
    <3>. QED BY <1>1, <1>2, <2>2, <3>1
  <2>. QED BY <1>2, <2>1, <2>2
<1>4. d <= 0 => d <= q /\ q <= 0
  <2>1. ASSUME d <= 0, 1 <= q PROVE FALSE
    <3>1. a * 1 <= a * q
      BY <1>2, <2>1, Monotone
    <3>. QED BY <1>1, <1>2, <2>1, <3>1
  <2>2. ASSUME d <= 0, q + 1 <= d PROVE FALSE
    <3>1. a * (q + 1) <= a * d /\ a * (q + 1) = a * q + a
      BY <1>2, <2>2, Monotone
    <3>. QED BY <1>1, <1>2, <2>2, <3>1
  <2>. QED BY <1>2, <2>1, <2>2
<1>. QED BY <1>2, <1>3, <1>4 DEF q

\* The arithmetic of moveNow() is exact, though a negative distance becomes a
\* large number and its product wraps.
LEMMA ScaledIsExact ==
  ASSUME Leg!InterpolationAssumption, NEW d \in Int,
         -Leg!HalfInt < d, d < Leg!HalfInt,
         NEW r \in 0..Scale - 1
  PROVE  Leg!Scaled(d, r) = (d * r) \div Scale
<1> DEFINE H == Leg!HalfInt
           q == (d * r) \div Scale
<1>1. /\ H \in Int /\ H > 0 /\ IntRange = 2 * H /\ IntRange \in Int
      /\ Scale \in Int /\ Scale > 0 /\ LongRange \in Int /\ LongRange > 0
      /\ LongRange >= Scale * IntRange /\ LongRange >= IntRange
      /\ r \in Int /\ 0 <= r /\ r < Scale
  BY Ranges
<1>2. PICK k \in Int : k > 0 /\ LongRange = Scale * (IntRange * k)
  BY Ranges
<1>3. /\ d >= 0 => 0 <= q /\ q <= d
      /\ d <= 0 => d <= q /\ q <= 0
  BY <1>1, PartOfWay
<1>4. d * r \in Int /\ q \in Int /\ Scale * q \in Int
        /\ 0 <= d * r - Scale * q /\ d * r - Scale * q < Scale
  <2>1. d * r \in Int
    BY <1>1
  <2>. QED BY <1>1, <2>1, Division
<1> HIDE DEF q
<1>5. q \in Leg!Ints
  BY <1>1, <1>3, <1>4 DEF Leg!Ints
<1>6. /\ d >= 0 => 0 <= d * r /\ d * r < LongRange
      /\ d < 0 => d * r <= 0 /\ -LongRange < d * r
  <2>1. Scale * IntRange \in Int /\ Scale * IntRange = 2 * (Scale * H) /\ Scale * H > 0
    <3>1. Scale * H >= Scale * 1
      BY <1>1, Monotone
    <3>. QED BY <1>1, <3>1
  <2>2. d >= 0 => d * r <= d * Scale /\ d * 0 <= d * r /\ Scale * d <= Scale * H
    BY <1>1, Monotone
  <2>3. d < 0 => (-d) * r <= (-d) * Scale /\ (-d) * 0 <= (-d) * r
                   /\ Scale * (-d) <= Scale * H
    BY <1>1, Monotone
  <2>. QED BY <1>1, <2>1, <2>2, <2>3
<1>7. CASE d >= 0
  <2>1. Leg!Long(d) = d /\ Leg!Long(d * r) = d * r
    <3>1. d \in 0..LongRange - 1 /\ d * r \in 0..LongRange - 1
      BY <1>1, <1>4, <1>6, <1>7
    <3>. QED BY <1>4, <3>1, LongIsItself
  <2>2. Leg!Scaled(d, r) = Leg!Int16(q)
    BY <2>1 DEF Leg!Scaled, q
  <2>. QED BY <1>5, <2>2, IntIsItself DEF q
<1>8. CASE d < 0
  <2>1. Leg!Long(d) = LongRange + d
    <3> DEFINE n == LongRange + d
    <3>1. n \in Int /\ 0 <= n /\ n < LongRange /\ d = LongRange * (-1) + n
      BY <1>1, <1>8
    <3> HIDE DEF n
    <3>2. d % LongRange = n
      BY <1>1, <3>1, Quotient
    <3>. QED BY <3>2 DEF n, Leg!Long
  <2>2. CASE r = 0
    <3>1. Leg!Long(Leg!Long(d) * r) = 0
      <4>1. Leg!Long(d) * r = 0
        BY <1>1, <2>1, <2>2
      <4>2. 0 \in Int /\ 0 \in 0..LongRange - 1
        BY <1>1
      <4>. QED BY <4>1, <4>2, LongIsItself
    <3>2. 0 \div Scale = 0 /\ d * r = 0
      BY <1>1, <2>2
    <3>3. Leg!Scaled(d, r) = Leg!Int16(q)
      BY <3>1, <3>2 DEF Leg!Scaled, q
    <3>. QED BY <1>5, <3>3, IntIsItself DEF q
  <2>3. CASE r > 0
    <3>1. Leg!Long(Leg!Long(d) * r) = LongRange + d * r
      <4> DEFINE n == LongRange + d * r
                 j == r - 1
                 x == (LongRange + d) * r
      <4>1. /\ n \in Int /\ j \in Int /\ x \in Int
            /\ x = LongRange * j + n
        BY <1>1
      <4>2. 0 <= n /\ n < LongRange
        <5>1. (-d) * r >= (-d) * 1
          BY <1>1, <1>8, <2>3, Monotone
        <5>2. d * r < 0
          BY <1>1, <1>8, <5>1
        <5>. QED BY <1>1, <1>4, <1>6, <1>8, <5>2
      <4> HIDE DEF n, j, x
      <4>3. x % LongRange = n
        BY <1>1, <4>1, <4>2, Quotient
      <4>. QED BY <2>1, <4>3 DEF Leg!Long, n, x
    <3>2. (LongRange + d * r) \div Scale = IntRange * k + q
      <4> DEFINE i == IntRange * k
                 j == i + q
                 n == d * r - Scale * q
                 x == LongRange + d * r
      <4>1. i \in Int
        BY <1>1, <1>2
      <4>2. /\ n \in Int /\ 0 <= n /\ n < Scale /\ j \in Int /\ x \in Int
            /\ x = Scale * j + n
        <5> HIDE DEF i
        <5>1. LongRange = Scale * i /\ Scale * (i + q) = Scale * i + Scale * q
          BY <1>1, <1>2, <1>4, <4>1 DEF i
        <5>2. Scale * i \in Int
          BY <1>1, <4>1
        <5>. QED BY <1>1, <1>4, <4>1, <5>1, <5>2
      <4> HIDE DEF j, n, x, i
      <4>3. x \div Scale = j
        BY <1>1, <4>2, Quotient
      <4>. QED BY <4>3 DEF j, x, i
    <3>3. Leg!Scaled(d, r) = Leg!Int16(IntRange * k + q)
      BY <3>1, <3>2 DEF Leg!Scaled
    <3>. QED BY <1>2, <1>5, <3>3, CutToInt DEF q
  <2>. QED BY <1>1, <2>2, <2>3
<1>. QED BY <1>7, <1>8

\* A later part of the way is further on.
LEMMA FurtherOn ==
  ASSUME NEW a \in Int, a > 0, NEW d \in Int, NEW r1 \in Int, NEW r2 \in Int, r1 <= r2
  PROVE  /\ (d * r1) \div a \in Int /\ (d * r2) \div a \in Int
         /\ d >= 0 => (d * r1) \div a <= (d * r2) \div a
         /\ d <= 0 => (d * r2) \div a <= (d * r1) \div a
<1>1. \A x, y \in Int : x <= y => x \div a <= y \div a
  <2> SUFFICES ASSUME NEW x \in Int, NEW y \in Int, x <= y PROVE x \div a <= y \div a
    OBVIOUS
  <2> DEFINE p == x \div a
             q == y \div a
  <2>1. /\ p \in Int /\ q \in Int /\ a * p <= x /\ y < a * q + a
    BY Division
  <2> HIDE DEF p, q
  <2>2. ASSUME q + 1 <= p PROVE FALSE
    <3>1. a * (q + 1) <= a * p /\ a * (q + 1) = a * q + a
      BY <2>1, <2>2, Monotone
    <3>2. a * q \in Int /\ a * p \in Int
      BY <2>1
    <3>. QED BY <2>1, <3>1, <3>2
  <2>. QED BY <2>1, <2>2 DEF p, q
<1>2. /\ d * r1 \in Int /\ d * r2 \in Int
      /\ d >= 0 => d * r1 <= d * r2
      /\ d <= 0 => d * r2 <= d * r1
  <2>1. d >= 0 => d * r1 <= d * r2
    BY Monotone
  <2>2. d <= 0 => (-d) * r1 <= (-d) * r2
    BY Monotone
  <2>. QED BY <2>1, <2>2
<1>3. (d * r1) \div a \in Int /\ (d * r2) \div a \in Int
  BY <1>2, Division
<1>. QED BY <1>1, <1>2, <1>3, Zenon

\* While the clock has not wrapped, the leg is on its way, by a part that is
\* not later than the clock, and the movement ends after its speed.  Without
\* the part, the next position could lie behind this one.
OnWay ==
  \E r \in 0..Scale - 1 :
     /\ position = rastart + (radist * r) \div Scale
     /\ r * speed <= (now - startMoveTime) * Scale

LegTypes ==
  /\ now \in 0..LongRange - 1 /\ startMoveTime \in 0..LongRange - 1
  /\ endMoveTime \in 0..LongRange - 1 /\ lastMoveTime \in 0..LongRange - 1
  /\ rastart \in Leg!Ints /\ radist \in Leg!Ints /\ position \in Leg!Ints
  /\ speed \in Speeds \cup {0} /\ wrapped \in BOOLEAN
  /\ movements \in 0..MaxMovements /\ turns \in 0..MaxTurns

LegInv ==
  /\ LegTypes
  /\ speed = 0 => endMoveTime = 0
  /\ ~wrapped =>
       /\ rastart \in Leg!Positions /\ position \in Leg!Positions
       /\ rastart + radist \in Leg!Positions
       /\ startMoveTime <= now
       /\ speed # 0 => endMoveTime = Leg!Long(startMoveTime + speed)
       /\ OnWay

\* A step of a movement: where it puts the leg.
LEMMA Moved ==
  ASSUME Leg!InterpolationAssumption, LegInv, ~wrapped,
         NEW t \in 0..LongRange - 1, now <= t, Leg!Moves(t)
  PROVE  LET r == Leg!ratio(t)
             p == Leg!Int16(rastart + Leg!Scaled(radist, r))
         IN /\ r \in 0..Scale - 1
            /\ p = rastart + (radist * r) \div Scale
            /\ p \in Leg!Positions
            /\ Leg!Long(t - startMoveTime) = t - startMoveTime
            /\ r * speed <= (t - startMoveTime) * Scale
            /\ (t - startMoveTime) * Scale < (r + 1) * speed
            /\ radist >= 0 => position <= p
            /\ radist <= 0 => p <= position
<1> DEFINE H == Leg!HalfInt
           e == t - startMoveTime
           r == Leg!ratio(t)
           q == (radist * r) \div Scale
           p == Leg!Int16(rastart + Leg!Scaled(radist, r))
<1>1. /\ H \in Int /\ H > 0 /\ Scale \in Int /\ Scale > 0
      /\ LongRange \in Int /\ LongRange > 0
  BY Ranges
<1>2. /\ now \in 0..LongRange - 1 /\ startMoveTime \in 0..LongRange - 1
      /\ endMoveTime \in 0..LongRange - 1 /\ lastMoveTime \in 0..LongRange - 1
      /\ rastart \in 0..H - 1 /\ position \in 0..H - 1 /\ rastart + radist \in 0..H - 1
      /\ radist \in Int
      /\ speed \in Speeds \cup {0} /\ startMoveTime <= now
  BY DEF LegInv, LegTypes, Leg!Positions, Leg!Ints
<1>3. /\ speed \in Int /\ speed > 0 /\ speed * Scale \in Int /\ speed * Scale < LongRange
      /\ endMoveTime = Leg!Long(startMoveTime + speed)
  <2>1. t < endMoveTime
    BY DEF Leg!Moves
  <2>2. speed # 0 /\ speed \in Speeds
    BY <1>1, <1>2, <2>1 DEF LegInv
  <2>3. speed \in 1..H - 1 /\ speed * Scale < LongRange
    BY <2>2 DEF Leg!InterpolationAssumption
  <2>. QED BY <1>1, <2>2, <2>3 DEF LegInv
<1>4. speed <= speed * Scale
  <2>1. speed * 1 <= speed * Scale
    BY <1>1, <1>3, Monotone
  <2>. QED BY <1>3, <2>1
<1>5. e \in Int /\ 0 <= e /\ e < speed
  <2>1. e \in Int /\ 0 <= e /\ t < endMoveTime
    BY <1>1, <1>2 DEF Leg!Moves
  <2>2. CASE startMoveTime + speed < LongRange
    <3>1. endMoveTime = startMoveTime + speed
      <4>1. /\ startMoveTime + speed \in Int
            /\ startMoveTime + speed \in 0..LongRange - 1
        BY <1>1, <1>2, <1>3, <2>2
      <4>. QED BY <1>3, <4>1, LongIsItself
    <3>. QED BY <1>2, <1>3, <2>1, <3>1
  <2>3. CASE startMoveTime + speed >= LongRange
    <3> DEFINE n == startMoveTime + speed
               x == n - LongRange
    <3>1. /\ n \in Int /\ x \in Int /\ n = LongRange * 1 + x /\ 0 <= x /\ x < LongRange
          /\ x < startMoveTime
      BY <1>1, <1>2, <1>3, <1>4, <2>3
    <3> HIDE DEF n, x
    <3>2. n % LongRange = x
      BY <1>1, <3>1, Quotient
    <3>3. endMoveTime = x
      BY <1>3, <3>2 DEF n, Leg!Long
    <3>. QED BY <1>1, <1>2, <2>1, <3>1, <3>3
  <2>. QED BY <1>1, <1>2, <1>3, <2>2, <2>3
<1>6. /\ e * Scale \in Int /\ 0 <= e * Scale /\ e * Scale < speed * Scale
      /\ Leg!Long(e) = e /\ Leg!Long(e * Scale) = e * Scale
  <2> HIDE DEF e
  <2>1. e * Scale \in Int /\ 0 * Scale <= e * Scale /\ (e + 1) * Scale <= speed * Scale
    BY <1>1, <1>3, <1>5, Monotone
  <2>2. (e + 1) * Scale = e * Scale + Scale
    BY <1>1, <1>5
  <2>3. e * Scale \in 0..LongRange - 1 /\ e \in 0..LongRange - 1
    BY <1>1, <1>3, <1>4, <1>5, <2>1, <2>2
  <2>. QED BY <1>1, <1>3, <2>1, <2>2, <2>3, LongIsItself
<1>7. /\ r \in Int /\ r * speed <= e * Scale /\ e * Scale < (r + 1) * speed
      /\ r * speed \in Int
  <2>1. r = (e * Scale) \div speed
    BY <1>6 DEF Leg!ratio
  <2> DEFINE x == e * Scale
             y == x \div speed
  <2>2. x \in Int
    BY <1>6
  <2> HIDE DEF x
  <2>3. y \in Int /\ speed * y <= x /\ x < speed * y + speed
    BY <1>3, <2>2, Division
  <2> HIDE DEF y
  <2>4. y * speed = speed * y /\ (y + 1) * speed = speed * y + speed /\ y * speed \in Int
    BY <1>3, <2>3
  <2>5. r = y
    BY <2>1 DEF x, y
  <2>. QED BY <2>3, <2>4, <2>5 DEF x
<1>8. r \in 0..Scale - 1
  <2> HIDE DEF r, e
  <2>1. ASSUME r <= -1 PROVE FALSE
    <3>1. (r + 1) * speed <= 0 * speed
      BY <1>3, <1>7, <2>1, Monotone
    <3>. QED BY <1>3, <1>6, <1>7, <3>1
  <2>2. ASSUME Scale <= r PROVE FALSE
    <3>1. Scale * speed <= r * speed
      BY <1>1, <1>3, <1>7, <2>2, Monotone
    <3>2. Scale * speed = speed * Scale
      BY <1>1, <1>3
    <3>. QED BY <1>1, <1>3, <1>6, <1>7, <3>1, <3>2
  <2>. QED BY <1>1, <1>7, <2>1, <2>2
<1>9. /\ q \in Int
      /\ radist >= 0 => 0 <= q /\ q <= radist
      /\ radist <= 0 => radist <= q /\ q <= 0
  <2> HIDE DEF r
  <2>. QED BY <1>1, <1>2, <1>8, PartOfWay
<1>10. p = rastart + q /\ p \in 0..H - 1
  <2>1. Leg!Scaled(radist, r) = q
    <3>1. -H < radist /\ radist < H
      BY <1>1, <1>2
    <3> HIDE DEF r
    <3>. QED BY <1>2, <1>8, <3>1, ScaledIsExact
  <2> HIDE DEF q
  <2>2. rastart + q \in 0..H - 1 /\ rastart + q \in Leg!Ints
    BY <1>1, <1>2, <1>9 DEF Leg!Ints
  <2>3. Leg!Int16(rastart + q) = rastart + q
    BY <2>2, IntIsItself
  <2>. QED BY <2>1, <2>2, <2>3
<1>11. /\ radist >= 0 => position <= rastart + q
       /\ radist <= 0 => rastart + q <= position
  <2>1. PICK r0 \in 0..Scale - 1 : /\ position = rastart + (radist * r0) \div Scale
                                   /\ r0 * speed <= (now - startMoveTime) * Scale
    BY DEF LegInv, OnWay
  <2> HIDE DEF r
  <2>2. r0 <= r
    <3>1. (now - startMoveTime) * Scale <= e * Scale
            /\ (now - startMoveTime) * Scale \in Int
      BY <1>1, <1>2, <1>5, Monotone
    <3> HIDE DEF e
    <3>2. ASSUME r + 1 <= r0 PROVE FALSE
      <4>1. (r + 1) * speed <= r0 * speed /\ r0 * speed \in Int /\ (r + 1) * speed \in Int
        BY <1>1, <1>3, <1>7, <3>2, Monotone
      <4>. QED BY <1>6, <1>7, <2>1, <3>1, <4>1
    <3>. QED BY <1>1, <1>7, <3>2
  <2>3. /\ (radist * r0) \div Scale \in Int
        /\ radist >= 0 => (radist * r0) \div Scale <= q
        /\ radist <= 0 => q <= (radist * r0) \div Scale
    <3>1. r0 \in Int /\ r \in Int
      BY <1>1, <1>7
    <3>. QED BY <1>1, <1>2, <2>2, <3>1, FurtherOn
  <2> HIDE DEF q
  <2>. QED BY <1>2, <1>9, <2>1, <2>3
<1> HIDE DEF r, q, p, e
<1>. QED BY <1>6, <1>7, <1>8, <1>10, <1>11 DEF p, q, r, e, H, Leg!Positions

LEMMA LegInit == Leg!InterpolationAssumption /\ Leg!Init => LegInv
<1> SUFFICES ASSUME Leg!InterpolationAssumption, Leg!Init PROVE LegInv
  OBVIOUS
<1> DEFINE H == Leg!HalfInt
<1>1. /\ H \in Int /\ H > 0 /\ Scale \in Int /\ Scale > 0
      /\ LongRange \in Int /\ LongRange > 0
  BY Ranges
<1>2. /\ now \in 0..LongRange - 1 /\ position \in 0..H - 1
      /\ 0 \in 0..MaxMovements /\ 0 \in 0..MaxTurns
  BY DEF Leg!Init, Leg!InterpolationAssumption, Leg!Positions
<1>3. /\ startMoveTime = 0 /\ endMoveTime = 0 /\ lastMoveTime = 0 /\ speed = 0
      /\ rastart = position /\ radist = 0 /\ movements = 0 /\ turns = 0
      /\ wrapped = FALSE
  BY DEF Leg!Init
<1>4. LegTypes
  <2>1. wrapped \in BOOLEAN
    BY <1>3, Zenon
  <2>. QED BY <1>1, <1>2, <1>3, <2>1 DEF LegTypes, Leg!Ints
<1>5. OnWay
  <2>1. 0 \div Scale = 0 /\ 0 \in 0..Scale - 1
    BY <1>1
  <2>2. /\ position = rastart + (radist * 0) \div Scale
        /\ 0 * speed <= (now - startMoveTime) * Scale
    <3>1. 0 * Scale <= now * Scale /\ now * Scale \in Int
      BY <1>1, <1>2, Monotone
    <3>. QED BY <1>1, <1>2, <1>3, <2>1, <3>1
  <2>. QED BY <2>1, <2>2 DEF OnWay
<1>. QED BY <1>1, <1>2, <1>3, <1>4, <1>5 DEF LegInv, Leg!Positions

\* movement(): the way is an int, and begins here and now.
LEMMA MovementStep ==
  ASSUME Leg!InterpolationAssumption, LegInv, NEW to \in Targets, NEW s \in Speeds,
         Leg!movement(to, s)
  PROVE  LegInv'
<1> DEFINE H == Leg!HalfInt
<1>1. /\ H \in Int /\ H > 0 /\ Scale \in Int /\ Scale > 0
      /\ LongRange \in Int /\ LongRange > 0
  BY Ranges
<1>2. /\ to \in 0..H - 1 /\ s \in 1..H - 1 /\ MaxMovements \in Nat
  BY DEF Leg!InterpolationAssumption, Leg!Positions
<1>3. LegTypes
  BY DEF LegInv
<1>4. /\ movements < MaxMovements /\ movements' = movements + 1
      /\ wrapped' = (position \notin Leg!Positions)
      /\ rastart' = position /\ radist' = Leg!Int16(to - position)
      /\ startMoveTime' = now /\ speed' = s /\ endMoveTime' = Leg!Long(now + s)
      /\ now' = now /\ lastMoveTime' = lastMoveTime /\ position' = position
      /\ turns' = turns
  BY DEF Leg!movement
<1>5. position \in Int /\ now \in 0..LongRange - 1
  BY <1>1, <1>3 DEF LegTypes, Leg!Ints
<1>6. LegTypes'
  <2>1. radist' \in Leg!Ints
    <3>1. to - position \in Int
      BY <1>2, <1>5
    <3>. QED BY <1>4, <3>1, IntIsInt
  <2>2. endMoveTime' \in 0..LongRange - 1
    <3>1. now + s \in Int
      BY <1>2, <1>5
    <3>. QED BY <1>4, <3>1, LongIsItself
  <2>3. wrapped' \in BOOLEAN
    BY <1>4, Zenon
  <2>4. movements' \in 0..MaxMovements
    BY <1>2, <1>3, <1>4 DEF LegTypes
  <2>. QED BY <1>3, <1>4, <2>1, <2>2, <2>3, <2>4 DEF LegTypes
<1>7. speed' # 0
  BY <1>1, <1>2, <1>4
<1>8. ASSUME ~wrapped'
      PROVE  /\ rastart' \in Leg!Positions /\ position' \in Leg!Positions
             /\ (rastart + radist)' \in Leg!Positions
             /\ startMoveTime' <= now'
             /\ endMoveTime' = Leg!Long(startMoveTime' + speed')
             /\ OnWay'
  <2>1. position \in Leg!Positions
    BY <1>4, <1>8
  <2>2. radist' = to - position
    <3>1. to - position \in Leg!Ints
      BY <1>1, <1>2, <2>1 DEF Leg!Positions, Leg!Ints
    <3>. QED BY <1>4, <3>1, IntIsItself
  <2>3. rastart' + radist' = to /\ startMoveTime' <= now' /\ radist' \in Int
    BY <1>2, <1>4, <1>5, <2>2
  <2>4. OnWay'
    <3>1. 0 \div Scale = 0 /\ 0 \in 0..Scale - 1
      BY <1>1
    <3>2. /\ position' = rastart' + (radist' * 0) \div Scale
          /\ 0 * speed' <= (now' - startMoveTime') * Scale
      BY <1>1, <1>2, <1>4, <1>5, <2>3, <3>1
    <3>. QED BY <3>1, <3>2 DEF OnWay
  <2>. QED BY <1>2, <1>4, <2>1, <2>3, <2>4 DEF Leg!Positions
<1>. QED BY <1>6, <1>7, <1>8 DEF LegInv

\* Nothing but the clock changes.
LEMMA ClockStep ==
  ASSUME Leg!InterpolationAssumption, LegInv, LegTypes',
         UNCHANGED <<startMoveTime, endMoveTime, speed, rastart, radist, position>>,
         wrapped' = (wrapped \/ now' < now)
  PROVE  LegInv'
<1>1. ASSUME ~wrapped' PROVE ~wrapped /\ now <= now'
  <2>1. ~wrapped /\ ~(now' < now)
    BY <1>1, Zenon
  <2>2. now \in Int /\ now' \in Int
    BY Ranges DEF LegInv, LegTypes
  <2>. QED BY <2>1, <2>2
<1>2. ASSUME ~wrapped' PROVE OnWay' /\ startMoveTime' <= now'
  <2>1. /\ now \in Int /\ now' \in Int /\ startMoveTime \in Int /\ now <= now'
        /\ startMoveTime <= now /\ OnWay
    BY <1>1, <1>2, Ranges DEF LegInv, LegTypes
  <2>2. PICK r \in 0..Scale - 1 : /\ position = rastart + (radist * r) \div Scale
                                  /\ r * speed <= (now - startMoveTime) * Scale
    BY <2>1 DEF OnWay
  <2>3. speed \in Int /\ Scale \in Int /\ Scale > 0
    BY Ranges DEF LegInv, LegTypes, Leg!InterpolationAssumption
  <2>4. r * speed <= (now' - startMoveTime) * Scale
    <3>1. /\ (now - startMoveTime) * Scale <= (now' - startMoveTime) * Scale
          /\ (now - startMoveTime) * Scale \in Int /\ (now' - startMoveTime) * Scale \in Int
      <4>1. /\ now - startMoveTime \in Int /\ now' - startMoveTime \in Int
            /\ now - startMoveTime <= now' - startMoveTime
        <5>1. \A a, b, c \in Int : a - c \in Int /\ (a <= b => a - c <= b - c)
          OBVIOUS
        <5>. QED BY <2>1, <5>1, Zenon
      <4>. QED BY <2>3, <4>1, Monotone
    <3>2. r * speed \in Int
      BY <2>3
    <3>. QED BY <2>2, <3>1, <3>2
  <2>. QED BY <2>1, <2>2, <2>4 DEF OnWay
<1>. QED BY <1>1, <1>2 DEF LegInv

LEMMA LoopStep ==
  ASSUME Leg!InterpolationAssumption, LegInv, Leg!Loop
  PROVE  LegInv'
<1>1. PICK d \in 0..MaxGap : now' = Leg!Long(now + d)
  BY DEF Leg!Loop
<1>2. /\ turns < MaxTurns /\ turns' = turns + 1 /\ Leg!moveNow(now')
      /\ wrapped' = (wrapped \/ now' < now)
      /\ rastart' = rastart /\ radist' = radist /\ movements' = movements
  BY DEF Leg!Loop, Leg!way
<1>3. /\ LegTypes /\ MaxTurns \in Int /\ LongRange \in Int /\ Leg!HalfInt \in Int
      /\ Leg!HalfInt > 0 /\ Scale \in Int /\ Scale > 0
  BY Ranges DEF LegInv, Leg!InterpolationAssumption
<1>4. /\ now' \in 0..LongRange - 1 /\ turns' \in 0..MaxTurns
      /\ wrapped' \in BOOLEAN
  <2>1. now + d \in Int
    BY <1>1, <1>3 DEF LegTypes, Leg!InterpolationAssumption
  <2>2. now' \in 0..LongRange - 1
    BY <1>1, <2>1, LongIsItself
  <2>3. wrapped' \in BOOLEAN
    BY <1>2, Zenon
  <2>. QED BY <1>2, <1>3, <2>2, <2>3 DEF LegTypes
<1>5. CASE ~Leg!Moves(now')
  <2>1. UNCHANGED <<startMoveTime, endMoveTime, lastMoveTime, speed, rastart, radist, position>>
    BY <1>2, <1>5 DEF Leg!moveNow, Leg!times
  <2>2. LegTypes'
    BY <1>2, <1>3, <1>4, <2>1 DEF LegTypes
  <2>. QED BY <1>2, <2>1, <2>2, ClockStep
<1>6. CASE Leg!Moves(now')
  <2> DEFINE r == Leg!ratio(now')
             p == Leg!Int16(rastart + Leg!Scaled(radist, r))
  <2>1. /\ lastMoveTime' = now' /\ position' = p
        /\ startMoveTime' = startMoveTime /\ endMoveTime' = endMoveTime /\ speed' = speed
    BY <1>2, <1>6 DEF Leg!moveNow
  <2>2. p \in Leg!Ints
    <3>1. speed \in Int /\ speed > 0 /\ radist \in Int /\ rastart \in Int
      <4>1. endMoveTime # 0
        BY <1>3, <1>4, <1>6 DEF Leg!Moves, LegTypes
      <4>2. speed \in Speeds
        BY <1>3, <4>1 DEF LegInv, LegTypes
      <4>. QED BY <1>3, <4>2 DEF Leg!InterpolationAssumption, LegTypes, Leg!Ints
    <3>2. Leg!Long(now' - startMoveTime) \in Int
      <4>1. now' - startMoveTime \in Int
        BY <1>3, <1>4 DEF LegTypes
      <4>. QED BY <1>3, <4>1, LongIsItself
    <3>3. Leg!Long(Leg!Long(now' - startMoveTime) * Scale) \in Int
      <4>1. Leg!Long(now' - startMoveTime) * Scale \in Int
        BY <1>3, <3>2
      <4>. QED BY <1>3, <4>1, LongIsItself
    <3>4. r \in Int
      BY <3>1, <3>3, Division DEF Leg!ratio
    <3> HIDE DEF r
    <3>5. Leg!Long(Leg!Long(radist) * r) \in Int
      <4>1. Leg!Long(radist) \in Int
        BY <1>3, <3>1, LongIsItself
      <4>2. Leg!Long(radist) * r \in Int
        BY <3>4, <4>1
      <4>. QED BY <1>3, <4>2, LongIsItself
    <3>6. Leg!Scaled(radist, r) \in Leg!Ints
      <4>1. Leg!Long(Leg!Long(radist) * r) \div Scale \in Int
        BY <1>3, <3>5, Division
      <4>. QED BY <4>1, IntIsInt DEF Leg!Scaled
    <3>7. rastart + Leg!Scaled(radist, r) \in Int
      BY <1>3, <3>1, <3>6 DEF Leg!Ints
    <3>. QED BY <3>7, IntIsInt
  <2>3. LegTypes'
    BY <1>2, <1>3, <1>4, <2>1, <2>2 DEF LegTypes
  <2>4. ASSUME ~wrapped'
        PROVE  /\ ~wrapped /\ now <= now' /\ p \in Leg!Positions /\ OnWay'
               /\ startMoveTime <= now'
    <3>1. ~wrapped /\ now <= now'
      <4>1. ~wrapped /\ ~(now' < now)
        BY <1>2, <2>4, Zenon
      <4>. QED BY <1>3, <1>4, <4>1 DEF LegTypes
    <3>2. /\ r \in 0..Scale - 1 /\ p = rastart + (radist * r) \div Scale
          /\ p \in Leg!Positions
          /\ r * speed <= (now' - startMoveTime) * Scale
      BY <1>4, <1>6, <3>1, Moved
    <3> HIDE DEF r, p
    <3>3. OnWay'
      BY <1>2, <2>1, <3>2 DEF OnWay
    <3>4. startMoveTime <= now'
      BY <1>3, <1>4, <3>1 DEF LegInv, LegTypes
    <3>. QED BY <3>1, <3>2, <3>3, <3>4
  <2> HIDE DEF r, p
  <2>. QED BY <1>2, <2>1, <2>3, <2>4 DEF LegInv
<1>. QED BY <1>5, <1>6

LEMMA RestStep ==
  ASSUME Leg!InterpolationAssumption, LegInv, Leg!Rest
  PROVE  LegInv'
<1>1. PICK d \in Rests : now' = Leg!Long(now + d)
  BY DEF Leg!Rest
<1>2. /\ turns < MaxTurns /\ turns' = turns + 1
      /\ wrapped' = (wrapped \/ now' < now)
      /\ rastart' = rastart /\ radist' = radist /\ movements' = movements
      /\ startMoveTime' = startMoveTime /\ endMoveTime' = endMoveTime
      /\ lastMoveTime' = lastMoveTime /\ speed' = speed /\ position' = position
  BY DEF Leg!Rest, Leg!way, Leg!times
<1>3. LegTypes /\ MaxTurns \in Int /\ LongRange \in Int /\ d \in Int
  BY Ranges DEF LegInv, Leg!InterpolationAssumption
<1>4. now' \in 0..LongRange - 1
  <2>1. now + d \in Int
    BY <1>3 DEF LegTypes
  <2>. QED BY <1>1, <2>1, LongIsItself
<1>5. wrapped' \in BOOLEAN
  BY <1>2, Zenon
<1>6. LegTypes'
  BY <1>2, <1>3, <1>4, <1>5 DEF LegTypes
<1>. QED BY <1>2, <1>6, ClockStep

LEMMA LegStep ==
  Leg!InterpolationAssumption /\ LegInv /\ [Leg!Next]_Leg!vars => LegInv'
<1> SUFFICES ASSUME Leg!InterpolationAssumption, LegInv, [Leg!Next]_Leg!vars
             PROVE  LegInv'
  OBVIOUS
<1>1. CASE Leg!StartMovement
  BY <1>1, MovementStep DEF Leg!StartMovement
<1>2. CASE Leg!Loop
  BY <1>2, LoopStep
<1>3. CASE Leg!Rest
  BY <1>3, RestStep
<1>4. CASE UNCHANGED Leg!vars
  BY <1>4 DEF Leg!vars, Leg!times, Leg!way, LegInv, LegTypes, OnWay
<1>. QED BY <1>1, <1>2, <1>3, <1>4 DEF Leg!Next

\* The leg is on its way, and never leaves it.
LEMMA LegMeans ==
  Leg!InterpolationAssumption /\ LegInv => Leg!TypeOK /\ Leg!BetweenEnds
<1> SUFFICES ASSUME Leg!InterpolationAssumption, LegInv
             PROVE  Leg!TypeOK /\ Leg!BetweenEnds
  OBVIOUS
<1>1. Leg!TypeOK
  <2>1. /\ {now, startMoveTime, endMoveTime, lastMoveTime} \subseteq 0..LongRange - 1
        /\ {rastart, radist, position} \subseteq Leg!Ints
    BY DEF LegInv, LegTypes
  <2>2. wrapped \/ {rastart, position} \subseteq Leg!Positions
    BY DEF LegInv
  <2>. QED BY <2>1, <2>2, Zenon DEF Leg!TypeOK, LegInv, LegTypes
<1>2. ASSUME ~wrapped
      PROVE  \/ rastart <= position /\ position <= rastart + radist
             \/ rastart + radist <= position /\ position <= rastart
  <2>1. /\ rastart \in Int /\ radist \in Int /\ Scale \in Int /\ Scale > 0
        /\ Leg!HalfInt \in Int
    BY Ranges DEF LegInv, LegTypes, Leg!Ints
  <2>2. PICK r \in 0..Scale - 1 : position = rastart + (radist * r) \div Scale
    BY <1>2 DEF LegInv, OnWay
  <2> DEFINE q == (radist * r) \div Scale
  <2>3. /\ q \in Int
        /\ radist >= 0 => 0 <= q /\ q <= radist
        /\ radist <= 0 => radist <= q /\ q <= 0
    BY <2>1, PartOfWay
  <2>4. position = rastart + q
    BY <2>2
  <2> HIDE DEF q
  <2>. QED BY <2>1, <2>3, <2>4
<1>. QED BY <1>1, <1>2 DEF Leg!BetweenEnds

LEMMA LegMovesOn ==
  ASSUME Leg!InterpolationAssumption, LegInv, [Leg!Next]_Leg!vars,
         movements' = movements, ~wrapped'
  PROVE  /\ radist >= 0 => position' >= position
         /\ radist <= 0 => position' <= position
         /\ lastMoveTime' # lastMoveTime =>
              \E r \in 0..Scale - 1 :
                 /\ position' = rastart + (radist * r) \div Scale
                 /\ r * speed <= Leg!Long(now' - startMoveTime) * Scale
                 /\ Leg!Long(now' - startMoveTime) * Scale < (r + 1) * speed
<1>1. position \in Int
  BY Ranges DEF LegInv, LegTypes, Leg!Ints
<1>2. CASE position' = position /\ lastMoveTime' = lastMoveTime
  BY <1>1, <1>2
<1>3. CASE ~(position' = position /\ lastMoveTime' = lastMoveTime)
  <2>1. Leg!Loop
    <3>1. ~Leg!StartMovement
      <4> SUFFICES ASSUME NEW to \in Targets, NEW s \in Speeds, Leg!movement(to, s)
                   PROVE  FALSE
        BY DEF Leg!StartMovement
      <4>. QED BY <1>3, Zenon DEF Leg!movement
    <3>2. ~Leg!Rest /\ ~UNCHANGED Leg!vars
      BY <1>3 DEF Leg!Rest, Leg!vars, Leg!times
    <3>. QED BY <3>1, <3>2 DEF Leg!Next
  <2>2. Leg!Moves(now') /\ position' = Leg!Int16(rastart + Leg!Scaled(radist, Leg!ratio(now')))
    BY <1>3, <2>1 DEF Leg!Loop, Leg!moveNow, Leg!times
  <2>3. now' \in 0..LongRange - 1
    <3>1. PICK d \in 0..MaxGap : now' = Leg!Long(now + d)
      BY <2>1 DEF Leg!Loop
    <3>2. now + d \in Int
      BY <3>1, Ranges DEF LegInv, LegTypes, Leg!InterpolationAssumption
    <3>. QED BY <3>1, <3>2, LongIsItself
  <2>4. ~wrapped /\ now <= now'
    <3>1. ~wrapped /\ ~(now' < now)
      BY <2>1, Zenon DEF Leg!Loop
    <3>2. now \in Int /\ now' \in Int
      BY <2>3, Ranges DEF LegInv, LegTypes
    <3>. QED BY <3>1, <3>2
  <2> DEFINE r == Leg!ratio(now')
  <2>5. /\ r \in 0..Scale - 1
        /\ position' = rastart + (radist * r) \div Scale
        /\ position' \in Leg!Positions
        /\ Leg!Long(now' - startMoveTime) = now' - startMoveTime
        /\ r * speed <= (now' - startMoveTime) * Scale
        /\ (now' - startMoveTime) * Scale < (r + 1) * speed
        /\ radist >= 0 => position <= position'
        /\ radist <= 0 => position' <= position
    BY <2>2, <2>3, <2>4, Moved
  <2> HIDE DEF r
  <2>6. position' \in Int
    BY <2>5, Ranges DEF Leg!Positions
  <2>. QED BY <1>1, <2>5, <2>6
<1>. QED BY <1>2, <1>3

\* Whatever the ranges of the integers, and however late the loop comes round,
\* a leg is between where it stood and where it is sent, unless the clock wraps
\* on the way (moveNow).
LEMMA LegStaysOnWay == Leg!InterpolationAssumption /\ Leg!Spec => []LegOnWay
<1> DEFINE I == Leg!InterpolationAssumption /\ LegInv
<1>1. Leg!InterpolationAssumption /\ Leg!Init => I
  BY LegInit
<1>2. I /\ [Leg!Next]_Leg!vars => I'
  <2>1. Leg!InterpolationAssumption => Leg!InterpolationAssumption'
    BY DEF Leg!InterpolationAssumption, Leg!Positions, Leg!HalfInt
  <2>. QED BY <2>1, LegStep
<1>3. I => LegOnWay
  BY LegMeans DEF LegOnWay
<1> HIDE DEF I
<1>. QED BY <1>1, <1>2, <1>3, PTL DEF Leg!Spec

\* While the clock does not wrap, a leg does not leave its way, within a movement
\* it only comes nearer to its target, and a call of moveNow() that does something leaves it as far on the
\* way as the exact quotient says.
THEOREM LegComesNearer == Leg!InterpolationAssumption /\ Leg!Spec => MovesOn
<1> DEFINE I == Leg!InterpolationAssumption /\ LegInv
           Nearer == movements' = movements /\ ~wrapped' =>
             /\ radist >= 0 => position' >= position
             /\ radist <= 0 => position' <= position
             /\ lastMoveTime' # lastMoveTime =>
                  \E r \in 0..Scale - 1 :
                     /\ position' = rastart + (radist * r) \div Scale
                     /\ r * speed <= Leg!Long(now' - startMoveTime) * Scale
                     /\ Leg!Long(now' - startMoveTime) * Scale < (r + 1) * speed
<1>1. Leg!InterpolationAssumption /\ Leg!Init => I
  BY LegInit
<1>2. I /\ [Leg!Next]_Leg!vars => I'
  <2>1. Leg!InterpolationAssumption => Leg!InterpolationAssumption'
    BY DEF Leg!InterpolationAssumption, Leg!Positions, Leg!HalfInt
  <2>. QED BY <2>1, LegStep
<1>3. I /\ [Leg!Next]_Leg!vars => [Nearer]_Leg!vars
  BY LegMovesOn
<1>4. []LegOnWay /\ [][Nearer]_Leg!vars => MovesOn
  BY DEF MovesOn, Leg!MovesOn
<1> HIDE DEF I, Nearer
<1>. QED BY <1>1, <1>2, <1>3, <1>4, LegStaysOnWay, PTL DEF Leg!Spec

(***************************************************************************)
(* The DallasEPROM library.                                                *)
(***************************************************************************)

-----------------------------------------------------------------------------
(* The inductive invariant.                                                *)

Kinds == {"readPage", "writePage", "lockPage", "isPageLocked"}
Calls == [kind : Kinds, page : 0..Pages]

\* The history has its type too.
HistoryInv ==
  /\ calls \in Seq(Calls) /\ Len(calls) <= MaxOps
  /\ before \in [EPROM!Place -> SUBSET EPROM!Writes]

\* Where a call can be says which call it is, and of which chip.
CallInv ==
  /\ pc # "idle" => calls # << >> /\ EPROM!call.page \in 0..Pages - 1
  /\ pc = "read" => EPROM!call.kind = "readPage" /\ row = 1
  /\ pc = "bytes" => EPROM!call.kind = "readPage" /\ row \in 1..Rows
  /\ pc \in {"status", "answer"} => EPROM!call.kind = "isPageLocked"
  /\ pc \in {"scratch", "auth", "copy"} =>
       chip = "EEPROM" /\ EPROM!call.kind \in {"writePage", "lockPage"} /\ row \in 1..Rows
  /\ pc \in {"command", "byte"} => chip = "EPROM" /\ EPROM!call.kind = "writePage"
  /\ pc = "byte" => row \in 2..Rows
  /\ pc \in {"lock", "pulse"} => chip = "EPROM" /\ EPROM!call.kind = "lockPage"

\* A call has been made that asks for the write w at place p.
Asked(w, p) ==
  /\ w.op \in 1..Len(calls) /\ w.row = p[2]
  /\ calls[w.op].page = p[1]
  /\ calls[w.op].kind = IF p[2] = 0 THEN "lockPage" ELSE "writePage"

\* What is stored was asked for, and so was what the scratchpad holds, which
\* may still be copied.
AskedInv ==
  /\ \A p \in EPROM!Place : \A w \in mem[p] : Asked(w, p)
  /\ scratch.at # EPROM!None => Asked(scratch.op, scratch.at)

\* Up to the transaction that may fail nothing is stored.
UntouchedInv == pc \in {"read", "status", "command", "lock"} => mem = before

\* The rows read so far are those of the page up to some row, up to the last one
\* while the chip answers, and an EPROM answers as long as it is there.
ReadInv ==
  pc = "bytes" =>
    /\ chip = "EPROM" /\ ~cut => selected
    /\ \E last \in 0..row - 1 :
         /\ selected => last = row - 1
         /\ \A r \in 1..row - 1 :
              data[r] = IF r <= last THEN mem[<<EPROM!call.page, r>>] ELSE {}

FirstPulsed == IF chip = "EPROM" THEN 2 ELSE 1

\* When the chip has heard all of a call so far, the scratchpad and the
\* authorisation are those of this row, and the rows before it are written.
HeardInv ==
  clean =>
    /\ pc \in {"auth", "copy"} => scratch = [at |-> EPROM!Target, op |-> EPROM!Write]
    /\ pc = "copy" => auth = EPROM!Target
    /\ pc \in {"byte", "bytes", "answer", "pulse"} => selected
    /\ pc \in {"scratch", "auth", "copy", "byte"} /\ EPROM!call.kind = "writePage"
         /\ EPROM!Pulsed /\ before[<<EPROM!call.page, 0>>] = {} =>
           /\ mem[<<EPROM!call.page, 0>>] = {}
           /\ \A r \in FirstPulsed..row - 1 :
                [op |-> Len(calls), row |-> r] \in mem[<<EPROM!call.page, r>>]

Inv ==
  /\ EPROM!ChipAssumption /\ HistoryInv /\ CallInv /\ AskedInv
  /\ UntouchedInv /\ ReadInv /\ HeardInv
  /\ EPROM!TypeOK /\ EPROM!CrcProtects /\ EPROM!ErrorChangesNothing /\ EPROM!CleanMeansDone

-----------------------------------------------------------------------------
(* Places and calls.                                                       *)

LEMMA PlaceIs ==
  ASSUME EPROM!ChipAssumption, NEW page \in 0..Pages - 1, NEW r \in 0..Rows
  PROVE  <<page, r>> \in EPROM!Place /\ <<page, r>>[1] = page /\ <<page, r>>[2] = r
         /\ <<page, r>> # EPROM!None
BY DEF EPROM!ChipAssumption, EPROM!Place, EPROM!None

\* Storing changes one place, by one write, and does it unless the page is locked.
LEMMA Stores ==
  ASSUME NEW place \in EPROM!Place, NEW op, mem \in [EPROM!Place -> SUBSET EPROM!Writes],
         EPROM!Store(place, op)
  PROVE  /\ \A p \in EPROM!Place : p # place => mem'[p] = mem[p]
         /\ \A w \in mem'[place] : w = op \/ w \in mem[place]
         /\ op \in EPROM!Writes => mem' \in [EPROM!Place -> SUBSET EPROM!Writes]
         /\ ~(place[2] # 0 /\ EPROM!Locked(place[1])) => op \in mem'[place]
         /\ \A p \in EPROM!Place : \A w \in mem[p] : chip = "EPROM" => w \in mem'[p]
<1>1. CASE place[2] # 0 /\ EPROM!Locked(place[1])
  BY <1>1 DEF EPROM!Store
<1>2. CASE ~(place[2] # 0 /\ EPROM!Locked(place[1]))
  <2>1. mem' = [mem EXCEPT ![place] = IF chip = "EPROM" THEN @ \cup {op} ELSE {op}]
    BY <1>2 DEF EPROM!Store
  <2>2. mem[place] \in SUBSET EPROM!Writes
    OBVIOUS
  <2>. QED BY <1>2, <2>1, <2>2
<1>. QED BY <1>1, <1>2

\* The last call, and which calls there are, when nobody calls.
LEMMA SameCall ==
  ASSUME calls' = calls
  PROVE  EPROM!call' = EPROM!call /\ \A w, p : Asked(w, p)' <=> Asked(w, p)
BY DEF EPROM!call, Asked

\* What is stored was asked for if what is added to it was.
LEMMA AskedStored ==
  ASSUME AskedInv, mem \in [EPROM!Place -> SUBSET EPROM!Writes], calls' = calls,
         \/ UNCHANGED mem
         \/ \E place \in EPROM!Place, op \in EPROM!Writes :
              Asked(op, place) /\ EPROM!Store(place, op)
  PROVE  \A p \in EPROM!Place : \A w \in mem'[p] : Asked(w, p)'
<1> SUFFICES ASSUME NEW p \in EPROM!Place, NEW w \in mem'[p] PROVE Asked(w, p)'
  OBVIOUS
<1>1. Asked(w, p) => Asked(w, p)'
  BY SameCall
<1>2. CASE UNCHANGED mem
  BY <1>1, <1>2 DEF AskedInv
<1>3. CASE \E place \in EPROM!Place, op \in EPROM!Writes :
             Asked(op, place) /\ EPROM!Store(place, op)
  <2>1. PICK place \in EPROM!Place, op \in EPROM!Writes :
          Asked(op, place) /\ EPROM!Store(place, op)
    BY <1>3
  <2>2. (w = op /\ p = place) \/ w \in mem[p]
    BY <2>1, Stores
  <2>. QED BY <1>1, <2>1, <2>2 DEF AskedInv
<1>. QED BY <1>2, <1>3

\* The write of this row and its place, in the middle of a call.
LEMMA ThisWrite ==
  ASSUME Inv, pc # "idle",
         pc \in {"scratch", "auth", "copy", "byte"} \/ EPROM!call.kind = "lockPage"
  PROVE  /\ Len(calls) \in 1..MaxOps /\ Len(calls) \in Nat
         /\ EPROM!call \in Calls /\ EPROM!call.page \in 0..Pages - 1
         /\ EPROM!call.kind = "lockPage" =>
              /\ <<EPROM!call.page, 0>> \in EPROM!Place
              /\ Asked([op |-> Len(calls), row |-> 0], <<EPROM!call.page, 0>>)
         /\ EPROM!call.kind = "writePage" /\ row \in 1..Rows =>
              /\ <<EPROM!call.page, row>> \in EPROM!Place
              /\ Asked([op |-> Len(calls), row |-> row], <<EPROM!call.page, row>>)
         /\ row \in 0..Rows => EPROM!Write \in EPROM!Writes
<1>1. /\ calls \in Seq(Calls) /\ calls # << >> /\ Len(calls) <= MaxOps
      /\ EPROM!call.page \in 0..Pages - 1 /\ Rows \in Nat /\ MaxOps \in Nat
  BY DEF Inv, HistoryInv, CallInv, EPROM!ChipAssumption
<1>2. Len(calls) \in 1..MaxOps /\ Len(calls) \in Nat /\ Len(calls) \in 1..Len(calls)
  BY <1>1, EmptySeq
<1>3. EPROM!call \in Calls
  BY <1>1, <1>2, ElementOfSeq DEF EPROM!call
<1>4. ASSUME EPROM!call.kind = "lockPage"
      PROVE  /\ <<EPROM!call.page, 0>> \in EPROM!Place
             /\ Asked([op |-> Len(calls), row |-> 0], <<EPROM!call.page, 0>>)
  <2>1. 0 \in 0..Rows
    BY <1>1
  <2>. QED BY <1>1, <1>2, <1>4, <2>1, PlaceIs DEF Asked, EPROM!call, Inv
<1>5. ASSUME EPROM!call.kind = "writePage", row \in 1..Rows
      PROVE  /\ <<EPROM!call.page, row>> \in EPROM!Place
             /\ Asked([op |-> Len(calls), row |-> row], <<EPROM!call.page, row>>)
  <2>1. row \in 0..Rows /\ row # 0
    BY <1>1, <1>5
  <2>. QED BY <1>1, <1>2, <1>5, <2>1, PlaceIs DEF Asked, EPROM!call, Inv
<1>6. row \in 0..Rows => EPROM!Write \in EPROM!Writes
  <2>1. 0 \in 0..Rows
    BY <1>1
  <2>. QED BY <1>2, <2>1 DEF EPROM!Write, EPROM!Writes
<1>. QED BY <1>1, <1>2, <1>3, <1>4, <1>5, <1>6

-----------------------------------------------------------------------------
(* The steps.                                                              *)

LEMMA InitRight == EPROM!ChipAssumption /\ EPROM!Init => Inv
<1> SUFFICES ASSUME EPROM!ChipAssumption, EPROM!Init PROVE Inv
  OBVIOUS
<1>1. /\ Len(calls) = 0 /\ calls \in Seq(Calls) /\ MaxOps \in Nat /\ MaxFaults \in Nat
      /\ Rows \in Nat
  BY EmptySeq DEF EPROM!Init, EPROM!ChipAssumption
<1>2. mem \in [EPROM!Place -> SUBSET EPROM!Writes] /\ data \in [1..Rows -> SUBSET EPROM!Writes]
  BY DEF EPROM!Init
<1>3. HistoryInv /\ EPROM!TypeOK
  <2>1. HistoryInv
    <3>1. before = mem
      BY DEF EPROM!Init
    <3>. QED BY <1>1, <1>2, <3>1 DEF HistoryInv
  <2>2. /\ connected \in BOOLEAN /\ clean \in BOOLEAN /\ progPin \in BOOLEAN
        /\ chip \in Chips /\ selected \in BOOLEAN /\ cut \in BOOLEAN
    BY DEF EPROM!Init
  <2>3. /\ scratch.at = EPROM!None /\ auth \in EPROM!Place \cup {EPROM!None}
        /\ faults \in 0..MaxFaults
        /\ row \in 0..Rows + 1 /\ ret \in EPROM!Codes \cup {"true", "false"}
    BY <1>1 DEF EPROM!Init, EPROM!Codes
  <2>. QED BY <1>2, <2>1, <2>2, <2>3 DEF EPROM!Init, EPROM!TypeOK
<1>4. CallInv /\ AskedInv /\ UntouchedInv /\ ReadInv /\ HeardInv
  BY DEF EPROM!Init, CallInv, AskedInv, UntouchedInv, ReadInv, HeardInv
<1>5. EPROM!CrcProtects /\ EPROM!ErrorChangesNothing /\ EPROM!CleanMeansDone
  BY DEF EPROM!Init, EPROM!Returned, EPROM!CrcProtects, EPROM!ErrorChangesNothing,
         EPROM!CleanMeansDone, EPROM!WriteDone, EPROM!LockDone, EPROM!Codes
<1>. QED BY <1>3, <1>4, <1>5 DEF Inv

LEMMA UnplugRight == ASSUME Inv, EPROM!Unplug PROVE Inv'
<1>1. /\ calls' = calls /\ EPROM!call' = EPROM!call /\ mem' = mem /\ before' = before /\ pc' = pc
      /\ row' = row /\ ret' = ret /\ data' = data /\ chip' = chip /\ progPin' = progPin
      /\ auth' = auth /\ faults' = faults /\ selected' = FALSE /\ clean' = FALSE
      /\ scratch'.at = EPROM!None /\ connected' \in BOOLEAN /\ cut' = (cut \/ selected)
  BY SameCall DEF EPROM!Unplug, EPROM!setup, Inv, EPROM!TypeOK
<1>2. EPROM!ChipAssumption' /\ HistoryInv' /\ EPROM!TypeOK'
  BY <1>1 DEF Inv, HistoryInv, EPROM!TypeOK, EPROM!ChipAssumption
<1>3. CallInv' /\ UntouchedInv' /\ HeardInv'
  BY <1>1 DEF Inv, CallInv, UntouchedInv, HeardInv
<1>6. ReadInv'
  BY <1>1 DEF Inv, ReadInv
<1>4. AskedInv'
  BY <1>1, SameCall DEF Inv, AskedInv
<1>5. EPROM!CrcProtects' /\ EPROM!ErrorChangesNothing' /\ EPROM!CleanMeansDone'
  BY <1>1 DEF Inv, EPROM!Returned, EPROM!CrcProtects, EPROM!ErrorChangesNothing,
              EPROM!CleanMeansDone
<1>. QED BY <1>2, <1>3, <1>4, <1>5, <1>6 DEF Inv

\* What a transaction leaves alone.
LEMMA Transacts ==
  ASSUME Inv, NEW heard \in BOOLEAN, EPROM!Transaction(heard)
  PROVE  /\ calls' = calls /\ EPROM!call' = EPROM!call /\ before' = before
         /\ chip' = chip /\ progPin' = progPin /\ connected' = connected
         /\ faults' \in 0..MaxFaults /\ clean' \in BOOLEAN
         /\ clean' => clean /\ heard
         /\ EPROM!ChipAssumption'
<1>1. faults' \in 0..MaxFaults
  BY DEF EPROM!Transaction, Inv, EPROM!TypeOK, EPROM!ChipAssumption
<1>2. clean' \in BOOLEAN /\ (clean' => clean /\ heard)
  BY DEF EPROM!Transaction, Inv, EPROM!TypeOK
<1>3. EPROM!ChipAssumption'
  BY DEF Inv, EPROM!ChipAssumption
<1>. QED BY <1>1, <1>2, <1>3, SameCall DEF EPROM!Transaction, EPROM!setup

\* A part of one leaves alone what the whole does, and is heard or cuts it short.
LEMMA Parts ==
  ASSUME Inv, NEW heard \in BOOLEAN, EPROM!Part(heard)
  PROVE  /\ EPROM!Transaction(heard) /\ selected' = (selected /\ heard)
         /\ selected' \in BOOLEAN /\ cut' \in BOOLEAN /\ (cut => cut')
         /\ ~cut' /\ selected => heard
BY DEF EPROM!Part, Inv, EPROM!TypeOK

\* In the middle of a call nothing is said of it.
LEMMA NotYet ==
  ASSUME pc' # "idle"
  PROVE  EPROM!CrcProtects' /\ EPROM!ErrorChangesNothing' /\ EPROM!CleanMeansDone'
BY DEF EPROM!Returned, EPROM!CrcProtects, EPROM!ErrorChangesNothing,
       EPROM!CleanMeansDone, EPROM!WriteDone, EPROM!LockDone

LEMMA ReadRight == ASSUME Inv, EPROM!Read PROVE Inv'
<1>1. PICK heard \in BOOLEAN :
        /\ EPROM!Transaction(heard) /\ selected' = heard
        /\ IF chip = "EPROM" /\ ~heard THEN EPROM!Return("CRC_MISMATCH")
                                       ELSE pc' = "bytes" /\ UNCHANGED ret
  BY DEF EPROM!Read, EPROM!Command
<1>2. /\ calls' = calls /\ EPROM!call' = EPROM!call /\ before' = before
      /\ chip' = chip /\ progPin' = progPin /\ connected' = connected
      /\ faults' \in 0..MaxFaults /\ clean' \in BOOLEAN /\ (clean' => clean /\ heard)
      /\ EPROM!ChipAssumption'
  BY <1>1, Transacts
<1>3. /\ mem' = mem /\ scratch' = scratch /\ selected' \in BOOLEAN /\ cut' = cut
      /\ row' = row /\ auth' = auth /\ data' = data
      /\ EPROM!call.kind = "readPage" /\ row = 1 /\ mem = before
      /\ EPROM!call.page \in 0..Pages - 1 /\ calls # << >>
  BY <1>1 DEF EPROM!Read, Inv, CallInv, UntouchedInv
<1>4. \/ pc' = "idle" /\ ret' = "CRC_MISMATCH"
      \/ pc' = "bytes" /\ ret' = ret /\ (chip = "EPROM" => heard)
  BY <1>1 DEF EPROM!Return
<1>5. HistoryInv' /\ EPROM!TypeOK'
  BY <1>2, <1>3, <1>4 DEF Inv, HistoryInv, EPROM!TypeOK, EPROM!Codes
<1>6. CallInv' /\ UntouchedInv' /\ HeardInv'
  <2>1. 1 \in 1..Rows
    BY DEF Inv, EPROM!ChipAssumption
  <2>. QED BY <1>1, <1>2, <1>3, <1>4, <2>1 DEF CallInv, UntouchedInv, HeardInv
<1>7. ReadInv'
  <2>1. 0 \in 0..row' - 1 /\ 1..row' - 1 = {} /\ 0 = row' - 1
    BY <1>3
  <2>. QED BY <1>1, <1>2, <1>4, <2>1 DEF ReadInv
<1>8. AskedInv'
  BY <1>2, <1>3, SameCall DEF Inv, AskedInv
<1>9. EPROM!CrcProtects' /\ EPROM!ErrorChangesNothing' /\ EPROM!CleanMeansDone'
  <2>1. CASE pc' = "idle"
    <3>1. ret' = "CRC_MISMATCH" /\ ~clean'
      BY <1>1, <1>2, <1>4, <2>1
    <3>. QED BY <1>2, <1>3, <3>1 DEF EPROM!CrcProtects, EPROM!ErrorChangesNothing,
                                   EPROM!CleanMeansDone
  <2>. QED BY <2>1, NotYet
<1>. QED BY <1>2, <1>5, <1>6, <1>7, <1>8, <1>9 DEF Inv

LEMMA ReadRowRight == ASSUME Inv, EPROM!ReadRow PROVE Inv'
<1>1. PICK heard \in BOOLEAN : EPROM!Part(heard)
  BY DEF EPROM!ReadRow
<1>2. /\ calls' = calls /\ EPROM!call' = EPROM!call /\ before' = before
      /\ chip' = chip /\ progPin' = progPin /\ connected' = connected
      /\ faults' \in 0..MaxFaults /\ clean' \in BOOLEAN /\ (clean' => clean /\ heard)
      /\ EPROM!ChipAssumption'
  BY <1>1, Parts, Transacts
<1>3. /\ selected' = (selected /\ heard) /\ selected' \in BOOLEAN /\ cut' \in BOOLEAN
      /\ (cut => cut') /\ (~cut' /\ selected => heard)
  BY <1>1, Parts
<1>4. /\ mem' = mem /\ scratch' = scratch /\ auth' = auth /\ row' = row + 1
      /\ data' = [data EXCEPT ![row] = IF selected' THEN mem[<<EPROM!call.page, row>>]
                                                    ELSE {}]
      /\ pc = "bytes" /\ row \in 1..Rows /\ Rows \in Nat
      /\ EPROM!call.kind = "readPage" /\ calls # << >>
      /\ EPROM!call.page \in 0..Pages - 1
      /\ data \in [1..Rows -> SUBSET EPROM!Writes]
      /\ mem \in [EPROM!Place -> SUBSET EPROM!Writes]
  BY DEF EPROM!ReadRow, Inv, CallInv, EPROM!ChipAssumption, EPROM!TypeOK
<1>5. \/ row < Rows /\ pc' = "bytes" /\ ret' = ret
      \/ row = Rows /\ pc' = "idle" /\ ret' = "ok"
  BY <1>4 DEF EPROM!ReadRow, EPROM!Return
<1>6. HistoryInv' /\ EPROM!TypeOK'
  <2>1. row \in 0..Rows
    BY <1>4
  <2>2. mem[<<EPROM!call.page, row>>] \in SUBSET EPROM!Writes
    BY <1>4, <2>1, PlaceIs DEF Inv
  <2>3. data' \in [1..Rows -> SUBSET EPROM!Writes]
    BY <1>4, <2>2
  <2>4. row' \in 0..Rows + 1 /\ ret' \in EPROM!Codes \cup {"true", "false"}
    BY <1>4, <1>5 DEF Inv, EPROM!TypeOK, EPROM!Codes
  <2>. QED BY <1>2, <1>3, <1>4, <1>5, <2>3, <2>4 DEF Inv, HistoryInv, EPROM!TypeOK
<1>7. CallInv' /\ UntouchedInv' /\ HeardInv'
  <2>1. row < Rows => row' \in 1..Rows
    BY <1>4
  <2>2. clean' => selected'
    BY <1>2, <1>3, <1>4 DEF Inv, HeardInv
  <2>. QED BY <1>2, <1>4, <1>5, <2>1, <2>2 DEF CallInv, UntouchedInv, HeardInv
\* The row is read as it is, or as erased by a chip that has left.
<1>8. /\ chip = "EPROM" /\ ~cut' => selected'
      /\ \E last \in 0..row :
           /\ selected' => last = row
           /\ \A r \in 1..row :
                data'[r] = IF r <= last THEN mem[<<EPROM!call.page, r>>] ELSE {}
  <2>1. PICK last \in 0..row - 1 :
          /\ selected => last = row - 1
          /\ \A r \in 1..row - 1 :
               data[r] = IF r <= last THEN mem[<<EPROM!call.page, r>>] ELSE {}
    BY <1>4 DEF Inv, ReadInv
  <2>2. chip = "EPROM" /\ ~cut => selected
    BY <1>4 DEF Inv, ReadInv
  <2> DEFINE upTo == IF selected' THEN row ELSE last
  <2>4. upTo \in 0..row /\ (selected' => upTo = row)
    BY <1>4, <2>1
  <2>5. ASSUME NEW r \in 1..row
        PROVE  data'[r] = IF r <= upTo THEN mem[<<EPROM!call.page, r>>] ELSE {}
    <3>1. CASE r = row
      <4>1. data'[row] = IF selected' THEN mem[<<EPROM!call.page, row>>] ELSE {}
        BY <1>4
      <4>2. row <= upTo <=> selected'
        BY <1>4, <2>1
      <4>. QED BY <3>1, <4>1, <4>2
    <3>2. CASE r \in 1..row - 1
      <4>1. data'[r] = data[r]
        BY <1>4, <3>2
      <4>2. r <= upTo <=> r <= last
        <5>1. selected' => last = row - 1
          BY <1>3, <2>1
        <5>. QED BY <1>4, <2>1, <3>2, <5>1
      <4>. QED BY <2>1, <3>2, <4>1, <4>2
    <3>. QED BY <1>4, <3>1, <3>2
  <2> HIDE DEF upTo
  <2>. QED BY <1>3, <2>2, <2>4, <2>5
<1>9. ReadInv'
  <2>1. row' - 1 = row
    BY <1>4
  <2>. QED BY <1>2, <1>4, <1>8, <2>1 DEF ReadInv
<1>10. AskedInv'
  BY <1>2, <1>4, SameCall DEF Inv, AskedInv
<1>11. EPROM!CrcProtects' /\ EPROM!ErrorChangesNothing' /\ EPROM!CleanMeansDone'
  <2>1. CASE pc' = "idle"
    <3>1. row = Rows /\ ret' = "ok"
      BY <1>4, <1>5, <2>1
    <3>2. EPROM!CrcProtects'
      BY <1>2, <1>4, <1>8, <3>1 DEF EPROM!CrcProtects
    <3>3. clean' => selected'
      BY <1>2, <1>3, <1>4 DEF Inv, HeardInv
    <3>4. clean' => \A r \in 1..Rows : data'[r] = mem'[<<EPROM!call.page, r>>]
      <4> SUFFICES ASSUME clean', NEW r \in 1..Rows
                   PROVE  data'[r] = mem[<<EPROM!call.page, r>>]
        BY <1>4
      <4>1. r <= Rows
        BY <1>4
      <4>. QED BY <1>8, <3>1, <3>3, <4>1
    <3>5. EPROM!ErrorChangesNothing'
      BY <3>1 DEF EPROM!ErrorChangesNothing
    <3>6. EPROM!CleanMeansDone'
      BY <1>2, <1>4, <3>4 DEF EPROM!CleanMeansDone, EPROM!Returned, EPROM!WriteDone,
                              EPROM!LockDone
    <3>. QED BY <3>2, <3>5, <3>6
  <2>. QED BY <2>1, NotYet
<1>. QED BY <1>2, <1>6, <1>7, <1>9, <1>10, <1>11 DEF Inv

LEMMA ReadStatusRight == ASSUME Inv, EPROM!ReadStatus PROVE Inv'
<1>1. PICK heard \in BOOLEAN :
        /\ EPROM!Transaction(heard) /\ selected' = heard
        /\ IF chip = "EPROM" /\ ~heard THEN EPROM!Return("true")
                                       ELSE pc' = "answer" /\ UNCHANGED ret
  BY DEF EPROM!ReadStatus, EPROM!Command
<1>2. /\ calls' = calls /\ EPROM!call' = EPROM!call /\ before' = before
      /\ chip' = chip /\ progPin' = progPin /\ connected' = connected
      /\ faults' \in 0..MaxFaults /\ clean' \in BOOLEAN /\ (clean' => clean /\ heard)
      /\ EPROM!ChipAssumption'
  BY <1>1, Transacts
<1>3. /\ mem' = mem /\ scratch' = scratch /\ selected' \in BOOLEAN /\ cut' = cut
      /\ row' = row /\ auth' = auth /\ data' = data
      /\ EPROM!call.kind = "isPageLocked" /\ calls # << >>
      /\ EPROM!call.page \in 0..Pages - 1
  BY <1>1 DEF EPROM!ReadStatus, Inv, CallInv
<1>4. \/ pc' = "idle" /\ ret' = "true" /\ ~clean'
      \/ pc' = "answer" /\ ret' = ret
  BY <1>1, <1>2 DEF EPROM!Return
<1>5. HistoryInv' /\ EPROM!TypeOK'
  BY <1>2, <1>3, <1>4 DEF Inv, HistoryInv, EPROM!TypeOK
<1>6. CallInv' /\ UntouchedInv' /\ ReadInv' /\ HeardInv'
  BY <1>1, <1>2, <1>3, <1>4 DEF CallInv, UntouchedInv, ReadInv, HeardInv
<1>7. AskedInv'
  BY <1>2, <1>3, SameCall DEF Inv, AskedInv
<1>8. EPROM!CrcProtects' /\ EPROM!ErrorChangesNothing' /\ EPROM!CleanMeansDone'
  <2>1. CASE pc' = "idle"
    BY <1>2, <1>3, <1>4, <2>1 DEF EPROM!Returned, EPROM!CrcProtects, EPROM!Codes,
                          EPROM!ErrorChangesNothing, EPROM!CleanMeansDone
  <2>. QED BY <2>1, NotYet
<1>. QED BY <1>2, <1>5, <1>6, <1>7, <1>8 DEF Inv

LEMMA ReadAnswerRight == ASSUME Inv, EPROM!ReadAnswer PROVE Inv'
<1>1. PICK heard \in BOOLEAN : EPROM!Part(heard)
  BY DEF EPROM!ReadAnswer
<1>2. /\ calls' = calls /\ EPROM!call' = EPROM!call /\ before' = before
      /\ chip' = chip /\ progPin' = progPin /\ connected' = connected
      /\ faults' \in 0..MaxFaults /\ clean' \in BOOLEAN /\ (clean' => clean /\ heard)
      /\ EPROM!ChipAssumption'
  BY <1>1, Parts, Transacts
<1>3. /\ mem' = mem /\ scratch' = scratch /\ selected' = (selected /\ heard)
      /\ selected' \in BOOLEAN /\ cut' \in BOOLEAN /\ row' = row /\ auth' = auth
      /\ data' = data /\ pc = "answer" /\ pc' = "idle"
      /\ ret' = IF /\ EPROM!InStatus(EPROM!call.page)
                   /\ IF selected' THEN EPROM!Locked(EPROM!call.page) ELSE chip = "EPROM"
                THEN "true" ELSE "false"
  BY <1>1, Parts DEF EPROM!ReadAnswer, EPROM!Return
<1>4. EPROM!call.kind = "isPageLocked" /\ calls # << >>
  BY <1>3 DEF Inv, CallInv
<1>5. HistoryInv' /\ EPROM!TypeOK'
  BY <1>2, <1>3 DEF Inv, HistoryInv, EPROM!TypeOK
<1>6. CallInv' /\ UntouchedInv' /\ ReadInv' /\ HeardInv'
  BY <1>3 DEF CallInv, UntouchedInv, ReadInv, HeardInv
<1>7. AskedInv'
  BY <1>2, <1>3, SameCall DEF Inv, AskedInv
<1>8. EPROM!CrcProtects' /\ EPROM!ErrorChangesNothing'
  <2>1. ret' \in {"true", "false"}
    BY <1>3
  <2>. QED BY <1>2, <1>4, <2>1 DEF EPROM!Returned, EPROM!CrcProtects, EPROM!Codes,
                                 EPROM!ErrorChangesNothing
<1>9. EPROM!CleanMeansDone'
  <2>1. /\ EPROM!Locked(EPROM!call.page)' = EPROM!Locked(EPROM!call.page)
        /\ EPROM!InStatus(EPROM!call.page)' = EPROM!InStatus(EPROM!call.page)
    BY <1>2, <1>3 DEF EPROM!Locked, EPROM!InStatus
  <2>2. clean' => selected'
    BY <1>2, <1>3 DEF Inv, HeardInv
  <2>. QED BY <1>2, <1>3, <1>4, <2>1, <2>2 DEF EPROM!CleanMeansDone, EPROM!Returned,
                                   EPROM!WriteDone, EPROM!LockDone
<1>. QED BY <1>2, <1>5, <1>6, <1>7, <1>8, <1>9 DEF Inv

LEMMA WriteScratchRight == ASSUME Inv, EPROM!WriteScratch PROVE Inv'
<1>1. PICK heard \in BOOLEAN :
        /\ EPROM!Transaction(heard)
        /\ scratch' = IF heard THEN [at |-> EPROM!Target, op |-> EPROM!Write] ELSE scratch
  BY DEF EPROM!WriteScratch
<1>2. /\ calls' = calls /\ EPROM!call' = EPROM!call /\ before' = before
      /\ chip' = chip /\ progPin' = progPin /\ connected' = connected
      /\ faults' \in 0..MaxFaults /\ clean' \in BOOLEAN /\ (clean' => clean /\ heard)
      /\ EPROM!ChipAssumption'
  BY <1>1, Transacts
<1>3. /\ mem' = mem /\ selected' = selected /\ cut' = cut /\ row' = row /\ auth' = auth
      /\ data' = data /\ ret' = ret /\ pc = "scratch" /\ pc' = "auth"
  BY DEF EPROM!WriteScratch
<1>4. /\ chip = "EEPROM" /\ EPROM!call.kind \in {"writePage", "lockPage"} /\ row \in 1..Rows
      /\ calls # << >> /\ EPROM!call.page \in 0..Pages - 1
  BY <1>3 DEF Inv, CallInv
<1>5. /\ EPROM!Target \in EPROM!Place /\ EPROM!Target # EPROM!None
      /\ EPROM!Write \in EPROM!Writes /\ Asked(EPROM!Write, EPROM!Target)
  <2>1. /\ EPROM!call.kind = "lockPage" =>
             /\ EPROM!Target = <<EPROM!call.page, 0>>
             /\ EPROM!Write = [op |-> Len(calls), row |-> 0]
        /\ EPROM!call.kind = "writePage" =>
             /\ EPROM!Target = <<EPROM!call.page, row>>
             /\ EPROM!Write = [op |-> Len(calls), row |-> row]
    BY DEF EPROM!Target, EPROM!Write
  <2>2. row \in 0..Rows /\ 0 \in 0..Rows
    BY <1>4 DEF Inv, EPROM!ChipAssumption
  <2>3. EPROM!Target # EPROM!None
    BY <1>4, <2>1, <2>2, PlaceIs DEF Inv
  <2>. QED BY <1>3, <1>4, <2>1, <2>2, <2>3, ThisWrite
<1>6. HistoryInv' /\ EPROM!TypeOK'
  BY <1>1, <1>2, <1>3, <1>4, <1>5 DEF Inv, HistoryInv, EPROM!TypeOK
<1>7. CallInv' /\ UntouchedInv' /\ ReadInv'
  BY <1>2, <1>3, <1>4 DEF CallInv, UntouchedInv, ReadInv
<1>8. AskedInv'
  BY <1>1, <1>2, <1>3, <1>5, SameCall DEF Inv, AskedInv
<1>9. HeardInv'
  <2>1. EPROM!Target' = EPROM!Target /\ EPROM!Write' = EPROM!Write
    BY <1>2, <1>3 DEF EPROM!Target, EPROM!Write
  <2>. QED BY <1>1, <1>2, <1>3, <2>1 DEF Inv, HeardInv, FirstPulsed, EPROM!Pulsed
<1>10. EPROM!CrcProtects' /\ EPROM!ErrorChangesNothing' /\ EPROM!CleanMeansDone'
  BY <1>3, NotYet
<1>. QED BY <1>2, <1>6, <1>7, <1>8, <1>9, <1>10 DEF Inv

LEMMA ReadAuthRight == ASSUME Inv, EPROM!ReadAuth PROVE Inv'
<1>1. PICK heard \in BOOLEAN :
        EPROM!Transaction(heard) /\ auth' = IF heard THEN scratch.at ELSE EPROM!None
  BY DEF EPROM!ReadAuth
<1>2. /\ calls' = calls /\ EPROM!call' = EPROM!call /\ before' = before
      /\ chip' = chip /\ progPin' = progPin /\ connected' = connected
      /\ faults' \in 0..MaxFaults /\ clean' \in BOOLEAN /\ (clean' => clean /\ heard)
      /\ EPROM!ChipAssumption'
  BY <1>1, Transacts
<1>3. /\ mem' = mem /\ selected' = selected /\ cut' = cut /\ row' = row /\ scratch' = scratch
      /\ data' = data /\ ret' = ret /\ pc = "auth" /\ pc' = "copy"
  BY DEF EPROM!ReadAuth
<1>4. HistoryInv' /\ EPROM!TypeOK'
  BY <1>1, <1>2, <1>3 DEF Inv, HistoryInv, EPROM!TypeOK
<1>5. CallInv' /\ UntouchedInv' /\ ReadInv'
  BY <1>2, <1>3 DEF Inv, CallInv, UntouchedInv, ReadInv
<1>6. AskedInv'
  BY <1>2, <1>3, SameCall DEF Inv, AskedInv
<1>7. HeardInv'
  <2>1. EPROM!Target' = EPROM!Target /\ EPROM!Write' = EPROM!Write
    BY <1>2, <1>3 DEF EPROM!Target, EPROM!Write
  <2>2. clean' => scratch.at = EPROM!Target
    BY <1>2, <1>3 DEF Inv, HeardInv
  <2>. QED BY <1>1, <1>2, <1>3, <2>1, <2>2 DEF Inv, HeardInv, FirstPulsed, EPROM!Pulsed
<1>8. EPROM!CrcProtects' /\ EPROM!ErrorChangesNothing' /\ EPROM!CleanMeansDone'
  BY <1>3, NotYet
<1>. QED BY <1>2, <1>4, <1>5, <1>6, <1>7, <1>8 DEF Inv

LEMMA CopyScratchRight == ASSUME Inv, EPROM!CopyScratch PROVE Inv'
<1>1. PICK heard \in BOOLEAN :
        /\ EPROM!Transaction(heard)
        /\ IF heard /\ auth # EPROM!None /\ auth = scratch.at
           THEN EPROM!Store(scratch.at, scratch.op) ELSE UNCHANGED mem
  BY DEF EPROM!CopyScratch
<1>2. /\ calls' = calls /\ EPROM!call' = EPROM!call /\ before' = before
      /\ chip' = chip /\ progPin' = progPin /\ connected' = connected
      /\ faults' \in 0..MaxFaults /\ clean' \in BOOLEAN /\ (clean' => clean /\ heard)
      /\ EPROM!ChipAssumption'
  BY <1>1, Transacts
<1>3. /\ scratch' = scratch /\ selected' = selected /\ cut' = cut /\ auth' = auth
      /\ data' = data /\ pc = "copy"
      /\ \/ /\ EPROM!call.kind = "writePage" /\ row < Rows /\ row' = row + 1
            /\ pc' = "scratch" /\ ret' = ret
         \/ /\ ~(EPROM!call.kind = "writePage" /\ row < Rows) /\ row' = row
            /\ pc' = "idle" /\ ret' = "ok"
  BY DEF EPROM!CopyScratch, EPROM!Return
<1>4. /\ chip = "EEPROM" /\ EPROM!call.kind \in {"writePage", "lockPage"} /\ row \in 1..Rows
      /\ calls # << >> /\ EPROM!call.page \in 0..Pages - 1 /\ Rows \in Nat
      /\ mem \in [EPROM!Place -> SUBSET EPROM!Writes]
  BY <1>3 DEF Inv, CallInv, EPROM!ChipAssumption, EPROM!TypeOK
<1>5. \/ UNCHANGED mem
      \/ /\ EPROM!Store(scratch.at, scratch.op) /\ scratch.at \in EPROM!Place
         /\ scratch.op \in EPROM!Writes /\ Asked(scratch.op, scratch.at)
  BY <1>1 DEF Inv, EPROM!TypeOK, AskedInv
<1>6. mem' \in [EPROM!Place -> SUBSET EPROM!Writes]
  BY <1>4, <1>5, Stores
<1>7. HistoryInv' /\ EPROM!TypeOK'
  <2>1. row' \in 0..Rows + 1 /\ ret' \in EPROM!Codes \cup {"true", "false"}
    BY <1>3, <1>4 DEF Inv, EPROM!TypeOK, EPROM!Codes
  <2>. QED BY <1>2, <1>3, <1>6, <2>1 DEF Inv, HistoryInv, EPROM!TypeOK
<1>8. CallInv' /\ UntouchedInv' /\ ReadInv'
  BY <1>2, <1>3, <1>4 DEF CallInv, UntouchedInv, ReadInv
<1>9. AskedInv'
  <2>1. \A p \in EPROM!Place : \A w \in mem'[p] : Asked(w, p)'
    BY <1>2, <1>4, <1>5, AskedStored DEF Inv
  <2>2. (scratch.at # EPROM!None => Asked(scratch.op, scratch.at))'
    BY <1>2, <1>3, SameCall DEF Inv, AskedInv
  <2>. QED BY <2>1, <2>2 DEF AskedInv
\* A call that was heard stores this row, or the lock, where it is meant to go.
<1>10. ASSUME clean'
       PROVE  EPROM!Store(EPROM!Target, EPROM!Write) /\ EPROM!Target \in EPROM!Place
  <2>1. scratch = [at |-> EPROM!Target, op |-> EPROM!Write] /\ auth = EPROM!Target /\ heard
    BY <1>2, <1>3, <1>10 DEF Inv, HeardInv
  <2>2. EPROM!Target \in EPROM!Place /\ EPROM!Target # EPROM!None
    <3>1. 0 \in 0..Rows /\ row \in 0..Rows
      BY <1>4
    <3>. QED BY <1>4, <3>1, PlaceIs DEF EPROM!Target, Inv
  <2>. QED BY <1>1, <2>1, <2>2
<1>11. ASSUME clean', EPROM!call.kind = "writePage", before[<<EPROM!call.page, 0>>] = {}
       PROVE  /\ mem'[<<EPROM!call.page, 0>>] = {}
              /\ \A r \in 1..row :
                   [op |-> Len(calls), row |-> r] \in mem'[<<EPROM!call.page, r>>]
  <2>1. /\ mem[<<EPROM!call.page, 0>>] = {}
        /\ \A r \in 1..row - 1 : [op |-> Len(calls), row |-> r] \in mem[<<EPROM!call.page, r>>]
    BY <1>2, <1>3, <1>4, <1>11 DEF Inv, HeardInv, EPROM!Pulsed, FirstPulsed
  <2>2. EPROM!Target = <<EPROM!call.page, row>> /\ EPROM!Write = [op |-> Len(calls), row |-> row]
    BY <1>11 DEF EPROM!Target, EPROM!Write
  <2>3. /\ \A r \in 0..Rows : <<EPROM!call.page, r>> \in EPROM!Place
        /\ 0 \in 0..Rows /\ row \in 0..Rows /\ row # 0
    BY <1>4, PlaceIs DEF Inv
  <2>4. /\ EPROM!Store(<<EPROM!call.page, row>>, EPROM!Write)
        /\ <<EPROM!call.page, row>> \in EPROM!Place
    BY <1>10, <1>11, <2>2
  <2>5. EPROM!Write \in mem'[<<EPROM!call.page, row>>]
    BY <1>4, <2>1, <2>3, <2>4, Stores DEF EPROM!Locked
  <2>6. ASSUME NEW r \in 0..Rows, r # row
        PROVE  mem'[<<EPROM!call.page, r>>] = mem[<<EPROM!call.page, r>>]
    <3>1. <<EPROM!call.page, r>> # <<EPROM!call.page, row>>
      BY <2>6
    <3>. QED BY <1>4, <2>3, <2>4, <3>1, Stores
  <2>7. ASSUME NEW r \in 1..row
        PROVE  [op |-> Len(calls), row |-> r] \in mem'[<<EPROM!call.page, r>>]
    <3>1. r = row \/ (r \in 1..row - 1 /\ r # row /\ r \in 0..Rows)
      BY <1>4
    <3>. QED BY <2>1, <2>2, <2>5, <2>6, <3>1
  <2>. QED BY <2>1, <2>3, <2>6, <2>7
<1>12. HeardInv'
  <2>1. row' - 1 = row \/ pc' = "idle"
    BY <1>3, <1>4
  <2>. QED BY <1>2, <1>3, <1>4, <1>11, <2>1 DEF HeardInv, FirstPulsed
<1>13. EPROM!CrcProtects' /\ EPROM!ErrorChangesNothing'
  <2>1. CASE pc' = "idle"
    BY <1>2, <1>3, <1>4, <2>1 DEF EPROM!Returned, EPROM!CrcProtects, EPROM!ErrorChangesNothing
  <2>. QED BY <2>1, NotYet
<1>14. EPROM!CleanMeansDone'
  <2> SUFFICES ASSUME pc' = "idle", clean'
               PROVE  /\ EPROM!call.kind = "writePage" /\ before[<<EPROM!call.page, 0>>] = {} =>
                           \A r \in 1..Rows :
                             [op |-> Len(calls), row |-> r] \in mem'[<<EPROM!call.page, r>>]
                      /\ EPROM!call.kind = "lockPage" => mem'[<<EPROM!call.page, 0>>] # {}
    BY <1>2, <1>4 DEF EPROM!CleanMeansDone, EPROM!WriteDone, EPROM!LockDone,
                      EPROM!Returned, EPROM!Locked
  <2>1. EPROM!call.kind = "writePage" => row = Rows
    BY <1>3, <1>4
  <2>2. ASSUME EPROM!call.kind = "lockPage" PROVE mem'[<<EPROM!call.page, 0>>] # {}
    <3>1. EPROM!Target = <<EPROM!call.page, 0>> /\ 0 \in 0..Rows
      BY <1>4, <2>2 DEF EPROM!Target
    <3>2. EPROM!Store(<<EPROM!call.page, 0>>, EPROM!Write) /\ <<EPROM!call.page, 0>> \in EPROM!Place
      BY <1>10, <3>1
    <3>3. EPROM!Write \in mem'[<<EPROM!call.page, 0>>]
      BY <1>4, <3>2, Stores
    <3>. QED BY <3>3
  <2>. QED BY <1>11, <2>1, <2>2
<1>. QED BY <1>2, <1>7, <1>8, <1>9, <1>12, <1>13, <1>14 DEF Inv

LEMMA SendCommandRight == ASSUME Inv, EPROM!SendCommand PROVE Inv'
<1>1. PICK heard \in BOOLEAN :
        /\ EPROM!Transaction(heard) /\ selected' = heard
        /\ IF heard /\ Rows > 1 THEN pc' = "byte" /\ UNCHANGED ret
                    ELSE EPROM!Return(IF heard THEN "ok" ELSE "CRC_MISMATCH")
  BY DEF EPROM!SendCommand
<1>2. /\ calls' = calls /\ EPROM!call' = EPROM!call /\ before' = before
      /\ chip' = chip /\ progPin' = progPin /\ connected' = connected
      /\ faults' \in 0..MaxFaults /\ clean' \in BOOLEAN /\ (clean' => clean /\ heard)
      /\ EPROM!ChipAssumption'
  BY <1>1, Transacts
<1>3. /\ mem' = mem /\ scratch' = scratch /\ auth' = auth /\ data' = data
      /\ pc = "command" /\ row' = 2 /\ selected' \in BOOLEAN /\ cut' = cut
      /\ \/ heard /\ Rows > 1 /\ pc' = "byte" /\ ret' = ret
         \/ ~(heard /\ Rows > 1) /\ pc' = "idle" /\ ret' \in {"ok", "CRC_MISMATCH"}
  BY <1>1 DEF EPROM!SendCommand, EPROM!Return
<1>4. /\ chip = "EPROM" /\ EPROM!call.kind = "writePage" /\ calls # << >>
      /\ EPROM!call.page \in 0..Pages - 1 /\ Rows \in Nat \ {0} /\ mem = before
  BY <1>3 DEF Inv, CallInv, EPROM!ChipAssumption, UntouchedInv
<1>5. HistoryInv' /\ EPROM!TypeOK'
  <2>1. row' \in 0..Rows + 1 /\ ret' \in EPROM!Codes \cup {"true", "false"}
    BY <1>3, <1>4 DEF Inv, EPROM!TypeOK, EPROM!Codes
  <2>. QED BY <1>2, <1>3, <2>1 DEF Inv, HistoryInv, EPROM!TypeOK
<1>6. CallInv' /\ UntouchedInv' /\ ReadInv'
  BY <1>2, <1>3, <1>4 DEF CallInv, UntouchedInv, ReadInv
<1>7. AskedInv'
  BY <1>2, <1>3, SameCall DEF Inv, AskedInv
<1>8. HeardInv'
  <2>1. pc' = "byte" => selected'
    BY <1>1, <1>3
  <2>2. 2..row' - 1 = {}
    BY <1>3
  <2>. QED BY <1>2, <1>3, <1>4, <2>1, <2>2 DEF HeardInv, FirstPulsed
<1>9. EPROM!CrcProtects' /\ EPROM!ErrorChangesNothing'
  BY <1>2, <1>3, <1>4 DEF EPROM!Returned, EPROM!CrcProtects, EPROM!ErrorChangesNothing
<1>10. EPROM!CleanMeansDone'
  <2>1. pc' = "idle" /\ clean' => 2..Rows = {}
    BY <1>2, <1>3, <1>4
  <2>. QED BY <1>2, <1>4, <2>1 DEF EPROM!CleanMeansDone, EPROM!Returned, EPROM!WriteDone,
                                 EPROM!LockDone
<1>. QED BY <1>2, <1>5, <1>6, <1>7, <1>8, <1>9, <1>10 DEF Inv

LEMMA SendByteRight == ASSUME Inv, EPROM!SendByte PROVE Inv'
<1>18. PICK heard \in BOOLEAN : EPROM!Part(heard)
  BY DEF EPROM!SendByte
<1>1. /\ EPROM!Transaction(heard) /\ selected' = (selected /\ heard)
      /\ selected' \in BOOLEAN /\ cut' \in BOOLEAN
      /\ IF selected' /\ progPin THEN EPROM!Store(<<EPROM!call.page, row>>, EPROM!Write)
                                 ELSE UNCHANGED mem
  BY <1>18, Parts DEF EPROM!SendByte
<1>2. /\ calls' = calls /\ EPROM!call' = EPROM!call /\ before' = before
      /\ chip' = chip /\ progPin' = progPin /\ connected' = connected
      /\ faults' \in 0..MaxFaults /\ clean' \in BOOLEAN /\ (clean' => clean /\ heard)
      /\ EPROM!ChipAssumption'
  BY <1>1, Transacts
<1>3. /\ scratch' = scratch /\ auth' = auth /\ data' = data
      /\ pc = "byte" /\ row' = row + 1
      /\ \/ row < Rows /\ pc' = "byte" /\ ret' = ret
         \/ ~(row < Rows) /\ pc' = "idle" /\ ret' = "ok"
  BY DEF EPROM!SendByte, EPROM!Return
<1>4. /\ chip = "EPROM" /\ EPROM!call.kind = "writePage" /\ calls # << >> /\ row \in 2..Rows
      /\ EPROM!call.page \in 0..Pages - 1 /\ Rows \in Nat
      /\ mem \in [EPROM!Place -> SUBSET EPROM!Writes]
  BY <1>3 DEF Inv, CallInv, EPROM!ChipAssumption, EPROM!TypeOK
<1>5. /\ \A r \in 0..Rows : <<EPROM!call.page, r>> \in EPROM!Place
      /\ 0 \in 0..Rows /\ row \in 0..Rows /\ row \in 1..Rows /\ row # 0
  BY <1>4, PlaceIs DEF Inv
<1>6. EPROM!Write = [op |-> Len(calls), row |-> row]
  BY <1>4 DEF EPROM!Write
<1>7. EPROM!Write \in EPROM!Writes /\ Asked(EPROM!Write, <<EPROM!call.page, row>>)
  BY <1>3, <1>4, <1>5, <1>6, ThisWrite
<1>8. UNCHANGED mem \/ EPROM!Store(<<EPROM!call.page, row>>, EPROM!Write)
  BY <1>1
<1>9. mem' \in [EPROM!Place -> SUBSET EPROM!Writes]
  BY <1>4, <1>5, <1>7, <1>8, Stores
<1>10. HistoryInv' /\ EPROM!TypeOK'
  <2>1. row' \in 0..Rows + 1 /\ ret' \in EPROM!Codes \cup {"true", "false"}
    BY <1>3, <1>4 DEF Inv, EPROM!TypeOK, EPROM!Codes
  <2>. QED BY <1>1, <1>2, <1>3, <1>9, <2>1 DEF Inv, HistoryInv, EPROM!TypeOK
<1>11. CallInv' /\ UntouchedInv' /\ ReadInv'
  <2>1. pc' = "byte" => row' \in 2..Rows
    BY <1>3, <1>4
  <2>. QED BY <1>2, <1>3, <1>4, <2>1 DEF CallInv, UntouchedInv, ReadInv
<1>12. AskedInv'
  <2>1. \A p \in EPROM!Place : \A w \in mem'[p] : Asked(w, p)'
    BY <1>2, <1>4, <1>5, <1>7, <1>8, AskedStored DEF Inv
  <2>2. (scratch.at # EPROM!None => Asked(scratch.op, scratch.at))'
    BY <1>2, <1>3, SameCall DEF Inv, AskedInv
  <2>. QED BY <2>1, <2>2 DEF AskedInv
<1>13. clean' => selected'
  BY <1>1, <1>2, <1>3 DEF Inv, HeardInv
\* A call that was heard programs this byte.
<1>14. ASSUME clean', progPin, before[<<EPROM!call.page, 0>>] = {}
       PROVE  /\ mem'[<<EPROM!call.page, 0>>] = {}
              /\ \A r \in 2..row :
                   [op |-> Len(calls), row |-> r] \in mem'[<<EPROM!call.page, r>>]
  <2>1. /\ mem[<<EPROM!call.page, 0>>] = {}
        /\ \A r \in 2..row - 1 : [op |-> Len(calls), row |-> r] \in mem[<<EPROM!call.page, r>>]
    BY <1>2, <1>3, <1>4, <1>14 DEF Inv, HeardInv, EPROM!Pulsed, FirstPulsed
  <2>2. EPROM!Store(<<EPROM!call.page, row>>, EPROM!Write)
    BY <1>1, <1>13, <1>14
  <2>3. EPROM!Write \in mem'[<<EPROM!call.page, row>>]
    BY <1>4, <1>5, <2>1, <2>2, Stores DEF EPROM!Locked
  <2>4. ASSUME NEW r \in 0..Rows, r # row
        PROVE  mem'[<<EPROM!call.page, r>>] = mem[<<EPROM!call.page, r>>]
    <3>1. <<EPROM!call.page, r>> # <<EPROM!call.page, row>>
      BY <2>4
    <3>. QED BY <1>4, <1>5, <2>2, <3>1, Stores
  <2>5. ASSUME NEW r \in 2..row
        PROVE  [op |-> Len(calls), row |-> r] \in mem'[<<EPROM!call.page, r>>]
    <3>1. r = row \/ (r \in 2..row - 1 /\ r # row /\ r \in 0..Rows)
      BY <1>4
    <3>. QED BY <1>6, <2>1, <2>3, <2>4, <3>1
  <2>. QED BY <1>5, <2>1, <2>4, <2>5
<1>15. HeardInv'
  <2>1. row' - 1 = row
    BY <1>3, <1>4
  <2>. QED BY <1>2, <1>3, <1>4, <1>13, <1>14, <2>1 DEF HeardInv, FirstPulsed, EPROM!Pulsed
<1>16. EPROM!CrcProtects' /\ EPROM!ErrorChangesNothing'
  <2>1. CASE pc' = "idle"
    BY <1>2, <1>3, <1>4, <2>1 DEF EPROM!Returned, EPROM!CrcProtects, EPROM!ErrorChangesNothing
  <2>. QED BY <2>1, NotYet
<1>17. EPROM!CleanMeansDone'
  <2>1. pc' = "idle" => row = Rows
    BY <1>3, <1>4
  <2>. QED BY <1>2, <1>4, <1>14, <2>1 DEF EPROM!CleanMeansDone, EPROM!Returned,
                                        EPROM!WriteDone, EPROM!LockDone, EPROM!Pulsed
<1>. QED BY <1>2, <1>10, <1>11, <1>12, <1>15, <1>16, <1>17 DEF Inv

LEMMA LockEPROMRight == ASSUME Inv, EPROM!LockEPROM PROVE Inv'
<1>1. PICK heard \in BOOLEAN :
        /\ EPROM!Transaction(heard) /\ selected' = heard
        /\ IF chip = "EPROM" /\ ~heard THEN EPROM!Return("CRC_MISMATCH")
                                       ELSE pc' = "pulse" /\ UNCHANGED ret
  BY DEF EPROM!LockEPROM, EPROM!Command
<1>2. /\ calls' = calls /\ EPROM!call' = EPROM!call /\ before' = before
      /\ chip' = chip /\ progPin' = progPin /\ connected' = connected
      /\ faults' \in 0..MaxFaults /\ clean' \in BOOLEAN /\ (clean' => clean /\ heard)
      /\ EPROM!ChipAssumption'
  BY <1>1, Transacts
<1>3. /\ mem' = mem /\ scratch' = scratch /\ selected' \in BOOLEAN /\ cut' = cut
      /\ row' = row /\ auth' = auth /\ data' = data
      /\ chip = "EPROM" /\ EPROM!call.kind = "lockPage" /\ calls # << >>
      /\ EPROM!call.page \in 0..Pages - 1 /\ mem = before
  BY <1>1 DEF EPROM!LockEPROM, Inv, CallInv, UntouchedInv
<1>4. \/ pc' = "idle" /\ ret' = "CRC_MISMATCH" /\ ~clean'
      \/ pc' = "pulse" /\ ret' = ret
  BY <1>1, <1>2 DEF EPROM!Return
<1>5. HistoryInv' /\ EPROM!TypeOK'
  BY <1>2, <1>3, <1>4 DEF Inv, HistoryInv, EPROM!TypeOK, EPROM!Codes
<1>6. CallInv' /\ UntouchedInv' /\ ReadInv' /\ HeardInv'
  BY <1>1, <1>2, <1>3, <1>4 DEF CallInv, UntouchedInv, ReadInv, HeardInv
<1>7. AskedInv'
  BY <1>2, <1>3, SameCall DEF Inv, AskedInv
<1>8. EPROM!CrcProtects' /\ EPROM!ErrorChangesNothing' /\ EPROM!CleanMeansDone'
  <2>1. CASE pc' = "idle"
    BY <1>2, <1>3, <1>4, <2>1 DEF EPROM!Returned, EPROM!CrcProtects,
                                EPROM!ErrorChangesNothing, EPROM!CleanMeansDone
  <2>. QED BY <2>1, NotYet
<1>. QED BY <1>2, <1>5, <1>6, <1>7, <1>8 DEF Inv

LEMMA LockPulseRight == ASSUME Inv, EPROM!LockPulse PROVE Inv'
<1>14. PICK heard \in BOOLEAN : EPROM!Part(heard)
  BY DEF EPROM!LockPulse
<1>1. /\ EPROM!Transaction(heard) /\ selected' = (selected /\ heard)
      /\ selected' \in BOOLEAN /\ cut' \in BOOLEAN
      /\ IF selected' /\ progPin /\ EPROM!InStatus(EPROM!call.page)
         THEN EPROM!Store(<<EPROM!call.page, 0>>, EPROM!Write) ELSE UNCHANGED mem
  BY <1>14, Parts DEF EPROM!LockPulse
<1>2. /\ calls' = calls /\ EPROM!call' = EPROM!call /\ before' = before
      /\ chip' = chip /\ progPin' = progPin /\ connected' = connected
      /\ faults' \in 0..MaxFaults /\ clean' \in BOOLEAN /\ (clean' => clean /\ heard)
      /\ EPROM!ChipAssumption'
  BY <1>1, Transacts
<1>3. /\ scratch' = scratch /\ auth' = auth /\ data' = data
      /\ pc = "pulse" /\ row' = row /\ pc' = "idle" /\ ret' = "ok"
  BY DEF EPROM!LockPulse, EPROM!Return
<1>4. /\ chip = "EPROM" /\ EPROM!call.kind = "lockPage" /\ calls # << >>
      /\ EPROM!call.page \in 0..Pages - 1 /\ Rows \in Nat
      /\ mem \in [EPROM!Place -> SUBSET EPROM!Writes] /\ 0 \in 0..Rows
  BY <1>3 DEF Inv, CallInv, EPROM!ChipAssumption, EPROM!TypeOK
<1>5. <<EPROM!call.page, 0>> \in EPROM!Place /\ <<EPROM!call.page, 0>>[2] = 0
  BY <1>4, PlaceIs DEF Inv
<1>6. /\ EPROM!Write = [op |-> Len(calls), row |-> 0] /\ EPROM!Write \in EPROM!Writes
      /\ Asked(EPROM!Write, <<EPROM!call.page, 0>>)
  <2>1. Len(calls) \in 1..MaxOps /\ Asked([op |-> Len(calls), row |-> 0], <<EPROM!call.page, 0>>)
    BY <1>3, <1>4, ThisWrite
  <2>. QED BY <1>4, <2>1 DEF EPROM!Write, EPROM!Writes
<1>7. UNCHANGED mem \/ EPROM!Store(<<EPROM!call.page, 0>>, EPROM!Write)
  BY <1>1
<1>8. mem' \in [EPROM!Place -> SUBSET EPROM!Writes]
  BY <1>4, <1>5, <1>6, <1>7, Stores
<1>9. HistoryInv' /\ EPROM!TypeOK'
  BY <1>1, <1>2, <1>3, <1>8 DEF Inv, HistoryInv, EPROM!TypeOK, EPROM!Codes
<1>10. CallInv' /\ UntouchedInv' /\ ReadInv' /\ HeardInv'
  BY <1>2, <1>3, <1>4 DEF CallInv, UntouchedInv, ReadInv, HeardInv
<1>11. AskedInv'
  <2>1. \A p \in EPROM!Place : \A w \in mem'[p] : Asked(w, p)'
    BY <1>2, <1>4, <1>5, <1>6, <1>7, AskedStored DEF Inv
  <2>2. (scratch.at # EPROM!None => Asked(scratch.op, scratch.at))'
    BY <1>2, <1>3, SameCall DEF Inv, AskedInv
  <2>. QED BY <2>1, <2>2 DEF AskedInv
<1>12. EPROM!CrcProtects' /\ EPROM!ErrorChangesNothing'
  BY <1>2, <1>3, <1>4 DEF EPROM!Returned, EPROM!CrcProtects, EPROM!ErrorChangesNothing
<1>13. EPROM!CleanMeansDone'
  <2>1. ASSUME clean', progPin, EPROM!InStatus(EPROM!call.page) PROVE EPROM!Locked(EPROM!call.page)'
    <3>3. selected'
      BY <1>1, <1>2, <1>3, <2>1 DEF Inv, HeardInv
    <3>1. EPROM!Store(<<EPROM!call.page, 0>>, EPROM!Write)
      BY <1>1, <2>1, <3>3
    <3>2. EPROM!Write \in mem'[<<EPROM!call.page, 0>>]
      BY <1>4, <1>5, <3>1, Stores
    <3>. QED BY <1>2, <3>2 DEF EPROM!Locked
  <2>2. EPROM!InStatus(EPROM!call.page)' = EPROM!InStatus(EPROM!call.page)
    BY <1>2 DEF EPROM!InStatus
  <2>. QED BY <1>2, <1>4, <2>1, <2>2 DEF EPROM!CleanMeansDone, EPROM!Returned,
                                EPROM!WriteDone, EPROM!LockDone, EPROM!Pulsed
<1>. QED BY <1>2, <1>9, <1>10, <1>11, <1>12, <1>13 DEF Inv

\* Where a call begins.
Begins(name, first) ==
  \/ name = "readPage" /\ first = "read"
  \/ name = "isPageLocked" /\ first = "status"
  \/ name = "writePage" /\ chip = "EPROM" /\ first = "command"
  \/ name = "lockPage" /\ chip = "EPROM" /\ first = "lock"
  \/ name \in {"writePage", "lockPage"} /\ chip = "EEPROM" /\ first = "scratch"

LEMMA CallRight ==
  ASSUME Inv, NEW name, NEW page \in 0..Pages, NEW first, Begins(name, first),
         EPROM!Call(name, page, first)
  PROVE  Inv'
<1> DEFINE c == [kind |-> name, page |-> page]
<1>1. /\ chip' = chip /\ progPin' = progPin /\ connected' = connected
      /\ faults' = faults /\ mem' = mem /\ scratch' = scratch /\ selected' = FALSE
      /\ cut' = FALSE /\ data' = data /\ row' = 1 /\ auth' = EPROM!None /\ before' = mem
      /\ clean' = connected /\ Len(calls) < MaxOps /\ calls' = Append(calls, c)
  BY DEF EPROM!Call, EPROM!setup, EPROM!busVars
<1>2. /\ calls \in Seq(Calls) /\ c \in Calls /\ Len(calls) \in Nat /\ MaxOps \in Nat
      /\ Pages \in Nat /\ Rows \in Nat \ {0} /\ connected \in BOOLEAN
  <2>1. calls \in Seq(Calls) /\ MaxOps \in Nat /\ Pages \in Nat /\ Rows \in Nat \ {0}
    BY DEF Inv, HistoryInv, EPROM!ChipAssumption
  <2>2. c \in Calls
    BY DEF Begins, Calls, Kinds
  <2>3. connected \in BOOLEAN
    BY DEF Inv, EPROM!TypeOK
  <2>. QED BY <2>1, <2>2, <2>3
<1>3. /\ calls' \in Seq(Calls) /\ Len(calls') = Len(calls) + 1 /\ calls' # << >>
      /\ \A i \in 1..Len(calls) : calls'[i] = calls[i]
      /\ EPROM!call' = c
  <2>1. /\ calls' \in Seq(Calls) /\ Len(calls') = Len(calls) + 1
        /\ \A i \in 1..Len(calls) : calls'[i] = calls[i]
        /\ calls'[Len(calls) + 1] = c
    BY <1>1, <1>2, AppendProperties
  <2>2. calls' # << >>
    BY <1>2, <2>1, EmptySeq
  <2>. QED BY <2>1, <2>2 DEF EPROM!call
<1>4. \/ page = Pages /\ pc' = "idle" /\ ret' = EPROM!ErrorOf(name, "INVALID_PAGE")
      \/ /\ page \in 0..Pages - 1 /\ ~connected /\ pc' = "idle"
         /\ ret' = EPROM!ErrorOf(name, "DEVICE_DISCONNECTED")
      \/ page \in 0..Pages - 1 /\ connected /\ pc' = first /\ ret' = ret
  BY <1>2 DEF EPROM!Call, EPROM!Return
<1>5. pc' # "idle" => EPROM!call'.page \in 0..Pages - 1 /\ pc' = first
  BY <1>3, <1>4
<1>6. EPROM!call'.kind = name /\ EPROM!call'.page = page
  BY <1>3
<1> HIDE DEF c
<1>7. HistoryInv' /\ EPROM!TypeOK' /\ EPROM!ChipAssumption'
  <2>1. mem \in [EPROM!Place -> SUBSET EPROM!Writes]
    BY DEF Inv, EPROM!TypeOK
  <2>2. HistoryInv'
    BY <1>1, <1>2, <1>3, <2>1 DEF Inv, HistoryInv
  <2>3. /\ row' \in 0..Rows + 1 /\ ret' \in EPROM!Codes \cup {"true", "false"}
        /\ pc' \in {"idle", "read", "status", "scratch", "command", "lock"}
    BY <1>1, <1>2, <1>4 DEF Inv, EPROM!TypeOK, EPROM!Codes, EPROM!ErrorOf, Begins
  <2>4. clean' \in BOOLEAN
    BY <1>1, <1>2
  <2>5. EPROM!ChipAssumption'
    BY DEF Inv, EPROM!ChipAssumption
  <2>. QED BY <1>1, <2>2, <2>3, <2>4, <2>5 DEF Inv, EPROM!TypeOK
<1>8. CallInv' /\ UntouchedInv' /\ ReadInv'
  <2>1. row' \in 1..Rows
    BY <1>1, <1>2
  <2>2. pc' \notin {"bytes", "answer", "pulse"}
    BY <1>4 DEF Begins
  <2>. QED BY <1>1, <1>3, <1>4, <1>5, <1>6, <2>1, <2>2 DEF CallInv, UntouchedInv, ReadInv, Begins
<1>9. AskedInv'
  <2>1. \A w, p : Asked(w, p) => Asked(w, p)'
    BY <1>2, <1>3 DEF Asked
  <2>. QED BY <1>1, <2>1 DEF Inv, AskedInv
<1>10. HeardInv'
  <2>1. pc' \notin {"auth", "copy", "byte", "bytes", "answer", "pulse"}
    BY <1>4 DEF Begins
  <2>2. pc' = "scratch" => chip = "EEPROM"
    BY <1>4 DEF Begins
  <2>3. 1..row' - 1 = {}
    BY <1>1
  <2>. QED BY <1>1, <2>1, <2>2, <2>3 DEF HeardInv, FirstPulsed
<1>11. EPROM!CrcProtects'
  <2>1. pc' = "idle" /\ name = "readPage" => ret' # "ok"
    BY <1>4 DEF EPROM!ErrorOf, Begins
  <2>. QED BY <1>6, <2>1 DEF EPROM!CrcProtects, EPROM!Returned
<1>12. EPROM!ErrorChangesNothing'
  BY <1>1 DEF EPROM!ErrorChangesNothing
<1>13. EPROM!CleanMeansDone'
  <2>1. pc' = "idle" /\ clean' => ~(page < Pages)
    BY <1>1, <1>2, <1>4 DEF Begins
  <2>. QED BY <1>6, <2>1 DEF EPROM!CleanMeansDone, EPROM!Returned, EPROM!WriteDone,
                             EPROM!LockDone
<1>. QED BY <1>7, <1>8, <1>9, <1>10, <1>11, <1>12, <1>13 DEF Inv

LEMMA NextRight == Inv /\ [EPROM!Next]_EPROM!vars => Inv'
<1> SUFFICES ASSUME Inv, [EPROM!Next]_EPROM!vars PROVE Inv'
  OBVIOUS
<1>1. chip \in {"EPROM", "EEPROM"}
  BY DEF Inv, EPROM!TypeOK, EPROM!ChipAssumption
<1>2. CASE EPROM!Unplug
  BY <1>2, UnplugRight
<1>3. ASSUME NEW page \in 0..Pages, EPROM!readPage(page) \/ EPROM!isPageLocked(page) PROVE Inv'
  <2>1. Begins("readPage", "read") /\ Begins("isPageLocked", "status")
    BY DEF Begins
  <2>. QED BY <1>3, <2>1, CallRight DEF EPROM!readPage, EPROM!isPageLocked
<1>4. ASSUME NEW page \in 0..Pages, EPROM!writePage(page) PROVE Inv'
  <2>1. Begins("writePage", IF chip = "EPROM" THEN "command" ELSE "scratch")
    BY <1>1 DEF Begins
  <2>. QED BY <1>4, <2>1, CallRight DEF EPROM!writePage
<1>5. ASSUME NEW page \in 0..Pages, EPROM!lockPage(page) PROVE Inv'
  <2>1. Begins("lockPage", IF chip = "EPROM" THEN "lock" ELSE "scratch")
    BY <1>1 DEF Begins
  <2>. QED BY <1>5, <2>1, CallRight DEF EPROM!lockPage
<1>6. CASE EPROM!Read \/ EPROM!ReadRow \/ EPROM!ReadStatus \/ EPROM!ReadAnswer
  BY <1>6, ReadRight, ReadRowRight, ReadStatusRight, ReadAnswerRight
<1>7. CASE EPROM!WriteScratch \/ EPROM!ReadAuth \/ EPROM!CopyScratch
  BY <1>7, WriteScratchRight, ReadAuthRight, CopyScratchRight
<1>8. CASE EPROM!SendCommand \/ EPROM!SendByte \/ EPROM!LockEPROM \/ EPROM!LockPulse
  BY <1>8, SendCommandRight, SendByteRight, LockEPROMRight, LockPulseRight
<1>9. CASE UNCHANGED EPROM!vars
  <2>1. /\ chip' = chip /\ progPin' = progPin /\ connected' = connected
        /\ faults' = faults /\ mem' = mem /\ scratch' = scratch
        /\ selected' = selected /\ cut' = cut /\ pc' = pc /\ row' = row /\ auth' = auth
        /\ calls' = calls /\ ret' = ret /\ data' = data /\ before' = before
        /\ clean' = clean /\ EPROM!call' = EPROM!call
    BY <1>9, SameCall DEF EPROM!vars, EPROM!setup, EPROM!busVars
  <2>2. EPROM!ChipAssumption' /\ HistoryInv' /\ EPROM!TypeOK'
    BY <2>1 DEF Inv, HistoryInv, EPROM!TypeOK, EPROM!ChipAssumption
  <2>3. CallInv' /\ UntouchedInv' /\ ReadInv'
    BY <2>1 DEF Inv, CallInv, UntouchedInv, ReadInv
  <2>4. HeardInv'
    <3>1. EPROM!Target' = EPROM!Target /\ EPROM!Write' = EPROM!Write
      BY <2>1 DEF EPROM!Target, EPROM!Write
    <3>. QED BY <2>1, <3>1 DEF Inv, HeardInv, FirstPulsed, EPROM!Pulsed
  <2>5. AskedInv'
    BY <2>1, SameCall DEF Inv, AskedInv
  <2>6. EPROM!CrcProtects' /\ EPROM!ErrorChangesNothing' /\ EPROM!CleanMeansDone'
    BY <2>1 DEF Inv, EPROM!Returned, EPROM!CrcProtects, EPROM!ErrorChangesNothing,
                EPROM!CleanMeansDone, EPROM!WriteDone, EPROM!LockDone, EPROM!Pulsed,
                EPROM!Locked, EPROM!InStatus
  <2>. QED BY <2>2, <2>3, <2>4, <2>5, <2>6 DEF Inv
<1>. QED BY <1>2, <1>3, <1>4, <1>5, <1>6, <1>7, <1>8, <1>9 DEF EPROM!Next

LEMMA InvTells == Inv => ChipTellsTruth
<1> SUFFICES ASSUME Inv PROVE EPROM!RightPlace
  BY DEF Inv, ChipTellsTruth, EPROM!ChipTellsTruth
<1>. QED BY DEF Inv, AskedInv, Asked, EPROM!RightPlace

\* Whatever the chip missed and wherever it was unplugged, it holds only what was
\* asked for, an error code changed nothing, a page said to be read is torn at
\* most where the chip left, and a call that was heard to its end did its work.
\* Of a call that returned 0 without being heard nothing is said.
THEOREM TellsTruth == EPROM!ChipAssumption /\ EPROM!Spec => []ChipTellsTruth
<1>1. EPROM!ChipAssumption /\ EPROM!Init => Inv
  BY InitRight
<1>2. Inv /\ [EPROM!Next]_EPROM!vars => Inv'
  BY NextRight
<1>3. Inv => ChipTellsTruth
  BY InvTells
<1>. QED BY <1>1, <1>2, <1>3, PTL DEF EPROM!Spec


(***************************************************************************)
(* The virtual array.                                                      *)
(***************************************************************************)

-----------------------------------------------------------------------------
(* Induction over the naturals, for sets of them, and the existence of a   *)
(* function that adds up another, which it gives.                          *)

LEMMA Least ==
  ASSUME NEW T, T \subseteq Nat, T # {}
  PROVE  \E n \in T : \A k \in T : n <= k
<1>1. IsWellFoundedOn(OpToRel(<, Nat), Nat)
  BY NatLessThanWellFounded
<1>2. PICK n \in T : \A k \in T : ~(<<k, n>> \in OpToRel(<, Nat))
  BY <1>1, WFMin
<1>3. \A k \in T : ~(k < n)
  BY <1>2, Zenon DEF OpToRel
<1>. QED BY <1>3

LEMMA SetInduction ==
  ASSUME NEW S, 0 \in S, \A n \in Nat : n \in S => n + 1 \in S
  PROVE  \A n \in Nat : n \in S
<1> SUFFICES ASSUME NEW x \in Nat, x \notin S PROVE FALSE
  OBVIOUS
<1> DEFINE T == {n \in Nat : n \notin S}
<1>1. PICK n \in T : \A k \in T : n <= k
  BY Least
<1>2. n # 0 /\ n - 1 \in Nat
  BY <1>1
<1>3. n - 1 \in S
  BY <1>1, <1>2
<1>. QED BY <1>1, <1>2, <1>3

LEMMA Sums ==
  ASSUME NEW N \in Nat, NEW s \in Int, NEW g \in [Nat -> Int]
  PROVE  \E f : f = [b \in 0..N |-> IF b = 0 THEN s ELSE f[b - 1] + g[b - 1]]
<1> DEFINE IsSum(f, n) == /\ f \in [0..n -> Int]
                          /\ \A b \in 0..n : f[b] = IF b = 0 THEN s ELSE f[b - 1] + g[b - 1]
           S == {n \in Nat : \E f : IsSum(f, n)}
<1>1. 0 \in S
  <2> DEFINE f == [b \in 0..0 |-> s]
  <2>1. IsSum(f, 0)
    OBVIOUS
  <2>. QED BY <2>1
<1>2. ASSUME NEW n \in Nat, n \in S PROVE n + 1 \in S
  <2>1. PICK f : IsSum(f, n)
    BY <1>2
  <2> DEFINE h == [b \in 0..n + 1 |-> IF b = n + 1 THEN f[n] + g[n] ELSE f[b]]
  <2>2. f[n] \in Int /\ g[n] \in Int
    BY <2>1
  <2>3. h \in [0..n + 1 -> Int]
    BY <2>1, <2>2
  <2>4. ASSUME NEW b \in 0..n + 1
        PROVE  h[b] = IF b = 0 THEN s ELSE h[b - 1] + g[b - 1]
    <3>1. CASE b = n + 1
      BY <3>1
    <3>2. CASE b # n + 1
      BY <2>1, <3>2
    <3>. QED BY <3>1, <3>2
  <2> HIDE DEF h
  <2>5. IsSum(h, n + 1)
    BY <2>3, <2>4
  <2>6. n + 1 \in Nat
    OBVIOUS
  <2> HIDE DEF IsSum
  <2>. QED BY <2>5, <2>6, Zenon
<1>3. N \in S
  <2> HIDE DEF S
  <2>. QED BY <1>1, <1>2, SetInduction
<1>4. PICK f : IsSum(f, N)
  BY <1>3
<1>5. f = [b \in 0..N |-> f[b]]
  BY <1>4
<1>6. f = [b \in 0..N |-> IF b = 0 THEN s ELSE f[b - 1] + g[b - 1]]
  BY <1>4, <1>5
<1>. QED BY <1>6

-----------------------------------------------------------------------------
(* What is transferred: the chunks together are one span of rows.          *)

LEMMA MinOfFour ==
  ASSUME NEW a \in Int, NEW b \in Int, NEW c \in Int, NEW d \in Int, NEW least \in Int,
         least \in {a, b, c, d}, least <= a, least <= b, least <= c, least <= d
  PROVE  Virtual!Min({a, b, c, d}) = least
BY DEF Virtual!Min

RequestTypes ==
  /\ rows_in_array \in Nat /\ rows_in_array > 0
  /\ rows_in_mem \in Nat /\ rows_in_mem > 0 /\ rowsperchunk \in 1..rows_in_mem
  /\ first_undef_row \in 0..rows_in_array

\* How many rows of the strip are defined and in the file.
Span(start) ==
  LET a == first_undef_row - start
      b == rows_in_array - start
      least == IF a < b THEN a ELSE b
  IN IF rows_in_mem < least THEN rows_in_mem ELSE least

LEMMA SpanIs ==
  ASSUME RequestTypes, NEW start \in Nat
  PROVE  /\ Span(start) \in Int /\ Span(start) <= rows_in_mem
         /\ Span(start) <= first_undef_row - start /\ Span(start) <= rows_in_array - start
         /\ Span(start) \in {rows_in_mem, first_undef_row - start, rows_in_array - start}
BY DEF RequestTypes, Span

LEMMA ChunkIs ==
  ASSUME RequestTypes, NEW start \in Nat, NEW b \in Nat
  PROVE  /\ b * rowsperchunk \in Int
         /\ Virtual!ChunkRows(b, start) =
              IF rowsperchunk < Span(start) - b * rowsperchunk
              THEN rowsperchunk ELSE Span(start) - b * rowsperchunk
<1> DEFINE p == b * rowsperchunk
           least == IF rowsperchunk < Span(start) - p THEN rowsperchunk ELSE Span(start) - p
           x1 == rowsperchunk
           x2 == rows_in_mem - p
           x3 == first_undef_row - (start + p)
           x4 == rows_in_array - (start + p)
<1>1. p \in Int
  BY DEF RequestTypes
<1>2. Virtual!ChunkRows(b, start) = Virtual!Min({x1, x2, x3, x4})
  BY DEF Virtual!ChunkRows
<1> HIDE DEF p
<1>3. /\ x1 \in Int /\ x2 \in Int /\ x3 \in Int /\ x4 \in Int /\ least \in Int
      /\ least \in {x1, x2, x3, x4} /\ least <= x1 /\ least <= x2 /\ least <= x3 /\ least <= x4
  <2> DEFINE w == Span(start)
  <2>1. /\ w \in Int /\ w <= rows_in_mem /\ w <= first_undef_row - start
        /\ w <= rows_in_array - start
        /\ w \in {rows_in_mem, first_undef_row - start, rows_in_array - start}
    BY SpanIs
  <2>2. /\ rows_in_mem \in Int /\ first_undef_row \in Int /\ rows_in_array \in Int
        /\ rowsperchunk \in Int
    BY DEF RequestTypes
  <2> HIDE DEF w
  <2>3. /\ x1 \in Int /\ x2 \in Int /\ x3 \in Int /\ x4 \in Int
        /\ x3 = first_undef_row - start - p /\ x4 = rows_in_array - start - p
    BY <1>1, <2>2
  <2>4. least = IF x1 < w - p THEN x1 ELSE w - p
    BY DEF w
  <2>5. w - p \in {x2, x3, x4} /\ w - p <= x2 /\ w - p <= x3 /\ w - p <= x4
    BY <1>1, <2>1, <2>2, <2>3
  <2> HIDE DEF least, x1, x2, x3, x4
  <2>. QED BY <1>1, <2>1, <2>3, <2>4, <2>5
<1> HIDE DEF least, x1, x2, x3, x4
<1>4. Virtual!ChunkRows(b, start) = least
  BY <1>2, <1>3, MinOfFour
<1>. QED BY <1>1, <1>4 DEF least, p

LEMMA ChunksAre ==
  ASSUME RequestTypes
  PROVE  \E last \in Nat : /\ Virtual!Chunks = 0..last
                           /\ last * rowsperchunk \in Int
                           /\ last * rowsperchunk < rows_in_mem
                           /\ rows_in_mem <= last * rowsperchunk + rowsperchunk
<1> DEFINE a == rows_in_mem - 1
           last == a \div rowsperchunk
<1>1. a \in Int /\ 0 <= a /\ rowsperchunk \in Int /\ rowsperchunk > 0 /\ rows_in_mem \in Int
  BY DEF RequestTypes
<1>2. Virtual!Chunks = 0..last
  BY DEF Virtual!Chunks
<1>3. rows_in_mem = a + 1
  BY <1>1
<1> HIDE DEF a
<1>4. last \in Nat /\ rowsperchunk * last <= a /\ a < rowsperchunk * last + rowsperchunk
  BY <1>1
<1> HIDE DEF last
<1>5. last * rowsperchunk = rowsperchunk * last /\ last * rowsperchunk \in Int
  BY <1>1, <1>4
<1>. QED BY <1>1, <1>2, <1>3, <1>4, <1>5

LEMMA OffsetsAre ==
  ASSUME RequestTypes, NEW start \in Nat
  PROVE  \A b \in Virtual!Chunks :
           Virtual!Offsets(start)[b] =
             IF b = 0 THEN start
             ELSE Virtual!Offsets(start)[b - 1] + Virtual!ChunkRows(b - 1, start)
<1>1. PICK last \in Nat : Virtual!Chunks = 0..last
  BY ChunksAre
<1> DEFINE g == [b \in Nat |-> Virtual!ChunkRows(b, start)]
           Sum(f) == f = [b \in Virtual!Chunks |->
                            IF b = 0 THEN start ELSE f[b - 1] + Virtual!ChunkRows(b - 1, start)]
<1>2. g \in [Nat -> Int]
  <2> SUFFICES ASSUME NEW b \in Nat PROVE Virtual!ChunkRows(b, start) \in Int
    OBVIOUS
  <2>1. Span(start) \in Int /\ rowsperchunk \in Int
    BY SpanIs DEF RequestTypes
  <2>. QED BY <2>1, ChunkIs
<1>3. \E f : Sum(f)
  <2>1. PICK f : f = [b \in 0..last |-> IF b = 0 THEN start ELSE f[b - 1] + g[b - 1]]
    <3> HIDE DEF g
    <3>1. start \in Int
      OBVIOUS
    <3>. QED BY <1>2, <3>1, Sums, Zenon
  <2>2. \A b \in 0..last : b # 0 => g[b - 1] = Virtual!ChunkRows(b - 1, start)
    OBVIOUS
  <2> HIDE DEF g
  <2>3. Sum(f)
    BY <1>1, <2>1, <2>2
  <2>. QED BY <2>3
<1>4. Sum(Virtual!Offsets(start))
  <2>1. Virtual!Offsets(start) = CHOOSE f : Sum(f)
    BY DEF Virtual!Offsets
  <2> HIDE DEF Sum
  <2>. QED BY <1>3, <2>1, Zenon
<1>. QED BY <1>4

LEMMA TransfersAre ==
  ASSUME RequestTypes, NEW start \in Nat
  PROVE  Virtual!Transfers(start) = {<<k, start + k>> : k \in 0..Span(start) - 1}
<1> DEFINE w == Span(start)
           p == rowsperchunk
           cr(b) == Virtual!ChunkRows(b, start)
           off == Virtual!Offsets(start)
           done == {b \in Virtual!Chunks : \A a \in 0..b : cr(a) > 0}
<1>1. w \in Int /\ w <= rows_in_mem /\ p \in Int /\ p > 0 /\ rows_in_mem \in Int
  BY SpanIs DEF RequestTypes
<1>2. \A b \in Nat : /\ b * p \in Int
                     /\ cr(b) = IF p < w - b * p THEN p ELSE w - b * p
  BY ChunkIs
<1>3. PICK last \in Nat : /\ Virtual!Chunks = 0..last
                          /\ last * p \in Int /\ last * p < rows_in_mem
                          /\ rows_in_mem <= last * p + p
  BY ChunksAre
<1>4. \A b \in 0..last : off[b] = IF b = 0 THEN start ELSE off[b - 1] + cr(b - 1)
  BY <1>3, OffsetsAre
<1>5. Virtual!Transfers(start) =
        UNION {{<<b * p + k, off[b] + k>> : k \in 0..cr(b) - 1} : b \in done}
  BY DEF Virtual!Transfers
<1> HIDE DEF w, p, cr, off
<1>6. \A b \in done : b \in 0..last /\ cr(b) > 0
  BY <1>3
<1>7. \A b \in done : b \in Nat /\ off[b] = start + b * p
  <2> DEFINE S == {b \in Nat : b \in done => off[b] = start + b * p}
  <2>1. 0 \in S
    BY <1>1, <1>3, <1>4
  <2>2. ASSUME NEW b \in Nat, b \in S PROVE b + 1 \in S
    <3> SUFFICES ASSUME b + 1 \in done PROVE off[b + 1] = start + (b + 1) * p
      OBVIOUS
    <3>1. b \in done
      BY <1>3
    <3>2. off[b] = start + b * p /\ b * p \in Int
      BY <1>2, <2>2, <3>1
    <3>3. cr(b + 1) > 0 /\ b + 1 \in 0..last
      BY <1>6
    <3>4. (b + 1) * p = b * p + p
      BY <1>1
    <3>5. cr(b) = p
      BY <1>1, <1>2, <3>2, <3>3, <3>4
    <3>6. off[b + 1] = off[b] + cr(b)
      BY <1>4, <3>3
    <3>. QED BY <1>1, <3>2, <3>4, <3>5, <3>6
  <2> HIDE DEF S
  <2>3. \A b \in Nat : b \in S
    BY <2>1, <2>2, SetInduction
  <2>. QED BY <1>6, <2>3 DEF S
<1>8. ASSUME NEW b \in done, NEW k \in 0..cr(b) - 1
      PROVE  \E j \in 0..w - 1 : <<b * p + k, off[b] + k>> = <<j, start + j>>
  <2>1. b \in Nat /\ off[b] = start + b * p /\ b * p \in Int /\ b * p >= 0
    <3>1. b \in Nat /\ off[b] = start + b * p /\ b * p \in Int
      BY <1>2, <1>7
    <3>2. 0 * p <= b * p
      BY <1>1, <3>1, Monotone
    <3>. QED BY <1>1, <3>1, <3>2
  <2> DEFINE j == b * p + k
  <2>2. cr(b) \in Int /\ cr(b) <= w - b * p
    BY <1>1, <1>2, <2>1
  <2>3. j \in 0..w - 1 /\ off[b] + k = start + j
    BY <1>1, <2>1, <2>2
  <2>. QED BY <2>3
<1>9. ASSUME NEW j \in 0..w - 1
      PROVE  \E b \in done : \E k \in 0..cr(b) - 1 :
               <<b * p + k, off[b] + k>> = <<j, start + j>>
  <2> DEFINE b == j \div p
             k == j % p
  <2>1. j \in Int /\ 0 <= j /\ j < w
    BY <1>1
  <2>2. b \in Int /\ k \in Int /\ j = p * b + k /\ 0 <= k /\ k < p
    BY <1>1, <2>1, Division
  <2> HIDE DEF b, k
  <2>3. b >= 0
    <3> SUFFICES ASSUME b <= -1 PROVE FALSE
      BY <2>2
    <3>1. p * b <= p * (-1)
      BY <1>1, <2>2, Monotone
    <3>. QED BY <1>1, <2>1, <2>2, <3>1
  <2>4. b \in Nat /\ b * p = p * b /\ b * p \in Int
    BY <1>1, <1>2, <2>2, <2>3
  <2>5. b <= last
    <3> SUFFICES ASSUME last + 1 <= b PROVE FALSE
      BY <2>2
    <3>1. (last + 1) * p <= b * p /\ (last + 1) * p = last * p + p
      BY <1>1, <2>2, Monotone
    <3>. QED BY <1>1, <1>3, <2>1, <2>2, <2>4, <3>1
  <2>6. \A a \in 0..b : cr(a) > 0
    <3> SUFFICES ASSUME NEW a \in 0..b PROVE cr(a) > 0
      OBVIOUS
    <3>1. a * p <= b * p /\ a \in Nat /\ a * p \in Int
      <4>1. a \in Int /\ a <= b /\ a \in Nat
        BY <2>4
      <4>. QED BY <1>1, <2>4, <4>1, Monotone
    <3>. QED BY <1>1, <1>2, <2>1, <2>2, <2>4, <3>1
  <2>7. b \in done
    BY <1>3, <2>4, <2>5, <2>6
  <2>8. off[b] = start + b * p
    BY <1>7, <2>7
  <2>9. k \in 0..cr(b) - 1
    BY <1>1, <1>2, <2>1, <2>2, <2>4
  <2>10. b * p + k = j /\ off[b] + k = start + j
    BY <2>1, <2>2, <2>4, <2>8
  <2>. QED BY <2>7, <2>9, <2>10
<1> HIDE DEF done
<1>10. UNION {{<<b * p + k, off[b] + k>> : k \in 0..cr(b) - 1} : b \in done}
         = {<<k, start + k>> : k \in 0..w - 1}
  <2> DEFINE A(b) == {<<b * p + k, off[b] + k>> : k \in 0..cr(b) - 1}
             B == {<<k, start + k>> : k \in 0..w - 1}
  <2>1. ASSUME NEW x \in UNION {A(b) : b \in done} PROVE x \in B
    <3>1. PICK b \in done : x \in A(b)
      OBVIOUS
    <3>2. PICK k \in 0..cr(b) - 1 : x = <<b * p + k, off[b] + k>>
      BY <3>1
    <3>. QED BY <1>8, <3>2
  <2>2. ASSUME NEW x \in B PROVE x \in UNION {A(b) : b \in done}
    <3>1. PICK j \in 0..w - 1 : x = <<j, start + j>>
      BY <2>2
    <3>2. PICK b \in done : \E k \in 0..cr(b) - 1 : <<b * p + k, off[b] + k>> = <<j, start + j>>
      BY <1>9
    <3>3. x \in A(b)
      BY <3>1, <3>2
    <3> HIDE DEF A
    <3>. QED BY <3>3, Zenon
  <2>. QED BY <2>1, <2>2
<1>. QED BY <1>5, <1>10 DEF w

LEMMA StoredIs ==
  ASSUME RequestTypes, NEW start \in Nat, NEW file
  PROVE  Virtual!Stored(file, Virtual!Transfers(start)) =
           [r \in Virtual!AllRows |-> IF r \in start..start + Span(start) - 1
                                    THEN mem_buffer[r - start] ELSE file[r]]
<1> DEFINE w == Span(start)
           T == {<<k, start + k>> : k \in 0..w - 1}
<1>1. w \in Int
  BY SpanIs
<1> HIDE DEF w
<1>2. ASSUME NEW r \in Virtual!AllRows
      PROVE  (IF \E p \in T : p[2] = r THEN mem_buffer[(CHOOSE p \in T : p[2] = r)[1]]
              ELSE file[r])
             = IF r \in start..start + w - 1 THEN mem_buffer[r - start] ELSE file[r]
  <2>0. r \in Int
    BY DEF Virtual!AllRows, RequestTypes
  <2>1. CASE r \in start..start + w - 1
    <3> DEFINE q == <<r - start, r>>
    <3>1. r - start \in 0..w - 1 /\ r = start + (r - start)
      BY <1>1, <2>0, <2>1
    <3>2. q \in T /\ q[2] = r
      BY <3>1
    <3>3. \A p \in T : p[2] = r => p = q
      BY <1>1, <2>0
    <3> HIDE DEF T, q
    <3> DEFINE c == CHOOSE p \in T : p[2] = r
    <3>4. c = q
      BY <3>2, <3>3, Zenon
    <3> HIDE DEF c
    <3>5. c[1] = r - start
      BY <3>4 DEF q
    <3>6. \E p \in T : p[2] = r
      BY <3>2, Zenon
    <3>. QED BY <2>1, <3>5, <3>6, Zenon DEF c
  <2>2. CASE r \notin start..start + w - 1
    <3>1. ~ \E p \in T : p[2] = r
      BY <1>1, <2>0, <2>2
    <3>. QED BY <2>2, <3>1
  <2>. QED BY <2>1, <2>2
<1>3. Virtual!Transfers(start) = T
  BY TransfersAre DEF w
<1> HIDE DEF T
<1>. QED BY <1>2, <1>3 DEF Virtual!Stored, w

LEMMA LoadedIs ==
  ASSUME RequestTypes, NEW start \in Nat, NEW file
  PROVE  Virtual!Loaded(file, Virtual!Transfers(start)) =
           [n \in 0..rows_in_mem - 1 |-> IF n \in 0..Span(start) - 1
                                         THEN file[start + n] ELSE mem_buffer[n]]
<1> DEFINE w == Span(start)
           T == {<<k, start + k>> : k \in 0..w - 1}
<1>1. w \in Int
  BY SpanIs
<1> HIDE DEF w
<1>2. ASSUME NEW n \in 0..rows_in_mem - 1
      PROVE  (IF \E p \in T : p[1] = n THEN file[(CHOOSE p \in T : p[1] = n)[2]]
              ELSE mem_buffer[n])
             = IF n \in 0..w - 1 THEN file[start + n] ELSE mem_buffer[n]
  <2>1. CASE n \in 0..w - 1
    <3> DEFINE q == <<n, start + n>>
    <3>1. q \in T /\ q[1] = n
      BY <2>1
    <3>2. \A p \in T : p[1] = n => p = q
      OBVIOUS
    <3> HIDE DEF T, q
    <3> DEFINE c == CHOOSE p \in T : p[1] = n
    <3>3. c = q
      BY <3>1, <3>2, Zenon
    <3> HIDE DEF c
    <3>4. c[2] = start + n
      BY <3>3 DEF q
    <3>5. \E p \in T : p[1] = n
      BY <3>1, Zenon
    <3>. QED BY <2>1, <3>4, <3>5, Zenon DEF c
  <2>2. CASE n \notin 0..w - 1
    <3>1. ~ \E p \in T : p[1] = n
      BY <2>2
    <3>. QED BY <2>2, <3>1
  <2>. QED BY <2>1, <2>2
<1>3. Virtual!Transfers(start) = T
  BY TransfersAre DEF w
<1> HIDE DEF T
<1>. QED BY <1>2, <1>3 DEF Virtual!Loaded, w

-----------------------------------------------------------------------------
(* The inductive invariant.                                                *)

ArrayTypes ==
  /\ RequestTypes
  /\ pre_zero \in BOOLEAN /\ b_s_open \in BOOLEAN /\ dirty \in BOOLEAN
  /\ mem_buffer \in [0..rows_in_mem - 1 -> Virtual!Contents]
  /\ cur_start_row \in Virtual!AllRows
  /\ temp_file \in [Virtual!AllRows -> Virtual!Contents \cup {Virtual!Unwritten}]
  /\ access \in [first : Nat, rows : Nat, writable : BOOLEAN]

InWindow(r) == r \in cur_start_row..cur_start_row + rows_in_mem - 1

\* The window holds what was granted, and what is not full height has a file.
WindowInv ==
  /\ access.first >= cur_start_row
  /\ access.first + access.rows <= cur_start_row + rows_in_mem
  /\ access.writable => dirty /\ access.first + access.rows <= first_undef_row
  /\ b_s_open => rows_in_mem >= maxaccess
  /\ ~b_s_open => cur_start_row = 0 /\ rows_in_mem = rows_in_array

\* A defined row outside the window is in the file, and one in a window that is
\* not dirty is there as it is in the buffer.
FileInv ==
  \A r \in 0..first_undef_row - 1 :
    /\ InWindow(r) \/ temp_file[r] \in Virtual!Contents
    /\ ~dirty /\ InWindow(r) => temp_file[r] = mem_buffer[r - cur_start_row]

ArrayInv ==
  /\ ArrayTypes /\ WindowInv /\ FileInv /\ Virtual!ReadsZeroes
  /\ exited \in {"no", "bad access"}

LEMMA ArrayInit ==
  Virtual!VirtualAssumption /\ Virtual!Init => ArrayInv /\ Virtual!Plain!Init
<1> SUFFICES ASSUME Virtual!VirtualAssumption, Virtual!Init
             PROVE  ArrayInv /\ Virtual!Plain!Init
  OBVIOUS
<1>1. /\ rows_in_array \in Nat /\ rows_in_array > 0 /\ maxaccess \in Nat /\ maxaccess > 0
      /\ MinHeights \subseteq Nat \ {0}
  BY DEF Virtual!VirtualAssumption
<1>2. /\ rows_in_mem \in Nat /\ rows_in_mem > 0
      /\ b_s_open => rows_in_mem >= maxaccess
      /\ ~b_s_open => rows_in_mem = rows_in_array
      /\ b_s_open \in BOOLEAN
  <2>1. PICK strips \in MinHeights :
          LET fits == (rows_in_array - 1) \div maxaccess + 1 <= strips
          IN /\ rows_in_mem = (IF fits THEN rows_in_array ELSE strips * maxaccess)
             /\ b_s_open = ~fits
    BY Zenon DEF Virtual!Init
  <2> DEFINE fits == (rows_in_array - 1) \div maxaccess + 1 <= strips
  <2>2. /\ rows_in_mem = IF fits THEN rows_in_array ELSE strips * maxaccess
        /\ b_s_open = ~fits
    BY <2>1
  <2> HIDE DEF fits
  <2>3. strips * maxaccess \in Nat /\ strips * maxaccess >= maxaccess
    <3>1. strips \in Int /\ 1 <= strips /\ maxaccess \in Int /\ 0 <= maxaccess
      BY <1>1
    <3>2. 1 * maxaccess <= strips * maxaccess /\ strips * maxaccess \in Int
      BY <3>1, Monotone
    <3>. QED BY <1>1, <3>2
  <2>4. b_s_open \in BOOLEAN
    BY <2>2, Zenon
  <2>5. CASE fits
    <3>1. ~b_s_open /\ rows_in_mem = rows_in_array
      BY <2>2, <2>5, Zenon
    <3>. QED BY <1>1, <2>4, <3>1
  <2>6. CASE ~fits
    <3>1. b_s_open /\ rows_in_mem = strips * maxaccess
      BY <2>2, <2>6, Zenon
    <3>2. rows_in_mem \in Nat /\ rows_in_mem > 0 /\ rows_in_mem >= maxaccess
      BY <1>1, <2>3, <3>1
    <3>. QED BY <2>4, <3>1, <3>2, Zenon
  <2>. QED BY <2>5, <2>6
<1>3. /\ rowsperchunk \in 1..rows_in_mem /\ cur_start_row = 0 /\ first_undef_row = 0
      /\ temp_file = [r \in Virtual!AllRows |-> Virtual!Unwritten]
      /\ access = [first |-> 0, rows |-> 0, writable |-> FALSE] /\ exited = "no"
      /\ dirty = FALSE /\ pre_zero \in BOOLEAN
  BY DEF Virtual!Init
<1>4. mem_buffer \in [0..rows_in_mem - 1 -> Virtual!Contents]
  BY DEF Virtual!Init
<1>5. ArrayTypes
  <2>1. RequestTypes
    BY <1>1, <1>2, <1>3 DEF RequestTypes
  <2>2. cur_start_row \in Virtual!AllRows
    BY <1>1, <1>3 DEF Virtual!AllRows
  <2>3. dirty \in BOOLEAN /\ pre_zero \in BOOLEAN
    BY <1>3, Zenon
  <2>4. temp_file \in [Virtual!AllRows -> Virtual!Contents \cup {Virtual!Unwritten}]
    BY <1>3
  <2>5. access \in [first : Nat, rows : Nat, writable : BOOLEAN]
    BY <1>3
  <2>. QED BY <1>2, <1>4, <2>1, <2>2, <2>3, <2>4, <2>5, Zenon DEF ArrayTypes
<1>6. ArrayInv
  BY <1>2, <1>3, <1>5 DEF ArrayInv, WindowInv, FileInv, Virtual!ReadsZeroes
<1>7. Virtual!Plain!Init
  <2>1. [r \in Virtual!AllRows |-> Virtual!RowNow(r)] = [r \in 0..rows_in_array - 1 |-> 0]
    BY <1>3 DEF Virtual!RowNow, Virtual!AllRows
  <2>. QED BY <1>3, <2>1, Zenon DEF Virtual!Plain!Init, Virtual!Plain!Nothing
<1>. QED BY <1>6, <1>7

\* Where a row is, seen from the undefined rows before and after an access.
LEMMA Places ==
  ASSUME NEW a \in Int, NEW b \in Int, NEW r \in Int, a <= b
  PROVE  /\ r < a \/ r \in a..b - 1 \/ r >= b
         /\ r \in a..b - 1 => ~(r >= b)
         /\ r >= b => r >= a /\ r \notin a..b - 1
         /\ ~(r < a) /\ ~(r >= b) => r \in a..b - 1
OBVIOUS

LEMMA Below ==
  ASSUME NEW b \in Int, NEW r \in 0..b - 1
  PROVE  r \in Int /\ ~(r >= b)
OBVIOUS

\* The end of an access, whichever way the strip came into the buffer: what was
\* defined is where it can be found again.
LEMMA Granted ==
  ASSUME Virtual!VirtualAssumption, ArrayInv, exited = "no",
         NEW first \in Virtual!AllRows, NEW n \in 1..maxaccess + 1, NEW w \in BOOLEAN,
         NEW st \in Virtual!AllRows, NEW buffer \in [0..rows_in_mem - 1 -> Virtual!Contents],
         ~Virtual!BadAccess(first, first + n, w), Virtual!Grant(first, first + n, w, st, buffer),
         temp_file' \in [Virtual!AllRows -> Virtual!Contents \cup {Virtual!Unwritten}],
         dirty' \in BOOLEAN, w => dirty',
         st <= first, first + n <= st + rows_in_mem, ~b_s_open => st = 0,
         \A r \in 0..first_undef_row - 1 :
           /\ Virtual!RowNow(r) = IF r \in st..st + rows_in_mem - 1
                                THEN buffer[r - st] ELSE temp_file'[r]
           /\ r \in st..st + rows_in_mem - 1 \/ temp_file'[r] \in Virtual!Contents
           /\ ~dirty' /\ r \in st..st + rows_in_mem - 1 => temp_file'[r] = buffer[r - st]
  PROVE  ArrayInv' /\ Virtual!Plain!Access(first, n, w)
<1> DEFINE end == first + n
           Undef == Virtual!UndefinedRows(first, end, w)
           In(r) == r \in st..st + rows_in_mem - 1
<1>1. /\ rows_in_array \in Nat /\ rows_in_array > 0 /\ rows_in_mem \in Nat /\ rows_in_mem > 0
      /\ first_undef_row \in 0..rows_in_array /\ first \in 0..rows_in_array - 1
      /\ st \in 0..rows_in_array - 1 /\ maxaccess \in Nat /\ n \in Nat /\ n > 0
      /\ rowsperchunk \in 1..rows_in_mem
  BY DEF ArrayInv, ArrayTypes, RequestTypes, Virtual!AllRows, Virtual!VirtualAssumption
<1>2. /\ end <= rows_in_array /\ n <= maxaccess
      /\ w => first <= first_undef_row
      /\ ~w /\ first_undef_row < end => pre_zero
  <2>1. /\ ~(end > rows_in_array) /\ ~(end - first > maxaccess)
        /\ w => ~(first_undef_row < end /\ first_undef_row < first)
        /\ ~w /\ first_undef_row < end => pre_zero
    BY Zenon DEF Virtual!BadAccess
  <2>. QED BY <1>1, <2>1
<1>3. /\ first_undef_row' = IF w /\ first_undef_row < end THEN end ELSE first_undef_row
      /\ mem_buffer' = [k \in 0..rows_in_mem - 1 |->
                          IF pre_zero /\ st + k \in Undef THEN 0 ELSE buffer[k]]
      /\ cur_start_row' = st
      /\ access' = [first |-> first, rows |-> end - first, writable |-> w]
      /\ UNCHANGED <<pre_zero, rows_in_mem, rowsperchunk, b_s_open, exited>>
  <2>1. DOMAIN buffer = 0..rows_in_mem - 1
    OBVIOUS
  <2>. QED BY <2>1 DEF Virtual!Grant, Virtual!request
<1>4. /\ first_undef_row' \in 0..rows_in_array /\ first_undef_row <= first_undef_row'
      /\ \A r \in first_undef_row..first_undef_row' - 1 : w /\ first <= r /\ r < end
      /\ w => end <= first_undef_row'
      /\ ~w => first_undef_row' = first_undef_row
  <2>1. CASE w
    BY <1>1, <1>2, <1>3, <2>1
  <2>2. CASE ~w
    BY <1>1, <1>2, <1>3, <2>2
  <2>. QED BY <2>1, <2>2
<1>20. /\ first_undef_row \in Int /\ first_undef_row' \in Int
       /\ first_undef_row <= first_undef_row' /\ 0 <= first_undef_row /\ rows_in_array \in Int
       /\ first_undef_row' <= rows_in_array
  <2>1. rows_in_array \in Int /\ first_undef_row \in Int /\ 0 <= first_undef_row
    BY <1>1
  <2>2. first_undef_row' \in 0..rows_in_array /\ first_undef_row <= first_undef_row'
    BY <1>4
  <2>. QED BY <2>1, <2>2
<1>5. \A r \in Int : r \in Undef <=> first_undef_row <= r /\ first <= r /\ r < end
  BY <1>1 DEF Virtual!UndefinedRows
<1>6. end \in Int /\ end - first = n
  BY <1>1
<1> HIDE DEF Undef, end
<1>7. mem_buffer' \in [0..rows_in_mem - 1 -> Virtual!Contents]
  <2>1. 0 \in Virtual!Contents
    BY DEF Virtual!Contents
  <2>. QED BY <1>3, <2>1
<1>8. \A r \in Int : In(r) => mem_buffer'[r - st] = IF pre_zero /\ r \in Undef
                                                   THEN 0 ELSE buffer[r - st]
  <2> SUFFICES ASSUME NEW r \in Int, In(r)
               PROVE  mem_buffer'[r - st] = IF pre_zero /\ r \in Undef THEN 0 ELSE buffer[r - st]
    OBVIOUS
  <2>1. r - st \in 0..rows_in_mem - 1 /\ st + (r - st) = r
    BY <1>1
  <2>. QED BY <1>3, <2>1
<1>9. \A r : (InWindow(r))' <=> In(r)
  BY <1>3 DEF InWindow
<1>10. ASSUME NEW r \in 0..first_undef_row - 1, In(r) PROVE mem_buffer'[r - st] = buffer[r - st]
  <2>1. r \in Int /\ r \notin Undef
    BY <1>1, <1>5
  <2>. QED BY <1>8, <1>10, <2>1
<1>11. ASSUME NEW r \in first_undef_row..first_undef_row' - 1
       PROVE  /\ In(r) /\ mem_buffer'[r - st] \in Virtual!Contents
              /\ pre_zero => mem_buffer'[r - st] = 0
  <2>1. r \in Int /\ first_undef_row <= r /\ first <= r /\ r < end
    <3>1. r \in Int /\ first_undef_row <= r
      BY <1>20
    <3>2. first <= r /\ r < end
      BY <1>4
    <3>. QED BY <3>1, <3>2
  <2>2. In(r) /\ r \in Undef /\ r - st \in 0..rows_in_mem - 1
    BY <1>1, <1>5, <1>6, <2>1 DEF end
  <2>. QED BY <1>7, <1>8, <2>1, <2>2
<1>12. ArrayTypes'
  <2>1. RequestTypes'
    BY <1>1, <1>3, <1>4 DEF RequestTypes
  <2>2. access' \in [first : Nat, rows : Nat, writable : BOOLEAN]
    BY <1>1, <1>3, <1>6
  <2>3. cur_start_row' \in (Virtual!AllRows)'
    BY <1>3 DEF Virtual!AllRows
  <2>4. mem_buffer' \in [0..rows_in_mem' - 1 -> (Virtual!Contents)']
    BY <1>3, <1>7 DEF Virtual!Contents
  <2>5. temp_file' \in [(Virtual!AllRows)' -> (Virtual!Contents)' \cup {(Virtual!Unwritten)'}]
    BY DEF Virtual!AllRows, Virtual!Contents, Virtual!Unwritten
  <2>6. pre_zero' \in BOOLEAN /\ b_s_open' \in BOOLEAN
    BY <1>3, Zenon DEF ArrayInv, ArrayTypes
  <2>. QED BY <2>1, <2>2, <2>3, <2>4, <2>5, <2>6, Zenon DEF ArrayTypes
<1>13. WindowInv'
  <2>1. /\ access'.first = first /\ access'.rows = n /\ access'.writable = w
        /\ first + n = end
    BY <1>3, <1>6 DEF end
  <2>2. /\ access'.first >= cur_start_row'
        /\ access'.first + access'.rows <= cur_start_row' + rows_in_mem'
    BY <1>1, <1>3, <2>1 DEF end
  <2>3. access'.writable => dirty' /\ access'.first + access'.rows <= first_undef_row'
    <3>1. w => first + n <= first_undef_row'
      BY <1>4, <2>1
    <3>. QED BY <2>1, <3>1, Zenon
  <2>4. /\ b_s_open' => rows_in_mem' >= maxaccess
        /\ ~b_s_open' => cur_start_row' = 0 /\ rows_in_mem' = rows_in_array
    BY <1>3, Zenon DEF ArrayInv, WindowInv
  <2>. QED BY <2>2, <2>3, <2>4, Zenon DEF WindowInv
<1>14. FileInv'
  <2> SUFFICES ASSUME NEW r \in 0..first_undef_row' - 1
               PROVE  /\ In(r) \/ temp_file'[r] \in Virtual!Contents
                      /\ ~dirty' /\ In(r) => temp_file'[r] = mem_buffer'[r - st]
    BY <1>3, <1>9, Zenon DEF FileInv, Virtual!Contents
  <2>1. CASE r < first_undef_row
    <3>1. r \in 0..first_undef_row - 1
      BY <1>1, <1>4, <2>1
    <3>2. In(r) => mem_buffer'[r - st] = buffer[r - st]
      BY <1>10, <3>1
    <3>. QED BY <3>1, <3>2, Zenon
  <2>2. CASE ~(r < first_undef_row)
    <3>0. r \in Int /\ ~(r >= first_undef_row')
      BY <1>20, Below, Zenon
    <3>1. r \in first_undef_row..first_undef_row' - 1
      BY <1>20, <2>2, <3>0, Places, Zenon
    <3>2. w /\ In(r)
      BY <1>4, <1>11, <3>1
    <3>. QED BY <3>2, Zenon
  <2>. QED BY <2>1, <2>2
<1>15. (Virtual!ReadsZeroes)'
  <2> SUFFICES ASSUME NEW r \in first..first + n - 1, r >= first_undef_row'
               PROVE  mem_buffer'[r - st] = 0
    BY <1>3, <1>6 DEF Virtual!ReadsZeroes
  <2>1. r \in Int /\ first <= r /\ r < end
    BY <1>1 DEF end
  <2>2. ~w /\ first_undef_row <= r
    BY <1>1, <1>4, <1>6, <2>1
  <2>3. first_undef_row < end
    BY <1>1, <1>6, <2>1, <2>2
  <2>4. pre_zero /\ r \in Undef /\ In(r)
    BY <1>1, <1>2, <1>5, <2>1, <2>2, <2>3 DEF end
  <2>. QED BY <1>8, <2>1, <2>4
<1>16. ASSUME NEW r \in Virtual!AllRows
       PROVE  /\ r \notin first_undef_row..first_undef_row' - 1 =>
                   (Virtual!RowNow(r))' = Virtual!RowNow(r)
              /\ r \in first_undef_row..first_undef_row' - 1 =>
                   /\ (Virtual!RowNow(r))' \in Virtual!Contents
                   /\ pre_zero => (Virtual!RowNow(r))' = 0
              /\ (Virtual!RowNow(r))' \in Virtual!Contents
  <2>0. r \in Int /\ r >= 0 /\ 0 \in Virtual!Contents
    BY <1>1 DEF Virtual!AllRows, Virtual!Contents
  <2>1. (Virtual!RowNow(r))' = IF r >= first_undef_row' THEN 0
                             ELSE IF In(r) THEN mem_buffer'[r - st] ELSE temp_file'[r]
    BY <1>3 DEF Virtual!RowNow
  <2>2. CASE r < first_undef_row
    <3>1. r \in 0..first_undef_row - 1 /\ ~(r >= first_undef_row')
      BY <1>1, <1>4, <2>0, <2>2
    <3>2. (Virtual!RowNow(r))' = Virtual!RowNow(r)
      BY <1>10, <2>1, <3>1
    <3>3. In(r) => buffer[r - st] \in Virtual!Contents
      BY <1>1, <3>1
    <3>4. Virtual!RowNow(r) \in Virtual!Contents
      BY <3>1, <3>3
    <3>5. r \notin first_undef_row..first_undef_row' - 1
      BY <1>1, <2>0, <2>2
    <3>. QED BY <3>2, <3>4, <3>5
  <2>3. CASE r \in first_undef_row..first_undef_row' - 1
    <3>1. ~(r >= first_undef_row')
      BY <1>20, <2>0, <2>3, Places, Zenon
    <3>. QED BY <1>11, <2>1, <2>3, <3>1
  <2>4. CASE r >= first_undef_row'
    <3>1. r >= first_undef_row /\ r \notin first_undef_row..first_undef_row' - 1
      BY <1>20, <2>0, <2>4, Places, Zenon
    <3>2. Virtual!RowNow(r) = 0
      BY <3>1 DEF Virtual!RowNow
    <3>. QED BY <2>0, <2>1, <2>4, <3>1, <3>2
  <2>5. r < first_undef_row \/ r \in first_undef_row..first_undef_row' - 1 \/ r >= first_undef_row'
    BY <1>20, <2>0, Places, Zenon
  <2>. QED BY <2>2, <2>3, <2>4, <2>5
<1>17. Virtual!Plain!Access(first, n, w)
  <2> DEFINE rw == [r \in Virtual!AllRows |-> Virtual!RowNow(r)]
             rwp == [r \in Virtual!AllRows |-> (Virtual!RowNow(r))']
  <2>1. rw' = rwp
    BY DEF Virtual!AllRows
  <2>2. rwp \in [0..rows_in_array - 1 -> Virtual!Contents]
    BY <1>16 DEF Virtual!AllRows
  <2>3. /\ first + n <= rows_in_array /\ n <= maxaccess
        /\ IF w THEN first <= first_undef_row ELSE pre_zero \/ first + n <= first_undef_row
        /\ access' = [first |-> first, rows |-> n, writable |-> w]
        /\ pre_zero' = pre_zero
    <3>1. ~w => pre_zero \/ first + n <= first_undef_row
      <4>1. ~(first_undef_row < end) => first + n <= first_undef_row
        BY <1>1, <1>6 DEF end
      <4>. QED BY <1>2, <4>1, Zenon
    <3>2. IF w THEN first <= first_undef_row ELSE pre_zero \/ first + n <= first_undef_row
      BY <1>2, <3>1, Zenon
    <3>. QED BY <1>2, <1>3, <1>6, <3>2 DEF end
  <2>4. CASE w /\ first + n > first_undef_row
    <3>1. first_undef_row' = first + n
      BY <1>1, <1>3, <2>4 DEF end
    <3>2. \A r \in 0..rows_in_array - 1 :
            /\ r \notin first_undef_row..first_undef_row' - 1 => rwp[r] = rw[r]
            /\ pre_zero /\ r \in first_undef_row..first_undef_row' - 1 => rwp[r] = 0
      BY <1>16 DEF Virtual!AllRows
    <3> HIDE DEF rw, rwp
    <3>. QED BY <2>1, <2>2, <2>3, <2>4, <3>1, <3>2, Zenon
             DEF Virtual!Plain!Access, rw
  <2>5. CASE ~(w /\ first + n > first_undef_row)
    <3>1. first_undef_row' = first_undef_row
      BY <1>1, <1>3, <2>5 DEF end
    <3>2. \A r \in Virtual!AllRows : rwp[r] = rw[r]
      BY <1>1, <1>16, <3>1
    <3>3. rwp = rw
      BY <3>2
    <3> HIDE DEF rw, rwp
    <3>. QED BY <2>1, <2>3, <2>5, <3>1, <3>3, Zenon DEF Virtual!Plain!Access, rw
  <2>. QED BY <2>4, <2>5
<1>18. exited' \in {"no", "bad access"}
  BY <1>3
<1>. QED BY <1>12, <1>13, <1>14, <1>15, <1>17, <1>18 DEF ArrayInv

LEMMA NewStartIs ==
  ASSUME Virtual!VirtualAssumption, ArrayInv, b_s_open,
         NEW first \in Virtual!AllRows, NEW n \in 1..maxaccess,
         first + n <= rows_in_array
  PROVE  LET st == Virtual!NewStart(first, first + n)
         IN st \in Virtual!AllRows /\ st <= first /\ first + n <= st + rows_in_mem
<1> DEFINE st == Virtual!NewStart(first, first + n)
           e == (first + n) - rows_in_mem
<1>1. /\ rows_in_array \in Nat /\ rows_in_mem \in Nat /\ rows_in_mem > 0
      /\ cur_start_row \in 0..rows_in_array - 1 /\ first \in 0..rows_in_array - 1
      /\ maxaccess \in Nat /\ n \in Int /\ n >= 1 /\ n <= rows_in_mem
  <2>1. rows_in_mem >= maxaccess
    BY Zenon DEF ArrayInv, WindowInv
  <2>2. /\ rows_in_array \in Nat /\ rows_in_mem \in Nat /\ rows_in_mem > 0
        /\ cur_start_row \in 0..rows_in_array - 1 /\ first \in 0..rows_in_array - 1
    BY Zenon DEF ArrayInv, ArrayTypes, RequestTypes, Virtual!AllRows
  <2>3. maxaccess \in Nat
    BY DEF Virtual!VirtualAssumption
  <2>. QED BY <2>1, <2>2, <2>3
<1>2. Virtual!Max({e, 0}) = IF e < 0 THEN 0 ELSE e
  <2> SUFFICES ASSUME NEW x \in Int PROVE Virtual!Max({x, 0}) = IF x < 0 THEN 0 ELSE x
    BY <1>1
  <2>. QED BY DEF Virtual!Max
<1>3. st = IF first > cur_start_row THEN first ELSE IF e < 0 THEN 0 ELSE e
  <2>1. st = IF first > cur_start_row THEN first ELSE Virtual!Max({e, 0})
    BY DEF Virtual!NewStart
  <2>. QED BY <1>2, <2>1
<1> HIDE DEF st
<1>4. st \in 0..rows_in_array - 1 /\ st <= first /\ first + n <= st + rows_in_mem
  BY <1>1, <1>3
<1>. QED BY <1>4 DEF st, Virtual!AllRows

\* After the buffer is written to the file, the file has every defined row.
LEMMA FlushedIs ==
  ASSUME Virtual!VirtualAssumption, ArrayInv
  PROVE  LET file == Virtual!Flushed(temp_file)
         IN /\ file \in [Virtual!AllRows -> Virtual!Contents \cup {Virtual!Unwritten}]
            /\ \A r \in 0..first_undef_row - 1 :
                 file[r] = Virtual!RowNow(r) /\ file[r] \in Virtual!Contents
<1> DEFINE file == Virtual!Flushed(temp_file)
           cur == cur_start_row
<1>1. /\ rows_in_array \in Nat /\ rows_in_mem \in Nat /\ rows_in_mem > 0
      /\ cur \in 0..rows_in_array - 1 /\ first_undef_row \in 0..rows_in_array
      /\ RequestTypes
  BY DEF ArrayInv, ArrayTypes, RequestTypes, Virtual!AllRows
<1>2. /\ mem_buffer \in [0..rows_in_mem - 1 -> Virtual!Contents]
      /\ temp_file \in [Virtual!AllRows -> Virtual!Contents \cup {Virtual!Unwritten}]
  BY DEF ArrayInv, ArrayTypes
<1>3. \A r \in 0..first_undef_row - 1 :
        /\ r \in Int /\ 0 <= r /\ r < first_undef_row /\ r \in Virtual!AllRows
        /\ InWindow(r) => r - cur \in 0..rows_in_mem - 1
        /\ Virtual!RowNow(r) = IF InWindow(r) THEN mem_buffer[r - cur] ELSE temp_file[r]
  BY <1>1 DEF Virtual!RowNow, InWindow, Virtual!AllRows
<1>4. \A r \in 0..first_undef_row - 1 :
        /\ InWindow(r) \/ temp_file[r] \in Virtual!Contents
        /\ ~dirty /\ InWindow(r) => temp_file[r] = mem_buffer[r - cur]
  BY Zenon DEF ArrayInv, FileInv
<1>5. \A r \in 0..first_undef_row - 1 : Virtual!RowNow(r) \in Virtual!Contents
  BY <1>2, <1>3, <1>4
<1>6. CASE ~dirty
  <2>1. file = temp_file
    BY <1>6 DEF Virtual!Flushed
  <2>. QED BY <1>2, <1>3, <1>4, <1>5, <1>6, <2>1
<1>7. CASE dirty
  <2> DEFINE s == Span(cur)
  <2>1. /\ s \in Int /\ s <= rows_in_mem
        /\ s <= rows_in_array - cur
        /\ s \in {rows_in_mem, first_undef_row - cur, rows_in_array - cur}
    BY <1>1, SpanIs
  <2>2. file = [r \in Virtual!AllRows |-> IF r \in cur..cur + s - 1
                                        THEN mem_buffer[r - cur] ELSE temp_file[r]]
    BY <1>1, <1>7, StoredIs DEF Virtual!Flushed
  <2> HIDE DEF s, file
  <2>3. \A r \in Virtual!AllRows : r \in cur..cur + s - 1 => r - cur \in 0..rows_in_mem - 1
    BY <1>1, <2>1 DEF Virtual!AllRows
  <2>4. file \in [Virtual!AllRows -> Virtual!Contents \cup {Virtual!Unwritten}]
    BY <1>2, <2>2, <2>3
  <2>5. ASSUME NEW r \in 0..first_undef_row - 1 PROVE file[r] = Virtual!RowNow(r)
    <3>1. InWindow(r) <=> r \in cur..cur + s - 1
      BY <1>1, <1>3, <2>1 DEF InWindow
    <3>. QED BY <1>3, <2>2, <3>1
  <2>. QED BY <1>5, <2>4, <2>5 DEF file
<1>. QED BY <1>6, <1>7

\* A step of access_virt_sarray(): it ends the process only for a bad access.
LEMMA AccessStep ==
  ASSUME Virtual!VirtualAssumption, ArrayInv, exited = "no",
         NEW first \in Virtual!AllRows, NEW n \in 1..maxaccess + 1, NEW w \in BOOLEAN,
         Virtual!access_virt_sarray(first, n, w)
  PROVE  /\ ArrayInv'
         /\ \/ n \in 0..rows_in_array /\ Virtual!Plain!Access(first, n, w)
            \/ UNCHANGED Virtual!Plain!vars
<1> DEFINE end == first + n
           st == Virtual!NewStart(first, end)
           file == Virtual!Flushed(temp_file)
           pairs == Virtual!Transfers(st)
           buffer == Virtual!Loaded(file, pairs)
<1>1. /\ rows_in_array \in Nat /\ rows_in_mem \in Nat /\ rows_in_mem > 0
      /\ cur_start_row \in 0..rows_in_array - 1 /\ first_undef_row \in 0..rows_in_array
      /\ RequestTypes /\ first \in 0..rows_in_array - 1 /\ maxaccess \in Nat
      /\ n \in Int /\ n >= 1
  BY DEF ArrayInv, ArrayTypes, RequestTypes, Virtual!AllRows, Virtual!VirtualAssumption
<1>2. CASE Virtual!BadAccess(first, end, w) /\ Virtual!Exit("bad access")
  <2>1. /\ exited' = "bad access"
        /\ UNCHANGED <<pre_zero, rows_in_mem, rowsperchunk, b_s_open, mem_buffer,
                       cur_start_row, first_undef_row, dirty, temp_file, access>>
    BY <1>2 DEF Virtual!Exit, Virtual!request
  <2>2. ArrayInv'
    BY <2>1 DEF ArrayInv, ArrayTypes, RequestTypes, WindowInv, FileInv, InWindow,
                Virtual!ReadsZeroes, Virtual!AllRows, Virtual!Contents, Virtual!Unwritten
  <2>3. UNCHANGED Virtual!Plain!vars
    BY <2>1 DEF Virtual!Plain!vars, Virtual!RowNow, Virtual!AllRows
  <2>. QED BY <2>2, <2>3
<1>3. CASE ~Virtual!BadAccess(first, end, w)
  <2>1. end <= rows_in_array /\ n <= maxaccess /\ n \in 0..rows_in_array
    <3>1. ~(end > rows_in_array) /\ ~(end - first > maxaccess)
      BY <1>3, Zenon DEF Virtual!BadAccess
    <3>. QED BY <1>1, <3>1
  <2>2. CASE Virtual!Outside(first, end)
    <3>1. b_s_open
      <4> SUFFICES ASSUME ~b_s_open PROVE FALSE
        OBVIOUS
      <4>1. cur_start_row = 0 /\ rows_in_mem = rows_in_array
        BY DEF ArrayInv, WindowInv
      <4>. QED BY <1>1, <2>1, <2>2, <4>1 DEF Virtual!Outside
    <3>2. st \in Virtual!AllRows /\ st <= first /\ end <= st + rows_in_mem /\ st \in Nat
      <4>1. n \in 1..maxaccess
        BY <1>1, <2>1
      <4>2. st \in Virtual!AllRows /\ st <= first /\ end <= st + rows_in_mem
        BY <2>1, <3>1, <4>1, NewStartIs
      <4>3. Virtual!AllRows \subseteq Nat
        BY <1>1 DEF Virtual!AllRows
      <4> HIDE DEF st
      <4>. QED BY <4>2, <4>3
    <3>3. /\ file \in [Virtual!AllRows -> Virtual!Contents \cup {Virtual!Unwritten}]
          /\ \A r \in 0..first_undef_row - 1 :
               file[r] = Virtual!RowNow(r) /\ file[r] \in Virtual!Contents
      BY FlushedIs
    <3> DEFINE s == Span(st)
    <3>4. /\ s \in Int /\ s <= rows_in_mem
          /\ s <= first_undef_row - st /\ s <= rows_in_array - st
          /\ s \in {rows_in_mem, first_undef_row - st, rows_in_array - st}
      <4> HIDE DEF st
      <4>. QED BY <1>1, <3>2, SpanIs
    <3>5. pairs = {<<k, st + k>> : k \in 0..s - 1}
      <4> HIDE DEF st
      <4>. QED BY <1>1, <3>2, TransfersAre
    <3>6. buffer = [k \in 0..rows_in_mem - 1 |-> IF k \in 0..s - 1
                                                 THEN file[st + k] ELSE mem_buffer[k]]
      <4> HIDE DEF st, file
      <4>. QED BY <1>1, <3>2, LoadedIs
    <3> HIDE DEF st, file, s
    <3>7. \A k \in 0..s - 1 : st + k \in 0..first_undef_row - 1
      BY <1>1, <3>2, <3>4
    <3>8. \A p \in pairs : file[p[2]] # Virtual!Unwritten
      <4>1. ASSUME NEW k \in 0..s - 1 PROVE file[st + k] # Virtual!Unwritten
        <5>1. file[st + k] \in Virtual!Contents
          BY <3>3, <3>7
        <5>2. Virtual!Unwritten \notin Virtual!Contents
          BY DEF Virtual!Unwritten, Virtual!Contents, Virtual!VirtualAssumption
        <5>. QED BY <5>1, <5>2
      <4> HIDE DEF pairs
      <4>. QED BY <3>5, <4>1
    <3> HIDE DEF pairs
    <3>9. temp_file' = file /\ dirty' = w /\ Virtual!Grant(first, end, w, st, buffer)
      BY <1>3, <2>2, <3>1, <3>8, Zenon DEF Virtual!access_virt_sarray, st, file, pairs
    <3> HIDE DEF buffer
    <3>10. buffer \in [0..rows_in_mem - 1 -> Virtual!Contents]
      <4>1. mem_buffer \in [0..rows_in_mem - 1 -> Virtual!Contents]
        BY DEF ArrayInv, ArrayTypes
      <4>. QED BY <3>3, <3>6, <3>7, <4>1
    <3>11. \A r \in 0..first_undef_row - 1 :
             r \in st..st + rows_in_mem - 1 => buffer[r - st] = file[r]
      <4> SUFFICES ASSUME NEW r \in 0..first_undef_row - 1, r \in st..st + rows_in_mem - 1
                   PROVE  buffer[r - st] = file[r]
        OBVIOUS
      <4>1. r - st \in 0..rows_in_mem - 1 /\ r - st \in 0..s - 1 /\ st + (r - st) = r
        BY <1>1, <3>2, <3>4
      <4>. QED BY <3>6, <4>1
    <3>12. \A r \in 0..first_undef_row - 1 :
             /\ Virtual!RowNow(r) = IF r \in st..st + rows_in_mem - 1
                                  THEN buffer[r - st] ELSE temp_file'[r]
             /\ r \in st..st + rows_in_mem - 1 \/ temp_file'[r] \in Virtual!Contents
             /\ ~dirty' /\ r \in st..st + rows_in_mem - 1 => temp_file'[r] = buffer[r - st]
      BY <3>3, <3>9, <3>11, Zenon
    <3>13. /\ temp_file' \in [Virtual!AllRows -> Virtual!Contents \cup {Virtual!Unwritten}]
           /\ dirty' \in BOOLEAN /\ (w => dirty')
      BY <3>3, <3>9, Zenon
    <3>14. /\ Virtual!Grant(first, first + n, w, st, buffer)
           /\ ~Virtual!BadAccess(first, first + n, w) /\ first + n <= st + rows_in_mem
           /\ ~b_s_open => st = 0
      BY <1>3, <3>1, <3>2, <3>9
    <3>15. ArrayInv' /\ Virtual!Plain!Access(first, n, w)
      BY <3>2, <3>10, <3>12, <3>13, <3>14, Granted
    <3>. QED BY <2>1, <3>15
  <2>3. CASE ~Virtual!Outside(first, end)
    <3>1. /\ dirty' = (dirty \/ w) /\ temp_file' = temp_file
          /\ Virtual!Grant(first, first + n, w, cur_start_row, mem_buffer)
      BY <1>3, <2>3, Zenon DEF Virtual!access_virt_sarray
    <3>2. cur_start_row <= first /\ first + n <= cur_start_row + rows_in_mem
      BY <1>1, <2>3 DEF Virtual!Outside
    <3>3. /\ cur_start_row \in Virtual!AllRows
          /\ mem_buffer \in [0..rows_in_mem - 1 -> Virtual!Contents]
          /\ temp_file' \in [Virtual!AllRows -> Virtual!Contents \cup {Virtual!Unwritten}]
          /\ ~b_s_open => cur_start_row = 0
      BY <3>1, Zenon DEF ArrayInv, ArrayTypes, WindowInv
    <3>4. dirty' \in BOOLEAN /\ (w => dirty') /\ (~dirty' => ~dirty)
      BY <3>1, Zenon
    <3>5. \A r \in 0..first_undef_row - 1 :
            /\ r \in Int /\ r < first_undef_row
            /\ Virtual!RowNow(r) = IF r \in cur_start_row..cur_start_row + rows_in_mem - 1
                                 THEN mem_buffer[r - cur_start_row] ELSE temp_file[r]
      BY <1>1 DEF Virtual!RowNow
    <3>6. \A r \in 0..first_undef_row - 1 :
            /\ Virtual!RowNow(r) = IF r \in cur_start_row..cur_start_row + rows_in_mem - 1
                                 THEN mem_buffer[r - cur_start_row] ELSE temp_file'[r]
            /\ \/ r \in cur_start_row..cur_start_row + rows_in_mem - 1
               \/ temp_file'[r] \in Virtual!Contents
            /\ ~dirty' /\ r \in cur_start_row..cur_start_row + rows_in_mem - 1
                 => temp_file'[r] = mem_buffer[r - cur_start_row]
      BY <3>1, <3>4, <3>5, Zenon DEF ArrayInv, FileInv, InWindow
    <3>7. ~Virtual!BadAccess(first, first + n, w)
      BY <1>3
    <3>8. ArrayInv' /\ Virtual!Plain!Access(first, n, w)
      BY <3>1, <3>2, <3>3, <3>4, <3>6, <3>7, Granted
    <3>. QED BY <2>1, <3>8
  <2>. QED BY <2>2, <2>3
<1>4. \/ Virtual!BadAccess(first, end, w) /\ Virtual!Exit("bad access")
      \/ ~Virtual!BadAccess(first, end, w)
  BY Zenon DEF Virtual!access_virt_sarray
<1> HIDE DEF end
<1>. QED BY <1>2, <1>3, <1>4, Zenon

\* The caller writes only into what it was granted, and that window is dirty.
LEMMA WriteStep ==
  ASSUME Virtual!VirtualAssumption, ArrayInv, exited = "no",
         NEW r \in Virtual!AllRows, NEW v \in RowValues, Virtual!WriteRow(r, v)
  PROVE  /\ ArrayInv'
         /\ r \in 0..rows_in_array - 1 /\ v \in Virtual!Contents /\ Virtual!Plain!Write(r, v)
<1> DEFINE cur == cur_start_row
<1>1. /\ rows_in_array \in Nat /\ rows_in_mem \in Nat /\ rows_in_mem > 0
      /\ cur \in 0..rows_in_array - 1 /\ first_undef_row \in 0..rows_in_array
      /\ r \in 0..rows_in_array - 1
      /\ mem_buffer \in [0..rows_in_mem - 1 -> Virtual!Contents]
      /\ access.first \in Nat /\ access.rows \in Nat
  BY DEF ArrayInv, ArrayTypes, RequestTypes, Virtual!AllRows
<1>2. /\ access.writable /\ r \in access.first..access.first + access.rows - 1
      /\ mem_buffer' = [mem_buffer EXCEPT ![r - cur] = v]
      /\ UNCHANGED <<pre_zero, rows_in_mem, rowsperchunk, b_s_open, cur_start_row,
                     first_undef_row, dirty, temp_file, access, exited>>
  BY DEF Virtual!WriteRow, Virtual!request
<1>3. /\ access.first >= cur /\ access.first + access.rows <= cur + rows_in_mem
      /\ access.first + access.rows <= first_undef_row
  BY <1>2, Zenon DEF ArrayInv, WindowInv
<1>4. dirty
  BY <1>2, Zenon DEF ArrayInv, WindowInv
<1>5. /\ r \in cur..cur + rows_in_mem - 1 /\ r - cur \in 0..rows_in_mem - 1
      /\ r < first_undef_row
  BY <1>1, <1>2, <1>3
<1>6. v \in Virtual!Contents
  BY DEF Virtual!Contents
<1>7. mem_buffer' \in [0..rows_in_mem - 1 -> Virtual!Contents]
  BY <1>1, <1>2, <1>5, <1>6
<1>8. ArrayTypes'
  <2>1. mem_buffer' \in [0..rows_in_mem' - 1 -> (Virtual!Contents)']
    BY <1>2, <1>7 DEF Virtual!Contents
  <2>. QED BY <1>2, <2>1 DEF ArrayInv, ArrayTypes, RequestTypes, Virtual!AllRows,
                             Virtual!Contents, Virtual!Unwritten
<1>9. WindowInv'
  BY <1>2 DEF ArrayInv, WindowInv
<1>10. FileInv'
  <2>1. \A q : (InWindow(q))' <=> InWindow(q)
    BY <1>2 DEF InWindow
  <2>2. \A q \in 0..first_undef_row - 1 : InWindow(q) \/ temp_file[q] \in Virtual!Contents
    BY Zenon DEF ArrayInv, FileInv
  <2>. QED BY <1>2, <1>4, <2>1, <2>2, Zenon DEF FileInv, Virtual!Contents
<1>11. (Virtual!ReadsZeroes)'
  <2> SUFFICES ASSUME NEW q \in access.first..access.first + access.rows - 1,
                      q >= first_undef_row
               PROVE  FALSE
    BY <1>2 DEF Virtual!ReadsZeroes
  <2>. QED BY <1>1, <1>3
<1>12. ASSUME NEW q \in Virtual!AllRows
       PROVE  (Virtual!RowNow(q))' = IF q = r THEN v ELSE Virtual!RowNow(q)
  <2>1. q \in Int
    BY <1>1 DEF Virtual!AllRows
  <2>2. (Virtual!RowNow(q))' = IF q >= first_undef_row THEN 0
                             ELSE IF q \in cur..cur + rows_in_mem - 1
                             THEN mem_buffer'[q - cur] ELSE temp_file[q]
    BY <1>2 DEF Virtual!RowNow
  <2>3. CASE q = r
    <3>1. mem_buffer'[q - cur] = v
      BY <1>1, <1>2, <1>5, <2>3
    <3>2. ~(q >= first_undef_row)
      BY <1>1, <1>5, <2>1, <2>3
    <3>. QED BY <1>5, <2>2, <2>3, <3>1, <3>2, Zenon
  <2>4. CASE q # r
    <3>1. q \in cur..cur + rows_in_mem - 1 => mem_buffer'[q - cur] = mem_buffer[q - cur]
      <4> SUFFICES ASSUME q \in cur..cur + rows_in_mem - 1
                   PROVE  mem_buffer'[q - cur] = mem_buffer[q - cur]
        OBVIOUS
      <4>1. q - cur \in 0..rows_in_mem - 1 /\ q - cur # r - cur
        BY <1>1, <2>1, <2>4
      <4>. QED BY <1>1, <1>2, <4>1
    <3>. QED BY <2>2, <2>4, <3>1, Zenon DEF Virtual!RowNow
  <2>. QED BY <2>3, <2>4
<1>13. Virtual!Plain!Write(r, v)
  <2> DEFINE rw == [q \in Virtual!AllRows |-> Virtual!RowNow(q)]
             rwp == [q \in Virtual!AllRows |-> (Virtual!RowNow(q))']
  <2>1. rw' = rwp
    BY DEF Virtual!AllRows
  <2>2. rwp = [rw EXCEPT ![r] = v]
    BY <1>12
  <2> HIDE DEF rw, rwp
  <2>. QED BY <1>2, <2>1, <2>2, Zenon DEF Virtual!Plain!Write, rw
<1>14. exited' \in {"no", "bad access"}
  BY <1>2
<1>. QED BY <1>1, <1>6, <1>8, <1>9, <1>10, <1>11, <1>13, <1>14 DEF ArrayInv

\* Each step keeps it, and is one of a plain array.
LEMMA ArrayStep ==
  Virtual!VirtualAssumption /\ ArrayInv /\ [Virtual!Next]_(Virtual!vars)
  => ArrayInv' /\ [Virtual!Plain!Next]_(Virtual!Plain!vars)
<1> SUFFICES ASSUME Virtual!VirtualAssumption, ArrayInv, [Virtual!Next]_(Virtual!vars)
             PROVE  ArrayInv' /\ [Virtual!Plain!Next]_(Virtual!Plain!vars)
  OBVIOUS
<1>1. CASE Virtual!Next
  <2>1. exited = "no"
    BY <1>1 DEF Virtual!Next
  <2>2. ASSUME NEW first \in Virtual!AllRows, NEW n \in 1..maxaccess + 1,
               NEW w \in BOOLEAN, Virtual!access_virt_sarray(first, n, w)
        PROVE  ArrayInv' /\ [Virtual!Plain!Next]_(Virtual!Plain!vars)
    <3>1. /\ ArrayInv'
          /\ \/ n \in 0..rows_in_array /\ Virtual!Plain!Access(first, n, w)
             \/ UNCHANGED Virtual!Plain!vars
      BY <2>1, <2>2, AccessStep
    <3>2. first \in 0..rows_in_array
      <4>1. rows_in_array \in Nat /\ first \in 0..rows_in_array - 1
        BY Zenon DEF ArrayInv, ArrayTypes, RequestTypes, Virtual!AllRows
      <4>. QED BY <4>1
    <3>. QED BY <3>1, <3>2, Zenon DEF Virtual!Plain!Next
  <2>3. ASSUME NEW r \in Virtual!AllRows, NEW v \in RowValues, Virtual!WriteRow(r, v)
        PROVE  ArrayInv' /\ [Virtual!Plain!Next]_(Virtual!Plain!vars)
    <3>1. /\ ArrayInv' /\ r \in 0..rows_in_array - 1 /\ v \in Virtual!Contents
          /\ Virtual!Plain!Write(r, v)
      BY <2>1, <2>3, WriteStep
    <3>. QED BY <3>1, Zenon DEF Virtual!Plain!Next
  <2>. QED BY <1>1, <2>2, <2>3, Zenon DEF Virtual!Next
<1>2. CASE UNCHANGED Virtual!vars
  <2>1. UNCHANGED <<pre_zero, rows_in_mem, rowsperchunk, b_s_open, mem_buffer,
                    cur_start_row, first_undef_row, dirty, temp_file, access, exited>>
    BY <1>2 DEF Virtual!vars, Virtual!request
  <2>2. ArrayInv'
    BY <2>1 DEF ArrayInv, ArrayTypes, RequestTypes, WindowInv, FileInv, InWindow,
                Virtual!ReadsZeroes, Virtual!AllRows, Virtual!Contents, Virtual!Unwritten
  <2>3. UNCHANGED Virtual!Plain!vars
    BY <2>1 DEF Virtual!Plain!vars, Virtual!RowNow, Virtual!AllRows
  <2>. QED BY <2>2, <2>3
<1>. QED BY <1>1, <1>2

\* Whatever strip of it is in memory, and however often it was swapped, a virtual
\* array is a plain array to its callers (access_virt_sarray, do_sarray_io).
THEOREM VirtualIsPlain ==
  Virtual!VirtualAssumption /\ Virtual!Spec => ImplementsArray
<1>1. Virtual!VirtualAssumption /\ Virtual!Init => ArrayInv /\ Virtual!Plain!Init
  BY ArrayInit
<1>2. Virtual!VirtualAssumption /\ ArrayInv /\ [Virtual!Next]_(Virtual!vars)
        => ArrayInv' /\ [Virtual!Plain!Next]_(Virtual!Plain!vars)
  BY ArrayStep
<1>3. Virtual!VirtualAssumption => Virtual!VirtualAssumption'
  BY DEF Virtual!VirtualAssumption
<1>. QED BY <1>1, <1>2, <1>3, PTL DEF Virtual!Spec, Virtual!Plain!Spec, ImplementsArray,
                               Virtual!ImplementsArray


(***************************************************************************)
(* The colour search.                                                      *)
(***************************************************************************)

Small(S, n) == {T \in SUBSET S : Cardinality(T) <= n}

\* A set without one of its elements.
LEMMA Smaller ==
  ASSUME NEW S, IsFiniteSet(S), NEW T \in SUBSET S, NEW x \in T
  PROVE  /\ T \ {x} \in SUBSET S /\ Cardinality(T \ {x}) = Cardinality(T) - 1
         /\ Cardinality(T) \in Nat /\ Cardinality(T) # 0 /\ IsFiniteSet(T)
<1>1. IsFiniteSet(T) /\ Cardinality(T) \in Nat
  BY FS_Subset, FS_CardinalityType
<1>2. Cardinality(T) # 0
  BY <1>1, FS_EmptySet
<1>3. Cardinality(T \ {x}) = Cardinality(T) - 1
  BY <1>1, FS_RemoveElement
<1>. QED BY <1>1, <1>2, <1>3

\* Without an element there is only one of them.
LEMMA Smallest ==
  ASSUME NEW S, IsFiniteSet(S), NEW T \in Small(S, 0)
  PROVE  T = {}
<1> SUFFICES ASSUME NEW x \in T PROVE FALSE
  OBVIOUS
<1>1. T \in SUBSET S /\ Cardinality(T) <= 0
  BY DEF Small
<1>2. Cardinality(T) \in Nat /\ Cardinality(T) # 0
  BY <1>1, Smaller
<1>. QED BY <1>1, <1>2

\* Induction over the subsets of a finite set.
LEMMA SubsetInduction ==
  ASSUME NEW S, IsFiniteSet(S), NEW P, {} \in P,
         \A T \in SUBSET S : T # {} /\ (\A x \in T : T \ {x} \in P) => T \in P
  PROVE  \A T \in SUBSET S : T \in P
<1> DEFINE N == {n \in Nat : \A T \in Small(S, n) : T \in P}
<1>1. 0 \in N
  <2>1. \A T \in Small(S, 0) : T = {}
    BY Smallest
  <2>. QED BY <2>1
<1>2. ASSUME NEW n \in Nat, n \in N PROVE n + 1 \in N
  <2>1. ASSUME NEW T \in Small(S, n + 1) PROVE T \in P
    <3>1. CASE T = {}
      BY <3>1
    <3>2. CASE T # {}
      <4>1. T \in SUBSET S /\ \A x \in T : T \ {x} \in Small(S, n)
        BY Smaller DEF Small
      <4>. QED BY <1>2, <3>2, <4>1
    <3>. QED BY <3>1, <3>2
  <2>. QED BY <2>1
<1>3. Cardinality(S) \in Nat
  BY FS_CardinalityType
<1>4. Cardinality(S) \in N
  <2> HIDE DEF N
  <2>. QED BY <1>1, <1>2, <1>3, SetInduction
<1>5. \A T \in SUBSET S : T \in Small(S, Cardinality(S))
  BY FS_Subset DEF Small
<1>. QED BY <1>4, <1>5

Folds(f, S, base, Pick, G) ==
  f = [T \in SUBSET S |-> IF T = {} THEN base ELSE G[Pick[T], f[T \ {Pick[T]}]]]

\* A fold over the subsets of a finite set exists,
LEMMA FoldExists ==
  ASSUME NEW S, IsFiniteSet(S), NEW Space, NEW base \in Space, NEW G \in [S \X Space -> Space],
         NEW Pick, \A T \in SUBSET S : T # {} => Pick[T] \in T
  PROVE  \E f \in [SUBSET S -> Space] : Folds(f, S, base, Pick, G)
<1> DEFINE Is(f, n) ==
             /\ f \in [Small(S, n) -> Space]
             /\ \A T \in Small(S, n) :
                  f[T] = IF T = {} THEN base ELSE G[Pick[T], f[T \ {Pick[T]}]]
           N == {n \in Nat : \E f : Is(f, n)}
<1>1. \A n \in Nat : {} \in Small(S, n)
  BY FS_EmptySet DEF Small
<1>2. ASSUME NEW n \in Nat, NEW T \in Small(S, n + 1), T # {}
      PROVE  Pick[T] \in S /\ T \ {Pick[T]} \in Small(S, n)
  BY <1>2, Smaller DEF Small
<1>3. \A T \in Small(S, 0) : T = {}
  BY Smallest
<1>4. 0 \in N
  <2> DEFINE f == [T \in Small(S, 0) |-> base]
  <2>1. Is(f, 0)
    BY <1>3
  <2>. QED BY <2>1
<1>5. ASSUME NEW n \in Nat, n \in N PROVE n + 1 \in N
  <2>1. PICK f : Is(f, n)
    BY <1>5
  <2> DEFINE h == [T \in Small(S, n + 1) |->
                     IF T = {} THEN base ELSE G[Pick[T], f[T \ {Pick[T]}]]]
  <2>2. h \in [Small(S, n + 1) -> Space]
    BY <1>2, <2>1
  <2>3. ASSUME NEW T \in Small(S, n) PROVE T \in Small(S, n + 1) /\ h[T] = f[T]
    <3>1. Cardinality(T) \in Nat
      BY FS_Subset, FS_CardinalityType DEF Small
    <3>2. T \in Small(S, n + 1)
      BY <3>1 DEF Small
    <3>. QED BY <2>1, <3>2
  <2>4. ASSUME NEW T \in Small(S, n + 1), T # {} PROVE h[T] = G[Pick[T], h[T \ {Pick[T]}]]
    <3>1. h[T \ {Pick[T]}] = f[T \ {Pick[T]}]
      BY <1>2, <2>3, <2>4
    <3>. QED BY <2>4, <3>1
  <2>5. h[{}] = base
    <3>1. {} \in Small(S, n + 1)
      BY <1>1
    <3>. QED BY <3>1
  <2> HIDE DEF h
  <2>6. Is(h, n + 1)
    BY <2>2, <2>4, <2>5
  <2>7. n + 1 \in Nat
    OBVIOUS
  <2> HIDE DEF Is
  <2>. QED BY <2>6, <2>7, Zenon
<1>6. Cardinality(S) \in N
  <2>1. Cardinality(S) \in Nat
    BY FS_CardinalityType
  <2> HIDE DEF N
  <2>. QED BY <1>4, <1>5, <2>1, SetInduction
<1>7. Small(S, Cardinality(S)) = SUBSET S
  BY FS_Subset DEF Small
<1>8. PICK f : Is(f, Cardinality(S))
  BY <1>6
<1>9. f = [T \in SUBSET S |-> f[T]] /\ f \in [SUBSET S -> Space]
  BY <1>7, <1>8
<1>10. f = [T \in SUBSET S |-> IF T = {} THEN base ELSE G[Pick[T], f[T \ {Pick[T]}]]]
  BY <1>7, <1>8, <1>9
<1>. QED BY <1>9, <1>10 DEF Folds


SumOf(g, S) == Search!SumFunctionOnSet(g, S)
Any(T) == CHOOSE x \in T : TRUE
IsSum(f, g, S) ==
  f = [T \in SUBSET S |-> IF T = {} THEN 0 ELSE g[Any(T)] + f[T \ {Any(T)}]]

\* What is taken out is in the set.
LEMMA AnyIn == \A T : T # {} => Any(T) \in T
BY DEF Any

\* The sums over the parts of a finite set exist,
LEMMA SumExists ==
  ASSUME NEW S, IsFiniteSet(S), NEW g, \A x \in S : g[x] \in Int
  PROVE  \E f \in [SUBSET S -> Int] : IsSum(f, g, S)
<1> DEFINE G == [a \in S \X Int |-> g[a[1]] + a[2]]
           Pick == [T \in SUBSET S |-> Any(T)]
<1>1. \A T \in SUBSET S : T # {} => Pick[T] \in T
  BY AnyIn
<1>2. G \in [S \X Int -> Int] /\ 0 \in Int
  OBVIOUS
<1>3. PICK f \in [SUBSET S -> Int] : Folds(f, S, 0, Pick, G)
  <2> HIDE DEF G, Pick
  <2>. QED BY <1>1, <1>2, FoldExists
<1>4. ASSUME NEW T \in SUBSET S, T # {}
      PROVE  G[Pick[T], f[T \ {Pick[T]}]] = g[Any(T)] + f[T \ {Any(T)}]
  <2>1. Pick[T] = Any(T) /\ Any(T) \in S /\ f[T \ {Any(T)}] \in Int
    BY <1>4, AnyIn
  <2>. QED BY <2>1
<1>5. \A T \in SUBSET S :
        f[T] = IF T = {} THEN 0 ELSE G[Pick[T], f[T \ {Pick[T]}]]
  <2> HIDE DEF G, Pick
  <2>. QED BY <1>3 DEF Folds
<1>6. \A T \in SUBSET S : f[T] = IF T = {} THEN 0 ELSE g[Any(T)] + f[T \ {Any(T)}]
  <2> HIDE DEF G, Pick
  <2>. QED BY <1>4, <1>5
<1>7. f = [T \in SUBSET S |-> f[T]]
  BY <1>3
<1>. QED BY <1>6, <1>7 DEF IsSum

\* and those over the parts of a part are the same;
LEMMA SumsAgree ==
  ASSUME NEW S, IsFiniteSet(S), NEW T \in SUBSET S, NEW g, NEW f, NEW h,
         IsSum(f, g, S), IsSum(h, g, T)
  PROVE  \A Part \in SUBSET T : f[Part] = h[Part]
<1> DEFINE P == {Part \in SUBSET T : f[Part] = h[Part]}
<1>1. ASSUME NEW Part \in SUBSET T
      PROVE  /\ f[Part] = IF Part = {} THEN 0 ELSE g[Any(Part)] + f[Part \ {Any(Part)}]
             /\ h[Part] = IF Part = {} THEN 0 ELSE g[Any(Part)] + h[Part \ {Any(Part)}]
  BY DEF IsSum
<1>2. {} \in P
  BY <1>1
<1>3. ASSUME NEW Part \in SUBSET T, Part # {}, \A x \in Part : Part \ {x} \in P PROVE Part \in P
  <2>1. f[Part \ {Any(Part)}] = h[Part \ {Any(Part)}]
    BY <1>3, AnyIn
  <2>. QED BY <1>1, <1>3, <2>1
<1>4. IsFiniteSet(T)
  BY FS_Subset
<1> HIDE DEF P
<1>5. \A Part \in SUBSET T : Part \in P
  BY <1>2, <1>3, <1>4, SubsetInduction
<1>. QED BY <1>5 DEF P

\* SumFunctionOnSet gives them.
LEMMA SumIs ==
  ASSUME NEW S, IsFiniteSet(S), NEW g, \A x \in S : g[x] \in Int,
         NEW f, IsSum(f, g, S)
  PROVE  \A T \in SUBSET S : SumOf(g, T) = f[T]
<1> SUFFICES ASSUME NEW T \in SUBSET S PROVE SumOf(g, T) = f[T]
  OBVIOUS
<1> DEFINE Step(h) == [Part \in SUBSET T |-> IF Part = {} THEN 0 ELSE g[Any(Part)] + h[Part \ {Any(Part)}]]
           sum == CHOOSE h : h = Step(h)
<1>1. \E h : h = Step(h)
  <2>1. IsFiniteSet(T)
    BY FS_Subset
  <2>2. \E h : IsSum(h, g, T)
    BY <2>1, SumExists
  <2>. QED BY <2>2 DEF IsSum
<1>2. sum = Step(sum)
  <2> HIDE DEF Step
  <2>. QED BY <1>1, Zenon
<1>3. SumOf(g, T) = sum[T]
  BY Zenon DEF SumOf, Any, Search!SumFunctionOnSet, Search!FoldFunctionOnSet,
     Search!MapThenFoldSet
<1>4. IsSum(sum, g, T)
  <2> HIDE DEF sum
  <2>. QED BY <1>2 DEF IsSum
<1>5. sum[T] = f[T]
  <2> HIDE DEF sum
  <2>. QED BY <1>4, SumsAgree
<1>. QED BY <1>3, <1>5, Zenon

\* A sum is a number, that over no elements is zero, and any element can be
\* taken out of it.
LEMMA SumAdds ==
  ASSUME NEW S, IsFiniteSet(S), NEW g, \A x \in S : g[x] \in Int
  PROVE  /\ SumOf(g, S) \in Int /\ SumOf(g, {}) = 0
         /\ \A x \in S : SumOf(g, S) = g[x] + SumOf(g, S \ {x})
<1>1. PICK f \in [SUBSET S -> Int] : IsSum(f, g, S)
  BY SumExists
<1>2. \A T \in SUBSET S : SumOf(g, T) = f[T]
  BY <1>1, SumIs
<1>3. \A T \in SUBSET S : f[T] = IF T = {} THEN 0 ELSE g[Any(T)] + f[T \ {Any(T)}]
  BY <1>1 DEF IsSum
<1> DEFINE P == {T \in SUBSET S : \A x \in T : f[T] = g[x] + f[T \ {x}]}
<1>4. ASSUME NEW T \in SUBSET S, T # {}, \A x \in T : T \ {x} \in P, NEW x \in T
      PROVE  f[T] = g[x] + f[T \ {x}]
  <2> DEFINE c == Any(T)
  <2>1. c \in T /\ f[T] = g[c] + f[T \ {c}]
    BY <1>3, <1>4, AnyIn
  <2> HIDE DEF c
  <2>2. CASE c = x
    BY <2>1, <2>2
  <2>3. CASE c # x
    <3>1. f[T \ {c}] = g[x] + f[(T \ {c}) \ {x}]
      BY <1>4, <2>1, <2>3
    <3>2. f[T \ {x}] = g[c] + f[(T \ {x}) \ {c}]
      BY <1>4, <2>1, <2>3
    <3>3. (T \ {c}) \ {x} = (T \ {x}) \ {c}
      OBVIOUS
    <3>4. g[c] \in Int /\ g[x] \in Int /\ f[(T \ {x}) \ {c}] \in Int
      BY <1>1, <2>1
    <3>5. \A i, j, k \in Int : i + (j + k) = j + (i + k)
      OBVIOUS
    <3>6. g[c] + (g[x] + f[(T \ {x}) \ {c}]) = g[x] + (g[c] + f[(T \ {x}) \ {c}])
      BY <3>4, <3>5, Zenon
    <3>. QED BY <2>1, <3>1, <3>2, <3>3, <3>6, Zenon
  <2>. QED BY <2>2, <2>3
<1>5. {} \in P
  OBVIOUS
<1>6. \A T \in SUBSET S : T # {} /\ (\A x \in T : T \ {x} \in P) => T \in P
  BY <1>4
<1> HIDE DEF P
<1>7. S \in P
  BY <1>5, <1>6, SubsetInduction
<1>8. \A x \in S : f[S] = g[x] + f[S \ {x}]
  BY <1>7 DEF P
<1>9. f[S] \in Int /\ f[{}] = 0
  BY <1>1, <1>3
<1>. QED BY <1>2, <1>8, <1>9

\* The sum over a subset, to which one of its elements is added.
LEMMA SumOfPart ==
  ASSUME NEW S, IsFiniteSet(S), NEW g, \A x \in S : g[x] \in Int, NEW T \in SUBSET S
  PROVE  /\ SumOf(g, T) \in Int
         /\ \A x \in T : SumOf(g, T) = g[x] + SumOf(g, T \ {x})
<1>1. IsFiniteSet(T) /\ \A x \in T : g[x] \in Int
  BY FS_Subset
<1>. QED BY <1>1, SumAdds

\* Of numbers that are not negative, a part does not sum up to more.
LEMMA SumGrows ==
  ASSUME NEW S, IsFiniteSet(S), NEW g, \A x \in S : g[x] \in Nat, NEW T \in SUBSET S
  PROVE  SumOf(g, T) <= SumOf(g, S) /\ SumOf(g, S) \in Nat
<1> DEFINE P == {Part \in SUBSET S : \A W \in SUBSET Part : SumOf(g, W) <= SumOf(g, Part)}
<1>1. \A Part \in SUBSET S : /\ SumOf(g, Part) \in Int
                          /\ \A x \in Part : SumOf(g, Part) = g[x] + SumOf(g, Part \ {x})
  BY SumOfPart
<1>2. {} \in P
  BY <1>1
<1>3. ASSUME NEW Part \in SUBSET S, Part # {}, \A x \in Part : Part \ {x} \in P PROVE Part \in P
  <2>1. ASSUME NEW W \in SUBSET Part PROVE SumOf(g, W) <= SumOf(g, Part)
    <3>1. CASE W = Part
      BY <1>1, <3>1
    <3>2. CASE W # Part
      <4>1. PICK x \in Part : x \notin W
        BY <3>2
      <4>2. SumOf(g, W) <= SumOf(g, Part \ {x})
        BY <1>3, <4>1
      <4>3. SumOf(g, Part) = g[x] + SumOf(g, Part \ {x})
        BY <1>1
      <4>4. SumOf(g, Part \ {x}) \in Int /\ SumOf(g, W) \in Int /\ g[x] \in Nat
        BY <1>1
      <4>. QED BY <4>2, <4>3, <4>4
    <3>. QED BY <3>1, <3>2
  <2>. QED BY <2>1
<1>4. S \in P
  <2> HIDE DEF P
  <2>. QED BY <1>2, <1>3, SubsetInduction
<1>5. SumOf(g, {}) <= SumOf(g, S) /\ SumOf(g, T) <= SumOf(g, S) /\ SumOf(g, S) \in Int
  BY <1>1, <1>4
<1>6. SumOf(g, {}) = 0
  BY SumAdds
<1>. QED BY <1>5, <1>6

\* The sum is that of a part and that of the rest.
LEMMA SumSplits ==
  ASSUME NEW S, IsFiniteSet(S), NEW g, \A x \in S : g[x] \in Int, NEW T \in SUBSET S
  PROVE  SumOf(g, S) = SumOf(g, T) + SumOf(g, S \ T)
<1> DEFINE P == {Part \in SUBSET S : SumOf(g, Part) = SumOf(g, Part \cap T) + SumOf(g, Part \ T)}
<1>1. \A Part \in SUBSET S : /\ SumOf(g, Part) \in Int
                          /\ \A x \in Part : SumOf(g, Part) = g[x] + SumOf(g, Part \ {x})
  BY SumOfPart
<1>2. SumOf(g, {}) = 0
  BY SumAdds
<1>3. {} \in P
  <2>1. {} \cap T = {} /\ {} \ T = {}
    OBVIOUS
  <2>. QED BY <1>2, <2>1
<1>4. ASSUME NEW Part \in SUBSET S, Part # {}, \A x \in Part : Part \ {x} \in P PROVE Part \in P
  <2>1. PICK x \in Part : TRUE
    BY <1>4
  <2> DEFINE W == Part \ {x}
  <2>2. SumOf(g, W) = SumOf(g, W \cap T) + SumOf(g, W \ T)
    BY <1>4
  <2>3. SumOf(g, Part) = g[x] + SumOf(g, W) /\ g[x] \in Int
    BY <1>1
  <2>4. SumOf(g, W \cap T) \in Int /\ SumOf(g, W \ T) \in Int
    BY <1>1
  <2>5. CASE x \in T
    <3>1. W \cap T = (Part \cap T) \ {x} /\ W \ T = Part \ T /\ x \in Part \cap T
      BY <2>5
    <3>2. SumOf(g, Part \cap T) = g[x] + SumOf(g, (Part \cap T) \ {x})
      BY <1>1, <3>1
    <3>3. SumOf(g, Part \cap T) = g[x] + SumOf(g, W \cap T) /\ SumOf(g, W \ T) = SumOf(g, Part \ T)
      BY <3>1, <3>2, Zenon
    <3> HIDE DEF W
    <3>. QED BY <2>2, <2>3, <2>4, <3>3
  <2>6. CASE x \notin T
    <3>1. W \ T = (Part \ T) \ {x} /\ W \cap T = Part \cap T /\ x \in Part \ T
      BY <2>6
    <3>2. SumOf(g, Part \ T) = g[x] + SumOf(g, (Part \ T) \ {x})
      BY <1>1, <3>1
    <3>3. SumOf(g, Part \ T) = g[x] + SumOf(g, W \ T) /\ SumOf(g, W \cap T) = SumOf(g, Part \cap T)
      BY <3>1, <3>2, Zenon
    <3> HIDE DEF W
    <3>. QED BY <2>2, <2>3, <2>4, <3>3
  <2>. QED BY <2>5, <2>6
<1>5. S \in P
  <2> HIDE DEF P
  <2>. QED BY <1>3, <1>4, SubsetInduction
<1>6. S \cap T = T
  OBVIOUS
<1>. QED BY <1>5, <1>6

\* It depends on the values only.
LEMMA SumSame ==
  ASSUME NEW S, IsFiniteSet(S), NEW g, NEW h, \A x \in S : g[x] \in Int /\ h[x] = g[x]
  PROVE  SumOf(g, S) = SumOf(h, S)
<1> DEFINE P == {Part \in SUBSET S : SumOf(g, Part) = SumOf(h, Part)}
<1>1. ASSUME NEW Part \in SUBSET S
      PROVE  /\ SumOf(g, {}) = 0 /\ SumOf(h, {}) = 0
             /\ \A x \in Part : /\ SumOf(g, Part) = g[x] + SumOf(g, Part \ {x})
                             /\ SumOf(h, Part) = h[x] + SumOf(h, Part \ {x})
  BY SumAdds, SumOfPart
<1>2. {} \in P
  BY <1>1
<1>3. ASSUME NEW Part \in SUBSET S, Part # {}, \A x \in Part : Part \ {x} \in P PROVE Part \in P
  BY <1>1, <1>3
<1>4. S \in P
  <2>1. \A Part \in SUBSET S : Part # {} /\ (\A x \in Part : Part \ {x} \in P) => Part \in P
    BY <1>3
  <2> HIDE DEF P
  <2>2. \A Part \in SUBSET S : Part \in P
    BY <1>2, <2>1, SubsetInduction
  <2>. QED BY <2>2
<1>. QED BY <1>4

\* Equal values are counted.
LEMMA SumOfEqual ==
  ASSUME NEW S, IsFiniteSet(S), NEW c \in Int, NEW g, \A x \in S : g[x] = c
  PROVE  SumOf(g, S) = c * Cardinality(S)
<1> DEFINE P == {Part \in SUBSET S : SumOf(g, Part) = c * Cardinality(Part)}
<1>1. ASSUME NEW Part \in SUBSET S
      PROVE  /\ SumOf(g, {}) = 0
             /\ \A x \in Part : SumOf(g, Part) = c + SumOf(g, Part \ {x})
  BY SumAdds, SumOfPart
<1>2. {} \in P
  <2>1. Cardinality({}) = 0 /\ SumOf(g, {}) = 0
    BY <1>1, FS_EmptySet
  <2>. QED BY <2>1
<1>3. ASSUME NEW Part \in SUBSET S, Part # {}, \A x \in Part : Part \ {x} \in P PROVE Part \in P
  <2>1. PICK x \in Part : TRUE
    BY <1>3
  <2>2. SumOf(g, Part \ {x}) = c * Cardinality(Part \ {x})
    BY <1>3
  <2>3. Cardinality(Part \ {x}) = Cardinality(Part) - 1 /\ Cardinality(Part) \in Nat
    BY Smaller
  <2>4. \A n \in Nat : c + c * (n - 1) = c * n
    OBVIOUS
  <2>. QED BY <1>1, <2>2, <2>3, <2>4
<1>4. S \in P
  <2>1. \A Part \in SUBSET S : Part # {} /\ (\A x \in Part : Part \ {x} \in P) => Part \in P
    BY <1>3
  <2> HIDE DEF P
  <2>2. \A Part \in SUBSET S : Part \in P
    BY <1>2, <2>1, SubsetInduction
  <2>. QED BY <2>2
<1>. QED BY <1>4

Diff(a, b) == Search!Diff(a, b)

\* The difference of sums is at most the sum of differences.
LEMMA SumOfDiffs ==
  ASSUME NEW S, IsFiniteSet(S), NEW c \in Int, NEW d \in Int, NEW g, NEW h, NEW e,
         \A x \in S : /\ g[x] \in Int /\ h[x] \in Int
                      /\ e[x] = Diff(c, g[x]) + Diff(d, h[x])
  PROVE  LET n == Cardinality(S)
         IN  Diff(c * n, SumOf(g, S)) + Diff(d * n, SumOf(h, S)) <= SumOf(e, S)
<1> DEFINE P == {Part \in SUBSET S :
                   Diff(c * Cardinality(Part), SumOf(g, Part)) + Diff(d * Cardinality(Part), SumOf(h, Part))
                     <= SumOf(e, Part)}
<1>1. \A x \in S : e[x] \in Int
  BY DEF Diff, Search!Diff
<1>2. ASSUME NEW Part \in SUBSET S
      PROVE  /\ SumOf(g, Part) \in Int /\ SumOf(h, Part) \in Int /\ SumOf(e, Part) \in Int
             /\ \A x \in Part : /\ SumOf(g, Part) = g[x] + SumOf(g, Part \ {x})
                             /\ SumOf(h, Part) = h[x] + SumOf(h, Part \ {x})
                             /\ SumOf(e, Part) = e[x] + SumOf(e, Part \ {x})
  <2>1. SumOf(g, Part) \in Int /\ \A x \in Part : SumOf(g, Part) = g[x] + SumOf(g, Part \ {x})
    BY SumOfPart
  <2>2. SumOf(h, Part) \in Int /\ \A x \in Part : SumOf(h, Part) = h[x] + SumOf(h, Part \ {x})
    BY SumOfPart
  <2>3. SumOf(e, Part) \in Int /\ \A x \in Part : SumOf(e, Part) = e[x] + SumOf(e, Part \ {x})
    BY <1>1, SumOfPart
  <2>. QED BY <2>1, <2>2, <2>3
<1>3. {} \in P
  <2>1. SumOf(g, {}) = 0 /\ SumOf(h, {}) = 0 /\ SumOf(e, {}) = 0
    BY <1>1, SumAdds
  <2>2. Cardinality({}) = 0 /\ c * 0 = 0 /\ d * 0 = 0
    BY FS_EmptySet
  <2>. QED BY <2>1, <2>2 DEF Diff, Search!Diff
<1>4. ASSUME NEW Part \in SUBSET S, Part # {}, \A x \in Part : Part \ {x} \in P PROVE Part \in P
  <2>1. PICK x \in Part : TRUE
    BY <1>4
  <2> DEFINE n == Cardinality(Part)
             a == SumOf(g, Part \ {x})
             b == SumOf(h, Part \ {x})
             w == SumOf(e, Part \ {x})
  <2>2. n \in Nat /\ Cardinality(Part \ {x}) = n - 1
    BY Smaller
  <2>3. Diff(c * (n - 1), a) + Diff(d * (n - 1), b) <= w
    BY <1>4, <2>2
  <2>4. /\ a \in Int /\ b \in Int /\ w \in Int
        /\ SumOf(g, Part) = g[x] + a /\ SumOf(h, Part) = h[x] + b /\ SumOf(e, Part) = e[x] + w
    BY <1>2
  <2>5. g[x] \in Int /\ h[x] \in Int /\ e[x] = Diff(c, g[x]) + Diff(d, h[x])
    OBVIOUS
  <2>6. /\ c * (n - 1) = c * n - c /\ d * (n - 1) = d * n - d
        /\ c * n \in Int /\ d * n \in Int
    <3>1. \A k \in Nat : \A i \in Int : i * (k - 1) = i * k - i /\ i * k \in Int
      OBVIOUS
    <3>2. n \in Nat
      BY <2>2
    <3> HIDE DEF n
    <3>. QED BY <3>1, <3>2
  <2>7. \A i, j, k, l \in Int : Diff(i, k + j) <= Diff(i - l, j) + Diff(l, k)
    BY DEF Diff, Search!Diff
  <2> HIDE DEF n, a, b, w
  <2>8. Diff(c * n, g[x] + a) <= Diff(c * n - c, a) + Diff(c, g[x])
    BY <2>4, <2>5, <2>6, <2>7
  <2>9. Diff(d * n, h[x] + b) <= Diff(d * n - d, b) + Diff(d, h[x])
    BY <2>4, <2>5, <2>6, <2>7
  <2>10. \A i, j \in Int : Diff(i, j) \in Int
    BY DEF Diff, Search!Diff
  <2>11. Diff(c * n, g[x] + a) + Diff(d * n, h[x] + b) <= e[x] + w
    <3>1. /\ Diff(c * n, g[x] + a) \in Int /\ Diff(d * n, h[x] + b) \in Int
          /\ Diff(c * n - c, a) \in Int /\ Diff(d * n - d, b) \in Int
          /\ Diff(c, g[x]) \in Int /\ Diff(d, h[x]) \in Int
      <4>1. g[x] + a \in Int /\ h[x] + b \in Int /\ c * n - c \in Int /\ d * n - d \in Int
        BY <2>4, <2>5, <2>6
      <4>. QED BY <2>4, <2>5, <2>6, <2>10, <4>1
    <3>2. Diff(c * n - c, a) + Diff(d * n - d, b) <= w
      BY <2>3, <2>6
    <3> HIDE DEF Diff
    <3>. QED BY <2>4, <2>5, <2>8, <2>9, <3>1, <3>2
  <2>. QED BY <2>4, <2>11 DEF n
<1>5. S \in P
  <2> HIDE DEF P
  <2>. QED BY <1>3, <1>4, SubsetInduction
<1>. QED BY <1>5

\* Elements under other names.
LEMMA SumRenamed ==
  ASSUME NEW S, IsFiniteSet(S), NEW g, \A x \in S : g[x] \in Int,
         NEW b, \A x, y \in S : b[x] = b[y] => x = y,
         NEW h, \A x \in S : h[b[x]] = g[x]
  PROVE  SumOf(g, S) = SumOf(h, {b[x] : x \in S})
<1> DEFINE P == {Part \in SUBSET S : SumOf(g, Part) = SumOf(h, {b[x] : x \in Part})}
<1>1. IsFiniteSet({b[x] : x \in S})
  <2> DEFINE Q == {Part \in SUBSET S : IsFiniteSet({b[x] : x \in Part})}
  <2>1. {} \in Q
    <3>1. {b[x] : x \in {}} = {}
      OBVIOUS
    <3>. QED BY <3>1, FS_EmptySet
  <2>2. ASSUME NEW Part \in SUBSET S, Part # {}, \A x \in Part : Part \ {x} \in Q PROVE Part \in Q
    <3>1. PICK x \in Part : TRUE
      BY <2>2
    <3>2. IsFiniteSet({b[y] : y \in Part \ {x}})
      BY <2>2
    <3> DEFINE A == {b[y] : y \in Part \ {x}}
               B == {b[y] : y \in Part}
    <3>3. B = A \cup {b[x]}
      OBVIOUS
    <3>4. \A T, y : IsFiniteSet(T) => IsFiniteSet(T \cup {y})
      BY FS_AddElement
    <3>5. IsFiniteSet(B)
      <4> HIDE DEF A, B
      <4>1. IsFiniteSet(A)
        BY <3>2 DEF A
      <4>. QED BY <3>3, <3>4, <4>1
    <3>. QED BY <3>5
  <2>3. S \in Q
    <3> HIDE DEF Q
    <3>. QED BY <2>1, <2>2, SubsetInduction
  <2>. QED BY <2>3
<1>2. \A y \in {b[x] : x \in S} : h[y] \in Int
  OBVIOUS
<1>3. {} \in P
  <2>1. SumOf(g, {}) = 0 /\ SumOf(h, {}) = 0 /\ {b[x] : x \in {}} = {}
    BY <1>1, <1>2, SumAdds
  <2>. QED BY <2>1
<1>4. ASSUME NEW Part \in SUBSET S, Part # {}, \A x \in Part : Part \ {x} \in P PROVE Part \in P
  <2>1. PICK x \in Part : TRUE
    BY <1>4
  <2> DEFINE I == {b[y] : y \in Part}
  <2>2. {b[y] : y \in Part \ {x}} = I \ {b[x]} /\ b[x] \in I
    OBVIOUS
  <2>3. SumOf(g, Part) = g[x] + SumOf(g, Part \ {x})
    BY SumOfPart
  <2>4. SumOf(h, I) = h[b[x]] + SumOf(h, I \ {b[x]})
    <3>1. I \in SUBSET {b[y] : y \in S}
      OBVIOUS
    <3> HIDE DEF I
    <3>. QED BY <1>1, <1>2, <2>2, <3>1, SumOfPart
  <2>5. SumOf(g, Part \ {x}) = SumOf(h, I \ {b[x]})
    BY <1>4, <2>2
  <2>. QED BY <2>3, <2>4, <2>5
<1>5. S \in P
  <2> HIDE DEF P
  <2>. QED BY <1>3, <1>4, SubsetInduction
<1>. QED BY <1>5

-----------------------------------------------------------------------------
(* The colour search.                                                      *)

W == Search!Width
H == Search!Height

\* The picture is whole blocks, and what is left over.
LEMMA Shape ==
  ASSUME Search!BlobAssumption
  PROVE  /\ blocks \in Nat \ {0} /\ W \in Nat \ {0} /\ H \in Nat \ {0}
         /\ chroma_height \in Nat /\ chroma_width \in Nat
         /\ blocks * W <= chroma_width /\ blocks * H <= chroma_height
         /\ W * H \in Nat \ {0}
<1>1. /\ blocks \in Nat \ {0} /\ chroma_height \in Nat /\ chroma_width \in Nat
      /\ chroma_height >= blocks /\ chroma_width >= blocks
  BY DEF Search!BlobAssumption
<1>2. ASSUME NEW n \in Nat, n >= blocks
      PROVE  n \div blocks \in Nat \ {0} /\ blocks * (n \div blocks) <= n
  <2> DEFINE q == n \div blocks
             r == n % blocks
  <2>1. /\ q \in Int /\ r \in Int /\ n = blocks * q + r /\ 0 <= r /\ r < blocks
    BY <1>1, Division
  <2> HIDE DEF q, r
  <2>2. q > 0
    <3>1. q <= 0 => blocks * q <= blocks * 0 /\ blocks * q \in Int
      BY <1>1, <2>1, Monotone
    <3>. QED BY <1>1, <1>2, <2>1, <3>1
  <2>3. blocks * q <= n
    BY <1>1, <2>1
  <2>. QED BY <2>1, <2>2, <2>3 DEF q
<1>3. W \in Nat \ {0} /\ H \in Nat \ {0}
  BY <1>1, <1>2 DEF W, H, Search!Width, Search!Height
<1>4. blocks * W <= chroma_width /\ blocks * H <= chroma_height
  BY <1>1, <1>2 DEF W, H, Search!Width, Search!Height
<1>. QED BY <1>1, <1>3, <1>4

\* The numbers of a stripe.
LEMMA Stripe ==
  ASSUME NEW i \in Nat, NEW b \in Nat \ {0}, NEW q \in Nat
  PROVE  i \div b = q <=> q * b <= i /\ i <= q * b + b - 1
<1>1. i \div b \in Int /\ i % b \in Int /\ i = b * (i \div b) + (i % b) /\ 0 <= i % b /\ i % b < b
  BY Division
<1>2. q * b \in Int /\ q * b = b * q
  OBVIOUS
<1>3. ASSUME i \div b = q PROVE q * b <= i /\ i <= q * b + b - 1
  BY <1>1, <1>2, <1>3
<1>4. ASSUME q * b <= i, i <= q * b + b - 1 PROVE i \div b = q
  <2> DEFINE r == i - q * b
  <2>1. r \in Int /\ i = b * q + r /\ 0 <= r /\ r < b
    BY <1>2, <1>4
  <2> HIDE DEF r
  <2>. QED BY <2>1, Quotient
<1>. QED BY <1>3, <1>4

\* The pixels are finitely many.
LEMMA PixelsFinite ==
  ASSUME Search!BlobAssumption
  PROVE  IsFiniteSet(Search!Pixels)
<1>1. IsFiniteSet(0..chroma_height - 1) /\ IsFiniteSet(0..chroma_width - 1)
  <2>1. 0 \in Int /\ chroma_height - 1 \in Int /\ chroma_width - 1 \in Int
    BY Shape
  <2>. QED BY <2>1, FS_Interval
<1>. QED BY <1>1, FS_Product DEF Search!Pixels

\* A block is a rectangle of pixels.
LEMMA InBlockIs ==
  ASSUME Search!BlobAssumption, NEW x \in 0..blocks - 1, NEW y \in 0..blocks - 1
  PROVE  /\ Search!InBlock(x, y) \subseteq Search!Pixels
         /\ IsFiniteSet(Search!InBlock(x, y))
         /\ Cardinality(Search!InBlock(x, y)) = W * H
<1> DEFINE R == y * H..y * H + H - 1
           C == x * W..x * W + W - 1
<1>1. /\ blocks \in Nat \ {0} /\ W \in Nat \ {0} /\ H \in Nat \ {0}
      /\ chroma_height \in Nat /\ chroma_width \in Nat
      /\ blocks * W <= chroma_width /\ blocks * H <= chroma_height
  BY Shape
<1>2. \A q \in 0..blocks - 1 : \A k \in Nat : q * k \in Nat /\ q * k + k <= blocks * k
  <2> SUFFICES ASSUME NEW q \in 0..blocks - 1, NEW k \in Nat
               PROVE  q * k \in Nat /\ q * k + k <= blocks * k
    OBVIOUS
  <2>1. (q + 1) * k <= blocks * k
    BY <1>1, Monotone
  <2>2. (q + 1) * k = q * k + k /\ q * k \in Nat
    BY <1>1
  <2>. QED BY <2>1, <2>2
<1>3. /\ x * W \in Nat /\ y * H \in Nat
      /\ x * W + W <= chroma_width /\ y * H + H <= chroma_height
  <2>1. /\ x * W \in Nat /\ y * H \in Nat /\ blocks * W \in Int /\ blocks * H \in Int
        /\ x * W + W <= blocks * W /\ y * H + H <= blocks * H
    BY <1>1, <1>2
  <2>. QED BY <1>1, <2>1
<1>4. Search!InBlock(x, y) = R \X C
  <2>1. \A i \in Nat : /\ i \div W = x <=> i \in C
                       /\ i \div H = y <=> i \in R
    BY <1>1, <1>3, Stripe
  <2>2. R \subseteq 0..chroma_height - 1 /\ C \subseteq 0..chroma_width - 1
    BY <1>1, <1>3
  <2>3. \A i : /\ i \in 0..chroma_height - 1 => i \in Nat
              /\ i \in 0..chroma_width - 1 => i \in Nat
    OBVIOUS
  <2> HIDE DEF R, C
  <2>4. Search!InBlock(x, y) =
          {p \in (0..chroma_height - 1) \X (0..chroma_width - 1) :
             p[2] \div W = x /\ p[1] \div H = y}
    BY DEF Search!InBlock, Search!Pixels, W, H
  <2>5. \A p \in (0..chroma_height - 1) \X (0..chroma_width - 1) :
          (p[2] \div W = x /\ p[1] \div H = y) <=> (p[1] \in R /\ p[2] \in C)
    BY <2>1, <2>3
  <2>6. R \X C \subseteq (0..chroma_height - 1) \X (0..chroma_width - 1)
    BY <2>2
  <2>7. \A p \in (0..chroma_height - 1) \X (0..chroma_width - 1) :
          (p[1] \in R /\ p[2] \in C) <=> p \in R \X C
    OBVIOUS
  <2>. QED BY <2>4, <2>5, <2>6, <2>7
<1>5. /\ IsFiniteSet(R) /\ Cardinality(R) = H
      /\ IsFiniteSet(C) /\ Cardinality(C) = W
  <2>1. /\ IsFiniteSet(R) /\ Cardinality(R) = (y * H + H - 1) - y * H + 1
        /\ IsFiniteSet(C) /\ Cardinality(C) = (x * W + W - 1) - x * W + 1
    BY <1>1, <1>3, FS_Interval
  <2>. QED BY <1>1, <1>3, <2>1
<1>6. IsFiniteSet(R \X C) /\ Cardinality(R \X C) = H * W
  <2> HIDE DEF R, C
  <2>. QED BY <1>5, FS_Product
<1>7. H * W = W * H
  BY <1>1
<1>8. Search!InBlock(x, y) \subseteq Search!Pixels
  BY DEF Search!InBlock
<1>. QED BY <1>4, <1>6, <1>7, <1>8

\* What is counted into the sum of a block: all of the block, and nothing else
\* where nothing spills into it.
LEMMA CountsIntoIs ==
  ASSUME Search!BlobAssumption, NEW x \in 0..blocks - 1, NEW y \in 0..blocks - 1
  PROVE  /\ Search!CountsInto(Search!Index(x, y)) \subseteq Search!Pixels
         /\ Search!InBlock(x, y) \subseteq Search!CountsInto(Search!Index(x, y))
         /\ ~Search!Spilled(x, y) =>
              Search!CountsInto(Search!Index(x, y)) = Search!InBlock(x, y)
<1>1. /\ blocks \in Nat \ {0} /\ W \in Nat \ {0} /\ H \in Nat \ {0}
      /\ chroma_height \in Nat /\ chroma_width \in Nat
  BY Shape
<1>2. Search!CountsInto(Search!Index(x, y)) \subseteq Search!Pixels
  BY DEF Search!CountsInto
<1>3. Search!InBlock(x, y) \subseteq Search!CountsInto(Search!Index(x, y))
  BY DEF Search!CountsInto, Search!InBlock
<1>4. ASSUME ~Search!Spilled(x, y), NEW p \in Search!CountsInto(Search!Index(x, y))
      PROVE  p \in Search!InBlock(x, y)
  <2> DEFINE i == p[1] \div H
             j == p[2] \div W
             last == (chroma_height + H - 1) \div H
  <2>1. /\ p \in Search!Pixels /\ p[1] \in 0..chroma_height - 1 /\ p[2] \in 0..chroma_width - 1
        /\ j * blocks + i = x * blocks + y
    BY <1>4 DEF Search!CountsInto, Search!Pixels, Search!Index, W, H
  <2>2. i \in Int /\ 0 <= i /\ j \in Int /\ 0 <= j
    <3>1. \A a \in Nat : \A b \in Nat \ {0} : a \div b \in Nat
      OBVIOUS
    <3>2. p[1] \in Nat /\ p[2] \in Nat
      BY <1>1, <2>1
    <3>. QED BY <1>1, <3>1, <3>2
  <2>3. last \in Int /\ i + 1 <= last
    <3> DEFINE r == (chroma_height + H - 1) % H
               t == p[1] % H
    <3>1. last \in Int /\ r \in Int /\ chroma_height + H - 1 = H * last + r /\ 0 <= r /\ r < H
      BY <1>1, Division
    <3>2. t \in Int /\ p[1] = H * i + t /\ 0 <= t /\ t < H
      BY <1>1, <2>1, Division
    <3> HIDE DEF i, j, last, r, t
    <3>3. H * i < H * last /\ H * i \in Int /\ H * last \in Int
      <4>1. H * i \in Int /\ H * last \in Int
        BY <1>1, <2>2, <3>1
      <4>. QED BY <1>1, <2>1, <2>2, <3>1, <3>2, <4>1
    <3>4. last <= i => H * last <= H * i
      BY <1>1, <2>2, <3>1, Monotone
    <3>. QED BY <2>2, <3>1, <3>3, <3>4
  <2>4. ~(x > 0 /\ y < last - blocks)
    BY <1>4 DEF Search!Spilled, H
  <2> HIDE DEF i, j, last
  <2>5. i = y + (x - j) * blocks
    <3>1. (x - j) * blocks = x * blocks - j * blocks /\ x * blocks \in Int /\ j * blocks \in Int
      BY <1>1, <2>2
    <3>. QED BY <1>1, <2>1, <2>2, <3>1
  <2>6. ~(j < x)
    <3> SUFFICES ASSUME j < x PROVE FALSE
      OBVIOUS
    <3>1. 1 * blocks <= (x - j) * blocks /\ (x - j) * blocks \in Int
      BY <1>1, <2>2, Monotone
    <3>. QED BY <1>1, <2>2, <2>3, <2>4, <2>5, <3>1
  <2>7. ~(j > x)
    <3> SUFFICES ASSUME j > x PROVE FALSE
      OBVIOUS
    <3>1. (x - j) * blocks <= (-1) * blocks /\ (x - j) * blocks \in Int
      BY <1>1, <2>2, Monotone
    <3>. QED BY <1>1, <2>2, <2>5, <3>1
  <2>8. j = x /\ i = y
    BY <1>1, <2>2, <2>5, <2>6, <2>7
  <2>. QED BY <2>1, <2>8 DEF Search!InBlock, i, j, W, H
<1>. QED BY <1>2, <1>3, <1>4

\* The error of a colour is a natural number.
LEMMA DiffIs ==
  \A a, b \in Nat : Diff(a, b) \in Nat /\ (Diff(a, b) = 0 <=> a = b)
BY DEF Diff, Search!Diff

\* What is added up is a number.
LEMMA ErrorsAre ==
  ASSUME Search!BlobAssumption, target \in Nat \X Nat, NEW pic \in Pictures
  PROVE  \A p \in Search!Pixels :
           /\ Search!Plane(pic, 1)[p] = pic[p][1] /\ pic[p][1] \in Nat
           /\ Search!Plane(pic, 2)[p] = pic[p][2] /\ pic[p][2] \in Nat
           /\ Search!Errors(pic)[p] = Diff(target[1], pic[p][1]) + Diff(target[2], pic[p][2])
           /\ Search!Errors(pic)[p] \in Nat
<1>1. pic \in [Search!Pixels -> (0..255) \X (0..255)]
  BY DEF Search!BlobAssumption
<1> SUFFICES ASSUME NEW p \in Search!Pixels
             PROVE  /\ Search!Plane(pic, 1)[p] = pic[p][1] /\ pic[p][1] \in Nat
                    /\ Search!Plane(pic, 2)[p] = pic[p][2] /\ pic[p][2] \in Nat
                    /\ Search!Errors(pic)[p]
                         = Diff(target[1], pic[p][1]) + Diff(target[2], pic[p][2])
                    /\ Search!Errors(pic)[p] \in Nat
  OBVIOUS
<1>2. pic[p][1] \in Nat /\ pic[p][2] \in Nat /\ target[1] \in Nat /\ target[2] \in Nat
  BY <1>1
<1>3. Search!Errors(pic)[p] = Diff(target[1], pic[p][1]) + Diff(target[2], pic[p][2])
  BY Zenon DEF Search!Errors, Diff
<1>4. Diff(target[1], pic[p][1]) + Diff(target[2], pic[p][2]) \in Nat
  <2>1. Diff(target[1], pic[p][1]) \in Nat /\ Diff(target[2], pic[p][2]) \in Nat
    BY <1>2, DiffIs
  <2>. QED BY <2>1
<1>. QED BY <1>2, <1>3, <1>4 DEF Search!Plane

\* Blocks and their places in the array are one to one.
LEMMA IndexIs ==
  ASSUME Search!BlobAssumption
  PROVE  /\ \A x, y \in 0..blocks - 1 : Search!Index(x, y) \in Search!Flat
         /\ \A n \in Search!Flat : /\ n \div blocks \in 0..blocks - 1
                                   /\ n % blocks \in 0..blocks - 1
                                   /\ Search!Index(n \div blocks, n % blocks) = n
<1>1. blocks \in Nat \ {0}
  BY Shape
<1>2. ASSUME NEW x \in 0..blocks - 1, NEW y \in 0..blocks - 1
      PROVE  Search!Index(x, y) \in Search!Flat
  <2>1. x * blocks <= (blocks - 1) * blocks /\ 0 * blocks <= x * blocks /\ x * blocks \in Int
    BY <1>1, Monotone
  <2>2. (blocks - 1) * blocks = blocks * blocks - blocks /\ blocks * blocks \in Int
    BY <1>1
  <2>. QED BY <1>1, <2>1, <2>2 DEF Search!Index, Search!Flat
<1>3. ASSUME NEW n \in Search!Flat
      PROVE  /\ n \div blocks \in 0..blocks - 1 /\ n % blocks \in 0..blocks - 1
             /\ Search!Index(n \div blocks, n % blocks) = n
  <2> DEFINE q == n \div blocks
             r == n % blocks
  <2>1. n \in Int /\ 0 <= n /\ n < blocks * blocks /\ blocks * blocks \in Int
    BY <1>1 DEF Search!Flat
  <2>2. q \in Int /\ r \in Int /\ n = blocks * q + r /\ 0 <= r /\ r < blocks
    BY <1>1, <2>1, Division
  <2> HIDE DEF q, r
  <2>3. q < 0 => blocks * q <= blocks * (-1)
    BY <1>1, <2>2, Monotone
  <2>4. q >= blocks => blocks * blocks <= blocks * q
    BY <1>1, <2>2, Monotone
  <2>5. blocks * q \in Int /\ q * blocks = blocks * q /\ blocks * (-1) = -blocks
    BY <1>1, <2>2
  <2>6. 0 <= q /\ q < blocks
    BY <1>1, <2>1, <2>2, <2>3, <2>4, <2>5
  <2>7. q * blocks + r = n
    BY <2>2, <2>5
  <2>. QED BY <1>1, <2>2, <2>6, <2>7 DEF q, r, Search!Index
<1>. QED BY <1>2, <1>3

\* What the search holds of a block is a natural number (detectTargetBlob).
LEMMA SumsAre ==
  ASSUME Search!BlobAssumption, target \in Nat \X Nat, NEW pic \in Pictures, NEW old
  PROVE  /\ Search!SumErrors(pic, old) \in [Search!Flat -> Nat]
         /\ \A x, y \in 0..blocks - 1 :
              LET sum  == Search!SumErrors(pic, old)[Search!Index(x, y)]
                  true == SumOf(Search!Errors(pic), Search!InBlock(x, y))
              IN  /\ true \in Nat /\ true <= sum
                  /\ ~Search!Spilled(x, y) => true = sum
<1> DEFINE g == Search!Errors(pic)
           sums == Search!SumErrors(pic, old)
<1>1. \A p \in Search!Pixels : g[p] \in Nat
  BY ErrorsAre
<1>2. \A n \in Search!Flat : sums[n] = SumOf(g, Search!CountsInto(n))
  BY DEF Search!SumErrors, SumOf
<1>3. sums = [n \in Search!Flat |-> sums[n]]
  BY DEF Search!SumErrors
<1> HIDE DEF g, sums
<1>4. ASSUME NEW S \in SUBSET Search!Pixels, NEW T \in SUBSET S
      PROVE  SumOf(g, T) <= SumOf(g, S) /\ SumOf(g, S) \in Nat
  <2>1. IsFiniteSet(S) /\ \A p \in S : g[p] \in Nat
    BY <1>1, PixelsFinite, FS_Subset
  <2>. QED BY <2>1, SumGrows
<1>5. \A n \in Search!Flat : sums[n] \in Nat
  <2>1. \A n \in Search!Flat : Search!CountsInto(n) \in SUBSET Search!Pixels
    BY DEF Search!CountsInto
  <2>. QED BY <1>2, <1>4, <2>1
<1>6. ASSUME NEW x \in 0..blocks - 1, NEW y \in 0..blocks - 1
      PROVE  /\ SumOf(g, Search!InBlock(x, y)) \in Nat
             /\ SumOf(g, Search!InBlock(x, y)) <= sums[Search!Index(x, y)]
             /\ ~Search!Spilled(x, y) =>
                  SumOf(g, Search!InBlock(x, y)) = sums[Search!Index(x, y)]
  <2>1. sums[Search!Index(x, y)] = SumOf(g, Search!CountsInto(Search!Index(x, y)))
    BY <1>2, IndexIs
  <2>2. /\ Search!CountsInto(Search!Index(x, y)) \in SUBSET Search!Pixels
        /\ Search!InBlock(x, y) \in SUBSET Search!CountsInto(Search!Index(x, y))
        /\ ~Search!Spilled(x, y) =>
              Search!CountsInto(Search!Index(x, y)) = Search!InBlock(x, y)
    BY CountsIntoIs
  <2>3. Search!InBlock(x, y) \in SUBSET Search!Pixels
    BY <2>2
  <2>. QED BY <1>4, <2>1, <2>2, <2>3
<1>. QED BY <1>3, <1>5, <1>6 DEF g, sums

\* The block that is best, if any is better than the worst.
LEMMA BestIs ==
  ASSUME Search!BlobAssumption, NEW sums \in [Search!Flat -> Nat]
  PROVE  LET n == Search!BestIndex(sums)
         IN  /\ n \in Search!Flat
             /\ sums[n] < W * H * 255 => \A k \in Search!Flat : sums[n] <= sums[k]
             /\ sums[n] >= W * H * 255 => \A k \in Search!Flat : sums[k] >= W * H * 255
<1> DEFINE worst == W * H * 255
           ns == {n \in Search!Flat : sums[n] < worst
                    /\ \A k \in Search!Flat : sums[n] < sums[k]
                                               \/ (sums[n] = sums[k] /\ n <= k)}
<1>0. worst \in Nat
  BY Shape
<1>1. Search!BestIndex(sums) = IF ns = {} THEN 0 ELSE CHOOSE n \in ns : TRUE
  BY Zenon DEF Search!BestIndex, W, H
<1>2. 0 \in Search!Flat
  <2>1. blocks \in Nat \ {0} /\ 1 * 1 <= blocks * 1 /\ blocks * 1 <= blocks * blocks
        /\ blocks * blocks \in Int
    BY Shape
  <2>. QED BY <2>1 DEF Search!Flat
<1>3. ASSUME NEW c \in Search!Flat, sums[c] < worst PROVE ns # {}
  <2> DEFINE A == {sums[k] : k \in Search!Flat}
  <2>1. PICK a \in A : \A b \in A : a <= b
    <3>1. A \subseteq Nat /\ A # {}
      BY <1>2
    <3> HIDE DEF A
    <3>. QED BY <3>1, Least
  <2> DEFINE B == {k \in Search!Flat : sums[k] = a}
  <2>2. PICK n \in B : \A k \in B : n <= k
    <3>1. B \subseteq Nat /\ B # {}
      <4>1. Search!Flat \subseteq Nat
        BY DEF Search!Flat
      <4>. QED BY <2>1, <4>1
    <3> HIDE DEF B
    <3>. QED BY <3>1, Least
  <2>3. n \in Search!Flat /\ sums[n] = a /\ a \in Nat /\ a <= sums[c]
    BY <2>1, <2>2
  <2>4. \A k \in Search!Flat : sums[k] \in Nat /\ a <= sums[k] /\ (a = sums[k] => n <= k)
    BY <2>1, <2>2
  <2>5. n \in ns
    <3> HIDE DEF worst
    <3>. QED BY <1>0, <1>3, <2>3, <2>4
  <2>. QED BY <2>5
<1>4. CASE ns = {}
  <2>1. \A k \in Search!Flat : ~(sums[k] < worst) /\ sums[k] \in Nat
    BY <1>3, <1>4
  <2>2. Search!BestIndex(sums) = 0
    BY <1>1, <1>4
  <2> HIDE DEF worst, ns
  <2>3. \A k \in Search!Flat : sums[k] >= worst
    BY <1>0, <2>1
  <2>4. ~(sums[0] < worst)
    BY <1>2, <2>1
  <2>. QED BY <1>2, <2>2, <2>3, <2>4 DEF worst
<1>5. CASE ns # {}
  <2> DEFINE n == Search!BestIndex(sums)
  <2>1. n \in ns
    BY <1>1, <1>5
  <2>2. n \in Search!Flat /\ sums[n] < worst /\ \A k \in Search!Flat : sums[n] <= sums[k]
    BY <2>1
  <2>3. ~(sums[n] >= worst)
    <3> HIDE DEF worst, n
    <3>. QED BY <1>0, <2>2
  <2>. QED BY <2>2, <2>3
<1>. QED BY <1>4, <1>5

\* The average of a block is near to the target if its errors are small, and
\* the colour of the block if it has but one.
LEMMA AverageIs ==
  ASSUME Search!BlobAssumption, target \in Nat \X Nat, NEW pic \in Pictures,
         NEW x \in 0..blocks - 1, NEW y \in 0..blocks - 1
  PROVE  LET a == Search!getBlockAvg(pic, x, y)
         IN  /\ a \in Nat \X Nat
             /\ \A tol \in Nat :
                  SumOf(Search!Errors(pic), Search!InBlock(x, y)) < W * H * tol
                  => Diff(target[1], a[1]) + Diff(target[2], a[2]) <= tol + 1
             /\ (\A p, q \in Search!InBlock(x, y) : pic[p] = pic[q])
                /\ target = a
                => SumOf(Search!Errors(pic), Search!InBlock(x, y)) = 0
<1> DEFINE S == Search!InBlock(x, y)
           N == W * H
           g == Search!Plane(pic, 1)
           h == Search!Plane(pic, 2)
           e == Search!Errors(pic)
           a1 == SumOf(g, S) \div N
           a2 == SumOf(h, S) \div N
           r1 == SumOf(g, S) % N
           r2 == SumOf(h, S) % N
           c == target[1]
           d == target[2]
<1>1. S \subseteq Search!Pixels /\ IsFiniteSet(S) /\ Cardinality(S) = N
  BY InBlockIs
<1>2. N \in Nat \ {0} /\ c \in Nat /\ d \in Nat
  BY Shape
<1>3. \A p \in S : /\ g[p] = pic[p][1] /\ g[p] \in Nat /\ h[p] = pic[p][2] /\ h[p] \in Nat
                   /\ e[p] = Diff(c, g[p]) + Diff(d, h[p]) /\ e[p] \in Nat
  BY <1>1, ErrorsAre
<1>4. Search!getBlockAvg(pic, x, y) = <<a1, a2>>
  BY Zenon DEF Search!getBlockAvg, SumOf, W, H
<1>5. target = <<c, d>>
  OBVIOUS
<1> HIDE DEF S, N, g, h, e, c, d
<1>6. SumOf(g, S) \in Nat /\ SumOf(h, S) \in Nat /\ SumOf(e, S) \in Nat
  BY <1>1, <1>3, SumGrows
<1>7. /\ a1 \in Int /\ r1 \in Int /\ SumOf(g, S) = N * a1 + r1 /\ 0 <= r1 /\ r1 < N
      /\ a2 \in Int /\ r2 \in Int /\ SumOf(h, S) = N * a2 + r2 /\ 0 <= r2 /\ r2 < N
  <2>1. \A s \in Nat : /\ s \div N \in Int /\ s % N \in Int /\ s = N * (s \div N) + (s % N)
                       /\ 0 <= s % N /\ s % N < N
    BY <1>2, Division
  <2>. QED BY <1>6, <2>1, Zenon
<1>8. a1 \in Nat /\ a2 \in Nat
  BY <1>2, <1>6
<1> HIDE DEF a1, a2, r1, r2
<1>9. ASSUME NEW t \in Nat, NEW q \in Nat, NEW r \in Int, 0 <= r, r < N
      PROVE  /\ N * Diff(t, q) - N < Diff(t * N, N * q + r)
             /\ N * Diff(t, q) \in Int /\ Diff(t * N, N * q + r) \in Int
  <2>1. /\ N * t \in Int /\ N * q \in Int /\ t * N = N * t
        /\ N * (t - q) = N * t - N * q /\ N * (q - t) = N * q - N * t
        /\ N * t \in Int
    BY <1>2, <1>9
  <2>2. CASE t > q
    <3>1. N * 1 <= N * (t - q) /\ N * 1 = N
      BY <1>2, <1>9, <2>2, Monotone
    <3>2. N * t - N * q - r > -N
      BY <1>2, <1>9, <2>1, <3>1
    <3>3. Diff(t, q) = t - q
      BY <1>9, <2>2 DEF Diff, Search!Diff
    <3>4. Diff(t * N, N * q + r) \in Int /\ Diff(t * N, N * q + r) >= N * t - (N * q + r)
      BY <1>9, <2>1 DEF Diff, Search!Diff
    <3>. QED BY <1>2, <1>9, <2>1, <3>1, <3>3, <3>4
  <2>3. CASE ~(t > q)
    <3>1. Diff(t, q) = q - t
      BY <1>9, <2>3 DEF Diff, Search!Diff
    <3>2. Diff(t * N, N * q + r) \in Int /\ Diff(t * N, N * q + r) >= N * q + r - N * t
      BY <1>9, <2>1 DEF Diff, Search!Diff
    <3>. QED BY <1>2, <1>9, <2>1, <3>1, <3>2
  <2>. QED BY <2>2, <2>3
<1>10. Diff(c * N, SumOf(g, S)) + Diff(d * N, SumOf(h, S)) <= SumOf(e, S)
  <2>1. \A p \in S : g[p] \in Int /\ h[p] \in Int /\ e[p] = Diff(c, g[p]) + Diff(d, h[p])
    BY <1>3
  <2>2. c \in Int /\ d \in Int
    BY <1>2
  <2>. QED BY <1>1, <2>1, <2>2, SumOfDiffs
<1>11. ASSUME NEW tol \in Nat, SumOf(e, S) < N * tol
       PROVE  Diff(c, a1) + Diff(d, a2) <= tol + 1
  <2>1. /\ N * Diff(c, a1) - N < Diff(c * N, SumOf(g, S))
        /\ N * Diff(c, a1) \in Int /\ Diff(c * N, SumOf(g, S)) \in Int
    BY <1>2, <1>7, <1>8, <1>9
  <2>2. /\ N * Diff(d, a2) - N < Diff(d * N, SumOf(h, S))
        /\ N * Diff(d, a2) \in Int /\ Diff(d * N, SumOf(h, S)) \in Int
    BY <1>2, <1>7, <1>8, <1>9
  <2> DEFINE u == Diff(c, a1) + Diff(d, a2)
  <2>3. Diff(c, a1) \in Nat /\ Diff(d, a2) \in Nat
    BY <1>2, <1>8, DiffIs
  <2>4. N * u = N * Diff(c, a1) + N * Diff(d, a2) /\ N * tol \in Int
    BY <1>2, <2>3
  <2>5. N * u < N * tol + 2 * N
    BY <1>2, <1>6, <1>10, <1>11, <2>1, <2>2, <2>4
  <2>6. u \in Nat
    BY <2>3
  <2> HIDE DEF u
  <2>7. u >= tol + 2 => N * (tol + 2) <= N * u
    BY <1>2, <2>6, Monotone
  <2>8. N * (tol + 2) = N * tol + 2 * N
    BY <1>2
  <2>9. N * u \in Int
    BY <1>2, <2>6
  <2>10. u < tol + 2
    BY <1>2, <2>4, <2>5, <2>6, <2>7, <2>8, <2>9
  <2>. QED BY <2>6, <2>10 DEF u
<1>12. ASSUME \A p, q \in S : pic[p] = pic[q], c = a1, d = a2
       PROVE  SumOf(e, S) = 0
  <2>1. PICK p \in S : TRUE
    BY <1>1, <1>2, FS_EmptySet
  <2>2. \A q \in S : g[q] = g[p] /\ h[q] = h[p]
    BY <1>3, <1>12
  <2>3. SumOf(g, S) = g[p] * N /\ SumOf(h, S) = h[p] * N /\ g[p] \in Nat /\ h[p] \in Nat
    BY <1>1, <1>3, <2>2, SumOfEqual
  <2>4. a1 = g[p] /\ a2 = h[p]
    <3>1. \A k \in Nat : \A by \in Nat \ {0} : (k * by) \div by = k
      <4> SUFFICES ASSUME NEW k \in Nat, NEW by \in Nat \ {0} PROVE (k * by) \div by = k
        OBVIOUS
      <4>1. k * by \in Int /\ k * by = by * k + 0
        OBVIOUS
      <4>. QED BY <4>1, Quotient
    <3>. QED BY <1>2, <2>3, <3>1 DEF a1, a2
  <2>5. \A q \in S : e[q] = 0
    <3>1. \A q \in S : e[q] = Diff(c, c) + Diff(d, d)
      BY <1>3, <1>12, <2>2, <2>4, Zenon
    <3>2. Diff(c, c) = 0 /\ Diff(d, d) = 0
      BY <1>2, DiffIs
    <3>. QED BY <3>1, <3>2
  <2>6. SumOf(e, S) = 0 * Cardinality(S)
    BY <1>1, <2>5, SumOfEqual
  <2>. QED BY <1>1, <1>2, <2>6
<1>. QED BY <1>4, <1>5, <1>8, <1>11, <1>12 DEF S, N, e, c, d

\* The smaller of two.
LEMMA MinIs ==
  ASSUME NEW S \in SUBSET Nat, S # {}
  PROVE  Search!Min(S) \in S /\ \A k \in S : Search!Min(S) <= k
<1>1. \E n \in S : \A k \in S : n <= k
  BY Least
<1>. QED BY <1>1, Zenon DEF Search!Min

LeftSteps(sums, n, x, max) ==
  Search!Min({k \in 0..x + 1 : k = x + 1 \/ ~(sums[n - k * blocks] < max)})
RightSteps(sums, n, x, max) ==
  Search!Min({k \in 0..(blocks - 1 - x) + 1 :
                k = (blocks - 1 - x) + 1 \/ ~(sums[n + k * blocks] < max)})

\* The box around a block reaches as far as the run of matching blocks does
\* (detectTargetBlob).
LEMMA BoxIs ==
  ASSUME Search!BlobAssumption, NEW x \in 0..blocks - 1, NEW y \in 0..blocks - 1,
         NEW sums, NEW max, NEW l, NEW r,
         l = LeftSteps(sums, Search!Index(x, y), x, max),
         r = RightSteps(sums, Search!Index(x, y), x, max)
  PROVE  /\ \A z \in x - l..x + r - 1 : z = x - l \/ sums[Search!Index(z, y)] < max
         /\ \A z \in {x - l, x + r} :
              z \in 0..blocks - 1 => ~(sums[Search!Index(z, y)] < max)
<1> DEFINE n == Search!Index(x, y)
           L == {k \in 0..x + 1 : k = x + 1 \/ ~(sums[n - k * blocks] < max)}
           R == {k \in 0..blocks - x : k = blocks - x \/ ~(sums[n + k * blocks] < max)}
<1>1. blocks \in Nat \ {0}
  BY Shape
<1>2. l \in L /\ \A k \in L : l <= k
  <2>1. x + 1 \in L /\ L \subseteq Nat
    OBVIOUS
  <2>2. l = Search!Min(L)
    BY Zenon DEF LeftSteps
  <2> HIDE DEF L
  <2>3. L \in SUBSET Nat /\ L # {}
    BY <2>1
  <2>4. Search!Min(L) \in L /\ \A k \in L : Search!Min(L) <= k
    BY <2>3, MinIs
  <2>. QED BY <2>2, <2>4
<1>3. r \in R /\ \A k \in R : r <= k
  <2>1. blocks - x \in R /\ R \subseteq Nat
    BY <1>1
  <2>2. r = Search!Min(R)
    <3>1. blocks - x = (blocks - 1 - x) + 1
      BY <1>1
    <3>. QED BY <3>1, Zenon DEF RightSteps
  <2> HIDE DEF R
  <2>3. R \in SUBSET Nat /\ R # {}
    BY <2>1
  <2>4. Search!Min(R) \in R /\ \A k \in R : Search!Min(R) <= k
    BY <2>3, MinIs
  <2>. QED BY <2>2, <2>4
<1>4. ASSUME NEW k \in Int
      PROVE  /\ Search!Index(x - k, y) = n - k * blocks
             /\ Search!Index(x + k, y) = n + k * blocks
  <2>1. /\ (x - k) * blocks = x * blocks - k * blocks
        /\ (x + k) * blocks = x * blocks + k * blocks
        /\ x * blocks \in Int /\ k * blocks \in Int
    BY <1>1
  <2>. QED BY <2>1 DEF Search!Index
<1> HIDE DEF n
<1>5. /\ l \in 0..x + 1 /\ r \in 0..blocks - x
      /\ l = x + 1 \/ ~(sums[n - l * blocks] < max)
      /\ r = blocks - x \/ ~(sums[n + r * blocks] < max)
  BY <1>2, <1>3
<1>6. ASSUME NEW z \in x - l..x + r - 1, z # x - l PROVE sums[Search!Index(z, y)] < max
  <2>1. CASE z <= x
    <3> DEFINE k == x - z
    <3>1. k \in 0..x + 1 /\ k < l /\ z = x - k /\ k \in Int /\ l <= x + 1
      BY <1>5, <1>6, <2>1
    <3> HIDE DEF k
    <3>2. ~(l <= k)
      BY <1>5, <3>1
    <3>3. sums[n - k * blocks] < max
      BY <1>2, <3>1, <3>2
    <3>. QED BY <1>4, <3>1, <3>3
  <2>2. CASE z > x
    <3> DEFINE k == z - x
    <3>1. k \in 0..blocks - x /\ k < r /\ z = x + k /\ k \in Int
      BY <1>1, <1>5, <1>6, <2>2
    <3> HIDE DEF k
    <3>2. ~(r <= k)
      BY <1>5, <3>1
    <3>3. sums[n + k * blocks] < max
      BY <1>3, <3>1, <3>2
    <3>. QED BY <1>4, <3>1, <3>3
  <2>. QED BY <1>5, <2>1, <2>2
<1>7. ASSUME NEW z \in {x - l, x + r}, z \in 0..blocks - 1
      PROVE  ~(sums[Search!Index(z, y)] < max)
  <2>1. CASE z = x - l
    <3>1. ~(sums[n - l * blocks] < max) /\ l \in Int
      BY <1>5, <1>7, <2>1
    <3>. QED BY <1>4, <2>1, <3>1
  <2>2. CASE z = x + r
    <3>1. ~(sums[n + r * blocks] < max) /\ r \in Int
      BY <1>1, <1>5, <1>7, <2>2
    <3>. QED BY <1>4, <2>2, <3>1
  <2>. QED BY <1>7, <2>1, <2>2
<1>. QED BY <1>6, <1>7

Centre == blocks \div 2

\* The block that calibrates is one of the picture.
LEMMA CentreIs ==
  ASSUME Search!BlobAssumption
  PROVE  Centre \in 0..blocks - 1 /\ ~Search!Spilled(Centre, Centre)
<1>1. blocks \in Nat \ {0}
  BY Shape
<1>2. Centre \in 0..blocks - 1
  BY <1>1 DEF Centre
<1> DEFINE spill == (chroma_height + H - 1) \div H - blocks
<1>3. spill <= Centre
  BY Zenon DEF Search!BlobAssumption, Centre, H
<1>4. spill \in Int
  <2>1. chroma_height + H - 1 \in Int /\ H \in Nat \ {0}
    BY Shape
  <2>2. (chroma_height + H - 1) \div H \in Int
    BY <2>1, Division
  <2>. QED BY <1>1, <2>2
<1>5. Search!Spilled(Centre, Centre) <=> Centre > 0 /\ Centre < spill
  BY Zenon DEF Search!Spilled, H
<1> HIDE DEF spill
<1>. QED BY <1>2, <1>3, <1>4, <1>5

(***************************************************************************)
(* What the search is known to have left behind.                           *)
(***************************************************************************)
SearchInv ==
  /\ SearchRight
  /\ kind # "search" => result = -1
  /\ \/ calibrated = Search!getBlockAvg(shown, Centre, Centre)
     \/ calibrated = <<0, 0>> /\ target = <<U, V>> /\ kind # "average"

\* It holds at first,
LEMMA SearchInit ==
  ASSUME Search!BlobAssumption, Search!Init
  PROVE  SearchInv
<1>1. picture \in Pictures
  BY DEF Search!BlobAssumption, Search!Init
<1>2. best \in Search!Blocks
  BY Shape DEF Search!Init, Search!Blocks
<1>3. W * H * tolarance \in Nat
  BY Shape DEF Search!Init
<1>4. <<U, V>> \in Nat \X Nat
  BY DEF Search!BlobAssumption
<1>5. Search!TypeOK
  <2>1. result \in -1..W * H * tolarance /\ result = -1
    BY <1>3 DEF Search!Init
  <2>2. blockTmp \in [Search!Flat -> Nat]
    BY DEF Search!Init
  <2>3. shown \in Pictures /\ tolarance = 0 /\ kind = "none"
    BY <1>1 DEF Search!Init
  <2>4. {avgColor, calibrated, target} \subseteq Nat \X Nat
    BY <1>4 DEF Search!Init
  <2>. QED BY <1>1, <1>2, <2>1, <2>2, <2>3, <2>4 DEF Search!TypeOK, W, H
<1>6. result = -1 /\ kind = "none" /\ calibrated = <<0, 0>> /\ target = <<U, V>>
  BY DEF Search!Init
<1>. QED BY <1>5, <1>6 DEF SearchInv, SearchRight, Search!NoFalseTarget,
            Search!NoMissedTarget, Search!BoxHoldsRow, Search!CalibratedIsFound

\* after a calibration (getAvgColor),
LEMMA AverageRight ==
  ASSUME Search!BlobAssumption, SearchInv, NEW pic \in Pictures, Search!getAvgColor(pic)
  PROVE  SearchInv'
<1>1. /\ picture' = pic /\ shown' = pic /\ kind' = "average" /\ result' = -1
      /\ calibrated' = Search!getBlockAvg(pic, Centre, Centre)
      /\ UNCHANGED <<tolarance, blockTmp, best, avgColor, blob, target>>
  BY DEF Search!getAvgColor, Centre
<1>2. Search!TypeOK
  BY DEF SearchInv, SearchRight
<1>3. calibrated' \in Nat \X Nat
  <2>1. target \in Nat \X Nat
    BY <1>2 DEF Search!TypeOK
  <2>. QED BY <1>1, <2>1, CentreIs, AverageIs
<1>4. Search!TypeOK'
  <2>1. tolarance \in Nat
    BY <1>2 DEF Search!TypeOK, Search!BlobAssumption
  <2>2. W * H * tolarance \in Nat
    BY <2>1, Shape
  <2>3. -1 \in -1..W * H * tolarance
    BY <2>2
  <2>. QED BY <1>1, <1>2, <1>3, <2>3 DEF Search!TypeOK, W, H
<1>5. calibrated' = Search!getBlockAvg(shown, Centre, Centre)'
  BY <1>1 DEF Search!getBlockAvg
<1>. QED BY <1>1, <1>4, <1>5 DEF SearchInv, SearchRight, Search!NoFalseTarget,
            Search!NoMissedTarget, Search!BoxHoldsRow, Search!CalibratedIsFound

\* after the colour was taken over,
LEMMA TakeRight ==
  ASSUME Search!BlobAssumption, SearchInv, Search!TakeColour
  PROVE  SearchInv'
<1>1. /\ kind = "average" /\ target' = calibrated
      /\ UNCHANGED <<picture, tolarance, blockTmp, best, avgColor, result, blob, kind,
                     calibrated, shown>>
  BY DEF Search!TakeColour
<1>2. Search!TypeOK'
  BY <1>1 DEF SearchInv, SearchRight, Search!TypeOK
<1>3. calibrated' = Search!getBlockAvg(shown, Centre, Centre)'
  BY <1>1 DEF SearchInv, Search!getBlockAvg
<1>4. result' = -1 /\ kind' = "average"
  BY <1>1 DEF SearchInv
<1>. QED BY <1>2, <1>3, <1>4 DEF SearchInv, SearchRight, Search!NoFalseTarget,
            Search!NoMissedTarget, Search!BoxHoldsRow, Search!CalibratedIsFound

\* What the search does, without the rows below the best block.
LEMMA Searches ==
  ASSUME Search!BlobAssumption, NEW pic \in Pictures, NEW tol \in Tolerances,
         Search!detectTargetBlob(pic, tol)
  PROVE  LET sums  == Search!SumErrors(pic, blockTmp)
             n     == Search!BestIndex(sums)
             x     == n \div blocks
             y     == n % blocks
             max   == W * H * tol
             worst == W * H * 255
             score == IF sums[n] < worst THEN sums[n] ELSE worst
         IN  /\ picture' = pic /\ tolarance' = tol /\ blockTmp' = sums /\ best' = <<x, y>>
             /\ \/ /\ score < max /\ result' = score
                   /\ avgColor' = Search!getBlockAvg(pic, x, y)
                   /\ blob'.left = LeftSteps(sums, n, x, max)
                   /\ blob'.right = RightSteps(sums, n, x, max)
                \/ ~(score < max) /\ result' = -1 /\ avgColor' = avgColor
             /\ kind' = "search" /\ target' = target
             /\ calibrated' = calibrated /\ shown' = shown
<1> DEFINE sums  == Search!SumErrors(pic, blockTmp)
           n     == Search!BestIndex(sums)
           x     == n \div blocks
           y     == n % blocks
           max   == W * H * tol
           worst == W * H * 255
           score == IF sums[n] < worst THEN sums[n] ELSE worst
<1>1. /\ picture' = pic /\ tolarance' = tol /\ blockTmp' = sums /\ best' = <<x, y>>
      /\ kind' = "search" /\ target' = target
      /\ calibrated' = calibrated /\ shown' = shown
      /\ IF score < max
         THEN /\ result' = score /\ avgColor' = Search!getBlockAvg(pic, x, y)
              /\ \E d \in Search!Down(sums, n, max) :
                   blob' = [left  |-> Search!Left(sums, n, x, max),
                            right |-> Search!Right(sums, n, x, max),
                            up    |-> Search!Up(sums, n, y, max), down |-> d]
         ELSE result' = -1 /\ UNCHANGED <<avgColor, blob>>
  BY Zenon DEF Search!detectTargetBlob, Search!Found, W, H
<1>2. Search!Left(sums, n, x, max) = LeftSteps(sums, n, x, max)
  BY Zenon DEF Search!Left, Search!Steps, LeftSteps
<1>3. Search!Right(sums, n, x, max) = RightSteps(sums, n, x, max)
  BY Zenon DEF Search!Right, Search!Steps, RightSteps
<1>4. score < max =>
        blob'.left = LeftSteps(sums, n, x, max) /\ blob'.right = RightSteps(sums, n, x, max)
  <2> SUFFICES ASSUME score < max
               PROVE  /\ blob'.left = LeftSteps(sums, n, x, max)
                      /\ blob'.right = RightSteps(sums, n, x, max)
    OBVIOUS
  <2>1. PICK d \in Search!Down(sums, n, max) :
          blob' = [left  |-> LeftSteps(sums, n, x, max),
                   right |-> RightSteps(sums, n, x, max),
                   up    |-> Search!Up(sums, n, y, max), down |-> d]
    BY <1>1, <1>2, <1>3, Zenon
  <2> HIDE DEF n, x, max, sums, y
  <2>. QED BY <2>1
<1> HIDE DEF n, x, max, sums, y, score
<1>5. \/ /\ score < max /\ result' = score /\ avgColor' = Search!getBlockAvg(pic, x, y)
         /\ blob'.left = LeftSteps(sums, n, x, max)
         /\ blob'.right = RightSteps(sums, n, x, max)
      \/ ~(score < max) /\ result' = -1 /\ avgColor' = avgColor
  BY <1>1, <1>4
<1>. QED BY <1>1, <1>5 DEF n, x, max, sums, y, score

\* and after a search (detectTargetBlob);
LEMMA SearchKeeps ==
  ASSUME Search!BlobAssumption, SearchInv, NEW pic \in Pictures, NEW tol \in Tolerances,
         Search!detectTargetBlob(pic, tol)
  PROVE  SearchInv'
<1> DEFINE sums  == Search!SumErrors(pic, blockTmp)
           n     == Search!BestIndex(sums)
           x     == n \div blocks
           y     == n % blocks
           max   == W * H * tol
           worst == W * H * 255
           score == IF sums[n] < worst THEN sums[n] ELSE worst
           error(i, j) == SumOf(Search!Errors(pic), Search!InBlock(i, j))
<1>1. /\ picture' = pic /\ tolarance' = tol /\ blockTmp' = sums /\ best' = <<x, y>>
      /\ \/ /\ score < max /\ result' = score
            /\ avgColor' = Search!getBlockAvg(pic, x, y)
            /\ blob'.left = LeftSteps(sums, n, x, max)
            /\ blob'.right = RightSteps(sums, n, x, max)
         \/ ~(score < max) /\ result' = -1 /\ avgColor' = avgColor
      /\ kind' = "search" /\ target' = target
      /\ calibrated' = calibrated /\ shown' = shown
  BY Searches, Zenon
<1>2. Search!TypeOK /\ target \in Nat \X Nat /\ tol \in Nat
  BY DEF SearchInv, SearchRight, Search!TypeOK, Search!BlobAssumption
<1>3. /\ sums \in [Search!Flat -> Nat]
      /\ \A i, j \in 0..blocks - 1 :
           /\ error(i, j) \in Nat /\ error(i, j) <= sums[Search!Index(i, j)]
           /\ ~Search!Spilled(i, j) => error(i, j) = sums[Search!Index(i, j)]
  BY <1>2, SumsAre
<1>4. /\ n \in Search!Flat
      /\ sums[n] < worst => \A k \in Search!Flat : sums[n] <= sums[k]
      /\ sums[n] >= worst => \A k \in Search!Flat : sums[k] >= worst
  <2> HIDE DEF sums
  <2>. QED BY <1>3, BestIs
<1>5. x \in 0..blocks - 1 /\ y \in 0..blocks - 1 /\ Search!Index(x, y) = n
  <2> HIDE DEF n
  <2>. QED BY <1>4, IndexIs
<1>6. worst \in Nat /\ max \in Nat /\ sums[n] \in Nat /\ W * H \in Nat \ {0}
  <2>1. \A a, b \in Nat : a * b \in Nat
    OBVIOUS
  <2> HIDE DEF sums, n
  <2>. QED BY <1>2, <1>3, <1>4, <2>1, Shape
<1>7. \A i, j : Search!TrueError(i, j)' = error(i, j)
  BY <1>1, Zenon DEF Search!TrueError, Search!Errors, Search!InBlock, SumOf
<1>8. \A i, j : Search!Matches(i, j)' <=> sums[Search!Index(i, j)] < max
  BY <1>1, Zenon DEF Search!Matches, W, H
<1>8a. Search!TrueError(best[1], best[2])' = error(x, y)
  <2>1. best'[1] = x /\ best'[2] = y
    BY <1>1
  <2>. QED BY <1>1, <2>1, Zenon DEF Search!TrueError, Search!Errors, Search!InBlock, SumOf
<1> HIDE DEF sums, n, x, y, max, worst, error
<1>9. score \in Nat /\ score <= worst /\ score <= sums[n]
  BY <1>6
<1>10. /\ score < worst => score = sums[n] /\ \A k \in Search!Flat : score <= sums[k]
       /\ score = worst => \A k \in Search!Flat : sums[k] >= worst
  <2>1. CASE sums[n] < worst
    BY <1>4, <1>6, <2>1
  <2>2. CASE ~(sums[n] < worst)
    BY <1>4, <1>6, <2>2
  <2>. QED BY <2>1, <2>2
<1> HIDE DEF score
<1>11. Search!TypeOK'
  <2>1. result' \in -1..max /\ (result' = -1 \/ result' < max)
    BY <1>1, <1>6, <1>9
  <2>2. avgColor' \in Nat \X Nat
    <3>1. Search!getBlockAvg(pic, x, y) \in Nat \X Nat
      BY <1>2, <1>5, AverageIs
    <3>. QED BY <1>1, <1>2, <3>1 DEF Search!TypeOK
  <2>3. best' \in Search!Blocks
    BY <1>1, <1>5 DEF Search!Blocks
  <2>4. W * H * tolarance' = max
    BY <1>1 DEF max
  <2>. QED BY <1>1, <1>2, <1>3, <2>1, <2>2, <2>3, <2>4 DEF Search!TypeOK, W, H
<1>12. Search!NoFalseTarget'
  <2> SUFFICES ASSUME result' >= 0, tol <= 255
               PROVE  /\ error(x, y) < max
                      /\ Diff(target[1], avgColor'[1]) + Diff(target[2], avgColor'[2]) <= tol + 1
    BY <1>1, <1>8a, Zenon DEF Search!NoFalseTarget, Diff, Search!Diff, max, W, H
  <2>1. score < max /\ avgColor' = Search!getBlockAvg(pic, x, y)
    BY <1>1
  <2>2. max <= worst
    <3>1. W * H * tol <= W * H * 255
      BY <1>2, <1>6, Monotone
    <3>. QED BY <3>1 DEF max, worst
  <2>3. score = sums[n]
    BY <1>6, <1>9, <1>10, <2>1, <2>2
  <2>4. error(x, y) \in Nat /\ error(x, y) <= sums[n]
    BY <1>3, <1>5
  <2>5. error(x, y) < max
    BY <1>6, <2>1, <2>3, <2>4
  <2>6. \A t \in Nat : error(x, y) < W * H * t
          => LET a == Search!getBlockAvg(pic, x, y)
             IN  Diff(target[1], a[1]) + Diff(target[2], a[2]) <= t + 1
    BY <1>2, <1>5, AverageIs, Zenon DEF error
  <2>. QED BY <1>2, <2>1, <2>5, <2>6, Zenon DEF max
<1>13. Search!NoMissedTarget'
  <2> SUFFICES ASSUME result' = -1, NEW i \in 0..blocks - 1, NEW j \in 0..blocks - 1,
                      ~Search!Spilled(i, j)
               PROVE  error(i, j) >= max \/ error(i, j) >= worst
    BY <1>1, <1>7 DEF Search!NoMissedTarget, Search!Blocks, Search!Spilled, max, worst, W, H
  <2>1. ~(score < max)
    BY <1>1, <1>9
  <2>2. error(i, j) = sums[Search!Index(i, j)] /\ Search!Index(i, j) \in Search!Flat
        /\ error(i, j) \in Nat
    BY <1>3, IndexIs
  <2>3. score < worst => score <= error(i, j)
    BY <1>10, <2>2
  <2>4. score = worst => error(i, j) >= worst
    BY <1>10, <2>2
  <2>. QED BY <1>6, <1>9, <2>1, <2>2, <2>3, <2>4
<1>14. Search!BoxHoldsRow'
  <2> SUFFICES ASSUME result' >= 0
               PROVE  LET inBox == x - blob'.left..x + blob'.right - 1
                      IN  /\ \A z \in inBox : z = x - blob'.left
                                              \/ sums[Search!Index(z, y)] < max
                          /\ \A z \in {x - blob'.left, x + blob'.right} :
                               z \in 0..blocks - 1 => ~(sums[Search!Index(z, y)] < max)
    BY <1>1, <1>8 DEF Search!BoxHoldsRow
  <2>1. /\ blob'.left = LeftSteps(sums, Search!Index(x, y), x, max)
        /\ blob'.right = RightSteps(sums, Search!Index(x, y), x, max)
    BY <1>1, <1>5
  <2>. QED BY <1>5, <2>1, BoxIs
<1>15. Search!CalibratedIsFound'
  <2> DEFINE centre == Search!InBlock(Centre, Centre)
  <2> SUFFICES ASSUME target = calibrated, pic = shown, tol > 0,
                      \A p, q \in centre : pic[p] = pic[q]
               PROVE  result' >= 0
    BY <1>1 DEF Search!CalibratedIsFound, Centre, Search!InBlock
  <2>1. <<U, V>> # <<0, 0>>
    BY DEF Search!BlobAssumption
  <2>2. calibrated = Search!getBlockAvg(pic, Centre, Centre)
    BY <2>1 DEF SearchInv
  <2>3. Centre \in 0..blocks - 1 /\ ~Search!Spilled(Centre, Centre)
    BY CentreIs
  <2>4. error(Centre, Centre) = 0
    BY <1>2, <2>2, <2>3, AverageIs DEF error
  <2>5. sums[Search!Index(Centre, Centre)] = 0 /\ Search!Index(Centre, Centre) \in Search!Flat
    BY <1>3, <2>3, <2>4, IndexIs
  <2>6. 0 < worst /\ 0 < max
    <3>1. \A a, b \in Nat \ {0} : 0 < a * b
      OBVIOUS
    <3>. QED BY <1>2, <1>6, <3>1 DEF worst, max
  <2>7. score = 0
    BY <1>6, <1>9, <1>10, <2>5, <2>6
  <2>. QED BY <1>1, <2>6, <2>7
<1>16. kind' = "search" /\ calibrated' = calibrated /\ target' = target
  BY <1>1
<1>17. Search!getBlockAvg(shown, Centre, Centre)' = Search!getBlockAvg(shown, Centre, Centre)
  BY <1>1 DEF Search!getBlockAvg
<1>. QED BY <1>11, <1>12, <1>13, <1>14, <1>15, <1>16, <1>17 DEF SearchInv, SearchRight

\* so each step keeps it.
LEMMA SearchStep ==
  Search!BlobAssumption /\ SearchInv /\ [Search!Next]_Search!vars => SearchInv'
<1> SUFFICES ASSUME Search!BlobAssumption, SearchInv, [Search!Next]_Search!vars
             PROVE  SearchInv'
  OBVIOUS
<1>1. CASE Search!Call
  <2>1. PICK pic \in Pictures : \/ \E tol \in Tolerances : Search!detectTargetBlob(pic, tol)
                                \/ Search!getAvgColor(pic)
    BY <1>1 DEF Search!Call
  <2>. QED BY <2>1, SearchKeeps, AverageRight
<1>2. CASE Search!TakeColour
  BY <1>2, TakeRight
<1>3. CASE UNCHANGED Search!vars
  BY <1>3 DEF Search!vars, SearchInv, SearchRight, Search!TypeOK, Search!NoFalseTarget,
     Search!NoMissedTarget, Search!BoxHoldsRow, Search!CalibratedIsFound, Search!TrueError,
     Search!Matches, Search!Errors, Search!getBlockAvg
<1>. QED BY <1>1, <1>2, <1>3 DEF Search!Next

\* For any picture, tolerance and target, and pictures of any shape: a target
\* is found where it is, what was calibrated with is found, and the box holds
\* the row of matching blocks.
THEOREM FindsTarget == Search!BlobAssumption /\ Search!Spec => []SearchRight
<1>1. Search!BlobAssumption /\ Search!Init => SearchInv
  BY SearchInit
<1>2. SearchInv => SearchRight
  BY DEF SearchInv
<1>3. Search!BlobAssumption => Search!BlobAssumption'
  BY DEF Search!BlobAssumption
<1>. QED BY <1>1, <1>2, <1>3, SearchStep, PTL DEF Search!Spec

(***************************************************************************)
(* The memory manager of the JPEG library.                                 *)
(***************************************************************************)

PoolRec == [block : Nat, used : Nat, left : Nat]
Object  == [block : Nat, pool : Memory!Pools, from : Nat, bytes : Nat, row : BOOLEAN]
Heaps   == UNION {[D -> Nat] : D \in SUBSET (Nat \ {0})}
State   == [small : [Memory!Pools -> Seq(PoolRec)], large : [Memory!Pools -> Seq(PoolRec)],
            total : Int, last_rowsperchunk : Int, heap : Heaps, objects : SUBSET Object,
            exited : BOOLEAN]

\* The heap is a function from blocks to their sizes.
LEMMA HeapIs ==
  ASSUME NEW s \in State
  PROVE  /\ s.heap = [b \in DOMAIN s.heap |-> s.heap[b]]
         /\ DOMAIN s.heap \subseteq Nat \ {0} /\ \A b \in DOMAIN s.heap : s.heap[b] \in Nat
<1>1. PICK D \in SUBSET (Nat \ {0}) : s.heap \in [D -> Nat]
  BY DEF State, Heaps
<1>2. DOMAIN s.heap = D
  BY <1>1
<1>. QED BY <1>1, <1>2

\* Its sums are those of above.
LEMMA SumsToo == \A g, S : Memory!SumFunctionOnSet(g, S) = SumOf(g, S)
BY Zenon DEF SumOf, Search!SumFunctionOnSet, Search!FoldFunctionOnSet,
     Search!MapThenFoldSet, Memory!SumFunctionOnSet, Memory!FoldFunctionOnSet,
     Memory!MapThenFoldSet

\* Halving does not make a slop larger (alloc_small).
LEMMA TriesAre ==
  ASSUME NEW slop \in Nat, MIN_SLOP \in Nat
  PROVE  Memory!Tries(slop) \subseteq 0..slop
<1>1. \A n \in Memory!Tries(slop) : n = slop \/ n \in MIN_SLOP..slop
  BY Zenon DEF Memory!Tries
<1>. QED BY <1>1

\* There is one function without arguments.
LEMMA NothingIs == \A f : DOMAIN f = {} /\ f = [x \in DOMAIN f |-> f[x]] => f = << >>
OBVIOUS

SmallsApart(s) ==
  \A pool \in Memory!Pools : \A k \in DOMAIN s.small[pool] :
    /\ \A l \in DOMAIN s.small[pool] :
         s.small[pool][k].block = s.small[pool][l].block => k = l
    /\ \A l \in DOMAIN s.large[pool] : s.small[pool][k].block # s.large[pool][l].block

BlocksInv(s) ==
  /\ \A pool \in Memory!Pools : \A q \in Memory!PoolsOf(s, pool) :
       /\ q.block \in DOMAIN s.heap /\ q.block # 1
       /\ s.heap[q.block] = q.used + q.left + HDR /\ s.heap[q.block] <= MAX_ALLOC_CHUNK
       /\ q.used % ALIGN = 0
  /\ SmallsApart(s)
  /\ \A p, r \in Memory!Pools :
       \A q \in Memory!PoolsOf(s, p) : \A o \in Memory!PoolsOf(s, r) :
         q.block = o.block => p = r /\ q = o
  /\ \A b \in DOMAIN s.heap :
       b = 1 \/ \E pool \in Memory!Pools : \E q \in Memory!PoolsOf(s, pool) : q.block = b

Apart(o, q) ==
  \/ o = q \/ o.block # q.block
  \/ o.from + o.bytes <= q.from \/ q.from + q.bytes <= o.from

ObjectsInv(s) ==
  /\ \A o \in s.objects :
       /\ \E q \in Memory!PoolsOf(s, o.pool) :
            q.block = o.block /\ HDR <= o.from /\ o.from + o.bytes <= HDR + q.used
       /\ o.row \/ o.from % ALIGN = 0
  /\ \A o, q \in s.objects : Apart(o, q)

Kept(s) ==
  /\ s \in State /\ s.exited = FALSE
  /\ IsFiniteSet(DOMAIN s.heap) /\ 1 \in DOMAIN s.heap
  /\ s.total = SumOf(s.heap, DOMAIN s.heap)
  /\ BlocksInv(s) /\ ObjectsInv(s)

\* malloc() gives a block that is not held.
LEMMA NewBlockIs ==
  ASSUME NEW s \in State, IsFiniteSet(DOMAIN s.heap)
  PROVE  Memory!NewBlock(s) \in Nat \ {0} /\ Memory!NewBlock(s) \notin DOMAIN s.heap
<1> DEFINE D == DOMAIN s.heap
           n == Cardinality(D)
           F == (1..n + 1) \ D
<1>1. n \in Nat
  BY FS_CardinalityType
<1>2. IsFiniteSet(1..n + 1) /\ Cardinality(1..n + 1) = n + 1
  BY <1>1, FS_Interval
<1>3. ~(1..n + 1 \subseteq D)
  <2> SUFFICES ASSUME 1..n + 1 \in SUBSET D PROVE FALSE
    OBVIOUS
  <2>1. Cardinality(1..n + 1) <= Cardinality(D)
    BY FS_Subset
  <2>. QED BY <1>1, <1>2, <2>1
<1>4. F \in SUBSET Nat /\ F # {}
  BY <1>3
<1>5. \E k \in F : \A l \in F : k <= l
  <2> HIDE DEF F
  <2>. QED BY <1>4, Least
<1>6. Memory!NewBlock(s) \in F
  <2>1. Memory!NewBlock(s) = CHOOSE k \in F : \A l \in F : k <= l
    BY Zenon DEF Memory!NewBlock, Memory!Min, Memory!Cardinality, Cardinality
  <2> HIDE DEF F
  <2>. QED BY <1>5, <2>1
<1>. QED BY <1>6

\* It is added to the count as what it holds.
LEMMA GetIs ==
  ASSUME NEW s \in State, IsFiniteSet(DOMAIN s.heap), NEW n \in Nat,
         s.total = SumOf(s.heap, DOMAIN s.heap)
  PROVE  LET t   == Memory!Get(s, n)
             new == Memory!NewBlock(s)
         IN  /\ t \in State /\ IsFiniteSet(DOMAIN t.heap)
             /\ new \in Nat \ {0} /\ new \notin DOMAIN s.heap
             /\ DOMAIN t.heap = DOMAIN s.heap \cup {new} /\ t.heap[new] = n
             /\ \A b \in DOMAIN s.heap : t.heap[b] = s.heap[b]
             /\ t.total = SumOf(t.heap, DOMAIN t.heap)
             /\ t.small = s.small /\ t.large = s.large /\ t.objects = s.objects
             /\ t.exited = s.exited /\ t.last_rowsperchunk = s.last_rowsperchunk
<1> DEFINE t   == Memory!Get(s, n)
           new == Memory!NewBlock(s)
           D   == DOMAIN s.heap
           h   == [b \in D \cup {new} |-> IF b = new THEN n ELSE s.heap[b]]
<1>1. new \in Nat \ {0} /\ new \notin D
  BY NewBlockIs
<1>2. t = [s EXCEPT !.heap = h, !.total = s.total + n]
  BY DEF Memory!Get
<1>3. s.heap \in [D -> Nat] /\ D \subseteq Nat \ {0} /\ s.total \in Int
  BY HeapIs DEF State
<1>4. h \in [D \cup {new} -> Nat]
  BY <1>3
<1>5. h \in Heaps
  <2>1. D \cup {new} \in SUBSET (Nat \ {0})
    BY <1>1, <1>3
  <2> HIDE DEF D, h, new
  <2>. QED BY <1>4, <2>1 DEF Heaps
<1>6. h[new] = n /\ DOMAIN h = D \cup {new} /\ \A b \in D : h[b] = s.heap[b]
  BY <1>1
<1>7. IsFiniteSet(D \cup {new})
  <2> HIDE DEF D, new
  <2>. QED BY FS_AddElement DEF D
<1>8. SumOf(h, D \cup {new}) = n + s.total
  <2> HIDE DEF h, new
  <2>1. \A b \in D \cup {new} : h[b] \in Int
    BY <1>4
  <2>2. SumOf(h, D \cup {new}) = h[new] + SumOf(h, (D \cup {new}) \ {new})
    <3> HIDE DEF D
    <3>. QED BY <1>7, <2>1, SumAdds
  <2>3. (D \cup {new}) \ {new} = D
    BY <1>1
  <2>4. SumOf(s.heap, D) = SumOf(h, D)
    <3>1. \A b \in D : s.heap[b] \in Int /\ h[b] = s.heap[b]
      BY <1>3, <1>6
    <3>. QED BY <3>1, SumSame
  <2>. QED BY <1>6, <2>2, <2>3, <2>4
<1> HIDE DEF h, new, D, t
<1>9. /\ t.heap = h /\ t.total = s.total + n /\ t.small = s.small /\ t.large = s.large
      /\ t.objects = s.objects /\ t.exited = s.exited
      /\ t.last_rowsperchunk = s.last_rowsperchunk /\ t \in State
  <2>1. s.total + n \in Int
    BY <1>3
  <2>2. t = [s EXCEPT !.heap = h, !.total = s.total + n]
    BY <1>2, Zenon
  <2>3. h \in Heaps
    BY <1>5, Zenon
  <2>4. s \in State
    OBVIOUS
  <2> DEFINE i == s.total + n
  <2>5. t = [s EXCEPT !.heap = h, !.total = i] /\ i \in Int
    BY <2>1, <2>2, Zenon
  <2> HIDE DEF i
  <2>6. /\ t.heap = h /\ t.total = i /\ t.small = s.small /\ t.large = s.large
        /\ t.objects = s.objects /\ t.exited = s.exited
        /\ t.last_rowsperchunk = s.last_rowsperchunk
    BY <2>4, <2>5 DEF State
  <2>7. t \in State
    BY <2>3, <2>4, <2>5 DEF State
  <2>. QED BY <2>6, <2>7 DEF i
<1>. QED BY <1>1, <1>3, <1>6, <1>7, <1>8, <1>9 DEF t, new, D

\* Quotients by ALIGN.
LEMMA AlignDivides ==
  ASSUME Memory!MemoryAssumption
  PROVE  \A a \in Int : /\ a \div ALIGN \in Int /\ a % ALIGN \in Int
                        /\ a = ALIGN * (a \div ALIGN) + (a % ALIGN)
                        /\ 0 <= a % ALIGN /\ a % ALIGN < ALIGN
<1>1. ALIGN \in Int /\ ALIGN > 0
  BY DEF Memory!MemoryAssumption
<1> SUFFICES ASSUME NEW a \in Int
             PROVE  /\ a \div ALIGN \in Int /\ a % ALIGN \in Int
                    /\ a = ALIGN * (a \div ALIGN) + (a % ALIGN)
                    /\ 0 <= a % ALIGN /\ a % ALIGN < ALIGN
  OBVIOUS
<1>. QED BY <1>1, Division

\* What a block holds is rounded up, and still fits where the object does.
LEMMA RoundUpIs ==
  ASSUME Memory!MemoryAssumption, NEW n \in Nat \ {0}, n <= MAX_ALLOC_CHUNK - HDR
  PROVE  LET r == Memory!RoundUp(n)
         IN  r \in Nat /\ n <= r /\ r <= MAX_ALLOC_CHUNK - HDR /\ r % ALIGN = 0
<1> DEFINE q == (n + ALIGN - 1) \div ALIGN
           u == (n + ALIGN - 1) % ALIGN
           h == HDR \div ALIGN
           c == MAX_ALLOC_CHUNK \div ALIGN
<1>1. /\ ALIGN \in Nat \ {0} /\ HDR \in Nat \ {0} /\ MAX_ALLOC_CHUNK \in Nat
      /\ HDR % ALIGN = 0 /\ MAX_ALLOC_CHUNK % ALIGN = 0
  BY DEF Memory!MemoryAssumption
<1>2. /\ q \in Int /\ u \in Int /\ n + ALIGN - 1 = ALIGN * q + u /\ 0 <= u /\ u < ALIGN
      /\ h \in Int /\ HDR = ALIGN * h + (HDR % ALIGN)
      /\ c \in Int /\ MAX_ALLOC_CHUNK = ALIGN * c + (MAX_ALLOC_CHUNK % ALIGN)
  <2>1. n + ALIGN - 1 \in Int /\ HDR \in Int /\ MAX_ALLOC_CHUNK \in Int
    BY <1>1
  <2>2. /\ q \in Int /\ u \in Int /\ n + ALIGN - 1 = ALIGN * q + u /\ 0 <= u /\ u < ALIGN
    BY <2>1, AlignDivides
  <2>3. h \in Int /\ HDR = ALIGN * h + (HDR % ALIGN)
    BY <2>1, AlignDivides
  <2>4. c \in Int /\ MAX_ALLOC_CHUNK = ALIGN * c + (MAX_ALLOC_CHUNK % ALIGN)
    BY <2>1, AlignDivides
  <2>. QED BY <2>2, <2>3, <2>4
<1>3. Memory!RoundUp(n) = q * ALIGN /\ q * ALIGN = ALIGN * q /\ ALIGN * q \in Int
  BY <1>1, <1>2 DEF Memory!RoundUp
<1> HIDE DEF q, u, h, c
<1>4. ALIGN * q >= n /\ ALIGN * q >= 0
  BY <1>1, <1>2, <1>3
<1>5. ALIGN * q <= MAX_ALLOC_CHUNK - HDR
  <2>1. ALIGN * (c - h) = ALIGN * c - ALIGN * h /\ ALIGN * c \in Int /\ ALIGN * h \in Int
    BY <1>1, <1>2
  <2>2. MAX_ALLOC_CHUNK - HDR = ALIGN * (c - h)
    BY <1>1, <1>2, <2>1
  <2>3. q >= c - h + 1 => ALIGN * (c - h + 1) <= ALIGN * q
    BY <1>1, <1>2, Monotone
  <2>4. ALIGN * (c - h + 1) = ALIGN * (c - h) + ALIGN
    BY <1>1, <1>2
  <2>5. q <= c - h => ALIGN * q <= ALIGN * (c - h)
    BY <1>1, <1>2, Monotone
  <2>. QED BY <1>1, <1>2, <1>3, <2>1, <2>2, <2>3, <2>4, <2>5
<1>6. (ALIGN * q) % ALIGN = 0
  <2> DEFINE a == ALIGN * q
  <2>1. a = ALIGN * q + 0 /\ a \in Int
    BY <1>3
  <2> HIDE DEF a
  <2>2. a % ALIGN = 0
    <3>1. q \in Int /\ ALIGN \in Int /\ ALIGN > 0
      BY <1>1, <1>2
    <3>. QED BY <2>1, <3>1, Quotient
  <2>. QED BY <2>2 DEF a
<1>. QED BY <1>1, <1>3, <1>4, <1>5, <1>6

\* Multiples of ALIGN add up to one.
LEMMA Aligned ==
  ASSUME Memory!MemoryAssumption, NEW a \in Nat, NEW b \in Nat,
         a % ALIGN = 0, b % ALIGN = 0
  PROVE  (a + b) % ALIGN = 0
<1> DEFINE i == a \div ALIGN
           j == b \div ALIGN
<1>1. ALIGN \in Nat \ {0}
  BY DEF Memory!MemoryAssumption
<1>2. i \in Int /\ j \in Int /\ a = ALIGN * i /\ b = ALIGN * j
  <2>1. a \in Int /\ b \in Int
    OBVIOUS
  <2>2. /\ i \in Int /\ a = ALIGN * i + (a % ALIGN)
        /\ j \in Int /\ b = ALIGN * j + (b % ALIGN)
    BY <2>1, AlignDivides, Zenon
  <2>3. a % ALIGN = 0 /\ b % ALIGN = 0
    OBVIOUS
  <2> HIDE DEF i, j
  <2>4. ALIGN * i \in Int /\ ALIGN * j \in Int
    BY <1>1, <2>2
  <2>5. \A k \in Int : k + 0 = k
    OBVIOUS
  <2>6. a = ALIGN * i + 0 /\ b = ALIGN * j + 0
    BY <2>2, <2>3
  <2>. QED BY <2>2, <2>4, <2>5, <2>6
<1> HIDE DEF i, j
<1>3. a + b = ALIGN * (i + j) + 0 /\ a + b \in Int /\ i + j \in Int
  <2>1. ALIGN * (i + j) = ALIGN * i + ALIGN * j /\ ALIGN * i \in Int /\ ALIGN * j \in Int
    BY <1>1, <1>2
  <2>2. i + j \in Int /\ a + b \in Int /\ a + b = ALIGN * (i + j)
    BY <1>2, <2>1
  <2>. QED BY <2>2
<1> DEFINE c == a + b
           k == i + j
<1>4. c = ALIGN * k + 0 /\ c \in Int /\ k \in Int
  BY <1>3
<1> HIDE DEF c, k
<1>5. c % ALIGN = 0
  BY <1>1, <1>4, Quotient
<1>. QED BY <1>5 DEF c

Taken(old, bytes) ==
  [block |-> old.block, used |-> old.used + bytes, left |-> old.left - bytes]
TakenObject(old, pool, bytes) ==
  [block |-> old.block, pool |-> pool, from |-> HDR + old.used, bytes |-> bytes,
   row |-> FALSE]

\* An object takes the first bytes that are left in its pool (alloc_small).
LEMMA TakeFromIs ==
  ASSUME Memory!MemoryAssumption, NEW s \in State, NEW pool \in Memory!Pools,
         NEW k \in DOMAIN s.small[pool], NEW bytes \in Nat,
         bytes <= s.small[pool][k].left
  PROVE  LET t   == Memory!TakeFrom(s, pool, k, bytes)
             old == s.small[pool][k]
         IN  /\ t \in State /\ t.heap = s.heap /\ t.total = s.total /\ t.large = s.large
             /\ t.exited = s.exited /\ t.objects = s.objects \cup {TakenObject(old, pool, bytes)}
             /\ DOMAIN t.small[pool] = DOMAIN s.small[pool]
             /\ t.small[pool][k] = Taken(old, bytes)
             /\ \A l \in DOMAIN s.small[pool] : l # k => t.small[pool][l] = s.small[pool][l]
             /\ \A p \in Memory!Pools : p # pool => t.small[p] = s.small[p]
<1> DEFINE t   == Memory!TakeFrom(s, pool, k, bytes)
           q   == s.small[pool]
           old == q[k]
           r   == [q EXCEPT ![k] = Taken(old, bytes)]
           small == [s.small EXCEPT ![pool] = r]
           objects == s.objects \cup {TakenObject(old, pool, bytes)}
<1>1. HDR \in Nat
  BY DEF Memory!MemoryAssumption
<1>2. s.small \in [Memory!Pools -> Seq(PoolRec)] /\ q \in Seq(PoolRec) /\ old \in PoolRec
  BY DEF State
<1>3. Taken(old, bytes) \in PoolRec /\ TakenObject(old, pool, bytes) \in Object
  <2>1. old.block \in Nat /\ old.used \in Nat /\ old.left \in Nat /\ bytes <= old.left
    BY <1>2 DEF PoolRec
  <2> HIDE DEF old
  <2>2. old.used + bytes \in Nat /\ old.left - bytes \in Nat /\ HDR + old.used \in Nat
    BY <1>1, <2>1
  <2>. QED BY <2>1, <2>2 DEF Taken, TakenObject, PoolRec, Object
<1>4. r \in Seq(PoolRec)
  <2> DEFINE new == Taken(old, bytes)
  <2>1. r = [q EXCEPT ![k] = new] /\ new \in PoolRec /\ q \in Seq(PoolRec) /\ k \in DOMAIN q
    BY <1>2, <1>3
  <2> HIDE DEF q, new, r
  <2>. QED BY <2>1, ExceptSeq
<1>5. /\ DOMAIN r = DOMAIN q /\ r[k] = Taken(old, bytes)
      /\ \A l \in DOMAIN q : l # k => r[l] = q[l]
  OBVIOUS
<1>6. Taken(old, bytes) = [old EXCEPT !.used = old.used + bytes, !.left = old.left - bytes]
  <2> DEFINE u == old.used + bytes
             l == old.left - bytes
  <2> HIDE DEF old, u, l
  <2> DEFINE e == [old EXCEPT !.used = u, !.left = l]
  <2>1. u \in Nat /\ l \in Nat
    BY <1>3 DEF u, l, Taken, PoolRec
  <2>2. e \in PoolRec /\ e.block = old.block /\ e.used = u /\ e.left = l
    BY <1>2, <2>1 DEF PoolRec
  <2>3. e = [block |-> e.block, used |-> e.used, left |-> e.left]
    <3> HIDE DEF e
    <3>. QED BY <2>2 DEF PoolRec
  <2>4. e = [block |-> old.block, used |-> u, left |-> l]
    BY <2>2, <2>3
  <2>. QED BY <2>4 DEF u, l, Taken
<1>7. t = [s EXCEPT !.small = small, !.objects = objects]
  BY <1>2, <1>6 DEF Memory!TakeFrom, TakenObject, State
<1>8. small \in [Memory!Pools -> Seq(PoolRec)] /\ small[pool] = r
      /\ \A p \in Memory!Pools : p # pool => small[p] = s.small[p]
  BY <1>2, <1>4
<1>9. objects \in SUBSET Object
  BY <1>3 DEF State
<1> HIDE DEF t, q, old, r, small, objects
<1>10. /\ t.heap = s.heap /\ t.total = s.total /\ t.large = s.large
       /\ t.exited = s.exited /\ t.objects = objects /\ t.small = small
  BY <1>7 DEF State
<1>11. t \in State
  BY <1>7, <1>8, <1>9 DEF State
<1>. QED BY <1>5, <1>8, <1>10, <1>11 DEF t, q, old, objects

\* The pools of a lifetime, by their places.
LEMMA PoolsAre ==
  \A s, p : Memory!PoolsOf(s, p) = {s.small[p][k] : k \in DOMAIN s.small[p]}
                                   \cup {s.large[p][k] : k \in DOMAIN s.large[p]}
BY DEF Memory!PoolsOf, Memory!Range

\* A block that is added, and the objects in it.
LEMMA AddsBlock ==
  ASSUME Memory!MemoryAssumption, NEW s, Kept(s), NEW t \in State, t.exited = FALSE,
         NEW pool \in Memory!Pools, NEW new \in PoolRec, NEW O,
         IsFiniteSet(DOMAIN t.heap), t.total = SumOf(t.heap, DOMAIN t.heap),
         new.block \notin DOMAIN s.heap, DOMAIN t.heap = DOMAIN s.heap \cup {new.block},
         \A b \in DOMAIN s.heap : t.heap[b] = s.heap[b],
         t.heap[new.block] = new.used + new.left + HDR,
         t.heap[new.block] <= MAX_ALLOC_CHUNK, new.used % ALIGN = 0,
         \A p \in Memory!Pools : Memory!PoolsOf(t, p) =
           IF p = pool THEN Memory!PoolsOf(s, p) \cup {new} ELSE Memory!PoolsOf(s, p),
         SmallsApart(t), t.objects = s.objects \cup O,
         \A o \in O : /\ o.block = new.block /\ o.pool = pool /\ HDR <= o.from
                      /\ o.from + o.bytes <= HDR + new.used /\ (o.row \/ o.from % ALIGN = 0),
         \A o, q \in O : Apart(o, q)
  PROVE  Kept(t)
<1>1. /\ s \in State /\ 1 \in DOMAIN s.heap /\ BlocksInv(s) /\ ObjectsInv(s)
  BY DEF Kept
<1>2. \A p \in Memory!Pools : \A q \in Memory!PoolsOf(t, p) :
        q \in Memory!PoolsOf(s, p) \/ (p = pool /\ q = new)
  OBVIOUS
<1>3. \A p \in Memory!Pools : \A q \in Memory!PoolsOf(s, p) :
        q \in Memory!PoolsOf(t, p) /\ q.block \in DOMAIN s.heap /\ q.block # new.block
  BY <1>1 DEF BlocksInv
<1>4. new \in Memory!PoolsOf(t, pool)
  OBVIOUS
<1>5. BlocksInv(t)
  <2>1. ASSUME NEW p \in Memory!Pools, NEW q \in Memory!PoolsOf(t, p)
        PROVE  /\ q.block \in DOMAIN t.heap /\ q.block # 1
               /\ t.heap[q.block] = q.used + q.left + HDR
               /\ t.heap[q.block] <= MAX_ALLOC_CHUNK /\ q.used % ALIGN = 0
    <3>1. CASE q \in Memory!PoolsOf(s, p)
      BY <1>1, <3>1 DEF BlocksInv
    <3>2. CASE q = new
      BY <1>1, <3>2
    <3>. QED BY <1>2, <2>1, <3>1, <3>2
  <2>2. ASSUME NEW p \in Memory!Pools, NEW r \in Memory!Pools,
               NEW q \in Memory!PoolsOf(t, p), NEW o \in Memory!PoolsOf(t, r),
               q.block = o.block
        PROVE  p = r /\ q = o
    <3>1. CASE q \in Memory!PoolsOf(s, p) /\ o \in Memory!PoolsOf(s, r)
      BY <1>1, <2>2, <3>1 DEF BlocksInv
    <3>2. CASE q \notin Memory!PoolsOf(s, p) \/ o \notin Memory!PoolsOf(s, r)
      <4>1. (q \in Memory!PoolsOf(s, p) \/ (p = pool /\ q = new))
            /\ (o \in Memory!PoolsOf(s, r) \/ (r = pool /\ o = new))
        BY <1>2
      <4>. QED BY <1>3, <2>2, <3>2, <4>1
    <3>. QED BY <3>1, <3>2
  <2>3. ASSUME NEW b \in DOMAIN t.heap, b # 1
        PROVE  \E p \in Memory!Pools : \E q \in Memory!PoolsOf(t, p) : q.block = b
    <3>1. CASE b \in DOMAIN s.heap
      <4>1. PICK p \in Memory!Pools : \E q \in Memory!PoolsOf(s, p) : q.block = b
        BY <1>1, <2>3, <3>1 DEF BlocksInv
      <4>. QED BY <1>3, <4>1
    <3>2. CASE b = new.block
      BY <1>4, <3>2
    <3>. QED BY <3>1, <3>2
  <2>. QED BY <2>1, <2>2, <2>3 DEF BlocksInv
<1>6. ObjectsInv(t)
  <2>0. \A o \in s.objects : o.pool \in Memory!Pools /\ o \in Object
    BY <1>1 DEF State, Object
  <2>1. ASSUME NEW o \in t.objects
        PROVE  /\ \E q \in Memory!PoolsOf(t, o.pool) :
                    q.block = o.block /\ HDR <= o.from /\ o.from + o.bytes <= HDR + q.used
               /\ o.row \/ o.from % ALIGN = 0
    <3>1. CASE o \in s.objects
      BY <1>1, <1>3, <2>0, <3>1 DEF ObjectsInv
    <3>2. CASE o \in O
      BY <1>4, <3>2
    <3>. QED BY <3>1, <3>2
  <2>2. ASSUME NEW o \in s.objects PROVE o.block # new.block
    BY <1>1, <1>3, <2>0 DEF ObjectsInv
  <2>3. ASSUME NEW o \in t.objects, NEW q \in t.objects PROVE Apart(o, q)
    <3>1. CASE o \in s.objects /\ q \in s.objects
      BY <1>1, <3>1 DEF ObjectsInv
    <3>2. CASE o \in O /\ q \in O
      BY <3>2
    <3>3. CASE (o \in s.objects /\ q \in O) \/ (o \in O /\ q \in s.objects)
      BY <2>2, <3>3 DEF Apart
    <3>. QED BY <3>1, <3>2, <3>3
  <2>. QED BY <2>1, <2>3 DEF ObjectsInv
<1>. QED BY <1>1, <1>5, <1>6 DEF Kept

\* What a sequence holds with an element behind it,
LEMMA AppendIs ==
  ASSUME NEW S, NEW q \in Seq(S), NEW e \in S
  PROVE  /\ Append(q, e) \in Seq(S) /\ Len(q) + 1 \notin DOMAIN q
         /\ DOMAIN Append(q, e) = DOMAIN q \cup {Len(q) + 1}
         /\ Append(q, e)[Len(q) + 1] = e
         /\ \A k \in DOMAIN q : Append(q, e)[k] = q[k]
OBVIOUS

\* A new pool for small objects,
LEMMA NewPoolKeeps ==
  ASSUME Memory!MemoryAssumption, NEW s, Kept(s), NEW pool \in Memory!Pools,
         NEW bytes \in Nat, NEW slop \in Nat, bytes + HDR + slop <= MAX_ALLOC_CHUNK
  PROVE  LET t == Memory!NewPool(s, pool, bytes, slop)
             k == Len(s.small[pool]) + 1
         IN  /\ Kept(t) /\ k \in DOMAIN t.small[pool] /\ t.small[pool][k].left = bytes + slop
<1> DEFINE n == bytes + HDR + slop
           g == Memory!Get(s, n)
           b == Memory!NewBlock(s)
           new == [block |-> b, used |-> 0, left |-> bytes + slop]
           t == Memory!NewPool(s, pool, bytes, slop)
           q == s.small[pool]
           r == Append(q, new)
           small == [s.small EXCEPT ![pool] = r]
<1>1. /\ s \in State /\ IsFiniteSet(DOMAIN s.heap) /\ s.exited = FALSE
      /\ s.total = SumOf(s.heap, DOMAIN s.heap) /\ BlocksInv(s)
  BY DEF Kept
<1>2. HDR \in Nat \ {0} /\ n \in Nat /\ ALIGN \in Nat \ {0}
  BY DEF Memory!MemoryAssumption
<1>3. /\ g \in State /\ IsFiniteSet(DOMAIN g.heap)
      /\ b \in Nat \ {0} /\ b \notin DOMAIN s.heap
      /\ DOMAIN g.heap = DOMAIN s.heap \cup {b} /\ g.heap[b] = n
      /\ \A c \in DOMAIN s.heap : g.heap[c] = s.heap[c]
      /\ g.total = SumOf(g.heap, DOMAIN g.heap)
      /\ g.small = s.small /\ g.large = s.large /\ g.objects = s.objects
      /\ g.exited = s.exited
  <2> HIDE DEF n
  <2>. QED BY <1>1, <1>2, GetIs
<1>4. new \in PoolRec /\ new.block = b /\ new.used = 0 /\ new.left = bytes + slop
  BY <1>3 DEF PoolRec
<1>5. s.small \in [Memory!Pools -> Seq(PoolRec)] /\ q \in Seq(PoolRec)
  BY <1>1 DEF State
<1>6. /\ r \in Seq(PoolRec) /\ Len(q) + 1 \notin DOMAIN q
      /\ DOMAIN r = DOMAIN q \cup {Len(q) + 1} /\ r[Len(q) + 1] = new
      /\ \A k \in DOMAIN q : r[k] = q[k]
  <2> HIDE DEF new, q
  <2>. QED BY <1>4, <1>5, AppendIs
<1>7. t = [g EXCEPT !.small = small]
  <2>1. t = [g EXCEPT !.small = [g.small EXCEPT ![pool] = Append(g.small[pool], new)]]
    BY DEF Memory!NewPool
  <2> HIDE DEF g
  <2>. QED BY <1>3, <2>1
<1> HIDE DEF r, t, g, q, new, b, n
<1>8. small \in [Memory!Pools -> Seq(PoolRec)] /\ small[pool] = r
      /\ \A p \in Memory!Pools : p # pool => small[p] = s.small[p]
  BY <1>5, <1>6
<1> HIDE DEF small
<1>9. /\ t.heap = g.heap /\ t.total = g.total /\ t.large = s.large /\ t.exited = FALSE
      /\ t.objects = s.objects /\ t.small = small /\ t \in State
  BY <1>1, <1>3, <1>7, <1>8 DEF State
<1>10. \A p \in Memory!Pools : Memory!PoolsOf(t, p) =
         IF p = pool THEN Memory!PoolsOf(s, p) \cup {new} ELSE Memory!PoolsOf(s, p)
  <2> SUFFICES ASSUME NEW p \in Memory!Pools
               PROVE  Memory!PoolsOf(t, p) =
                        IF p = pool THEN Memory!PoolsOf(s, p) \cup {new}
                                    ELSE Memory!PoolsOf(s, p)
    OBVIOUS
  <2>1. CASE p = pool
    <3>1. {t.small[p][k] : k \in DOMAIN t.small[p]} = {q[k] : k \in DOMAIN q} \cup {new}
      BY <1>6, <1>8, <1>9, <2>1
    <3>. QED BY <1>9, <2>1, <3>1, PoolsAre DEF q
  <2>2. CASE p # pool
    BY <1>8, <1>9, <2>2, PoolsAre
  <2>. QED BY <2>1, <2>2
<1>11. SmallsApart(t)
  <2> SUFFICES ASSUME NEW p \in Memory!Pools, NEW k \in DOMAIN t.small[p]
               PROVE  /\ \A l \in DOMAIN t.small[p] :
                           t.small[p][k].block = t.small[p][l].block => k = l
                      /\ \A l \in DOMAIN t.large[p] :
                           t.small[p][k].block # t.large[p][l].block
    BY DEF SmallsApart
  <2>1. SmallsApart(s)
    BY <1>1 DEF BlocksInv
  <2>2. \A o \in Memory!PoolsOf(s, p) : o.block # b
    BY <1>1, <1>3 DEF BlocksInv
  <2>3. /\ \A l \in DOMAIN s.small[p] : s.small[p][l].block # b
        /\ \A l \in DOMAIN s.large[p] : s.large[p][l].block # b
    BY <2>2, PoolsAre
  <2>4. CASE p = pool
    <3>1. /\ DOMAIN t.small[p] = DOMAIN q \cup {Len(q) + 1}
          /\ t.small[p][Len(q) + 1].block = b /\ q = s.small[p]
          /\ \A l \in DOMAIN q : t.small[p][l] = q[l]
      BY <1>4, <1>6, <1>8, <1>9, <2>4 DEF q
    <3>. QED BY <1>9, <2>1, <2>3, <3>1 DEF SmallsApart
  <2>5. CASE p # pool
    BY <1>8, <1>9, <2>1, <2>5 DEF SmallsApart
  <2>. QED BY <2>4, <2>5
<1>12. t.heap[b] = new.used + new.left + HDR /\ t.heap[b] <= MAX_ALLOC_CHUNK
  BY <1>2, <1>3, <1>4, <1>9 DEF n
<1>13. new.used % ALIGN = 0
  BY <1>2, <1>4
<1>14. Kept(t)
  <2> DEFINE O == {}
  <2>1. /\ t.objects = s.objects \cup O /\ \A o, p \in O : Apart(o, p)
        /\ \A o \in O : /\ o.block = new.block /\ o.pool = pool /\ HDR <= o.from
                        /\ o.from + o.bytes <= HDR + new.used
                        /\ (o.row \/ o.from % ALIGN = 0)
    BY <1>9
  <2>2. /\ IsFiniteSet(DOMAIN t.heap) /\ t.total = SumOf(t.heap, DOMAIN t.heap)
        /\ new.block \notin DOMAIN s.heap /\ DOMAIN t.heap = DOMAIN s.heap \cup {new.block}
        /\ \A c \in DOMAIN s.heap : t.heap[c] = s.heap[c]
        /\ t.heap[new.block] = new.used + new.left + HDR
        /\ t.heap[new.block] <= MAX_ALLOC_CHUNK
    BY <1>3, <1>4, <1>9, <1>12
  <2> HIDE DEF O
  <2>. QED BY <1>4, <1>9, <1>10, <1>11, <1>13, <2>1, <2>2, AddsBlock
<1>15. Len(q) + 1 \in DOMAIN t.small[pool] /\ t.small[pool][Len(q) + 1].left = bytes + slop
  BY <1>4, <1>6, <1>8, <1>9
<1>. QED BY <1>14, <1>15 DEF t, q

\* and an object in it, or in an old one, keep the invariant (alloc_small).
LEMMA TakeFromKeeps ==
  ASSUME Memory!MemoryAssumption, NEW s, Kept(s), NEW pool \in Memory!Pools,
         NEW k \in DOMAIN s.small[pool], NEW bytes \in Nat,
         bytes <= s.small[pool][k].left, bytes % ALIGN = 0
  PROVE  Kept(Memory!TakeFrom(s, pool, k, bytes))
<1> DEFINE t   == Memory!TakeFrom(s, pool, k, bytes)
           old == s.small[pool][k]
           new == Taken(old, bytes)
           obj == TakenObject(old, pool, bytes)
<1>1. /\ s \in State /\ IsFiniteSet(DOMAIN s.heap) /\ s.exited = FALSE /\ 1 \in DOMAIN s.heap
      /\ s.total = SumOf(s.heap, DOMAIN s.heap) /\ BlocksInv(s) /\ ObjectsInv(s)
  BY DEF Kept
<1>2. /\ t \in State /\ t.heap = s.heap /\ t.total = s.total /\ t.large = s.large
      /\ t.exited = s.exited /\ t.objects = s.objects \cup {obj}
      /\ DOMAIN t.small[pool] = DOMAIN s.small[pool] /\ t.small[pool][k] = new
      /\ \A l \in DOMAIN s.small[pool] : l # k => t.small[pool][l] = s.small[pool][l]
      /\ \A p \in Memory!Pools : p # pool => t.small[p] = s.small[p]
  BY <1>1, TakeFromIs
<1>3. HDR \in Nat \ {0} /\ HDR % ALIGN = 0
  BY DEF Memory!MemoryAssumption
<1>4. old \in PoolRec /\ old \in Memory!PoolsOf(s, pool)
  <2>1. s.small[pool] \in Seq(PoolRec)
    BY <1>1 DEF State
  <2>2. old \in PoolRec
    BY <2>1
  <2>. QED BY <2>2, PoolsAre
<1>5. old.block \in Nat /\ old.used \in Nat /\ old.left \in Nat /\ bytes <= old.left
  BY <1>4 DEF PoolRec
<1>6. new.block = old.block /\ new.used = old.used + bytes /\ new.left = old.left - bytes
  BY DEF Taken
<1>7. /\ obj.block = old.block /\ obj.pool = pool /\ obj.from = HDR + old.used
      /\ obj.bytes = bytes /\ obj.row = FALSE
  BY DEF TakenObject
<1>8. /\ old.block \in DOMAIN s.heap /\ old.block # 1
      /\ s.heap[old.block] = old.used + old.left + HDR
      /\ s.heap[old.block] <= MAX_ALLOC_CHUNK /\ old.used % ALIGN = 0
  BY <1>1, <1>4 DEF BlocksInv
<1>9. SmallsApart(s)
  BY <1>1 DEF BlocksInv
<1> HIDE DEF t, old, new, obj
<1>10. \A p \in Memory!Pools : \A q \in Memory!PoolsOf(t, p) :
         \/ q \in Memory!PoolsOf(s, p) /\ q # old
         \/ p = pool /\ q = new
  <2> SUFFICES ASSUME NEW p \in Memory!Pools, NEW q \in Memory!PoolsOf(t, p)
               PROVE  \/ q \in Memory!PoolsOf(s, p) /\ q # old
                      \/ p = pool /\ q = new
    OBVIOUS
  <2>1. CASE p # pool
    <3>1. q \in Memory!PoolsOf(s, p)
      BY <1>2, <2>1, PoolsAre
    <3>2. q # old
      BY <1>1, <1>4, <2>1, <3>1 DEF BlocksInv
    <3>. QED BY <3>1, <3>2
  <2>2. CASE p = pool
    <3>1. CASE \E l \in DOMAIN t.small[p] : q = t.small[p][l]
      <4>1. PICK l \in DOMAIN s.small[p] : q = t.small[p][l]
        BY <1>2, <2>2, <3>1
      <4>2. CASE l = k
        BY <1>2, <2>2, <4>1, <4>2
      <4>3. CASE l # k
        <5>1. q = s.small[p][l]
          BY <1>2, <2>2, <4>1, <4>3
        <5>2. s.small[p][l].block # s.small[p][k].block
          BY <1>9, <2>2, <4>3 DEF SmallsApart
        <5>. QED BY <2>2, <5>1, <5>2, PoolsAre DEF old
      <4>. QED BY <4>2, <4>3
    <3>2. CASE \E l \in DOMAIN t.large[p] : q = t.large[p][l]
      <4>1. PICK l \in DOMAIN s.large[p] : q = s.large[p][l]
        BY <1>2, <3>2
      <4>2. s.small[p][k].block # s.large[p][l].block
        BY <1>9, <2>2 DEF SmallsApart
      <4>. QED BY <2>2, <4>1, <4>2, PoolsAre DEF old
    <3>. QED BY <3>1, <3>2, PoolsAre
  <2>. QED BY <2>1, <2>2
<1>11. new \in Memory!PoolsOf(t, pool)
  BY <1>2, PoolsAre
<1>12. \A p \in Memory!Pools : \A q \in Memory!PoolsOf(s, p) :
         q \in Memory!PoolsOf(t, p) \/ (p = pool /\ q = old)
  <2> SUFFICES ASSUME NEW p \in Memory!Pools, NEW q \in Memory!PoolsOf(s, p)
               PROVE  q \in Memory!PoolsOf(t, p) \/ (p = pool /\ q = old)
    OBVIOUS
  <2>1. CASE p # pool
    BY <1>2, <2>1, PoolsAre
  <2>2. CASE p = pool
    <3>1. CASE \E l \in DOMAIN s.small[p] : q = s.small[p][l]
      <4>1. PICK l \in DOMAIN s.small[p] : q = s.small[p][l]
        BY <3>1
      <4>2. l = k => q = old
        BY <2>2, <4>1 DEF old
      <4>3. l # k => l \in DOMAIN t.small[p] /\ q = t.small[p][l]
        BY <1>2, <2>2, <4>1
      <4>. QED BY <2>2, <4>2, <4>3, PoolsAre
    <3>2. CASE \E l \in DOMAIN s.large[p] : q = s.large[p][l]
      BY <1>2, <3>2, PoolsAre
    <3>. QED BY <3>1, <3>2, PoolsAre
  <2>. QED BY <2>1, <2>2
<1>13. BlocksInv(t)
  <2>1. ASSUME NEW p \in Memory!Pools, NEW q \in Memory!PoolsOf(t, p)
        PROVE  /\ q.block \in DOMAIN t.heap /\ q.block # 1
               /\ t.heap[q.block] = q.used + q.left + HDR
               /\ t.heap[q.block] <= MAX_ALLOC_CHUNK /\ q.used % ALIGN = 0
    <3>1. CASE q \in Memory!PoolsOf(s, p)
      BY <1>1, <1>2, <3>1 DEF BlocksInv
    <3>2. CASE q = new
      <4>1. new.used % ALIGN = 0
        BY <1>5, <1>6, <1>8, Aligned
      <4>2. new.used + new.left + HDR = old.used + old.left + HDR
        BY <1>3, <1>5, <1>6
      <4>. QED BY <1>2, <1>6, <1>8, <3>2, <4>1, <4>2
    <3>. QED BY <1>10, <3>1, <3>2
  <2>2. ASSUME NEW p \in Memory!Pools, NEW r \in Memory!Pools,
               NEW q \in Memory!PoolsOf(t, p), NEW o \in Memory!PoolsOf(t, r),
               q.block = o.block
        PROVE  p = r /\ q = o
    <3>1. /\ \/ q \in Memory!PoolsOf(s, p) /\ q # old
             \/ p = pool /\ q = new
          /\ \/ o \in Memory!PoolsOf(s, r) /\ o # old
             \/ r = pool /\ o = new
      BY <1>10
    <3>2. CASE q \in Memory!PoolsOf(s, p) /\ o \in Memory!PoolsOf(s, r)
      BY <1>1, <2>2, <3>2 DEF BlocksInv
    <3>3. CASE q = new /\ o \in Memory!PoolsOf(s, r) /\ o # old
      <4>1. o = old
        BY <1>1, <1>4, <1>6, <2>2, <3>3 DEF BlocksInv
      <4>. QED BY <3>3, <4>1
    <3>4. CASE o = new /\ q \in Memory!PoolsOf(s, p) /\ q # old
      <4>1. q = old
        BY <1>1, <1>4, <1>6, <2>2, <3>4 DEF BlocksInv
      <4>. QED BY <3>4, <4>1
    <3>. QED BY <3>1, <3>2, <3>3, <3>4
  <2>3. ASSUME NEW b \in DOMAIN t.heap, b # 1
        PROVE  \E p \in Memory!Pools : \E q \in Memory!PoolsOf(t, p) : q.block = b
    <3>1. PICK p \in Memory!Pools : \E q \in Memory!PoolsOf(s, p) : q.block = b
      BY <1>1, <1>2, <2>3 DEF BlocksInv
    <3>2. PICK q \in Memory!PoolsOf(s, p) : q.block = b
      BY <3>1
    <3>. QED BY <1>6, <1>11, <1>12, <3>2
  <2>4. SmallsApart(t)
    <3> SUFFICES ASSUME NEW p \in Memory!Pools, NEW i \in DOMAIN t.small[p]
                 PROVE  /\ \A l \in DOMAIN t.small[p] :
                             t.small[p][i].block = t.small[p][l].block => i = l
                        /\ \A l \in DOMAIN t.large[p] :
                             t.small[p][i].block # t.large[p][l].block
      BY DEF SmallsApart
    <3>1. /\ DOMAIN t.small[p] = DOMAIN s.small[p]
          /\ \A l \in DOMAIN s.small[p] : t.small[p][l].block = s.small[p][l].block
      BY <1>2, <1>6 DEF old
    <3>. QED BY <1>2, <1>9, <3>1 DEF SmallsApart
  <2>. QED BY <2>1, <2>2, <2>3, <2>4 DEF BlocksInv
<1>14. ObjectsInv(t)
  <2>0. \A o \in s.objects : o.pool \in Memory!Pools /\ o.from \in Nat /\ o.bytes \in Nat
    BY <1>1 DEF State, Object
  <2>1. ASSUME NEW o \in s.objects
        PROVE  /\ \E q \in Memory!PoolsOf(t, o.pool) :
                    q.block = o.block /\ HDR <= o.from /\ o.from + o.bytes <= HDR + q.used
               /\ o.row \/ o.from % ALIGN = 0
               /\ Apart(o, obj) /\ Apart(obj, o)
    <3>1. PICK q \in Memory!PoolsOf(s, o.pool) :
            q.block = o.block /\ HDR <= o.from /\ o.from + o.bytes <= HDR + q.used
      BY <1>1 DEF ObjectsInv
    <3>2. o.row \/ o.from % ALIGN = 0
      BY <1>1 DEF ObjectsInv
    <3>3. CASE q = old
      <4>1. o.pool = pool
        BY <1>1, <1>4, <2>0, <3>3 DEF BlocksInv
      <4>2. o.from + o.bytes <= HDR + new.used
        BY <1>3, <1>5, <1>6, <2>0, <3>1, <3>3
      <4>3. o.from + o.bytes <= obj.from
        BY <1>7, <3>1, <3>3
      <4>. QED BY <1>6, <1>11, <3>1, <3>2, <3>3, <4>1, <4>2, <4>3 DEF Apart
    <3>4. CASE q # old
      <4>1. q \in Memory!PoolsOf(t, o.pool)
        BY <1>12, <2>0, <3>4
      <4>2. q.block # old.block
        BY <1>1, <1>4, <2>0, <3>4 DEF BlocksInv
      <4>. QED BY <1>7, <3>1, <3>2, <4>1, <4>2 DEF Apart
    <3>. QED BY <3>3, <3>4
  <2>2. /\ \E q \in Memory!PoolsOf(t, obj.pool) :
             q.block = obj.block /\ HDR <= obj.from /\ obj.from + obj.bytes <= HDR + q.used
        /\ obj.from % ALIGN = 0 /\ Apart(obj, obj)
    <3>1. (HDR + old.used) % ALIGN = 0
      BY <1>3, <1>5, <1>8, Aligned
    <3>2. HDR <= obj.from /\ obj.from + obj.bytes <= HDR + new.used
      BY <1>3, <1>5, <1>6, <1>7
    <3>. QED BY <1>6, <1>7, <1>11, <3>1, <3>2 DEF Apart
  <2>3. \A o, q \in s.objects : Apart(o, q)
    BY <1>1 DEF ObjectsInv
  <2>. QED BY <1>2, <2>1, <2>2, <2>3 DEF ObjectsInv
<1>. QED BY <1>1, <1>2, <1>13, <1>14 DEF Kept, t

Gone == [Memory!Empty EXCEPT !.exited = TRUE]
Good(s) == s = Gone \/ Kept(s)

\* An error of the library leaves nothing.
LEMMA GoneIs ==
  /\ Gone \in State /\ Gone.exited = TRUE /\ Gone.objects = {}
  /\ Gone.total = 0 /\ Gone.heap = << >> /\ \A s : Memory!Exit(s) = Gone
<1>1. Memory!Empty.small \in [Memory!Pools -> Seq(PoolRec)]
  BY DEF Memory!Empty
<1>2. Memory!Empty.large \in [Memory!Pools -> Seq(PoolRec)]
  BY DEF Memory!Empty
<1>3. << >> \in Heaps
  <2>1. << >> \in [{} -> Nat] /\ {} \in SUBSET (Nat \ {0})
    OBVIOUS
  <2>. QED BY <2>1 DEF Heaps
<1>4. \A s : Memory!Exit(s) = Gone
  BY Zenon DEF Memory!Exit, Gone
<1>5. /\ Gone.small = Memory!Empty.small /\ Gone.large = Memory!Empty.large
      /\ Gone.exited = TRUE /\ Gone.objects = {} /\ Gone.total = 0 /\ Gone.heap = << >>
      /\ Gone.last_rowsperchunk = 0
  BY DEF Gone, Memory!Empty
<1>6. Gone \in State
  <2>1. Memory!Empty \in State
    <3>1. {} \in SUBSET Object /\ 0 \in Int /\ FALSE \in BOOLEAN
      OBVIOUS
    <3> DEFINE small == Memory!Empty.small
               large == Memory!Empty.large
    <3>2. Memory!Empty = [small |-> small, large |-> large, total |-> 0,
                          last_rowsperchunk |-> 0, heap |-> << >>, objects |-> {},
                          exited |-> FALSE]
      BY DEF Memory!Empty
    <3>3. small \in [Memory!Pools -> Seq(PoolRec)] /\ large \in [Memory!Pools -> Seq(PoolRec)]
      BY <1>1, <1>2
    <3> HIDE DEF small, large
    <3>. QED BY <1>3, <3>1, <3>2, <3>3 DEF State
  <2>2. TRUE \in BOOLEAN
    OBVIOUS
  <2>. QED BY <2>1, <2>2 DEF Gone, State
<1>. QED BY <1>4, <1>5, <1>6

\* So does a small object, whatever malloc() gave (alloc_small),
LEMMA SmallKeeps ==
  ASSUME Memory!MemoryAssumption, NEW s, Good(s), NEW pool \in Memory!Pools,
         NEW size \in Nat \ {0}
  PROVE  \A t \in Memory!alloc_small(s, pool, size) : Good(t)
<1> DEFINE bytes == Memory!RoundUp(size)
           fits  == Memory!Fitting(s, pool, bytes)
           all   == Memory!Tries(Memory!Slop(s, pool, bytes))
<1>1. CASE s.exited \/ size > MAX_ALLOC_CHUNK - HDR
  <2>1. Memory!alloc_small(s, pool, size) = {Gone}
    BY <1>1, GoneIs DEF Memory!alloc_small
  <2>. QED BY <2>1 DEF Good
<1>2. CASE ~(s.exited \/ size > MAX_ALLOC_CHUNK - HDR)
  <2>1. Kept(s) /\ s \in State
    BY <1>2, GoneIs DEF Good, Kept
  <2>2. HDR \in Nat \ {0} /\ MAX_ALLOC_CHUNK \in Nat /\ MIN_SLOP \in Nat
    BY DEF Memory!MemoryAssumption
  <2>3. bytes \in Nat /\ bytes <= MAX_ALLOC_CHUNK - HDR /\ bytes % ALIGN = 0
    <3>1. size <= MAX_ALLOC_CHUNK - HDR
      BY <1>2, <2>2
    <3>. QED BY <3>1, RoundUpIs
  <2>4. Memory!alloc_small(s, pool, size) =
          IF fits # {} THEN {Memory!TakeFrom(s, pool, Memory!Min(fits), bytes)}
          ELSE {Memory!Exit(s)} \cup
               {Memory!TakeFrom(Memory!NewPool(s, pool, bytes, slop), pool,
                                Len(s.small[pool]) + 1, bytes) : slop \in all}
    BY <1>2, Zenon DEF Memory!alloc_small
  <2> HIDE DEF bytes
  <2>5. CASE fits # {}
    <3>1. fits \in SUBSET Nat
      BY <2>1 DEF Memory!Fitting, State
    <3>2. Memory!Min(fits) \in fits
      <4>1. \E n \in fits : \A k \in fits : n <= k
        <5> HIDE DEF fits
        <5>. QED BY <2>5, <3>1, Least
      <4> HIDE DEF fits
      <4>. QED BY <4>1, Zenon DEF Memory!Min
    <3>3. /\ Memory!Min(fits) \in DOMAIN s.small[pool]
          /\ bytes <= s.small[pool][Memory!Min(fits)].left
      <4> DEFINE k == Memory!Min(fits)
      <4>1. k \in DOMAIN s.small[pool] /\ s.small[pool][k].left >= bytes
        BY <3>2 DEF Memory!Fitting
      <4> HIDE DEF k
      <4>2. s.small[pool][k].left \in Nat
        <5>1. s.small[pool] \in Seq(PoolRec)
          BY <2>1 DEF State
        <5>2. s.small[pool][k] \in PoolRec
          BY <4>1, <5>1
        <5>. QED BY <5>2 DEF PoolRec
      <4>. QED BY <2>3, <4>1, <4>2 DEF k
    <3> DEFINE k == Memory!Min(fits)
    <3>4. k \in DOMAIN s.small[pool] /\ bytes <= s.small[pool][k].left
      BY <3>3
    <3> HIDE DEF k
    <3>5. Kept(Memory!TakeFrom(s, pool, k, bytes))
      BY <2>1, <2>3, <3>4, TakeFromKeeps
    <3>. QED BY <2>4, <2>5, <3>5 DEF k, Good
  <2>6. CASE fits = {}
    <3>1. Memory!Slop(s, pool, bytes) \in Nat
          /\ Memory!Slop(s, pool, bytes) <= MAX_ALLOC_CHUNK - (bytes + HDR)
      <4> DEFINE a == IF s.small[pool] = << >> THEN first_pool_slop[pool]
                                               ELSE extra_pool_slop[pool]
                 c == MAX_ALLOC_CHUNK - (bytes + HDR)
                 S == {a, c}
      <4>1. a \in Nat /\ c \in Nat
        BY <2>2, <2>3 DEF Memory!MemoryAssumption
      <4> HIDE DEF a, c
      <4>2. S \in SUBSET Nat /\ S # {}
        BY <4>1
      <4>3. \E n \in S : \A k \in S : n <= k
        <5> HIDE DEF S
        <5>. QED BY <4>2, Least
      <4>4. Memory!Slop(s, pool, bytes) = Memory!Min(S)
        BY Zenon DEF Memory!Slop, a, c
      <4>5. Memory!Min(S) \in S /\ \A k \in S : Memory!Min(S) <= k
        <5> HIDE DEF S
        <5>. QED BY <4>3, Zenon DEF Memory!Min
      <4>6. Memory!Min(S) \in Nat /\ Memory!Min(S) <= c
        BY <4>2, <4>5
      <4>. QED BY <4>4, <4>6 DEF c
    <3>2. \A slop \in all : slop \in Nat /\ bytes + HDR + slop <= MAX_ALLOC_CHUNK
      <4> DEFINE sl == Memory!Slop(s, pool, bytes)
      <4>1. Memory!Tries(sl) \subseteq 0..sl
        <5> HIDE DEF sl
        <5>. QED BY <2>2, <3>1, TriesAre DEF sl
      <4>2. sl \in Nat /\ sl <= MAX_ALLOC_CHUNK - (bytes + HDR)
        BY <3>1
      <4> HIDE DEF sl
      <4>3. \A slop \in 0..sl : slop \in Nat /\ bytes + HDR + slop <= MAX_ALLOC_CHUNK
        BY <2>2, <2>3, <4>2
      <4>. QED BY <4>1, <4>3 DEF sl
    <3> HIDE DEF all
    <3> DEFINE k == Len(s.small[pool]) + 1
    <3>3. ASSUME NEW slop \in all
          PROVE  Kept(Memory!TakeFrom(Memory!NewPool(s, pool, bytes, slop), pool, k, bytes))
      <4> DEFINE t == Memory!NewPool(s, pool, bytes, slop)
      <4>1. Kept(t) /\ k \in DOMAIN t.small[pool] /\ t.small[pool][k].left = bytes + slop
        BY <2>1, <2>3, <3>2, NewPoolKeeps
      <4>2. bytes <= bytes + slop
        BY <2>3, <3>2
      <4> HIDE DEF t, k
      <4>. QED BY <2>3, <4>1, <4>2, TakeFromKeeps DEF t
    <3>. QED BY <2>4, <2>6, <3>3, GoneIs DEF Good
  <2>. QED BY <2>5, <2>6
<1>. QED BY <1>1, <1>2

\* and with one before it.
LEMMA PrependIs ==
  ASSUME NEW S, NEW q \in Seq(S), NEW e \in S
  PROVE  LET r == <<e>> \o q
         IN  /\ r \in Seq(S) /\ \A l \in DOMAIN q : l + 1 \in DOMAIN r /\ r[l + 1] = q[l]
             /\ 1 \in DOMAIN r /\ r[1] = e
             /\ \A k \in DOMAIN r : k = 1 \/ (k - 1 \in DOMAIN q /\ r[k] = q[k - 1])
<1> DEFINE r == <<e>> \o q
<1>1. r \in Seq(S) /\ Len(r) = Len(q) + 1 /\ r[1] = e /\ \A k \in 1..Len(q) : r[k + 1] = q[k]
  OBVIOUS
<1>2. DOMAIN r = 1..Len(q) + 1 /\ DOMAIN q = 1..Len(q) /\ Len(q) \in Nat
  BY <1>1
<1> HIDE DEF r
<1>3. ASSUME NEW k \in DOMAIN r, k # 1 PROVE k - 1 \in DOMAIN q /\ r[k] = q[k - 1]
  <2>1. k - 1 \in 1..Len(q) /\ (k - 1) + 1 = k
    BY <1>2, <1>3
  <2>2. r[(k - 1) + 1] = q[k - 1]
    BY <1>1, <2>1
  <2>3. k - 1 \in DOMAIN q
    BY <1>2, <2>1
  <2>. QED BY <2>1, <2>2, <2>3
<1>4. ASSUME NEW l \in DOMAIN q PROVE l + 1 \in DOMAIN r /\ r[l + 1] = q[l]
  BY <1>1, <1>2
<1>5. 1 \in DOMAIN r
  BY <1>2
<1>6. /\ r \in Seq(S) /\ \A l \in DOMAIN q : l + 1 \in DOMAIN r /\ r[l + 1] = q[l]
      /\ 1 \in DOMAIN r /\ r[1] = e
      /\ \A k \in DOMAIN r : k = 1 \/ (k - 1 \in DOMAIN q /\ r[k] = q[k - 1])
  BY <1>1, <1>3, <1>4, <1>5
<1>. QED BY <1>6, Zenon DEF r

PartsIn(parts, size) ==
  /\ parts \subseteq Nat \X Nat
  /\ \A a \in parts : a[1] + a[2] <= size
  /\ \A a, b \in parts : a = b \/ a[1] + a[2] <= b[1] \/ b[1] + b[2] <= a[1]

\* An object of its own block, whole or in parts.
LargeObjects(b, pool, parts) ==
  {[block |-> b, pool |-> pool, from |-> HDR + part[1], bytes |-> part[2],
    row |-> part[1] > 0] : part \in parts}

\* The parts of a large object are apart as they were asked for.
LEMMA LargeObjectsAre ==
  ASSUME Memory!MemoryAssumption, NEW b \in Nat, NEW pool \in Memory!Pools,
         NEW size \in Nat, NEW parts, PartsIn(parts, size)
  PROVE  LET O == LargeObjects(b, pool, parts)
         IN  /\ O \subseteq Object /\ \A o, q \in O : Apart(o, q)
             /\ \A o \in O : /\ o.block = b /\ o.pool = pool /\ HDR <= o.from
                             /\ o.from + o.bytes <= HDR + size
                             /\ (o.row \/ o.from % ALIGN = 0)
<1> DEFINE O == LargeObjects(b, pool, parts)
           obj(a) == [block |-> b, pool |-> pool, from |-> HDR + a[1], bytes |-> a[2],
                      row |-> a[1] > 0]
<1>1. HDR \in Nat \ {0} /\ HDR % ALIGN = 0
  BY DEF Memory!MemoryAssumption
<1>2. \A a \in parts : a[1] \in Nat /\ a[2] \in Nat /\ a[1] + a[2] <= size
  BY DEF PartsIn
<1>3. ASSUME NEW a \in parts
      PROVE  /\ obj(a) \in Object /\ obj(a).block = b /\ obj(a).pool = pool
             /\ obj(a).from = HDR + a[1] /\ obj(a).bytes = a[2] /\ HDR <= obj(a).from
             /\ obj(a).from + obj(a).bytes <= HDR + size
             /\ (obj(a).row \/ obj(a).from % ALIGN = 0)
  <2> DEFINE i == a[1]
             j == a[2]
  <2>1. i \in Nat /\ j \in Nat /\ i + j <= size
    BY <1>2
  <2> HIDE DEF i, j
  <2> DEFINE f == HDR + i
             w == i > 0
  <2>2. f \in Nat /\ w \in BOOLEAN /\ HDR <= f /\ f + j <= HDR + size
    BY <1>1, <2>1
  <2>3. w \/ f % ALIGN = 0
    BY <1>1, <2>1
  <2> HIDE DEF f, w
  <2> DEFINE e == [block |-> b, pool |-> pool, from |-> f, bytes |-> j, row |-> w]
  <2>4. e \in Object /\ e.block = b /\ e.pool = pool /\ e.from = f /\ e.bytes = j /\ e.row = w
    BY <2>1, <2>2 DEF Object
  <2>5. e = obj(a)
    BY DEF f, w, i, j
  <2> HIDE DEF e
  <2>. QED BY <2>2, <2>3, <2>4, <2>5 DEF f, i, j
<1>4. \A o \in O : \E a \in parts : o = obj(a)
  BY DEF LargeObjects
<1> HIDE DEF O, obj
<1>5. ASSUME NEW o \in O, NEW q \in O PROVE Apart(o, q)
  <2>1. PICK a \in parts : o = obj(a)
    BY <1>4
  <2>2. PICK c \in parts : q = obj(c)
    BY <1>4
  <2>3. a = c \/ a[1] + a[2] <= c[1] \/ c[1] + c[2] <= a[1]
    BY DEF PartsIn
  <2>. QED BY <1>1, <1>2, <1>3, <2>1, <2>2, <2>3 DEF Apart
<1>6. O \subseteq Object
  BY <1>3, <1>4
<1>7. \A o \in O : /\ o.block = b /\ o.pool = pool /\ HDR <= o.from
                   /\ o.from + o.bytes <= HDR + size
                   /\ (o.row \/ o.from % ALIGN = 0)
  BY <1>3, <1>4
<1>. QED BY <1>5, <1>6, <1>7 DEF O

\* a large one (alloc_large),
LEMMA LargeKeeps ==
  ASSUME Memory!MemoryAssumption, NEW s, Good(s), NEW pool \in Memory!Pools,
         NEW size \in Nat \ {0}, NEW parts, PartsIn(parts, size)
  PROVE  \A t \in Memory!alloc_large(s, pool, size, parts) : Good(t)
<1> DEFINE bytes == Memory!RoundUp(size)
           n     == bytes + HDR
           b     == Memory!NewBlock(s)
           g     == Memory!Get(s, n)
           new   == [block |-> b, used |-> bytes, left |-> 0]
           O     == LargeObjects(b, pool, parts)
           q     == s.large[pool]
           r     == <<new>> \o q
           large == [s.large EXCEPT ![pool] = r]
           objects == s.objects \cup O
           t     == [g EXCEPT !.large = large, !.objects = objects]
<1>1. CASE s.exited \/ size > MAX_ALLOC_CHUNK - HDR
  <2>1. Memory!alloc_large(s, pool, size, parts) = {Gone}
    BY <1>1, GoneIs DEF Memory!alloc_large
  <2>. QED BY <2>1 DEF Good
<1>2. CASE ~(s.exited \/ size > MAX_ALLOC_CHUNK - HDR)
  <2>1. /\ Kept(s) /\ s \in State /\ IsFiniteSet(DOMAIN s.heap) /\ s.exited = FALSE
        /\ s.total = SumOf(s.heap, DOMAIN s.heap) /\ BlocksInv(s)
    BY <1>2, GoneIs DEF Good, Kept
  <2>2. HDR \in Nat \ {0} /\ MAX_ALLOC_CHUNK \in Nat /\ ALIGN \in Nat \ {0}
    BY DEF Memory!MemoryAssumption
  <2>3. bytes \in Nat /\ size <= bytes /\ bytes <= MAX_ALLOC_CHUNK - HDR /\ bytes % ALIGN = 0
    <3>1. size <= MAX_ALLOC_CHUNK - HDR
      BY <1>2, <2>2
    <3>. QED BY <3>1, RoundUpIs
  <2>4. n \in Nat /\ n <= MAX_ALLOC_CHUNK
    BY <2>2, <2>3
  <2>5. /\ g \in State /\ IsFiniteSet(DOMAIN g.heap)
        /\ b \in Nat \ {0} /\ b \notin DOMAIN s.heap
        /\ DOMAIN g.heap = DOMAIN s.heap \cup {b} /\ g.heap[b] = n
        /\ \A c \in DOMAIN s.heap : g.heap[c] = s.heap[c]
        /\ g.total = SumOf(g.heap, DOMAIN g.heap)
        /\ g.small = s.small /\ g.large = s.large /\ g.objects = s.objects
        /\ g.exited = s.exited
    <3> HIDE DEF n
    <3>. QED BY <2>1, <2>4, GetIs
  <2>6. new \in PoolRec /\ new.block = b /\ new.used = bytes /\ new.left = 0
    <3> HIDE DEF b, bytes
    <3>. QED BY <2>3, <2>5 DEF PoolRec
  <2>7. Memory!alloc_large(s, pool, size, parts) = {Memory!Exit(s), t}
    <3> DEFINE u == [g EXCEPT !.large[pool] = <<new>> \o @,
                              !.objects = @ \cup LargeObjects(b, pool, parts)]
    <3>1. Memory!alloc_large(s, pool, size, parts) = {Memory!Exit(s), u}
      BY <1>2, Zenon DEF Memory!alloc_large, LargeObjects
    <3>2. u = [g EXCEPT !.large = [g.large EXCEPT ![pool] = <<new>> \o g.large[pool]],
                        !.objects = g.objects \cup O]
      OBVIOUS
    <3> HIDE DEF u, g, O, new
    <3>3. u = t
      BY <2>5, <3>2
    <3>. QED BY <3>1, <3>3
  <2>8. /\ O \subseteq Object /\ \A o, p \in O : Apart(o, p)
        /\ \A o \in O : /\ o.block = b /\ o.pool = pool /\ HDR <= o.from
                        /\ o.from + o.bytes <= HDR + bytes
                        /\ (o.row \/ o.from % ALIGN = 0)
    <3> HIDE DEF O, b, bytes
    <3>1. /\ O \subseteq Object /\ \A o, p \in O : Apart(o, p)
          /\ \A o \in O : /\ o.block = b /\ o.pool = pool /\ HDR <= o.from
                          /\ o.from + o.bytes <= HDR + size
                          /\ (o.row \/ o.from % ALIGN = 0)
      BY <2>5, LargeObjectsAre DEF O
    <3>2. \A o \in O : o.from + o.bytes <= HDR + bytes
      <4>1. \A o \in O : o.from \in Nat /\ o.bytes \in Nat
        BY <3>1 DEF Object
      <4>. QED BY <2>2, <2>3, <3>1, <4>1
    <3>. QED BY <3>1, <3>2
  <2>9. s.large \in [Memory!Pools -> Seq(PoolRec)] /\ q \in Seq(PoolRec)
    BY <2>1 DEF State
  <2> HIDE DEF new, q, g, b, bytes, n, t, large, objects, O
  <2>10. r \in Seq(PoolRec) /\ {r[k] : k \in DOMAIN r} = {q[k] : k \in DOMAIN q} \cup {new}
    <3>1. new \in PoolRec /\ q \in Seq(PoolRec)
      BY <2>6, <2>9
    <3>2. r = <<new>> \o q
      OBVIOUS
    <3>3. /\ r \in Seq(PoolRec)
          /\ \A l \in DOMAIN q : l + 1 \in DOMAIN r /\ r[l + 1] = q[l]
          /\ 1 \in DOMAIN r /\ r[1] = new
          /\ \A k \in DOMAIN r : k = 1 \/ (k - 1 \in DOMAIN q /\ r[k] = q[k - 1])
      BY <3>1, PrependIs
    <3> HIDE DEF r
    <3>. QED BY <3>3
  <2> HIDE DEF r
  <2> USE DEF large, objects
  <2>11. /\ large \in [Memory!Pools -> Seq(PoolRec)] /\ large[pool] = r
         /\ \A p \in Memory!Pools : p # pool => large[p] = s.large[p]
    BY <2>9, <2>10
  <2>12. objects \in SUBSET Object
    BY <2>1, <2>8 DEF State
  <2> HIDE DEF large, objects
  <2> USE DEF t
  <2>13. /\ t.heap = g.heap /\ t.total = g.total /\ t.small = s.small /\ t.exited = FALSE
         /\ t.objects = objects /\ t.large = large /\ t \in State
    <3>1. t \in State
      BY <2>5, <2>11, <2>12 DEF State
    <3>2. /\ t.heap = g.heap /\ t.total = g.total /\ t.small = g.small
          /\ t.exited = g.exited /\ t.objects = objects /\ t.large = large
      BY <2>5 DEF State
    <3>. QED BY <2>1, <2>5, <3>1, <3>2
  <2> HIDE DEF t
  <2>14. \A p \in Memory!Pools : Memory!PoolsOf(t, p) =
           IF p = pool THEN Memory!PoolsOf(s, p) \cup {new} ELSE Memory!PoolsOf(s, p)
    <3> SUFFICES ASSUME NEW p \in Memory!Pools
                 PROVE  Memory!PoolsOf(t, p) =
                          IF p = pool THEN Memory!PoolsOf(s, p) \cup {new}
                                      ELSE Memory!PoolsOf(s, p)
      OBVIOUS
    <3>1. CASE p = pool
      <4>1. {t.large[p][k] : k \in DOMAIN t.large[p]} = {q[k] : k \in DOMAIN q} \cup {new}
        BY <2>10, <2>11, <2>13, <3>1
      <4>. QED BY <2>13, <3>1, <4>1, PoolsAre DEF q
    <3>2. CASE p # pool
      BY <2>11, <2>13, <3>2, PoolsAre
    <3>. QED BY <3>1, <3>2
  <2>15. SmallsApart(t)
    <3> SUFFICES ASSUME NEW p \in Memory!Pools, NEW k \in DOMAIN t.small[p]
                 PROVE  /\ \A l \in DOMAIN t.small[p] :
                             t.small[p][k].block = t.small[p][l].block => k = l
                        /\ \A l \in DOMAIN t.large[p] :
                             t.small[p][k].block # t.large[p][l].block
      BY DEF SmallsApart
    <3>1. SmallsApart(s)
      BY <2>1 DEF BlocksInv
    <3>2. s.small[p][k].block # b
      <4>1. s.small[p][k] \in Memory!PoolsOf(s, p)
        BY <2>13, PoolsAre
      <4>. QED BY <2>1, <2>5, <4>1 DEF BlocksInv
    <3>3. ASSUME NEW l \in DOMAIN t.large[p]
          PROVE  t.large[p][l] = new \/ \E i \in DOMAIN s.large[p] : t.large[p][l] = s.large[p][i]
      <4>1. CASE p = pool
        <5>1. r[l] \in {q[i] : i \in DOMAIN q} \cup {new}
          BY <2>10, <2>11, <2>13, <3>3, <4>1
        <5>. QED BY <2>11, <2>13, <4>1, <5>1 DEF q
      <4>2. CASE p # pool
        BY <2>11, <2>13, <4>2
      <4>. QED BY <4>1, <4>2
    <3>4. \A l \in DOMAIN t.large[p] : t.small[p][k].block # t.large[p][l].block
      BY <2>6, <2>13, <3>1, <3>2, <3>3 DEF SmallsApart
    <3>. QED BY <2>13, <3>1, <3>4 DEF SmallsApart
  <2>16. Kept(t)
    <3>1. /\ IsFiniteSet(DOMAIN t.heap) /\ t.total = SumOf(t.heap, DOMAIN t.heap)
          /\ new.block \notin DOMAIN s.heap /\ DOMAIN t.heap = DOMAIN s.heap \cup {new.block}
          /\ \A c \in DOMAIN s.heap : t.heap[c] = s.heap[c]
          /\ new.used % ALIGN = 0
      BY <2>3, <2>5, <2>6, <2>13
    <3>2. /\ t.heap[new.block] = new.used + new.left + HDR
          /\ t.heap[new.block] <= MAX_ALLOC_CHUNK
      BY <2>2, <2>3, <2>4, <2>5, <2>6, <2>13 DEF n
    <3>3. /\ t.objects = s.objects \cup O /\ t.exited = FALSE /\ t \in State
          /\ \A o \in O : /\ o.block = new.block /\ o.pool = pool /\ HDR <= o.from
                          /\ o.from + o.bytes <= HDR + new.used
                          /\ (o.row \/ o.from % ALIGN = 0)
      BY <2>6, <2>8, <2>13 DEF objects
    <3>4. Kept(s) /\ new \in PoolRec /\ \A o, p \in O : Apart(o, p)
      BY <2>1, <2>6, <2>8
    <3>. QED BY <2>14, <2>15, <3>1, <3>2, <3>3, <3>4, AddsBlock
  <2>. QED BY <2>7, <2>16, GoneIs DEF Good
<1>. QED BY <1>1, <1>2


\* The largest of the numbers up to some number.
LEMMA Greatest ==
  ASSUME NEW n \in Nat, NEW T \in SUBSET (1..n), T # {}
  PROVE  \E k \in T : \A l \in T : k >= l
<1> DEFINE D == {n - k : k \in T}
<1>1. D \in SUBSET Nat /\ D # {}
  <2>1. \A k \in T : k \in 1..n
    OBVIOUS
  <2>2. \A k \in T : n - k \in Nat
    BY <2>1
  <2>. QED BY <2>2
<1>2. PICK d \in D : \A e \in D : d <= e
  <2> HIDE DEF D
  <2>. QED BY <1>1, Least
<1>3. PICK k \in T : d = n - k
  BY <1>2
<1>4. \A l \in T : n - l \in D
  OBVIOUS
<1>. QED BY <1>2, <1>3, <1>4

\* The rows of a chunk follow each other.
LEMMA RowsAreIn ==
  ASSUME NEW rows \in Nat \ {0}, NEW width \in Nat \ {0}
  PROVE  PartsIn(Memory!RowsOf(rows, width), rows * width)
<1> DEFINE at(r) == r * width
<1>1. \A r \in 0..rows - 1 : at(r) \in Nat /\ at(r) + width = at(r + 1)
  OBVIOUS
<1>2. ASSUME NEW r \in 0..rows, NEW u \in 0..rows, r <= u PROVE at(r) <= at(u)
  <2>1. width * r <= width * u
    BY <1>2, Monotone
  <2>. QED BY <2>1
<1>3. at(rows) = rows * width
  OBVIOUS
<1>4. Memory!RowsOf(rows, width) = {<<at(r), width>> : r \in 0..rows - 1}
  BY DEF Memory!RowsOf
<1> HIDE DEF at
<1>5. ASSUME NEW r \in 0..rows - 1, NEW u \in 0..rows - 1
      PROVE  r = u \/ at(r) + width <= at(u) \/ at(u) + width <= at(r)
  <2>1. r + 1 \in 0..rows /\ u + 1 \in 0..rows /\ r \in 0..rows /\ u \in 0..rows
    OBVIOUS
  <2>2. r < u => at(r + 1) <= at(u)
    BY <1>2, <2>1
  <2>3. u < r => at(u + 1) <= at(r)
    BY <1>2, <2>1
  <2>. QED BY <1>1, <2>2, <2>3
<1>6. \A r \in 0..rows - 1 : at(r) + width <= rows * width
  <2> SUFFICES ASSUME NEW r \in 0..rows - 1 PROVE at(r) + width <= rows * width
    OBVIOUS
  <2>1. r + 1 \in 0..rows /\ rows \in 0..rows /\ r + 1 <= rows
    OBVIOUS
  <2>. QED BY <1>1, <1>2, <1>3, <2>1
<1>. QED BY <1>1, <1>4, <1>5, <1>6 DEF PartsIn

\* Whatever chunks are asked for.
LEMMA ChunksKeep ==
  ASSUME Memory!MemoryAssumption, NEW pool \in Memory!Pools, NEW width \in Nat \ {0},
         NEW heights \in Seq(Nat \ {0}), NEW states, \A t \in states : Good(t)
  PROVE  \A t \in Memory!Chunks(states, pool, width, heights) : Good(t)
<1> DEFINE S == DOMAIN heights
           Space == SUBSET {t \in State : Good(t)}
           Add(ts, rows) ==
             UNION {Memory!alloc_large(t, pool, rows * width, Memory!RowsOf(rows, width)) :
                      t \in ts}
           G == [a \in S \X Space |-> Add(a[2], heights[a[1]])]
           Top(T) == CHOOSE x \in T : \A y \in T : x >= y
           Pick == [T \in SUBSET S |-> Top(T)]
           Step(f) == [T \in SUBSET S |->
                         IF T = {} THEN states ELSE Add(f[T \ {Top(T)}], heights[Top(T)])]
           fold == CHOOSE f : f = Step(f)
<1>1. \A t : Good(t) => t \in State
  BY GoneIs DEF Good, Kept
<1>2. states \in Space
  BY <1>1
<1>3. ASSUME NEW k \in S, NEW ts \in Space PROVE Add(ts, heights[k]) \in Space
  <2>1. heights[k] \in Nat \ {0}
    OBVIOUS
  <2> DEFINE rows == heights[k]
  <2> HIDE DEF rows
  <2>2. rows \in Nat \ {0}
    BY <2>1 DEF rows
  <2>3. rows * width \in Nat \ {0} /\ PartsIn(Memory!RowsOf(rows, width), rows * width)
    BY <2>2, RowsAreIn
  <2>4. \A t \in ts : \A u \in Memory!alloc_large(t, pool, rows * width,
                                                  Memory!RowsOf(rows, width)) : Good(u)
    <3> DEFINE size == rows * width
               parts == Memory!RowsOf(rows, width)
    <3>1. size \in Nat \ {0} /\ PartsIn(parts, size)
      BY <2>3
    <3> HIDE DEF size, parts
    <3>2. \A t \in ts : Good(t)
      OBVIOUS
    <3>3. \A t \in ts : \A u \in Memory!alloc_large(t, pool, size, parts) : Good(u)
      BY <3>1, <3>2, LargeKeeps
    <3>. QED BY <3>3 DEF size, parts
  <2>5. \A u \in Add(ts, rows) : Good(u)
    BY <2>4
  <2> HIDE DEF Add
  <2>. QED BY <1>1, <2>5 DEF rows
<1>4. S = 1..Len(heights) /\ Len(heights) \in Nat /\ IsFiniteSet(S)
  BY FS_Interval
<1>5. \A T \in SUBSET S : T # {} => Top(T) \in T
  BY <1>4, Greatest
<1> HIDE DEF Space, Add, Top
<1>6. \E f : f = Step(f)
  <2>1. \A T \in SUBSET S : T # {} => Pick[T] \in T
    BY <1>5
  <2>2. G \in [S \X Space -> Space]
    BY <1>3
  <2>3. PICK f \in [SUBSET S -> Space] : Folds(f, S, states, Pick, G)
    <3> HIDE DEF G, Pick, S
    <3>. QED BY <1>2, <1>4, <2>1, <2>2, FoldExists
  <2>4. ASSUME NEW T \in SUBSET S, T # {}
        PROVE  G[Pick[T], f[T \ {Pick[T]}]] = Add(f[T \ {Top(T)}], heights[Top(T)])
    <3>1. Pick[T] = Top(T) /\ Top(T) \in S /\ f[T \ {Top(T)}] \in Space
      BY <1>5, <2>3, <2>4
    <3> HIDE DEF S
    <3>. QED BY <3>1
  <2>5. \A T \in SUBSET S :
          f[T] = IF T = {} THEN states ELSE G[Pick[T], f[T \ {Pick[T]}]]
    <3> HIDE DEF G, Pick
    <3>. QED BY <2>3 DEF Folds
  <2>6. \A T \in SUBSET S :
          f[T] = IF T = {} THEN states ELSE Add(f[T \ {Top(T)}], heights[Top(T)])
    <3> HIDE DEF G, Pick
    <3>. QED BY <2>4, <2>5
  <2>7. f = [T \in SUBSET S |-> f[T]]
    BY <2>3
  <2>. QED BY <2>6, <2>7
<1>7. fold = Step(fold)
  <2> HIDE DEF Step
  <2>. QED BY <1>6, Zenon
<1>8. Memory!Chunks(states, pool, width, heights) = fold[S]
  BY Zenon DEF Memory!Chunks, Memory!FoldLeft, Memory!MapThenFoldSet, Memory!Max, Add, Top
<1> HIDE DEF fold
<1>9. \A T \in SUBSET S : fold[T] \in Space
  <2> DEFINE P == {T \in SUBSET S : fold[T] \in Space}
  <2>1. {} \in P
    BY <1>2, <1>7
  <2>2. ASSUME NEW T \in SUBSET S, T # {}, \A x \in T : T \ {x} \in P PROVE T \in P
    <3>1. Top(T) \in T /\ fold[T \ {Top(T)}] \in Space
      BY <1>5, <2>2
    <3>2. fold[T] = Add(fold[T \ {Top(T)}], heights[Top(T)])
      BY <1>7, <2>2
    <3>. QED BY <1>3, <3>1, <3>2
  <2> HIDE DEF P, S, Step
  <2>3. \A T \in SUBSET S : T # {} /\ (\A x \in T : T \ {x} \in P) => T \in P
    BY <2>2, Zenon
  <2>4. IsFiniteSet(S)
    BY <1>4
  <2>5. \A T \in SUBSET S : T \in P
    BY <2>1, <2>3, <2>4, SubsetInduction, Zenon
  <2>. QED BY <2>5 DEF P
<1>10. fold[S] \in Space
  <2> HIDE DEF S
  <2>. QED BY <1>9
<1>. QED BY <1>8, <1>10 DEF Space

\* Each chunk of an array has a row.
LEMMA HeightsAre ==
  ASSUME NEW rows \in Nat \ {0}, NEW height \in Nat \ {0}
  PROVE  Memory!ChunkHeights(rows, height) \in Seq(Nat \ {0})
<1> DEFINE n == (height + rows - 1) \div rows
           c(k) == height - (k - 1) * rows
           Least2(k) == Memory!Min({rows, c(k)})
<1>1. height + rows - 1 \in Int /\ rows \in Int /\ rows > 0
  OBVIOUS
<1>2. /\ n \in Int
      /\ height + rows - 1 = rows * n + ((height + rows - 1) % rows)
      /\ 0 <= (height + rows - 1) % rows
  BY <1>1, Division
<1>3. rows * n <= height + rows - 1
  <2> DEFINE u == (height + rows - 1) % rows
  <2>1. u \in Int /\ 0 <= u /\ height + rows - 1 = rows * n + u
    BY <1>1, <1>2, Division
  <2> HIDE DEF u, n
  <2>2. rows * n \in Int
    BY <1>2
  <2>. QED BY <2>1, <2>2
<1>4. n \in Nat
  <2> HIDE DEF n
  <2>1. n <= -1 => rows * n <= rows * (-1)
    BY <1>2, Monotone
  <2>2. rows * (-1) = -rows /\ rows * n \in Int
    BY <1>2
  <2>3. rows * n > -rows
    <3> DEFINE u == (height + rows - 1) % rows
    <3>1. u \in Int /\ u < rows /\ height + rows - 1 = rows * n + u
      BY <1>1, Division DEF n
    <3> HIDE DEF u
    <3>. QED BY <2>2, <3>1
  <2>. QED BY <1>2, <2>1, <2>2, <2>3
<1> HIDE DEF n
<1>5. ASSUME NEW k \in 1..n PROVE c(k) \in Nat \ {0}
  <2>1. rows * k <= rows * n
    BY <1>2, <1>5, Monotone
  <2>2. (k - 1) * rows = rows * k - rows
        /\ rows * k \in Int /\ rows * n \in Int
    BY <1>2
  <2>. QED BY <1>3, <2>1, <2>2
<1>6. ASSUME NEW k \in 1..n PROVE Least2(k) \in Nat \ {0}
  <2> DEFINE T == {rows, c(k)}
  <2>1. T \in SUBSET (Nat \ {0}) /\ T # {}
    BY <1>5
  <2> HIDE DEF T, c
  <2>2. \E i \in T : \A j \in T : i <= j
    BY <2>1, Least
  <2>3. Memory!Min(T) \in T
    BY <2>2, Zenon DEF Memory!Min
  <2>. QED BY <2>1, <2>3 DEF T
<1>7. Memory!ChunkHeights(rows, height) = [k \in 1..n |-> Least2(k)]
  BY Zenon DEF Memory!ChunkHeights, n
<1> HIDE DEF Least2
<1>. QED BY <1>2, <1>6, <1>7

\* and an array of samples (alloc_sarray).
LEMMA ArrayKeeps ==
  ASSUME Memory!MemoryAssumption, NEW s, Good(s), NEW pool \in Memory!Pools,
         NEW width \in Nat \ {0}, NEW height \in Nat \ {0}
  PROVE  \A t \in Memory!alloc_sarray(s, pool, width, height) : Good(t)
<1> DEFINE most == (MAX_ALLOC_CHUNK - HDR) \div width
           rpc  == Memory!Min({most, height})
           u    == [s EXCEPT !.last_rowsperchunk = rpc]
           small == Memory!alloc_small(u, pool, height)
           heights == Memory!ChunkHeights(rpc, height)
<1>1. CASE s.exited \/ most = 0
  <2>1. Memory!alloc_sarray(s, pool, width, height) = {Gone}
    BY <1>1, GoneIs DEF Memory!alloc_sarray
  <2>. QED BY <2>1 DEF Good
<1>2. CASE ~(s.exited \/ most = 0)
  <2>1. Memory!alloc_sarray(s, pool, width, height) = Memory!Chunks(small, pool, width, heights)
    BY <1>2, Zenon DEF Memory!alloc_sarray
  <2>2. most \in Nat \ {0}
    <3>1. MAX_ALLOC_CHUNK - HDR \in Nat
      BY DEF Memory!MemoryAssumption
    <3>2. \A a \in Nat : a \div width \in Nat
      OBVIOUS
    <3>. QED BY <1>2, <3>1, <3>2
  <2> HIDE DEF most
  <2>3. rpc \in Nat \ {0}
    <3> DEFINE T == {most, height}
    <3>1. T \in SUBSET (Nat \ {0}) /\ T # {}
      BY <2>2
    <3> HIDE DEF T
    <3>2. \E i \in T : \A j \in T : i <= j
      BY <3>1, Least
    <3>3. Memory!Min(T) \in T
      BY <3>2, Zenon DEF Memory!Min
    <3>. QED BY <3>1, <3>3 DEF T
  <2> HIDE DEF rpc
  <2>4. heights \in Seq(Nat \ {0})
    BY <2>3, HeightsAre
  <2>5. Kept(s)
    BY <1>2, GoneIs DEF Good
  <2>6. Kept(u)
    <3>1. s \in State /\ rpc \in Int
      BY <2>3, <2>5 DEF Kept
    <3>2. /\ u \in State /\ u.small = s.small /\ u.large = s.large /\ u.total = s.total
          /\ u.heap = s.heap /\ u.objects = s.objects /\ u.exited = s.exited
      BY <3>1 DEF State
    <3> HIDE DEF u
    <3>3. \A p : Memory!PoolsOf(u, p) = Memory!PoolsOf(s, p)
      BY <3>2, PoolsAre
    <3>4. SmallsApart(s) => SmallsApart(u)
      BY <3>2 DEF SmallsApart
    <3>5. BlocksInv(s) => BlocksInv(u)
      BY <3>2, <3>3, <3>4 DEF BlocksInv
    <3>6. ObjectsInv(s) => ObjectsInv(u)
      BY <3>2, <3>3 DEF ObjectsInv
    <3>. QED BY <2>5, <3>2, <3>5, <3>6 DEF Kept
  <2> HIDE DEF u, heights
  <2>7. \A t \in small : Good(t)
    BY <2>6, SmallKeeps DEF Good
  <2> HIDE DEF small
  <2>. QED BY <2>1, <2>4, <2>7, ChunksKeep
<1>. QED BY <1>1, <1>2


\* A lifetime has finitely many pools.
LEMMA PoolsFinite ==
  ASSUME NEW s \in State, NEW p \in Memory!Pools
  PROVE  IsFiniteSet(Memory!PoolsOf(s, p)) /\ Memory!PoolsOf(s, p) \subseteq PoolRec
<1>1. ASSUME NEW q \in Seq(PoolRec)
      PROVE  IsFiniteSet({q[k] : k \in DOMAIN q}) /\ {q[k] : k \in DOMAIN q} \subseteq PoolRec
  <2> DEFINE T == {q[k] : k \in DOMAIN q}
  <2>1. DOMAIN q = 1..Len(q) /\ Len(q) \in Nat
    OBVIOUS
  <2>2. IsFiniteSet(DOMAIN q)
    BY <2>1, FS_Interval
  <2>3. q \in Surjection(DOMAIN q, T)
    BY DEF Surjection
  <2>4. IsFiniteSet(T)
    <3> HIDE DEF T
    <3>. QED BY <2>2, <2>3, FS_Surjection
  <2>. QED BY <2>4
<1>2. s.small[p] \in Seq(PoolRec) /\ s.large[p] \in Seq(PoolRec)
  BY DEF State
<1> DEFINE A == {s.small[p][k] : k \in DOMAIN s.small[p]}
           B == {s.large[p][k] : k \in DOMAIN s.large[p]}
<1>3. IsFiniteSet(A) /\ A \subseteq PoolRec /\ IsFiniteSet(B) /\ B \subseteq PoolRec
  BY <1>1, <1>2
<1>4. Memory!PoolsOf(s, p) = A \cup B
  BY PoolsAre
<1> HIDE DEF A, B
<1>5. IsFiniteSet(A \cup B)
  BY <1>3, FS_Union
<1>. QED BY <1>3, <1>4, <1>5

\* The pools that go are counted as what their blocks hold.
LEMMA FreedIs ==
  ASSUME NEW s, Kept(s), NEW pool \in Memory!Pools, HDR \in Nat
  PROVE  LET gone == {p.block : p \in Memory!PoolsOf(s, pool)}
         IN  /\ gone \subseteq DOMAIN s.heap
             /\ Memory!Freed(s, pool) = SumOf(s.heap, gone)
             /\ s.total = SumOf(s.heap, gone) + SumOf(s.heap, DOMAIN s.heap \ gone)
             /\ SumOf(s.heap, gone) \in Int /\ SumOf(s.heap, DOMAIN s.heap \ gone) \in Int
<1> DEFINE PS == Memory!PoolsOf(s, pool)
           D == DOMAIN s.heap
           gone == {p.block : p \in PS}
           g == [p \in PS |-> p.used + p.left + HDR]
           b == [p \in PS |-> p.block]
<1>1. /\ s \in State /\ IsFiniteSet(D) /\ BlocksInv(s) /\ s.total = SumOf(s.heap, D)
  BY DEF Kept
<1>2. IsFiniteSet(PS) /\ PS \subseteq PoolRec
  BY <1>1, PoolsFinite
<1>3. /\ \A p \in PS : p.block \in D /\ s.heap[p.block] = p.used + p.left + HDR
      /\ \A p, r \in PS : p.block = r.block => p = r
  BY <1>1 DEF BlocksInv
<1>4. gone \subseteq D /\ \A d \in D : s.heap[d] \in Nat
  BY <1>1, <1>3, HeapIs
<1>5. /\ \A p \in PS : g[p] \in Int /\ s.heap[b[p]] = g[p]
      /\ \A p, r \in PS : b[p] = b[r] => p = r
  <2>1. \A p \in PS : g[p] = s.heap[p.block] /\ p.block \in D /\ b[p] = p.block
    BY <1>3
  <2> HIDE DEF g, b
  <2>. QED BY <1>3, <1>4, <2>1
<1>6. gone = {b[p] : p \in PS} /\ DOMAIN g = PS
  OBVIOUS
<1>7. Memory!Freed(s, pool) = SumOf(g, PS)
  <2>1. Memory!Freed(s, pool) = Memory!SumFunctionOnSet(g, DOMAIN g)
    BY Zenon DEF Memory!Freed, Memory!SumFunction
  <2>. QED BY <1>6, <2>1, SumsToo
<1> HIDE DEF PS, g, b, gone
<1>8. SumOf(g, PS) = SumOf(s.heap, gone)
  <2> DEFINE h == s.heap
  <2>1. \A p \in PS : h[b[p]] = g[p]
    BY <1>5
  <2> HIDE DEF h
  <2>2. SumOf(g, PS) = SumOf(h, {b[p] : p \in PS})
    BY <1>2, <1>5, <2>1, SumRenamed
  <2>. QED BY <1>6, <2>2 DEF h
<1>9. s.total = SumOf(s.heap, gone) + SumOf(s.heap, D \ gone)
  <2> DEFINE h == s.heap
  <2>1. \A d \in D : h[d] \in Int
    BY <1>4
  <2> HIDE DEF h, D
  <2>2. SumOf(h, D) = SumOf(h, gone) + SumOf(h, D \ gone)
    BY <1>1, <1>4, <2>1, SumSplits
  <2>. QED BY <1>1, <2>2 DEF h
<1>10. \A T \in SUBSET D : SumOf(s.heap, T) \in Int
  <2> DEFINE h == s.heap
  <2>1. \A d \in D : h[d] \in Int
    BY <1>4
  <2> HIDE DEF h, D
  <2>2. \A T \in SUBSET D : SumOf(h, T) \in Int
    BY <1>1, <2>1, SumOfPart
  <2>. QED BY <2>2 DEF h
<1>11. gone \in SUBSET D /\ D \ gone \in SUBSET D
  BY <1>4
<1>. QED BY <1>4, <1>7, <1>8, <1>9, <1>10, <1>11 DEF gone, PS

\* The end of a lifetime keeps the invariant, and what lives longer (free_pool).
LEMMA FreeKeeps ==
  ASSUME Memory!MemoryAssumption, NEW s, Kept(s), NEW pool \in Memory!Pools
  PROVE  LET t == Memory!free_pool(s, pool)
         IN  /\ Kept(t) /\ Memory!PoolsOf(t, pool) = {}
             /\ \A p \in Memory!Pools : p # pool => Memory!PoolsOf(t, p) = Memory!PoolsOf(s, p)
<1> DEFINE t == Memory!free_pool(s, pool)
           D == DOMAIN s.heap
           gone == {p.block : p \in Memory!PoolsOf(s, pool)}
           heap == [b \in D \ gone |-> s.heap[b]]
           total == s.total - Memory!Freed(s, pool)
           small == [s.small EXCEPT ![pool] = << >>]
           large == [s.large EXCEPT ![pool] = << >>]
           objects == {o \in s.objects : o.pool # pool}
<1>1. /\ s \in State /\ s.exited = FALSE /\ IsFiniteSet(D) /\ 1 \in D
      /\ s.total = SumOf(s.heap, D) /\ BlocksInv(s) /\ ObjectsInv(s)
  BY DEF Kept
<1>2. HDR \in Nat
  BY DEF Memory!MemoryAssumption
<1>3. /\ gone \subseteq D /\ Memory!Freed(s, pool) = SumOf(s.heap, gone)
      /\ s.total = SumOf(s.heap, gone) + SumOf(s.heap, D \ gone)
      /\ SumOf(s.heap, gone) \in Int /\ SumOf(s.heap, D \ gone) \in Int
  BY <1>2, FreedIs
<1>4. D \subseteq Nat \ {0} /\ \A b \in D : s.heap[b] \in Nat
  BY <1>1, HeapIs
<1>5. t = [s EXCEPT !.heap = heap, !.total = total, !.small = small, !.large = large,
                    !.objects = objects]
  <2>1. Memory!Without(s.heap, gone) = heap
    BY Zenon DEF Memory!Without, Memory!Restrict
  <2>2. t = [s EXCEPT !.heap = Memory!Without(s.heap, gone), !.total = total,
                      !.small = small, !.large = large, !.objects = objects]
    BY DEF Memory!free_pool
  <2>. QED BY <2>1, <2>2
<1>6. heap \in Heaps /\ DOMAIN heap = D \ gone /\ \A b \in D \ gone : heap[b] = s.heap[b]
  <2>1. D \ gone \in SUBSET (Nat \ {0})
    BY <1>4
  <2>2. heap \in [D \ gone -> Nat]
    BY <1>4
  <2> HIDE DEF D, gone
  <2>3. heap \in Heaps
    <3> HIDE DEF heap
    <3>. QED BY <2>1, <2>2 DEF Heaps
  <2>. QED BY <2>3
<1>7. total \in Int /\ total = SumOf(heap, D \ gone)
  <2>1. SumOf(s.heap, D \ gone) = SumOf(heap, D \ gone)
    <3> DEFINE E == D \ gone
               h == s.heap
    <3>1. IsFiniteSet(E)
      BY <1>1, FS_Difference
    <3>2. \A b \in E : h[b] \in Int /\ heap[b] = h[b]
      BY <1>4, <1>6
    <3> HIDE DEF E, h, heap
    <3>3. SumOf(h, E) = SumOf(heap, E)
      BY <3>1, <3>2, SumSame
    <3>. QED BY <3>3 DEF E, h
  <2> HIDE DEF heap, gone, D
  <2>. QED BY <1>3, <2>1
<1>8. /\ small \in [Memory!Pools -> Seq(PoolRec)] /\ small[pool] = << >>
      /\ large \in [Memory!Pools -> Seq(PoolRec)] /\ large[pool] = << >>
      /\ \A p \in Memory!Pools : p # pool => small[p] = s.small[p] /\ large[p] = s.large[p]
  <2>1. << >> \in Seq(PoolRec)
    OBVIOUS
  <2>. QED BY <1>1, <2>1 DEF State
<1>9. objects \in SUBSET Object
  BY <1>1 DEF State
<1> HIDE DEF t, heap, total, small, large, objects, gone, D
<1>10. /\ t \in State /\ t.heap = heap /\ t.total = total /\ t.small = small
       /\ t.large = large /\ t.objects = objects /\ t.exited = FALSE
  <2>1. t \in State
    BY <1>1, <1>5, <1>6, <1>7, <1>8, <1>9 DEF State
  <2>2. /\ t.heap = heap /\ t.total = total /\ t.small = small
        /\ t.large = large /\ t.objects = objects /\ t.exited = s.exited
    BY <1>1, <1>5 DEF State
  <2>. QED BY <1>1, <2>1, <2>2
<1>11. Memory!PoolsOf(t, pool) = {}
  <2>1. DOMAIN << >> = {}
    OBVIOUS
  <2>. QED BY <1>8, <1>10, <2>1, PoolsAre
<1>12. \A p \in Memory!Pools : p # pool => Memory!PoolsOf(t, p) = Memory!PoolsOf(s, p)
  BY <1>8, <1>10, PoolsAre
<1>13. \A p \in Memory!Pools : \A q \in Memory!PoolsOf(t, p) :
         p # pool /\ q \in Memory!PoolsOf(s, p) /\ q.block \in D \ gone
  <2> SUFFICES ASSUME NEW p \in Memory!Pools, NEW q \in Memory!PoolsOf(t, p)
               PROVE  p # pool /\ q \in Memory!PoolsOf(s, p) /\ q.block \in D \ gone
    OBVIOUS
  <2>1. p # pool /\ q \in Memory!PoolsOf(s, p)
    BY <1>11, <1>12
  <2>2. q.block \in D /\ \A o \in Memory!PoolsOf(s, pool) : q.block # o.block
    BY <1>1, <2>1 DEF BlocksInv, D
  <2>. QED BY <2>1, <2>2 DEF gone
<1>14. BlocksInv(t)
  <2>1. ASSUME NEW p \in Memory!Pools, NEW q \in Memory!PoolsOf(t, p)
        PROVE  /\ q.block \in DOMAIN t.heap /\ q.block # 1
               /\ t.heap[q.block] = q.used + q.left + HDR
               /\ t.heap[q.block] <= MAX_ALLOC_CHUNK /\ q.used % ALIGN = 0
    <3>1. q \in Memory!PoolsOf(s, p) /\ q.block \in D \ gone
      BY <1>13
    <3>2. t.heap[q.block] = s.heap[q.block] /\ q.block \in DOMAIN t.heap
      BY <1>6, <1>10, <3>1
    <3>. QED BY <1>1, <3>1, <3>2 DEF BlocksInv
  <2>2. \A p, r \in Memory!Pools :
          \A q \in Memory!PoolsOf(t, p) : \A o \in Memory!PoolsOf(t, r) :
            q.block = o.block => p = r /\ q = o
    BY <1>1, <1>13 DEF BlocksInv
  <2>3. ASSUME NEW b \in DOMAIN t.heap, b # 1
        PROVE  \E p \in Memory!Pools : \E q \in Memory!PoolsOf(t, p) : q.block = b
    <3>1. b \in D \ gone
      BY <1>6, <1>10
    <3>2. PICK p \in Memory!Pools : \E q \in Memory!PoolsOf(s, p) : q.block = b
      BY <1>1, <2>3, <3>1 DEF BlocksInv, D
    <3>3. p # pool
      BY <3>1, <3>2 DEF gone
    <3>. QED BY <1>12, <3>2, <3>3
  <2>4. SmallsApart(t)
    <3>1. SmallsApart(s)
      BY <1>1 DEF BlocksInv
    <3>2. DOMAIN << >> = {}
      OBVIOUS
    <3>3. ASSUME NEW p \in Memory!Pools, NEW k \in DOMAIN t.small[p]
          PROVE  /\ \A l \in DOMAIN t.small[p] :
                      t.small[p][k].block = t.small[p][l].block => k = l
                 /\ \A l \in DOMAIN t.large[p] :
                      t.small[p][k].block # t.large[p][l].block
      <4>1. p # pool
        BY <1>8, <1>10, <3>2, <3>3
      <4>2. t.small[p] = s.small[p] /\ t.large[p] = s.large[p]
        BY <1>8, <1>10, <4>1
      <4>. QED BY <3>1, <3>3, <4>2 DEF SmallsApart
    <3>. QED BY <3>3 DEF SmallsApart
  <2>. QED BY <2>1, <2>2, <2>3, <2>4 DEF BlocksInv
<1>15. ObjectsInv(t)
  <2>1. ASSUME NEW o \in t.objects
        PROVE  o \in s.objects /\ o.pool \in Memory!Pools
               /\ Memory!PoolsOf(t, o.pool) = Memory!PoolsOf(s, o.pool)
    <3>1. o \in s.objects /\ o.pool # pool
      BY <1>10 DEF objects
    <3>2. o.pool \in Memory!Pools
      BY <1>1, <3>1 DEF State, Object
    <3>. QED BY <1>12, <3>1, <3>2
  <2>. QED BY <1>1, <2>1 DEF ObjectsInv
<1>16. IsFiniteSet(D \ gone) /\ 1 \in D \ gone
  <2>1. 1 \notin gone
    BY <1>1 DEF BlocksInv, gone
  <2>. QED BY <1>1, <2>1, FS_Difference
<1>17. Kept(t)
  BY <1>6, <1>7, <1>10, <1>14, <1>15, <1>16 DEF Kept
<1>. QED BY <1>11, <1>12, <1>17 DEF t

\* After both only the control block is left, and then nothing (self_destruct).
LEMMA DestroyLeavesNothing ==
  ASSUME Memory!MemoryAssumption, NEW s, Kept(s)
  PROVE  Memory!self_destruct(s) = << >>
<1> DEFINE t == Memory!free_pool(s, Memory!IMAGE)
           u == Memory!free_pool(t, Memory!PERMANENT)
           heap == [b \in DOMAIN u.heap \ {1} |-> u.heap[b]]
<1>1. /\ Memory!IMAGE \in Memory!Pools /\ Memory!PERMANENT \in Memory!Pools
      /\ Memory!IMAGE # Memory!PERMANENT
      /\ \A p \in Memory!Pools : p = Memory!IMAGE \/ p = Memory!PERMANENT
  BY DEF Memory!IMAGE, Memory!PERMANENT, Memory!Pools
<1>2. Kept(t) /\ Memory!PoolsOf(t, Memory!IMAGE) = {}
  BY <1>1, FreeKeeps
<1> HIDE DEF t
<1>3. /\ Kept(u) /\ Memory!PoolsOf(u, Memory!PERMANENT) = {}
      /\ Memory!PoolsOf(u, Memory!IMAGE) = Memory!PoolsOf(t, Memory!IMAGE)
  BY <1>1, <1>2, FreeKeeps
<1> HIDE DEF u
<1>4. \A b \in DOMAIN u.heap : b = 1
  BY <1>1, <1>2, <1>3 DEF Kept, BlocksInv
<1>5. Memory!self_destruct(s) = heap
  BY Zenon DEF Memory!self_destruct, Memory!Without, Memory!Restrict, t, u
<1>6. DOMAIN heap = {} /\ heap = [b \in DOMAIN heap |-> heap[b]]
  BY <1>4
<1> HIDE DEF heap
<1>. QED BY <1>5, <1>6, NothingIs

MemoryInv ==
  /\ made \in BOOLEAN
  /\ m = Gone \/ (IF made THEN Kept(m) ELSE m = Memory!Empty)

\* Before a manager is made nothing is held.
LEMMA EmptyIs ==
  /\ Memory!Empty \in State /\ Memory!Empty.exited = FALSE
  /\ Memory!Empty.objects = {} /\ Memory!Empty.heap = << >>
  /\ Memory!Empty.total = 0 /\ \A p \in Memory!Pools : Memory!PoolsOf(Memory!Empty, p) = {}
<1>1. /\ \A p \in Memory!Pools : Memory!Empty.small[p] = << >> /\ Memory!Empty.large[p] = << >>
      /\ Memory!Empty.small \in [Memory!Pools -> Seq(PoolRec)]
      /\ Memory!Empty.large \in [Memory!Pools -> Seq(PoolRec)]
      /\ Memory!Empty.exited = FALSE /\ Memory!Empty.objects = {}
      /\ Memory!Empty.heap = << >> /\ Memory!Empty.total = 0
  BY DEF Memory!Empty
<1>2. DOMAIN << >> = {}
  OBVIOUS
<1>3. << >> \in Heaps
  <2>1. << >> \in [{} -> Nat] /\ {} \in SUBSET (Nat \ {0})
    OBVIOUS
  <2>. QED BY <2>1 DEF Heaps
<1>4. Memory!Empty \in State
  <2>1. {} \in SUBSET Object /\ 0 \in Int /\ FALSE \in BOOLEAN
    OBVIOUS
  <2> DEFINE small == Memory!Empty.small
             large == Memory!Empty.large
  <2>2. Memory!Empty = [small |-> small, large |-> large, total |-> 0,
                        last_rowsperchunk |-> 0, heap |-> << >>, objects |-> {},
                        exited |-> FALSE]
    BY DEF Memory!Empty
  <2>3. small \in [Memory!Pools -> Seq(PoolRec)] /\ large \in [Memory!Pools -> Seq(PoolRec)]
    BY <1>1
  <2> HIDE DEF small, large
  <2>. QED BY <1>3, <2>1, <2>2, <2>3 DEF State
<1>5. \A p \in Memory!Pools : Memory!PoolsOf(Memory!Empty, p) = {}
  BY <1>1, <1>2, PoolsAre
<1>. QED BY <1>1, <1>4, <1>5

\* The control block is the first.
LEMMA ManagerKept ==
  ASSUME Memory!MemoryAssumption
  PROVE  Kept([Memory!Get(Memory!Empty, CONTROL) EXCEPT !.total = CONTROL])
<1> DEFINE s == Memory!Empty
           g == Memory!Get(s, CONTROL)
           b == Memory!NewBlock(s)
           t == [g EXCEPT !.total = CONTROL]
<1>1. CONTROL \in Nat
  BY DEF Memory!MemoryAssumption
<1>2. s \in State /\ IsFiniteSet(DOMAIN s.heap) /\ DOMAIN s.heap = {}
  <2>1. DOMAIN << >> = {}
    OBVIOUS
  <2>. QED BY <2>1, EmptyIs, FS_EmptySet
<1>3. s.total = SumOf(s.heap, DOMAIN s.heap)
  <2> DEFINE h == s.heap
  <2>1. IsFiniteSet({}) /\ \A x \in {} : h[x] \in Int
    BY FS_EmptySet
  <2> HIDE DEF h
  <2>2. SumOf(h, {}) = 0
    BY <2>1, SumAdds
  <2>. QED BY <1>2, <2>2, EmptyIs DEF h
<1>4. b = 1
  <2> DEFINE F == (1..Cardinality(DOMAIN s.heap) + 1) \ DOMAIN s.heap
  <2>1. Cardinality(DOMAIN s.heap) = 0
    BY <1>2, FS_EmptySet
  <2>2. F = {1}
    BY <1>2, <2>1
  <2>3. b = CHOOSE k \in F : \A l \in F : k <= l
    BY Zenon DEF Memory!NewBlock, Memory!Min, Memory!Cardinality, Cardinality
  <2> HIDE DEF F, b
  <2>. QED BY <2>2, <2>3
<1>5. /\ g \in State /\ IsFiniteSet(DOMAIN g.heap)
      /\ DOMAIN g.heap = DOMAIN s.heap \cup {b} /\ g.heap[b] = CONTROL
      /\ g.total = SumOf(g.heap, DOMAIN g.heap)
      /\ g.small = s.small /\ g.large = s.large /\ g.objects = s.objects
      /\ g.exited = s.exited
  <2> HIDE DEF s, g, b
  <2>. QED BY <1>1, <1>2, <1>3, GetIs DEF g, b
<1> HIDE DEF s, g, b
<1>6. DOMAIN g.heap = {1} /\ g.heap[1] = CONTROL
  BY <1>2, <1>4, <1>5
<1>7. g.total = CONTROL
  <2> DEFINE h == g.heap
             S == {1}
  <2>1. IsFiniteSet(S) /\ \A x \in S : h[x] \in Int
    BY <1>1, <1>5, <1>6
  <2>2. 1 \in S /\ S \ {1} = {}
    OBVIOUS
  <2> HIDE DEF h, S
  <2>3. SumOf(h, {}) = 0 /\ SumOf(h, S) = h[1] + SumOf(h, S \ {1})
    BY <2>1, <2>2, SumAdds
  <2>4. SumOf(h, S) = CONTROL
    BY <1>1, <1>6, <2>2, <2>3 DEF h
  <2>. QED BY <1>5, <1>6, <2>4 DEF h, S
<1>8. t = g
  BY <1>5, <1>7 DEF State
<1>9. \A p \in Memory!Pools : Memory!PoolsOf(g, p) = {} /\ DOMAIN g.small[p] = {}
  <2>1. \A p \in Memory!Pools : Memory!PoolsOf(s, p) = {}
    BY EmptyIs DEF s
  <2>2. \A p \in Memory!Pools : Memory!PoolsOf(g, p) = {}
    BY <1>5, <2>1, PoolsAre
  <2>. QED BY <2>2, PoolsAre
<1>10. BlocksInv(g) /\ ObjectsInv(g)
  <2>1. g.objects = {}
    BY <1>5, EmptyIs DEF s
  <2>2. SmallsApart(g)
    BY <1>9 DEF SmallsApart
  <2>. QED BY <1>6, <1>9, <2>1, <2>2 DEF BlocksInv, ObjectsInv
<1>11. g.exited = FALSE
  BY <1>5, EmptyIs DEF s
<1>12. Kept(g)
  BY <1>5, <1>6, <1>10, <1>11 DEF Kept
<1>. QED BY <1>8, <1>12 DEF g, s

\* The invariant holds at first,
LEMMA MemoryInit == Memory!Init => MemoryInv
BY DEF Memory!Init, MemoryInv

\* each call keeps it,
LEMMA MemoryStep ==
  ASSUME Memory!MemoryAssumption, MemoryInv, [Memory!Next]_(Memory!vars)
  PROVE  MemoryInv'
<1>1. CASE Memory!jinit_memory_mgr
  <2>1. CASE m' = Memory!Exit(m) /\ made' = made
    BY <2>1, GoneIs DEF MemoryInv
  <2>2. CASE made' = TRUE /\ m' = [Memory!Get(Memory!Empty, CONTROL) EXCEPT !.total = CONTROL]
    BY <2>2, ManagerKept, Zenon DEF MemoryInv
  <2>. QED BY <1>1, <2>1, <2>2, Zenon DEF Memory!jinit_memory_mgr
<1>2. CASE Memory!Alloc \/ Memory!jpeg_abort \/ Memory!jpeg_destroy
  <2>1. Kept(m) /\ made
    BY <1>2, GoneIs, Zenon DEF MemoryInv, Memory!Alloc, Memory!jpeg_abort,
                              Memory!jpeg_destroy, Memory!Counted
  <2>2. Good(m)
    BY <2>1 DEF Good
  <2>3. CASE Memory!Alloc
    <3>1. made' = made /\ made \in BOOLEAN
      BY <2>3, Zenon DEF Memory!Alloc, MemoryInv
    <3>2. PICK pool \in Memory!Pools :
            \/ \E n \in ObjectSizes : \/ m' \in Memory!alloc_small(m, pool, n)
                                      \/ m' \in Memory!alloc_large(m, pool, n, {<<0, n>>})
            \/ \E w \in Widths, h \in Heights : m' \in Memory!alloc_sarray(m, pool, w, h)
      BY <2>3, Zenon DEF Memory!Alloc
    <3>3. Good(m')
      <4>1. ASSUME NEW n \in ObjectSizes, m' \in Memory!alloc_small(m, pool, n)
            PROVE  Good(m')
        <5>1. n \in Nat \ {0}
          BY DEF Memory!MemoryAssumption
        <5>. QED BY <2>2, <4>1, <5>1, SmallKeeps
      <4>2. ASSUME NEW n \in ObjectSizes,
                   m' \in Memory!alloc_large(m, pool, n, {<<0, n>>})
            PROVE  Good(m')
        <5>1. n \in Nat \ {0}
          BY DEF Memory!MemoryAssumption
        <5> DEFINE parts == {<<0, n>>}
        <5>2. PartsIn(parts, n)
          BY <5>1 DEF PartsIn
        <5> HIDE DEF parts
        <5>3. \A t \in Memory!alloc_large(m, pool, n, parts) : Good(t)
          BY <2>2, <5>1, <5>2, LargeKeeps
        <5>. QED BY <4>2, <5>3 DEF parts
      <4>3. ASSUME NEW w \in Widths, NEW h \in Heights,
                   m' \in Memory!alloc_sarray(m, pool, w, h)
            PROVE  Good(m')
        <5>1. w \in Nat \ {0} /\ h \in Nat \ {0}
          BY DEF Memory!MemoryAssumption
        <5>. QED BY <2>2, <4>3, <5>1, ArrayKeeps
      <4>. QED BY <3>2, <4>1, <4>2, <4>3
    <3>. QED BY <2>1, <3>1, <3>3 DEF MemoryInv, Good
  <2>4. CASE Memory!jpeg_abort
    <3>1. m' = Memory!free_pool(m, Memory!IMAGE) /\ made' = made
      BY <2>4, Zenon DEF Memory!jpeg_abort
    <3>2. Memory!IMAGE \in Memory!Pools
      BY DEF Memory!IMAGE, Memory!Pools
    <3>3. Kept(m')
      <4>1. Kept(Memory!free_pool(m, Memory!IMAGE))
        BY <2>1, <3>2, FreeKeeps
      <4>. QED BY <3>1, <4>1
    <3>. QED BY <2>1, <3>1, <3>3 DEF MemoryInv
  <2>5. CASE Memory!jpeg_destroy
    <3>1. made' = FALSE /\ m' = [Memory!Empty EXCEPT !.heap = Memory!self_destruct(m)]
      BY <2>5, Zenon DEF Memory!jpeg_destroy
    <3>2. Memory!self_destruct(m) = << >>
      BY <2>1, DestroyLeavesNothing
    <3>3. m' = [Memory!Empty EXCEPT !.heap = << >>]
      BY <3>1, <3>2
    <3>4. m' = Memory!Empty
      BY <3>3, EmptyIs DEF State
    <3>. QED BY <3>1, <3>4 DEF MemoryInv
  <2>. QED BY <1>2, <2>3, <2>4, <2>5
<1>3. CASE UNCHANGED Memory!vars
  <2>1. m' = m /\ made' = made
    BY <1>3 DEF Memory!vars
  <2>. QED BY <2>1 DEF MemoryInv
<1>. QED BY <1>1, <1>2, <1>3, Zenon DEF Memory!Next

\* and it implies the properties.
LEMMA MemoryMeans ==
  ASSUME Memory!MemoryAssumption, MemoryInv
  PROVE  Memory!ObjectsApart /\ Memory!TotalIsHeld /\ Memory!NothingLeft
<1>0. DOMAIN << >> = {} /\ SumOf(<< >>, {}) = 0
  <2> DEFINE h == << >>
  <2>1. IsFiniteSet({}) /\ \A x \in {} : h[x] \in Int
    BY FS_EmptySet
  <2>2. DOMAIN h = {}
    OBVIOUS
  <2> HIDE DEF h
  <2>3. SumOf(h, {}) = 0
    BY <2>1, SumAdds
  <2>. QED BY <2>2, <2>3 DEF h
<1>1. Memory!SumFunction(m.heap) = SumOf(m.heap, DOMAIN m.heap)
  <2>1. Memory!SumFunction(m.heap) = Memory!SumFunctionOnSet(m.heap, DOMAIN m.heap)
    BY Zenon DEF Memory!SumFunction
  <2>. QED BY <2>1, SumsToo
<1>2. CASE m = Gone
  <2>1. Memory!ObjectsApart
    BY <1>2, GoneIs DEF Memory!ObjectsApart
  <2>2. Memory!TotalIsHeld
    <3>1. m.total = 0 /\ m.heap = << >>
      BY <1>2, GoneIs
    <3>2. Memory!SumFunction(m.heap) = 0 /\ DOMAIN m.heap = {}
      BY <1>0, <1>1, <3>1
    <3>. QED BY <3>1, <3>2 DEF Memory!TotalIsHeld
  <2>3. Memory!NothingLeft
    BY <1>2, GoneIs DEF Memory!NothingLeft
  <2>. QED BY <2>1, <2>2, <2>3
<1>3. CASE m = Memory!Empty /\ ~made
  BY <1>3, EmptyIs DEF Memory!ObjectsApart, Memory!TotalIsHeld, Memory!NothingLeft
<1>4. CASE Kept(m) /\ made
  <2>1. m \in State /\ BlocksInv(m) /\ ObjectsInv(m) /\ m.total = SumOf(m.heap, DOMAIN m.heap)
    BY <1>4 DEF Kept
  <2>2. HDR \in Nat
    BY DEF Memory!MemoryAssumption
  <2>3. ASSUME NEW o \in m.objects
        PROVE  /\ o.block \in DOMAIN m.heap /\ o.from >= HDR
               /\ o.from + o.bytes <= m.heap[o.block] /\ (o.row \/ o.from % ALIGN = 0)
    <3>1. o \in Object
      BY <2>1 DEF State
    <3>2. o.pool \in Memory!Pools /\ o.from \in Nat /\ o.bytes \in Nat
      BY <3>1 DEF Object
    <3>3. PICK q \in Memory!PoolsOf(m, o.pool) :
            q.block = o.block /\ HDR <= o.from /\ o.from + o.bytes <= HDR + q.used
      BY <2>1 DEF ObjectsInv
    <3>4. q.block \in DOMAIN m.heap /\ m.heap[q.block] = q.used + q.left + HDR
      BY <2>1, <3>2 DEF BlocksInv
    <3>5. q.used \in Nat /\ q.left \in Nat
      <4>1. q \in PoolRec
        BY <2>1, <3>2, PoolsFinite
      <4>. QED BY <4>1 DEF PoolRec
    <3>6. o.row \/ o.from % ALIGN = 0
      BY <2>1 DEF ObjectsInv
    <3>7. o.from >= HDR /\ o.from + o.bytes <= q.used + q.left + HDR
      BY <2>2, <3>2, <3>3, <3>5
    <3>. QED BY <3>3, <3>4, <3>6, <3>7
  <2>4. \A o, q \in m.objects : \/ o = q \/ o.block # q.block
                                \/ o.from + o.bytes <= q.from \/ q.from + q.bytes <= o.from
    BY <2>1 DEF ObjectsInv, Apart
  <2>5. \A b \in DOMAIN m.heap : b = 1 \/ m.heap[b] <= MAX_ALLOC_CHUNK
    BY <2>1 DEF BlocksInv
  <2>6. Memory!ObjectsApart
    BY <2>3, <2>4 DEF Memory!ObjectsApart
  <2>7. Memory!TotalIsHeld
    BY <1>1, <2>1, <2>5 DEF Memory!TotalIsHeld
  <2>. QED BY <1>4, <2>6, <2>7 DEF Memory!NothingLeft
<1>. QED BY <1>2, <1>3, <1>4 DEF MemoryInv

\* The memory manager of the JPEG library keeps its objects apart and its books
\* straight and leaves nothing behind, whatever is asked for and however little
\* malloc() gives; and a virtual array reads from its file only what it wrote,
\* and zeroes ahead of the writer (jmemmgr.c).
THEOREM MemoryIsHeld ==
  /\ Memory!MemoryAssumption /\ Virtual!VirtualAssumption
  /\ Memory!Spec /\ Virtual!Spec
  => []MemoryHolds
<1>1. Memory!MemoryAssumption => Memory!MemoryAssumption'
  BY DEF Memory!MemoryAssumption, Memory!Pools, Memory!PERMANENT, Memory!IMAGE
<1>2. Memory!MemoryAssumption /\ MemoryInv /\ [Memory!Next]_(Memory!vars) => MemoryInv'
  BY MemoryStep
<1>3. Virtual!VirtualAssumption /\ Virtual!Init => ArrayInv
  BY ArrayInit
<1>4. Virtual!VirtualAssumption /\ ArrayInv /\ [Virtual!Next]_(Virtual!vars) => ArrayInv'
  BY ArrayStep
<1>5. Virtual!VirtualAssumption => Virtual!VirtualAssumption'
  BY DEF Virtual!VirtualAssumption
<1>6. Memory!MemoryAssumption /\ MemoryInv /\ ArrayInv => MemoryHolds
  <2> SUFFICES ASSUME Memory!MemoryAssumption, MemoryInv, ArrayInv PROVE MemoryHolds
    OBVIOUS
  <2>1. Memory!ObjectsApart /\ Memory!TotalIsHeld /\ Memory!NothingLeft
    BY MemoryMeans
  <2>2. Virtual!ReadsZeroes /\ Virtual!ReadsWhatWasWritten
    BY Zenon DEF ArrayInv, Virtual!ReadsWhatWasWritten
  <2>3. Virtual!TypeOK
    BY Zenon DEF ArrayInv, ArrayTypes, RequestTypes, WindowInv, Virtual!TypeOK
  <2>. QED BY <2>1, <2>2, <2>3 DEF MemoryHolds
<1>. QED BY <1>1, <1>2, <1>3, <1>4, <1>5, <1>6, MemoryInit, PTL
            DEF Memory!Spec, Virtual!Spec

=============================================================================
