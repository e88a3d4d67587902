----------------------------- MODULE MechShield -----------------------------
(***************************************************************************)
(* The MechShield library (MechShield.cpp): servo positions in degrees or  *)
(* microseconds, their bounds, and the registers of the PWM chip behind an *)
(* I2C bus that may fail.                                                  *)
(*                                                                         *)
(* The registers of a pin say when in a cycle of the chip its pulse begins *)
(* and when it ends, in ticks of a microsecond.  They have thirteen bits,  *)
(* of which the highest, CYCLE, switches the pin off.  Pins are those of   *)
(* servos; setPosition() of the four H-bridge pins, which it accepts,      *)
(* indexes past _servos and is undefined.                                  *)
(***************************************************************************)
EXTENDS Integers

CONSTANTS
  Pins,       \* the servo pins used, of 1..MAX_SERVOS
  Positions,  \* the arguments of setPosition
  Bounds,     \* pairs <<min, max>>, the arguments of setBounds
  Values      \* the arguments of analogWrite

MIN_PULSE_WIDTH     == 1000
MAX_PULSE_WIDTH     == 2000
DEFAULT_PULSE_WIDTH == 1500
OFFSET_MULTIPLIER   == 2
CYCLE               == 4096  \* ticks of the chip's cycle, and the full-off bit
INT_MAX             == 32767 \* of the board's integers

ShieldAssumption ==
  /\ Pins \subseteq 1..12 /\ Positions \subseteq Nat /\ Values \subseteq Int
  /\ Bounds \subseteq {b \in (0..INT_MAX) \X (0..INT_MAX) : b[1] < b[2]}

VARIABLES
  servos,   \* _servos: ticks, min and max of each pin
  pwm,      \* the chip's registers of each pin
  awake,    \* the chip's oscillator runs
  asked,    \* the last argument of setPosition, or -1 when the bounds or the
            \* pin were set otherwise since (history)
  inTime    \* the chip got the last call on the pin (history)

vars == <<servos, pwm, awake, asked, inTime>>

Constrain(v, low, high) == IF v < low THEN low ELSE IF v > high THEN high ELSE v

\* Arduino's map(), whose division truncates towards zero.
MapRange(v, fromLow, fromHigh, toLow, toHigh) ==
  LET p == (v - fromLow) * (toHigh - toLow)
      d == fromHigh - fromLow
  IN toLow + IF p >= 0 THEN p \div d ELSE -((-p) \div d)

\* setPosition(): the pulse width of a position.
TicksOf(position, min, max) ==
  LET ticks == IF position < 200
               THEN MapRange(Constrain(position, 0, 180), 0, 180, min, max)
               ELSE position
  IN Constrain(ticks, min, max)

\* Each pin's pulse starts a little later than that of the pin before, and ends
\* where the chip's bits of the sum say.
Start(pin) == (pin - 1) * OFFSET_MULTIPLIER

\* Mutant: the pulse is taken to start with the cycle.
PulseFromZero(pin, ticks) == [on |-> Start(pin), off |-> ticks % (2 * CYCLE)]

Pulse(pin, ticks) ==
  [on |-> Start(pin), off |-> (Start(pin) + ticks) % (2 * CYCLE)]

\* What the chip makes of a pin's registers: no pulse when its full-off bit is set.
Length(registers) ==
  IF registers.off >= CYCLE THEN 0 ELSE (registers.off - registers.on) % CYCLE

DefaultServo == [ticks |-> DEFAULT_PULSE_WIDTH, min |-> MIN_PULSE_WIDTH,
                 max |-> MAX_PULSE_WIDTH]

\* After begin(), whose transmissions may fail unnoticed.
Init ==
  /\ servos = [p \in Pins |-> DefaultServo]
  /\ inTime \in [Pins -> BOOLEAN]
  /\ pwm = [p \in Pins |-> IF inTime[p] THEN Pulse(p, DEFAULT_PULSE_WIDTH)
                                         ELSE [on |-> 0, off |-> CYCLE]]
  /\ awake = TRUE /\ asked = [p \in Pins |-> DEFAULT_PULSE_WIDTH]

\* A transmission of a pin's registers arrives or does not.
Transmit(pin, registers) ==
  \E ok \in BOOLEAN :
     /\ pwm' = IF ok THEN [pwm EXCEPT ![pin] = registers] ELSE pwm
     /\ inTime' = [inTime EXCEPT ![pin] = ok]

setPosition(pin, position) ==
  LET s == servos[pin]
      ticks == TicksOf(position, s.min, s.max)
  IN /\ servos' = [servos EXCEPT ![pin].ticks = ticks]
     /\ Transmit(pin, Pulse(pin, ticks))
     /\ asked' = [asked EXCEPT ![pin] = position]
     /\ UNCHANGED awake

\* setBounds(): the pulse that is being sent is left alone.
setBounds(pin, b) ==
  /\ servos' = [servos EXCEPT ![pin] = [ticks |-> @.ticks, min |-> b[1], max |-> b[2]]]
  /\ asked' = [asked EXCEPT ![pin] = -1]
  /\ UNCHANGED <<pwm, awake, inTime>>

analogWrite(pin, value) ==
  /\ Transmit(pin, [on |-> 0, off |-> Constrain(value, 0, CYCLE - 1)])
  /\ asked' = [asked EXCEPT ![pin] = -1]
  /\ UNCHANGED <<servos, awake>>

sleep == awake' = FALSE /\ UNCHANGED <<servos, pwm, asked, inTime>>
wake  == awake' = TRUE /\ UNCHANGED <<servos, pwm, asked, inTime>>

Next ==
  \/ \E pin \in Pins : \/ \E p \in Positions : setPosition(pin, p)
                       \/ \E b \in Bounds : setBounds(pin, b)
                       \/ \E v \in Values : analogWrite(pin, v)
  \/ sleep \/ wake

Spec == Init /\ [][Next]_vars

getPositionMicro(pin) == servos[pin].ticks
getPosition(pin) ==
  MapRange(getPositionMicro(pin), servos[pin].min, servos[pin].max, 0, 180)

-----------------------------------------------------------------------------
(* Properties.                                                             *)

\* Types; the bounds of a servo are never crossed, which getPosition divides
\* by (setBounds).
TypeOK ==
  /\ \A p \in Pins : /\ servos[p].ticks \in Nat
                     /\ servos[p].min \in Nat /\ servos[p].max \in Nat
                     /\ servos[p].min < servos[p].max
                     /\ pwm[p].on \in 0..CYCLE - 1 /\ pwm[p].off \in 0..2 * CYCLE - 1
  /\ awake \in BOOLEAN /\ inTime \in [Pins -> BOOLEAN]
  /\ asked \in [Pins -> Int]

\* Degrees survive the way to ticks and back to within one: what
\* getPosition() returns is what setPosition() was asked for, under any
\* bounds with a tick to the degree, and whether or not the chip got it.
DegreesReadBack ==
  \A p \in Pins :
    asked[p] \in 0..180 /\ servos[p].max - servos[p].min >= 180 =>
      getPosition(p) \in {asked[p] - 1, asked[p]}

\* After a call of setPosition() that returned 0 the pulse is as long as the
\* servo's record says, if it ends before the chip's cycle does; one that ends in
\* the next cycle sets the full-off bit, and there is none (setPosition).
PulseIsTicks ==
  \A p \in Pins :
    asked[p] # -1 /\ inTime[p] =>
      LET end == Start(p) + servos[p].ticks
      IN /\ end < CYCLE => Length(pwm[p]) = servos[p].ticks
         /\ end \in CYCLE..2 * CYCLE - 1 => Length(pwm[p]) = 0

=============================================================================
