------------------------------- MODULE Servos -------------------------------
(***************************************************************************)
(* The code that sets servos and remembers where they are: the offset tool *)
(* (ServoOffsets), the MechShield library (MechShield) and a leg on its    *)
(* way to a position (Interpolation), with their properties.               *)
(***************************************************************************)
EXTENDS ServoOffsets

CONSTANTS
  ShieldPins, ShieldPositions, Bounds, Values,
  IntRange, LongRange, Scale, Targets, Speeds, FirstTimes, MaxGap, Rests,
  MaxMovements, MaxTurns

VARIABLES
  servos, pwm, awake, asked, inTime,
  now, startMoveTime, endMoveTime, lastMoveTime, speed, rastart, radist,
  position, movements, turns, wrapped

Shield == INSTANCE MechShield WITH Pins <- ShieldPins, Positions <- ShieldPositions
Leg    == INSTANCE Interpolation

shieldVars == <<servos, pwm, awake, asked, inTime>>
legVars    == <<now, startMoveTime, endMoveTime, lastMoveTime, speed, rastart,
                radist, position, movements, turns, wrapped>>

-----------------------------------------------------------------------------
(* Properties of the two instances, which their modules explain.           *)

\* MechShield: the degrees of a servo read back, and after a call that returned 0
\* the chip makes the pulse of the record, or none where the pulse would end after
\* the chip's cycle (setPosition, setBounds).
ServosStayRight == Shield!TypeOK /\ Shield!DegreesReadBack /\ Shield!PulseIsTicks

\* Interpolation: a leg does not leave the way to its target while the clock does
\* not wrap (moveNow).
LegOnWay == Leg!TypeOK /\ Leg!BetweenEnds

\* Interpolation: and it comes nearer to its target, by the exact quotient (moveNow).
MovesOn == []LegOnWay /\ Leg!MovesOn

=============================================================================
