--------------------------- MODULE Interpolation ---------------------------
(***************************************************************************)
(* movement() and moveNow() of robot.pde for one of the six leg servos:    *)
(* the interpolation in 16-bit integers and 32-bit unsigned arithmetic,    *)
(* and a millisecond clock that wraps.  RobotControl has the same calls    *)
(* with their timing and without positions.                                *)
(*                                                                         *)
(* The ranges are constants: the code has IntRange = 2^16, LongRange =     *)
(* 2^32, of the clock too, and Scale = 256.                                *)
(***************************************************************************)
EXTENDS Integers

CONSTANTS
  IntRange, LongRange,  \* how many values an int and a long have
  Scale,
  Targets,      \* positions that the servo is sent to
  Speeds,       \* durations of a movement
  FirstTimes,   \* what millis() may be at the beginning
  MaxGap,       \* the longest time between two calls of moveNow()
  Rests,        \* long times in which moveNow() has nothing to do
  MaxMovements, \* bound: movements
  MaxTurns      \* bound: turns of the loop and rests

HalfInt == IntRange \div 2
Positions == 0..HalfInt - 1
Ints == -HalfInt..HalfInt - 1

InterpolationAssumption ==
  /\ {IntRange, LongRange, Scale, MaxGap, MaxMovements, MaxTurns} \subseteq Nat \ {0}
  /\ IntRange % 2 = 0 /\ LongRange % (Scale * IntRange) = 0
  /\ Targets \subseteq Positions
  /\ Speeds \subseteq 1..HalfInt - 1
  /\ \A s \in Speeds : s * Scale < LongRange
  /\ FirstTimes \subseteq 0..LongRange - 1 /\ Rests \subseteq Nat

VARIABLES
  now,            \* what millis() returns
  startMoveTime, endMoveTime, lastMoveTime, speed,
  rastart, radist,
  position,       \* the servo's
  movements, turns,
  wrapped         \* the clock has wrapped in this movement, or one with a
                  \* wrap has left the servo where none can be (history)

times == <<startMoveTime, endMoveTime, lastMoveTime, speed>>
way   == <<rastart, radist>>
vars  == <<now, times, way, position, movements, turns, wrapped>>

Long(n) == n % LongRange

\* A number cut to an int: the upper half of the range is negative.
Int16(n) ==
  LET low == n % IntRange
  IN IF low < HalfInt THEN low ELSE low - IntRange

Init ==
  /\ now \in FirstTimes
  /\ startMoveTime = 0 /\ endMoveTime = 0 /\ lastMoveTime = 0 /\ speed = 0
  /\ position \in Targets /\ rastart = position /\ radist = 0
  /\ movements = 0 /\ turns = 0 /\ wrapped = FALSE

movement(to, s) ==
  /\ movements < MaxMovements /\ movements' = movements + 1
  /\ wrapped' = (position \notin Positions)
  /\ rastart' = position /\ radist' = Int16(to - position)
  /\ startMoveTime' = now /\ speed' = s /\ endMoveTime' = Long(now + s)
  /\ UNCHANGED <<now, lastMoveTime, position, turns>>

Moves(t) == t < endMoveTime /\ t > lastMoveTime

\* Mutant: the time is not taken relative to the start.
RatioOfClock(t) == Long(t * Scale) \div speed

ratio(t) == Long(Long(t - startMoveTime) * Scale) \div speed

\* Mutant: the product is an int.
ScaledInt(d, r) == Int16(d * r) \div Scale

\* A negative distance becomes a large number, and a negative one again when
\* the position is cut to an int.
Scaled(d, r) == Int16(Long(Long(d) * r) \div Scale)

moveNow(t) ==
  IF Moves(t)
  THEN /\ lastMoveTime' = t
       /\ position' = Int16(rastart + Scaled(radist, ratio(t)))
       /\ UNCHANGED <<startMoveTime, endMoveTime, speed>>
  ELSE UNCHANGED <<times, position>>

\* The loop calls moveNow() again after some time.
Loop ==
  /\ turns < MaxTurns /\ turns' = turns + 1
  /\ \E d \in 0..MaxGap : now' = Long(now + d)
  /\ moveNow(now') /\ wrapped' = (wrapped \/ now' < now)
  /\ UNCHANGED <<way, movements>>

\* A long time passes in which moveNow() would have nothing to do.
Rest ==
  /\ turns < MaxTurns /\ turns' = turns + 1
  /\ \E d \in Rests : /\ \A k \in 0..d : ~Moves(Long(now + k))
                      /\ now' = Long(now + d)
  /\ wrapped' = (wrapped \/ now' < now)
  /\ UNCHANGED <<times, way, position, movements>>

StartMovement == \E to \in Targets, s \in Speeds : movement(to, s)

Next == Loop \/ Rest \/ StartMovement

Spec == Init /\ [][Next]_vars

-----------------------------------------------------------------------------
(* Properties.                                                             *)

\* Times are unsigned, positions and distances are ints, and the speed fits
\* the division (moveNow).
TypeOK ==
  /\ {now, startMoveTime, endMoveTime, lastMoveTime} \subseteq 0..LongRange - 1
  /\ {rastart, radist, position} \subseteq Ints
  /\ wrapped \/ {rastart, position} \subseteq Positions
  /\ speed \in Speeds \cup {0} /\ wrapped \in BOOLEAN /\ movements \in 0..MaxMovements
  /\ turns \in 0..MaxTurns

\* A leg never leaves the way from where it stood to where it is sent, for
\* negative distances as well, unless the clock wraps meanwhile (moveNow).
BetweenEnds ==
  \/ wrapped
  \/ rastart <= position /\ position <= rastart + radist
  \/ rastart + radist <= position /\ position <= rastart

\* Within a movement a leg only comes nearer to its target, and after a call of
\* moveNow() that was not too early or too late it is as far on the way as the
\* exact quotient says, unless the clock has wrapped in this movement (moveNow).
MovesOn ==
  [][movements' = movements /\ ~wrapped' =>
       /\ radist >= 0 => position' >= position
       /\ radist <= 0 => position' <= position
       /\ lastMoveTime' # lastMoveTime =>
            \E r \in 0..Scale - 1 : /\ position' = rastart + (radist * r) \div Scale
                                    /\ r * speed <= Long(now' - startMoveTime) * Scale
                                    /\ Long(now' - startMoveTime) * Scale < (r + 1) * speed]_vars

=============================================================================
