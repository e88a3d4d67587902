---------------------------- MODULE RobotControl ----------------------------
(***************************************************************************)
(* What the robot does with the frames it gets (robot.pde): loop(), the    *)
(* dispatch of msgReady(), handleJoystick(), and the timed movements that  *)
(* movement() sets up and moveNow() carries out.  Walking steps run while  *)
(* the loop goes on; a turn is six movements, and a reset one, that the    *)
(* handler waits for.  RobotSerial models how frames are found.            *)
(*                                                                         *)
(* The times startMoveTime, endMoveTime and lastMoveTime only ever meet in *)
(* comparisons with millis(), so they are kept relative to it: elapsed is  *)
(* millis() - startMoveTime, up to speed, and sameMs says that millis() is *)
(* lastMoveTime.  (millis() wraps after 49 days, which is left out.)  The  *)
(* angles of a movement are left out, and so are the leg servos, the       *)
(* stride offset, the range finders and the damage count.                  *)
(***************************************************************************)
EXTENDS Integers, Sequences, FiniteSets

CONSTANTS
  Joysticks,    \* joystick states that can arrive
  AimSteps,     \* <<x, y>> of aim corrections
  MoveSpeed0,   \* initial MoveSpeed (260 in the code)
  TurnSpeed0,   \* initial turnSpeed (320)
  SpeedStep,    \* what Up and Down change a speed by (10)
  SplitExtra,   \* what the split phases of a turn take longer (50)
  TurretRange,  \* turret positions from the centre (333)
  TiltRange,    \* turretElevation either way (166)
  SpeedBound    \* bound on the speeds either way

Buttons == {"X", "C", "S", "L1", "R1", "L2R2", "Select", "Start", "Up", "Down"}

ASSUME ControlAssumption ==
  /\ Joysticks \subseteq
       [buttons : SUBSET Buttons, walk : BOOLEAN, RightX : Int, RightY : Int]
  /\ AimSteps \subseteq Int \X Int
  /\ SpeedBound \in Nat
  /\ MoveSpeed0 \in 1..SpeedBound /\ TurnSpeed0 \in 1..SpeedBound
  /\ SpeedStep \in Nat /\ SplitExtra \in Nat
  /\ TurretRange \in Nat /\ TiltRange \in Nat

VARIABLES
  pc,              \* "msgReady", "busy" in handleJoystick, "moveNow" in loop()
  currentCommand,  \* "C", "A", or "none" for the ' ' of the code
  joystick1,
  todo,            \* the movements handleJoystick has yet to start
  waiting,         \* it waits for one it has started
  on,              \* which of the lights and guns are on
  moving,
  MoveSpeed, turnSpeed,
  stepNo,          \* modulo 4, of which its range is a multiple
  target,          \* the pose the last movement leads to
  speed,           \* how long that movement takes
  elapsed,         \* how long ago it started
  sameMs,          \* moveNow() has moved in this millisecond
  turret,          \* turret position from the centre
  turretElevation,
  begun            \* a movement of this handleJoystick was carried on (history)

moveVars == <<target, speed, elapsed, sameMs>>
aimVars  == <<turret, turretElevation>>
vars == <<pc, currentCommand, joystick1, todo, waiting, on, moving, MoveSpeed,
          turnSpeed, stepNo, moveVars, aimVars, begun>>

Pose(of, phase) == [of |-> of, phase |-> phase]
AtRest == Pose("rest", 0)

AtEase == [buttons |-> {}, walk |-> FALSE, RightX |-> 0, RightY |-> 0]

\* setup() puts every servo in its centre; no movement is under way.
Init ==
  /\ pc = "msgReady" /\ currentCommand = "none"
  /\ joystick1 = AtEase
  /\ todo = << >> /\ waiting = FALSE
  /\ on = {}
  /\ moving = FALSE
  /\ MoveSpeed = MoveSpeed0 /\ turnSpeed = TurnSpeed0
  /\ stepNo = 0
  /\ target = AtRest /\ speed = 0 /\ elapsed = 0 /\ sameMs = FALSE
  /\ turret = 0 /\ turretElevation = 0
  /\ begun = FALSE

-----------------------------------------------------------------------------
(* movement() and moveNow().                                               *)

movement(pose, s) == target' = pose /\ speed' = s /\ elapsed' = 0

\* moveNow() returns true, and moves, before the end of the movement and at
\* most once in a millisecond.
MovesNow == elapsed < speed /\ ~sameMs

-----------------------------------------------------------------------------
(* loop() and msgReady().                                                  *)

ReadCommand ==
  /\ pc = "msgReady" /\ currentCommand = "none"
  /\ currentCommand' \in {"C", "A"}
  /\ pc' = "moveNow"
  /\ UNCHANGED <<joystick1, todo, waiting, on, moving, MoveSpeed, turnSpeed,
                 stepNo, moveVars, aimVars, begun>>

\* Mutant: only the lower bound is kept.
ConstrainBelow(x, range) == IF x < -range THEN -range ELSE x

Constrain(x, range) ==
  CASE x < -range -> -range [] x > range -> range [] OTHER -> x

ReadAim(x, y) ==
  /\ pc = "msgReady" /\ currentCommand = "A"
  /\ turret' = Constrain(turret + x, TurretRange)
  /\ turretElevation' = Constrain(turretElevation + y, TiltRange)
  /\ currentCommand' = "none"
  /\ pc' = "moveNow"
  /\ UNCHANGED <<joystick1, todo, waiting, on, moving, MoveSpeed, turnSpeed,
                 stepNo, moveVars, begun>>

\* A turn spreads the legs, reverses them, leans and brings them back.
Turn(dir) ==
  [k \in 1..6 |-> [pose  |-> IF k = 6 THEN AtRest ELSE Pose(dir, k),
                   speed |-> turnSpeed + (IF k \in {1, 5} THEN SplitExtra ELSE 0)]]

Released(j, b) == b \in joystick1.buttons \ j.buttons

Guns(j) == {g \in {"L1", "R1"} : g \in j.buttons}

\* Releasing Select or Start toggles the laser or the lamp.
Lights(j) ==
  {l \in {"Select", "Start"} : (l \in on) # Released(j, l)}

\* What Up or Down leaves of the speed that the bumpers choose.
NewSpeed(s, j) == IF "Up" \in j.buttons THEN s - SpeedStep ELSE s + SpeedStep
Adjusts(j)     == j.buttons \intersect {"Up", "Down"} # {}

\* Mutant: the gait takes three of its four steps.
WalkThree(j) ==
  \/ /\ j.walk /\ ~moving
     /\ movement(Pose("walk", stepNo), MoveSpeed)
     /\ stepNo' = (stepNo + 1) % 3
  \/ (~j.walk \/ moving) /\ UNCHANGED <<target, speed, elapsed, stepNo>>

\* No walking step is begun while the robot is moving.
WalkStep(j) ==
  \/ /\ j.walk /\ ~moving
     /\ movement(Pose("walk", stepNo), MoveSpeed)
     /\ stepNo' = (stepNo + 1) % 4
  \/ /\ ~j.walk \/ moving
     /\ UNCHANGED <<target, speed, elapsed, stepNo>>

\* A good frame arrives: handleJoystick() up to the movements it waits for.
handleJoystick(j) ==
  /\ pc = "msgReady" /\ currentCommand = "C"
  /\ Adjusts(j) => /\ NewSpeed(MoveSpeed, j) \in -SpeedBound..SpeedBound
                   /\ NewSpeed(turnSpeed, j) \in -SpeedBound..SpeedBound
  /\ joystick1' = j
  /\ WalkStep(j)
  /\ on' = Guns(j) \union Lights(j)
  /\ todo' = (IF Released(j, "S") THEN Turn("left") ELSE << >>)
               \o (IF Released(j, "C") THEN Turn("right") ELSE << >>)
               \o (IF "X" \in j.buttons
                   THEN <<[pose |-> AtRest, speed |-> MoveSpeed]>> ELSE << >>)
  /\ pc' = "busy"
  /\ begun' = FALSE
  /\ UNCHANGED <<currentCommand, waiting, moving, MoveSpeed, turnSpeed, sameMs,
                 aimVars>>

Reset == Len(todo) = 1 /\ "X" \in joystick1.buttons

StartMove ==
  /\ pc = "busy" /\ ~waiting /\ todo # << >>
  /\ movement(Head(todo).pose, Head(todo).speed)
  /\ \/ Reset /\ turret' = 0 /\ turretElevation' = 0
     \/ ~Reset /\ UNCHANGED aimVars
  /\ waiting' = TRUE
  /\ UNCHANGED <<pc, currentCommand, joystick1, todo, on, moving, MoveSpeed,
                 turnSpeed, stepNo, sameMs, begun>>

\* Mutant: there is no delay between two calls of moveNow().
WaitBusily ==
  /\ pc = "busy" /\ waiting /\ MovesNow
  /\ sameMs' = TRUE
  /\ begun' = TRUE
  /\ UNCHANGED <<pc, currentCommand, joystick1, todo, waiting, on, moving,
                 MoveSpeed, turnSpeed, stepNo, target, speed, elapsed, aimVars>>

\* while (moveNow()) delay(1): it moves, and the delay takes it into a later
\* millisecond ...
WaitMove ==
  /\ pc = "busy" /\ waiting /\ MovesNow
  /\ elapsed' = elapsed + 1
  /\ begun' = TRUE
  /\ UNCHANGED <<pc, currentCommand, joystick1, todo, waiting, on, moving,
                 MoveSpeed, turnSpeed, stepNo, target, speed, sameMs, aimVars>>

\* Mutant: the same movement is started again and again.
MoveAgain ==
  /\ pc = "busy" /\ waiting /\ ~MovesNow
  /\ waiting' = FALSE
  /\ UNCHANGED <<pc, currentCommand, joystick1, todo, on, moving, MoveSpeed,
                 turnSpeed, stepNo, moveVars, aimVars, begun>>

\* Mutant: a reset does not restart the gait.
MoveOverOnly ==
  /\ pc = "busy" /\ waiting /\ ~MovesNow
  /\ waiting' = FALSE
  /\ todo' = Tail(todo)
  /\ UNCHANGED <<pc, currentCommand, joystick1, on, moving, MoveSpeed, turnSpeed,
                 stepNo, moveVars, aimVars, begun>>

\* ... until moveNow() returns false.
MoveOver ==
  /\ pc = "busy" /\ waiting /\ ~MovesNow
  /\ waiting' = FALSE
  /\ todo' = Tail(todo)
  /\ stepNo' = IF Reset THEN 0 ELSE stepNo
  /\ UNCHANGED <<pc, currentCommand, joystick1, on, moving, MoveSpeed, turnSpeed,
                 moveVars, aimVars, begun>>

\* The rest of handleJoystick(): turret control and adjustments.
Finish ==
  /\ pc = "busy" /\ todo = << >>
  /\ turret' = Constrain(turret + joystick1.RightX, TurretRange)
  /\ turretElevation' = Constrain(turretElevation + joystick1.RightY, TiltRange)
  /\ IF Adjusts(joystick1)
     THEN IF "L2R2" \in joystick1.buttons
          THEN turnSpeed' = NewSpeed(turnSpeed, joystick1) /\ UNCHANGED MoveSpeed
          ELSE MoveSpeed' = NewSpeed(MoveSpeed, joystick1) /\ UNCHANGED turnSpeed
     ELSE UNCHANGED <<MoveSpeed, turnSpeed>>
  /\ currentCommand' = "none"
  /\ pc' = "moveNow"
  /\ UNCHANGED <<joystick1, todo, waiting, on, moving, stepNo, moveVars, begun>>

\* loop() with no complete message, or after one.
moveNow ==
  /\ pc \in {"msgReady", "moveNow"}
  /\ moving' = MovesNow
  /\ sameMs' = (sameMs \/ MovesNow)
  /\ pc' = "msgReady"
  /\ UNCHANGED <<currentCommand, joystick1, todo, waiting, on, MoveSpeed,
                 turnSpeed, stepNo, target, speed, elapsed, aimVars, begun>>

\* millis() goes on, between any two steps.
Tick ==
  /\ sameMs \/ elapsed < speed
  /\ elapsed' = IF elapsed < speed THEN elapsed + 1 ELSE elapsed
  /\ sameMs' = FALSE
  /\ UNCHANGED <<pc, currentCommand, joystick1, todo, waiting, on, moving,
                 MoveSpeed, turnSpeed, stepNo, target, speed, aimVars, begun>>

-----------------------------------------------------------------------------

msgReady ==
  \/ ReadCommand
  \/ \E a \in AimSteps : ReadAim(a[1], a[2])
  \/ \E j \in Joysticks : handleJoystick(j)

InHandler == StartMove \/ WaitMove \/ MoveOver \/ Finish

Next == msgReady \/ InHandler \/ moveNow \/ Tick

\* The processor goes on with the handler and the loop, and the clock with time;
\* nobody promises that messages come.
Fairness == WF_vars(InHandler) /\ WF_vars(moveNow) /\ WF_vars(Tick)

Spec == Init /\ [][Next]_vars /\ Fairness

-----------------------------------------------------------------------------
(* Correctness                                                             *)

Speeds == -SpeedBound..SpeedBound + SplitExtra
Poses  == {AtRest} \union [of : {"walk"}, phase : 0..3]
                   \union [of : {"left", "right"}, phase : 1..5]

TypeOK ==
  /\ pc \in {"msgReady", "busy", "moveNow"}
  /\ currentCommand \in {"none", "C", "A"}
  /\ joystick1 \in Joysticks \union {AtEase}
  /\ todo \in Seq([pose : Poses, speed : Speeds])
  /\ waiting \in BOOLEAN /\ moving \in BOOLEAN
  /\ sameMs \in BOOLEAN /\ begun \in BOOLEAN
  /\ on \subseteq {"L1", "R1", "Select", "Start"}
  /\ MoveSpeed \in -SpeedBound..SpeedBound /\ turnSpeed \in -SpeedBound..SpeedBound
  /\ stepNo \in 0..3
  /\ target \in Poses /\ speed \in Speeds /\ elapsed \in Nat
  /\ turret \in -TurretRange..TurretRange
  /\ turretElevation \in -TiltRange..TiltRange

\* The legs are where the gait thinks they are: a walking step that follows
\* another is the next one of the four, whatever turns and resets came before,
\* how often moveNow() was late, and how the handler was interrupted.
GaitInPhase ==
  [][target.of = "walk" /\ target'.of = "walk" /\ target' # target
       => target'.phase = (target.phase + 1) % 4]_vars

\* A turn may be lost as a whole, when it is asked for in the millisecond in
\* which the loop moved last; but once one movement of a handler was carried on
\* none of those after it is cut short.
NoMovementMissed == [][MoveOver => elapsed >= speed \/ ~begun]_vars

\* However the speeds were adjusted, handleJoystick() returns, and the robot
\* comes back to reading messages.
HandlerReturns == pc = "busy" ~> pc = "msgReady"

\* A reset is complete: when its frame has been handled the legs are on their
\* way to the centre or there, and the gait starts from its first step.
ResetCompletes ==
  [][Finish /\ "X" \in joystick1.buttons => target = AtRest /\ stepNo = 0]_vars

\* "speed in ms": a walking step takes the time it is given before the next one
\* starts.
StepTakesItsTime ==
  [][target.of = "walk" /\ target'.of = "walk" /\ target' # target
       => elapsed >= speed]_vars

=============================================================================
