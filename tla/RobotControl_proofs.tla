-------------------------- MODULE RobotControl_proofs --------------------------
(***************************************************************************)
(* The safety of the robot's message handler and its timed movements, for  *)
(* any joystick states, aim corrections, speeds and ranges.                *)
(***************************************************************************)
EXTENDS RobotControl, SequenceTheorems, TLAPS

\* The movements a handler waits for lead to poses that no gait has.
Waited == {AtRest} \union [of : {"left", "right"}, phase : 1..5]
Moves  == [pose : Waited, speed : Speeds]

SpeedRange == -SpeedBound..SpeedBound

\* What the handler is about: it has movements to start only while it is busy,
\* and when it waits the movement under way is the first of them; the adjustment
\* it will make of a speed was found to be within the bounds.
HandlerInv ==
  /\ todo \in Seq(Moves)
  /\ pc # "busy" => todo = << >> /\ waiting = FALSE
  /\ waiting = TRUE => todo # << >> /\ target = todo[1].pose
  /\ pc = "busy" /\ Adjusts(joystick1)
       => /\ NewSpeed(MoveSpeed, joystick1) \in SpeedRange
          /\ NewSpeed(turnSpeed, joystick1) \in SpeedRange

\* A reset is the last movement of its handler, and it is the pose at rest.
ResetInv ==
  pc = "busy" /\ "X" \in joystick1.buttons
    => \/ todo # << >> /\ todo[Len(todo)].pose = AtRest
       \/ todo = << >> /\ target = AtRest /\ stepNo = 0

\* The gait counter is one step ahead of the walking step that was begun last.
GaitInv == target.of = "walk" => stepNo = (target.phase + 1) % 4

\* Once the handler has carried on a movement it is never in a millisecond in
\* which moveNow() has moved.
TimeInv == pc = "busy" /\ begun = TRUE => sameMs = FALSE

Inv == TypeOK /\ HandlerInv /\ ResetInv /\ GaitInv /\ TimeInv

LEMMA NumbersAssumed ==
  /\ SpeedBound \in Nat /\ SpeedStep \in Nat /\ SplitExtra \in Nat
  /\ MoveSpeed0 \in 1..SpeedBound /\ TurnSpeed0 \in 1..SpeedBound
  /\ TurretRange \in Nat /\ TiltRange \in Nat
  BY ControlAssumption, Zenon

LEMMA SpeedsWider == SpeedRange \subseteq Speeds
  BY NumbersAssumed DEF SpeedRange, Speeds

LEMMA InitInv == Init => Inv
<1> SUFFICES ASSUME Init PROVE Inv
  OBVIOUS
<1>1. /\ waiting \in BOOLEAN /\ moving \in BOOLEAN
      /\ sameMs \in BOOLEAN /\ begun \in BOOLEAN
  BY Zenon DEF Init
<1>2. target \in Poses /\ 0 \in Speeds
  BY NumbersAssumed DEF Init, Poses, Speeds
<1>3. todo \in Seq([pose : Poses, speed : Speeds]) /\ todo \in Seq(Moves)
  BY EmptySeq DEF Init
<1>4. TypeOK
  BY <1>1, <1>2, <1>3, NumbersAssumed DEF Init, TypeOK
<1>5. HandlerInv /\ TimeInv
  BY <1>3 DEF Init, HandlerInv, TimeInv
<1>6. ResetInv /\ GaitInv
  BY DEF Init, ResetInv, GaitInv, AtRest, Pose
<1>. QED BY <1>4, <1>5, <1>6 DEF Inv

-----------------------------------------------------------------------------
(* The operators of the handler.                                           *)

\* A turret position stays within its range.
LEMMA ConstrainInRange ==
  ASSUME NEW x \in Int, NEW range \in Nat
  PROVE  Constrain(x, range) \in -range..range
  BY DEF Constrain

LEMMA WaitedPoses == Waited \subseteq Poses /\ AtRest \in Waited
  BY DEF Waited, Poses

\* No pose of a turn or a reset is one of the gait.
LEMMA WaitedNotWalking == \A p \in Waited : p.of # "walk"
  BY DEF Waited, AtRest, Pose

\* A turn is a sequence of six movements.
LEMMA TurnMoves ==
  ASSUME turnSpeed \in SpeedRange, NEW dir \in {"left", "right"}
  PROVE  Turn(dir) \in Seq(Moves)
<1> DEFINE e(k) == [pose  |-> IF k = 6 THEN AtRest ELSE Pose(dir, k),
                    speed |-> turnSpeed + (IF k \in {1, 5} THEN SplitExtra ELSE 0)]
<1>1. ASSUME NEW k \in 1..6 PROVE e(k) \in Moves
  <2>1. (IF k = 6 THEN AtRest ELSE Pose(dir, k)) \in Waited
    BY DEF Waited, Pose
  <2>2. turnSpeed + (IF k \in {1, 5} THEN SplitExtra ELSE 0) \in Speeds
    BY NumbersAssumed DEF SpeedRange, Speeds
  <2>. QED BY <2>1, <2>2 DEF Moves
<1>2. Turn(dir) \in [1..6 -> Moves]
  BY <1>1, Zenon DEF Turn
<1>3. [1..6 -> Moves] \subseteq Seq(Moves)
  BY SeqDef
<1>. QED BY <1>2, <1>3

\* What a frame gives the handler to wait for: movements, the last of them the
\* pose at rest when the frame asks for a reset.
LEMMA TodoMoves ==
  ASSUME TypeOK, NEW j \in Joysticks, handleJoystick(j)
  PROVE  /\ todo' \in Seq(Moves)
         /\ "X" \in j.buttons => todo' # << >> /\ todo'[Len(todo')].pose = AtRest
<1> DEFINE left  == IF Released(j, "S") THEN Turn("left") ELSE << >>
           right == IF Released(j, "C") THEN Turn("right") ELSE << >>
           rest  == [pose |-> AtRest, speed |-> MoveSpeed]
           reset == IF "X" \in j.buttons THEN <<rest>> ELSE << >>
<1>1. todo' = left \o right \o reset
  BY DEF handleJoystick
<1>2. left \in Seq(Moves) /\ right \in Seq(Moves)
  <2>1. turnSpeed \in SpeedRange
    BY DEF TypeOK, SpeedRange
  <2>2. Turn("left") \in Seq(Moves) /\ Turn("right") \in Seq(Moves)
    BY <2>1, TurnMoves
  <2>. QED BY <2>2, EmptySeq
<1>3. rest \in Moves
  <2>1. MoveSpeed \in Speeds
    BY SpeedsWider DEF TypeOK, SpeedRange
  <2>. QED BY <2>1, WaitedPoses DEF Moves
<1>4. reset \in Seq(Moves)
  BY <1>3
<1> HIDE DEF left, right, rest, reset
<1>5. left \o right \in Seq(Moves)
  BY <1>2
<1>6. todo' \in Seq(Moves)
  BY <1>1, <1>4, <1>5
<1>7. CASE "X" \in j.buttons
  <2>1. reset = <<rest>> /\ rest.pose = AtRest
    BY <1>7 DEF reset, rest
  <2>2. todo' = Append(left \o right, rest)
    BY <1>1, <1>3, <1>5, <2>1
  <2>3. Len(todo') = Len(left \o right) + 1 /\ todo'[Len(todo')] = rest
    BY <1>3, <1>5, <2>2
  <2>. QED BY <1>5, <1>6, <2>1, <2>3
<1>. QED BY <1>6, <1>7

-----------------------------------------------------------------------------
(* The steps, one lemma for each that changes what the invariant is about.  *)

\* A frame begins a handler.
LEMMA handleJoystickInv ==
  ASSUME Inv, NEW j \in Joysticks, handleJoystick(j) PROVE Inv'
<1> USE DEF Inv
<1>1. /\ pc = "msgReady" /\ pc' = "busy" /\ joystick1' = j /\ begun' = FALSE
      /\ WalkStep(j)
      /\ UNCHANGED <<currentCommand, waiting, moving, MoveSpeed, turnSpeed, sameMs,
                     turret, turretElevation>>
  BY DEF handleJoystick, aimVars
<1>2. /\ todo' \in Seq(Moves)
      /\ "X" \in j.buttons => todo' # << >> /\ todo'[Len(todo')].pose = AtRest
  BY TodoMoves
<1>3. todo' \in Seq([pose : Poses, speed : Speeds])
  <2>1. Moves \subseteq [pose : Poses, speed : Speeds]
    BY WaitedPoses DEF Moves
  <2>. QED BY <1>2, <2>1, SeqMonotonic
<1>4. /\ stepNo' \in 0..3
      /\ target' \in Poses /\ speed' \in Speeds /\ elapsed' \in Nat
      /\ GaitInv'
  <2>1. CASE UNCHANGED <<target, speed, elapsed, stepNo>>
    BY <2>1 DEF TypeOK, GaitInv
  <2>2. CASE movement(Pose("walk", stepNo), MoveSpeed) /\ stepNo' = (stepNo + 1) % 4
    <3>1. /\ target' = [of |-> "walk", phase |-> stepNo]
          /\ speed' = MoveSpeed /\ elapsed' = 0 /\ stepNo \in 0..3
          /\ MoveSpeed \in SpeedRange
      BY <2>2 DEF movement, Pose, TypeOK, SpeedRange
    <3>. QED BY <2>2, <3>1, SpeedsWider DEF Poses, GaitInv
  <2>. QED BY <1>1, <2>1, <2>2 DEF WalkStep
<1>5. on' \subseteq {"L1", "R1", "Select", "Start"}
  BY DEF handleJoystick, Guns, Lights
<1>6. TypeOK'
  BY <1>1, <1>3, <1>4, <1>5 DEF TypeOK
<1>7. HandlerInv'
  <2>1. Adjusts(j) => /\ NewSpeed(MoveSpeed, j) \in SpeedRange
                      /\ NewSpeed(turnSpeed, j) \in SpeedRange
    BY DEF handleJoystick, SpeedRange
  <2>2. waiting = FALSE
    BY <1>1 DEF HandlerInv
  <2>. QED BY <1>1, <1>2, <2>1, <2>2 DEF HandlerInv, Adjusts, NewSpeed
<1>. QED BY <1>1, <1>2, <1>4, <1>6, <1>7 DEF ResetInv, TimeInv

\* The handler starts the next of its movements.
LEMMA StartMoveInv == ASSUME Inv, StartMove PROVE Inv'
<1> USE DEF Inv
<1>1. /\ pc = "busy" /\ todo # << >> /\ waiting' = TRUE
      /\ target' = Head(todo).pose /\ speed' = Head(todo).speed /\ elapsed' = 0
      /\ UNCHANGED <<pc, currentCommand, joystick1, todo, on, moving, MoveSpeed,
                     turnSpeed, stepNo, sameMs, begun>>
  BY DEF StartMove, movement
<1>2. todo \in Seq(Moves) /\ Head(todo) \in Moves /\ Head(todo) = todo[1]
  BY <1>1 DEF HandlerInv
<1>3. target' \in Waited /\ speed' \in Speeds
  BY <1>1, <1>2 DEF Moves
<1>4. turret' \in -TurretRange..TurretRange /\ turretElevation' \in -TiltRange..TiltRange
  BY NumbersAssumed DEF StartMove, aimVars, TypeOK
<1>5. TypeOK'
  BY <1>1, <1>3, <1>4, WaitedPoses DEF TypeOK
<1>6. HandlerInv'
  BY <1>1, <1>2 DEF HandlerInv, Adjusts, NewSpeed
<1>7. GaitInv'
  BY <1>3, WaitedNotWalking DEF GaitInv
<1>. QED BY <1>1, <1>5, <1>6, <1>7 DEF ResetInv, TimeInv

\* A movement is over: what is left is what follows it, and after the reset
\* nothing is left, the legs go to the pose at rest and the gait starts anew.
LEMMA MoveOverInv == ASSUME Inv, MoveOver PROVE Inv'
<1> USE DEF Inv
<1>1. /\ pc = "busy" /\ waiting = TRUE /\ waiting' = FALSE /\ todo' = Tail(todo)
      /\ stepNo' = IF Reset THEN 0 ELSE stepNo
      /\ UNCHANGED <<pc, currentCommand, joystick1, on, moving, MoveSpeed, turnSpeed,
                     target, speed, elapsed, sameMs, turret, turretElevation, begun>>
  BY DEF MoveOver, moveVars, aimVars, TypeOK
<1>2. todo \in Seq(Moves) /\ todo # << >> /\ target = todo[1].pose
  BY <1>1 DEF HandlerInv
<1>3. /\ todo' \in Seq(Moves) /\ Len(todo') = Len(todo) - 1
      /\ \A i \in 1..Len(todo') : todo'[i] = todo[i + 1]
  BY <1>1, <1>2, HeadTailProperties
<1>4. todo' \in Seq([pose : Poses, speed : Speeds])
  <2>1. Moves \subseteq [pose : Poses, speed : Speeds]
    BY WaitedPoses DEF Moves
  <2>. QED BY <1>3, <2>1, SeqMonotonic
<1>5. TypeOK'
  <2>1. stepNo' \in 0..3
    BY <1>1 DEF TypeOK
  <2>2. waiting' \in BOOLEAN
    BY <1>1, Zenon
  <2>. QED BY <1>1, <1>4, <2>1, <2>2 DEF TypeOK
<1>6. HandlerInv'
  BY <1>1, <1>3 DEF HandlerInv, Adjusts, NewSpeed
<1>7. ResetInv'
  <2> SUFFICES ASSUME "X" \in joystick1.buttons
               PROVE  \/ todo' # << >> /\ todo'[Len(todo')].pose = AtRest
                      \/ todo' = << >> /\ target = AtRest /\ stepNo' = 0
    BY <1>1 DEF ResetInv
  <2>1. todo[Len(todo)].pose = AtRest
    BY <1>1, <1>2 DEF ResetInv
  <2>2. CASE Len(todo) = 1
    BY <1>1, <1>2, <1>3, <2>1, <2>2 DEF Reset
  <2>3. CASE Len(todo) # 1
    <3>1. Len(todo') \in 1..Len(todo') /\ Len(todo') + 1 = Len(todo)
      BY <1>2, <1>3, <2>3
    <3>2. todo'[Len(todo')] = todo[Len(todo)]
      BY <1>3, <3>1
    <3>. QED BY <1>3, <2>1, <3>1, <3>2
  <2>. QED BY <2>2, <2>3
<1>8. GaitInv'
  <2>1. todo[1] \in Moves
    BY <1>2
  <2>2. target \in Waited
    BY <1>2, <2>1 DEF Moves
  <2>. QED BY <1>1, <2>2, WaitedNotWalking DEF GaitInv
<1>. QED BY <1>1, <1>5, <1>6, <1>7, <1>8 DEF TimeInv

\* The handler ends: an adjusted speed is within its bounds.
LEMMA FinishInv == ASSUME Inv, Finish PROVE Inv'
<1> USE DEF Inv
<1>1. /\ pc = "busy" /\ pc' = "moveNow" /\ todo = << >> /\ currentCommand' = "none"
      /\ UNCHANGED <<joystick1, todo, waiting, on, moving, stepNo, target, speed,
                     elapsed, sameMs, begun>>
  BY DEF Finish, moveVars
<1>2. waiting = FALSE
  BY <1>1 DEF HandlerInv, TypeOK
<1>3. joystick1.RightX \in Int /\ joystick1.RightY \in Int
  BY ControlAssumption DEF TypeOK, AtEase
<1>4. turret' \in -TurretRange..TurretRange /\ turretElevation' \in -TiltRange..TiltRange
  <2>1. turret + joystick1.RightX \in Int /\ turretElevation + joystick1.RightY \in Int
    BY <1>3, NumbersAssumed DEF TypeOK
  <2>2. /\ turret' = Constrain(turret + joystick1.RightX, TurretRange)
        /\ turretElevation' = Constrain(turretElevation + joystick1.RightY, TiltRange)
    BY DEF Finish
  <2>. QED BY <2>1, <2>2, ConstrainInRange, NumbersAssumed
<1>5. MoveSpeed' \in SpeedRange /\ turnSpeed' \in SpeedRange
  <2>1. CASE Adjusts(joystick1)
    <3>1. /\ NewSpeed(MoveSpeed, joystick1) \in SpeedRange
          /\ NewSpeed(turnSpeed, joystick1) \in SpeedRange
      BY <1>1, <2>1 DEF HandlerInv
    <3>. QED BY <2>1, <3>1 DEF Finish, TypeOK, SpeedRange
  <2>2. CASE ~Adjusts(joystick1)
    BY <2>2 DEF Finish, TypeOK, SpeedRange
  <2>. QED BY <2>1, <2>2
<1>6. TypeOK'
  BY <1>1, <1>4, <1>5 DEF TypeOK, SpeedRange
<1>. QED
  BY <1>1, <1>2, <1>6 DEF HandlerInv, ResetInv, GaitInv, TimeInv

\* An aim correction moves the turret within its range.
LEMMA ReadAimInv ==
  ASSUME Inv, NEW a \in AimSteps, ReadAim(a[1], a[2]) PROVE Inv'
<1> USE DEF Inv
<1>1. /\ pc = "msgReady" /\ pc' = "moveNow" /\ currentCommand' = "none"
      /\ UNCHANGED <<joystick1, todo, waiting, on, moving, MoveSpeed, turnSpeed,
                     stepNo, target, speed, elapsed, sameMs, begun>>
  BY DEF ReadAim, moveVars
<1>2. turret' \in -TurretRange..TurretRange /\ turretElevation' \in -TiltRange..TiltRange
  <2>1. turret + a[1] \in Int /\ turretElevation + a[2] \in Int
    <3>1. a[1] \in Int /\ a[2] \in Int
      BY ControlAssumption
    <3>. QED BY <3>1, NumbersAssumed DEF TypeOK
  <2>2. /\ turret' = Constrain(turret + a[1], TurretRange)
        /\ turretElevation' = Constrain(turretElevation + a[2], TiltRange)
    BY DEF ReadAim
  <2>. QED BY <2>1, <2>2, ConstrainInRange, NumbersAssumed
<1>3. TypeOK'
  BY <1>1, <1>2 DEF TypeOK
<1>. QED
  BY <1>1, <1>3 DEF HandlerInv, ResetInv, GaitInv, TimeInv

LEMMA NextInv == Inv /\ [Next]_vars => Inv'
<1> SUFFICES ASSUME Inv, [Next]_vars PROVE Inv'
  OBVIOUS
<1>1. ASSUME NEW j \in Joysticks, handleJoystick(j) PROVE Inv'
  BY <1>1, handleJoystickInv
<1>2. ASSUME NEW a \in AimSteps, ReadAim(a[1], a[2]) PROVE Inv'
  BY <1>2, ReadAimInv
<1>3. CASE StartMove
  BY <1>3, StartMoveInv
<1>4. CASE MoveOver
  BY <1>4, MoveOverInv
<1>5. CASE Finish
  BY <1>5, FinishInv
<1> USE DEF Inv, TypeOK, HandlerInv, ResetInv, GaitInv, TimeInv, Adjusts, NewSpeed,
        moveVars, aimVars
<1>6. CASE ReadCommand
  BY <1>6 DEF ReadCommand
<1>7. CASE WaitMove
  BY <1>7 DEF WaitMove, MovesNow
<1>8. CASE moveNow
  <2>1. moving' \in BOOLEAN /\ sameMs' \in BOOLEAN
    BY <1>8, Zenon DEF moveNow, MovesNow
  <2>2. /\ pc # "busy" /\ pc' = "msgReady"
        /\ UNCHANGED <<currentCommand, joystick1, todo, waiting, on, MoveSpeed,
                       turnSpeed, stepNo, target, speed, elapsed, turret,
                       turretElevation, begun>>
    BY <1>8 DEF moveNow
  <2>. QED BY <2>1, <2>2
<1>9. CASE Tick
  <2>1. /\ sameMs' = FALSE /\ elapsed' \in Nat
        /\ UNCHANGED <<pc, currentCommand, joystick1, todo, waiting, on, moving,
                       MoveSpeed, turnSpeed, stepNo, target, speed, turret,
                       turretElevation, begun>>
    BY <1>9 DEF Tick
  <2>2. sameMs' \in BOOLEAN
    BY <2>1, Zenon
  <2>. QED BY <2>1, <2>2
<1>10. CASE UNCHANGED vars
  BY <1>10 DEF vars
<1>. QED
  BY <1>1, <1>2, <1>3, <1>4, <1>5, <1>6, <1>7, <1>8, <1>9, <1>10
  DEF Next, msgReady, InHandler

LEMMA Invariant == Spec => []Inv
  BY InitInv, NextInv, PTL DEF Spec

-----------------------------------------------------------------------------
(* What the invariant is for.                                              *)

\* Every variable keeps its type: the turret stays within its range and the
\* speeds within the bounds, whatever messages come in whatever order.
THEOREM TypeCorrect == Spec => []TypeOK
  BY Invariant, PTL DEF Inv

\* A walking step that follows another is the next one of the four, in spite of
\* turns, resets and steps that are cut short.
THEOREM GaitStaysInPhase == Spec => GaitInPhase
<1>1. Inv /\ [Next]_vars
        => [target.of = "walk" /\ target'.of = "walk" /\ target' # target
              => target'.phase = (target.phase + 1) % 4]_vars
  <2> SUFFICES ASSUME Inv, Next, target.of = "walk", target'.of = "walk",
                      target' # target
               PROVE  target'.phase = (target.phase + 1) % 4
    OBVIOUS
  <2>1. ASSUME NEW j \in Joysticks, handleJoystick(j)
        PROVE  target'.phase = (target.phase + 1) % 4
    <3>1. target' = [of |-> "walk", phase |-> stepNo]
      BY <2>1 DEF handleJoystick, WalkStep, movement, Pose
    <3>. QED BY <3>1 DEF Inv, GaitInv
  <2>2. ~StartMove
    <3> SUFFICES ASSUME StartMove PROVE FALSE
      OBVIOUS
    <3>1. target' = Head(todo).pose /\ todo \in Seq(Moves) /\ todo # << >>
      BY DEF StartMove, movement, Inv, HandlerInv
    <3>2. Head(todo) \in Moves
      BY <3>1
    <3>3. target' \in Waited
      BY <3>1, <3>2 DEF Moves
    <3>. QED BY <3>3, WaitedNotWalking
  <2>3. \A x, y : ~ReadAim(x, y)
    BY Zenon DEF ReadAim, moveVars
  <2>4. ~(ReadCommand \/ WaitMove \/ MoveOver \/ Finish \/ moveNow \/ Tick)
    BY Zenon DEF ReadCommand, WaitMove, MoveOver, Finish, moveNow, Tick, moveVars
  <2>. QED BY <2>1, <2>2, <2>3, <2>4 DEF Next, msgReady, InHandler
<1>. QED BY <1>1, Invariant, PTL DEF Spec, GaitInPhase

\* Once a movement of a handler was carried on, the movements after it take the
\* time they are given: none ends because moveNow() was called too soon.
THEOREM NoneMissed == Spec => NoMovementMissed
<1>1. Inv /\ [Next]_vars => [MoveOver => elapsed >= speed \/ ~begun]_vars
  <2> SUFFICES ASSUME Inv, MoveOver, begun PROVE elapsed >= speed
    OBVIOUS
  <2>1. pc = "busy" /\ ~MovesNow
    BY DEF MoveOver
  <2>2. begun = TRUE
    BY DEF Inv, TypeOK
  <2>3. ~sameMs
    BY <2>1, <2>2 DEF Inv, TimeInv
  <2>4. elapsed \in Int /\ speed \in Int
    BY NumbersAssumed DEF Inv, TypeOK, Speeds
  <2>. QED BY <2>1, <2>3, <2>4 DEF MovesNow
<1>. QED BY <1>1, Invariant, PTL DEF Spec, NoMovementMissed

\* When a frame that asks for a reset has been handled, the legs are on their
\* way to the centre and the gait starts from its first step.
THEOREM ResetsComplete == Spec => ResetCompletes
<1>1. Inv /\ [Next]_vars
        => [Finish /\ "X" \in joystick1.buttons => target = AtRest /\ stepNo = 0]_vars
  BY DEF Inv, ResetInv, Finish
<1>. QED BY <1>1, Invariant, PTL DEF Spec, ResetCompletes

=============================================================================
