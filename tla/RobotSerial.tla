----------------------------- MODULE RobotSerial -----------------------------
(***************************************************************************)
(* The byte stream from the phone to the robot's Arduino: the frames       *)
(* ControllerState.toBytes and TargetBlob.toBytes write, the serial line,  *)
(* the receive buffer, and the parser in robot.pde (msgReady and           *)
(* readJoystick) that finds the frames again.  A frame is a 'C', the       *)
(* payload and its checksum; the parser trusts nothing but the checksum,   *)
(* and after a bad one it stays in the frame and reads another window of   *)
(* the same length from where it is.                                       *)
(*                                                                         *)
(* A byte is the set of its bits that are 1, so that the C code's ^= is    *)
(* what it is.  What the robot does with a command is not in this module.  *)
(***************************************************************************)
EXTENDS Integers, Sequences, FiniteSets

CONSTANTS
  PayloadLen,  \* bytes of a payload (20 in the code)
  States,      \* the payloads the console's controller states are sent as
  Aims,        \* the <<azimuth, elevation>> byte pairs of aim corrections
  Noise,       \* what a damaged byte can turn into
  RxSize,      \* capacity of the Arduino's receive buffer
  MaxFaults,   \* bound on the bytes lost or damaged on the line
  MaxDamaged,  \* bound: after so many of these, bytes are only lost
  MaxAims      \* bound on the aim corrections sent

Bits == 0..7
Byte == SUBSET Bits

C == {0, 1, 6}   \* 'C', 67
A == {0, 6}      \* 'A', 65

ASSUME FrameAssumption ==
  /\ PayloadLen \in Nat \ {0}
  /\ States \subseteq [1..PayloadLen -> Byte]
  /\ Aims \subseteq [1..2 -> Byte]
  /\ Noise \subseteq Byte

ASSUME BoundAssumption ==
  /\ RxSize \in Nat /\ RxSize > PayloadLen
  /\ {MaxFaults, MaxDamaged, MaxAims} \subseteq Nat

VARIABLES
  line,            \* bytes written by the phone, not yet at the robot
  rx,              \* the Arduino's receive buffer
  currentCommand,  \* "C", "A", or "none" for the ' ' of the code
  joystick1,       \* the last payload accepted
  prev_joystick1,
  forwarded,       \* payloads sent so far (history)
  owed,            \* payloads sent and not yet accepted, while no byte was
                   \* lost or damaged (history)
  faults,          \* bytes lost or damaged so far
  aimsSent         \* aim corrections sent so far

vars == <<line, rx, currentCommand, joystick1, prev_joystick1, forwarded, owed,
          faults, aimsSent>>

\* The exclusive or of the bytes of s: the bits an odd number of them have.
Checksum(s) == {b \in Bits : Cardinality({i \in DOMAIN s : b \in s[i]}) % 2 = 1}

StateFrame(p) == <<C>> \o p \o <<Checksum(p)>>
AimFrame(a)   == <<A>> \o a

AllZero == [i \in 1..PayloadLen |-> {}]

Init ==
  /\ line = << >> /\ rx = << >>
  /\ currentCommand = "none"
  /\ joystick1 = AllZero /\ prev_joystick1 = AllZero
  /\ forwarded = {} /\ owed = << >>
  /\ faults = 0 /\ aimsSent = 0

-----------------------------------------------------------------------------
(* The phone and the line.  A frame takes 12 ms at 19200 baud and the      *)
(* phone's loop 50 ms, so a frame is off the line before the next is       *)
(* written.                                                                *)

SendState(p) ==
  /\ line = << >>
  /\ line' = StateFrame(p)
  /\ forwarded' = forwarded \union {p}
  /\ owed' = IF faults = 0 THEN Append(owed, p) ELSE << >>
  /\ UNCHANGED <<rx, currentCommand, joystick1, prev_joystick1, faults, aimsSent>>

SendAim(a) ==
  /\ line = << >> /\ aimsSent < MaxAims
  /\ line' = AimFrame(a)
  /\ aimsSent' = aimsSent + 1
  /\ UNCHANGED <<rx, currentCommand, joystick1, prev_joystick1, forwarded, owed,
                 faults>>

\* Mutant: the capacity of the buffer is not respected.
ArriveAnyway ==
  /\ line # << >>
  /\ rx' = Append(rx, Head(line))
  /\ line' = Tail(line)
  /\ UNCHANGED <<currentCommand, joystick1, prev_joystick1, forwarded, owed,
                 faults, aimsSent>>

Arrive ==
  /\ line # << >> /\ Len(rx) < RxSize
  /\ rx' = Append(rx, Head(line))
  /\ line' = Tail(line)
  /\ UNCHANGED <<currentCommand, joystick1, prev_joystick1, forwarded, owed,
                 faults, aimsSent>>

Fault == faults < MaxFaults /\ faults' = faults + 1 /\ owed' = << >>

\* A byte gets lost, as it does when the receive buffer is full because the
\* robot has been turning; then many are lost, one step each.
LoseByte ==
  /\ line # << >>
  /\ Fault
  /\ line' = Tail(line)
  /\ UNCHANGED <<rx, currentCommand, joystick1, prev_joystick1, forwarded, aimsSent>>

DamageByte ==
  /\ line # << >> /\ faults < MaxDamaged
  /\ Fault
  /\ \E b \in Noise \ {Head(line)} : line' = [line EXCEPT ![1] = b]
  /\ UNCHANGED <<rx, currentCommand, joystick1, prev_joystick1, forwarded, aimsSent>>

-----------------------------------------------------------------------------
(* The parser: msgReady(), called when a byte is available.  While the     *)
(* robot is busy elsewhere none of these steps happens.                    *)

Command(b) == CASE b = C -> "C" [] b = A -> "A" [] OTHER -> "none"

\* Between frames each byte is taken for a command; others than C and A
\* leave the parser where it was.
ReadCommand ==
  /\ currentCommand = "none" /\ rx # << >>
  /\ currentCommand' = Command(Head(rx))
  /\ rx' = Tail(rx)
  /\ UNCHANGED <<line, joystick1, prev_joystick1, forwarded, owed, faults, aimsSent>>

\* The window readJoystick() takes: the payload and the byte it checks it with.
Window == SubSeq(rx, 1, PayloadLen)
\* Mutant: the checksum is not compared.
AnyWindow == TRUE

WindowOK == rx[PayloadLen + 1] = Checksum(Window)

JoystickReady == currentCommand = "C" /\ Len(rx) >= PayloadLen + 1

\* A good window becomes the joystick state (and handleJoystick() follows).
ReadJoystick ==
  /\ JoystickReady /\ WindowOK
  /\ prev_joystick1' = joystick1
  /\ joystick1' = Window
  /\ rx' = SubSeq(rx, PayloadLen + 2, Len(rx))
  /\ currentCommand' = "none"
  /\ owed' = IF owed = << >> THEN owed ELSE Tail(owed)
  /\ UNCHANGED <<line, forwarded, faults, aimsSent>>

\* Mutant: a rejected window takes the byte after it along.
RejectTooMuch ==
  /\ JoystickReady /\ ~WindowOK /\ Len(rx) >= PayloadLen + 2
  /\ prev_joystick1' = joystick1
  /\ rx' = SubSeq(rx, PayloadLen + 3, Len(rx))
  /\ UNCHANGED <<line, currentCommand, joystick1, forwarded, owed, faults, aimsSent>>

\* After a bad one msgReady() returns with the command still pending.
RejectJoystick ==
  /\ JoystickReady /\ ~WindowOK
  /\ prev_joystick1' = joystick1
  /\ rx' = SubSeq(rx, PayloadLen + 2, Len(rx))
  /\ UNCHANGED <<line, currentCommand, joystick1, forwarded, owed, faults, aimsSent>>

\* Mutant: an aim correction is taken to be three bytes.
ReadLongAim ==
  /\ currentCommand = "A" /\ Len(rx) >= 3
  /\ rx' = SubSeq(rx, 4, Len(rx))
  /\ currentCommand' = "none"
  /\ UNCHANGED <<line, joystick1, prev_joystick1, forwarded, owed, faults, aimsSent>>

ReadAim ==
  /\ currentCommand = "A" /\ Len(rx) >= 2
  /\ rx' = SubSeq(rx, 3, Len(rx))
  /\ currentCommand' = "none"
  /\ UNCHANGED <<line, joystick1, prev_joystick1, forwarded, owed, faults, aimsSent>>

msgReady == ReadCommand \/ ReadJoystick \/ RejectJoystick \/ ReadAim

-----------------------------------------------------------------------------

Next ==
  \/ \E p \in States : SendState(p)
  \/ \E a \in Aims : SendAim(a)
  \/ Arrive \/ LoseByte \/ DamageByte
  \/ msgReady

\* The console sends a state ten times a second, the line delivers what is
\* not lost, and the robot's loop comes back to msgReady().
Fairness ==
  /\ WF_vars(\E p \in States : SendState(p))
  /\ WF_vars(Arrive)
  /\ WF_vars(msgReady)

Spec == Init /\ [][Next]_vars /\ Fairness

-----------------------------------------------------------------------------
(* Correctness                                                             *)

TypeOK ==
  /\ line \in Seq(Byte) /\ rx \in Seq(Byte) /\ Len(rx) <= RxSize
  /\ currentCommand \in {"none", "C", "A"}
  /\ joystick1 \in [1..PayloadLen -> Byte]
  /\ prev_joystick1 \in [1..PayloadLen -> Byte]
  /\ forwarded \subseteq States /\ owed \in Seq(States)
  /\ faults \in 0..MaxFaults /\ aimsSent \in 0..MaxAims

\* The sticks are at rest: a payload byte is a button, 0 or 1.
SticksAtRest == \A p \in States : \A i \in 1..PayloadLen : p[i] \subseteq {0}

\* The bytes of aim corrections are not taken for the bits of headers: bit 0
\* aside, they differ from 'A' and 'C', and their exclusive or from that of the
\* headers that can be in a window with them.
AimsStandOut ==
  \A a, b \in Aims :
    /\ a[1] \ {0} # {6} /\ b[2] \ {0} # {1, 6}
    /\ ((a[1] \ b[2]) \union (b[2] \ a[1])) \ {0} \notin {{1}, {6}, {1, 6}}

\* One lost or damaged byte never makes the robot act on a state the console
\* did not send, wherever the windows slide to afterwards, while the sticks are
\* at rest and one aim correction was sent whose bytes stand out: the 'C' or 'A'
\* in a window that slid is what its checksum fails on.  (Two damaged bytes may
\* cancel out, and so may two equal corrections; the byte of a stick that is off
\* its centre may cancel a 'C', and so may those of a correction like (2, 0).)
NoGhostState ==
  SticksAtRest /\ AimsStandOut /\ faults <= 1 /\ aimsSent <= 1
    => joystick1 \in forwarded \union {AllZero}

\* On a clean line the robot acts on every state, in the order sent: an aim
\* correction between two frames does not disturb the framing.
InOrder ==
  [][ReadJoystick /\ faults = 0 => owed # << >> /\ joystick1' = Head(owed)]_vars

\* With the sticks at rest, once no more bytes are lost or damaged the parser
\* finds the frames again and goes on accepting states for ever.  (A frame whose
\* byte before the checksum is an 'A' can be misread in the same way each time.)
Resynchronises == SticksAtRest => []<><<ReadJoystick>>_vars

=============================================================================
