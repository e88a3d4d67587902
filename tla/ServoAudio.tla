----------------------------- MODULE ServoAudio -----------------------------
(***************************************************************************)
(* The ServoBot application, which drives servos through the audio output: *)
(* PulseGenerator with its noise thread, and Movement, which the UI thread *)
(* (keys) and the command thread (text commands) call at the same time.    *)
(*                                                                         *)
(* setServo() is synchronized, so there is one generatePCM() at a time,    *)
(* but the noise thread copies the channel buffers and clears the changed  *)
(* flag without a lock.  A sample is a pair of the pulse width and the     *)
(* servo whose polarity it has; each channel has Cells cells of samples.   *)
(***************************************************************************)
EXTENDS Integers, Sequences

CONSTANTS
  Speeds,    \* what Movement's speed may be set to
  Cells,     \* cells of a channel buffer, copied one after the other
  MaxMoves   \* bound: calls of Movement

AudioAssumption ==
  Speeds \subseteq Int /\ Cells \in Nat \ {0, 1} /\ MaxMoves \in Nat

Callers == {"ui", "tcp"}
Servos  == 0..3
Centre  == 50
Indices == 0..Cells - 1

VARIABLES
  speed,
  todo,              \* what is left of each caller's call
  moves,
  pulseWidthArray,   \* as percentages
  generating,        \* generatePCM(): the servo and the cells to write
  channelBuffer,     \* leftChannelBuffer and rightChannelBuffer
  bufferChanged, paused, playing,
  pc, copied,        \* the noise thread, and the cells it has copied
  audioBuffer,
  sound,             \* what was written to the audio track last
  setAgain,          \* the flag was set while the buffers were copied,
  lost               \*   and then cleared (history)

callVars   == <<speed, todo, moves>>
bufferVars == <<pulseWidthArray, generating, channelBuffer>>
noiseVars  == <<pc, copied, audioBuffer, sound>>
vars == <<callVars, bufferVars, bufferChanged, paused, playing, noiseVars,
          setAgain, lost>>

Silence == [n \in Indices |-> << << >>, << >> >>]

Init ==
  /\ speed = 20 /\ todo = [c \in Callers |-> << >>] /\ moves = 0
  /\ pulseWidthArray = [s \in Servos |-> Centre] /\ generating = << >>
  /\ channelBuffer = [ch \in {0, 1} |-> [n \in Indices |-> <<Centre, 1>>]]
  /\ bufferChanged = TRUE /\ paused = TRUE /\ playing = TRUE
  /\ pc = "top" /\ copied = 0 /\ audioBuffer = Silence /\ sound = Silence
  /\ setAgain = FALSE /\ lost = FALSE

-----------------------------------------------------------------------------
(* Movement.                                                               *)

Set(s, percent) == [do |-> "set", servo |-> s, percent |-> percent]
Pause   == [do |-> "pause", servo |-> 0, percent |-> 0]
Unpause == [do |-> "unpause", servo |-> 0, percent |-> 0]

Drive(left, right) == <<Set(0, Centre + left), Set(2, Centre + right), Unpause>>
Stop == <<Set(0, Centre), Set(2, Centre), Pause>>

\* driveFoward(), driveBackward(), turnLeft(), turnRight() and stop().
Movements ==
  {Drive(speed, speed), Drive(-speed, -speed), Drive(speed, -speed),
   Drive(-speed, speed), Stop}

Call(c) ==
  /\ todo[c] = << >> /\ moves < MaxMoves /\ moves' = moves + 1
  /\ \/ (\E m \in Movements : todo' = [todo EXCEPT ![c] = m]) /\ UNCHANGED speed
     \/ speed' \in Speeds \ {speed} /\ UNCHANGED todo
  /\ UNCHANGED <<bufferVars, bufferChanged, paused, playing, noiseVars,
                 setAgain, lost>>

-----------------------------------------------------------------------------
(* The callers in PulseGenerator.                                          *)

CallDone(c) == todo' = [todo EXCEPT ![c] = Tail(@)]

\* setServo(): positions out of bounds are ignored, a call waits for another
\* caller's, and the servo's channel is generated from its first servo.
setServo(c) ==
  /\ todo[c] # << >> /\ Head(todo[c]).do = "set" /\ generating = << >>
  /\ LET s == Head(todo[c]).servo
         percent == Head(todo[c]).percent
     IN IF percent \in 0..100
        THEN /\ pulseWidthArray' = [pulseWidthArray EXCEPT ![s] = percent]
             /\ generating' = <<[caller |-> c, servo |-> s, cell |-> 0]>>
             /\ UNCHANGED <<todo, channelBuffer>>
        ELSE CallDone(c) /\ UNCHANGED bufferVars
  /\ UNCHANGED <<speed, moves, bufferChanged, paused, playing, noiseVars,
                 setAgain, lost>>

Written(s) == <<pulseWidthArray[2 * (s \div 2)], s % 2>>

WriteCell ==
  /\ generating # << >> /\ generating[1].cell < Cells
  /\ LET g == generating[1]
     IN channelBuffer' = [channelBuffer EXCEPT ![g.servo \div 2][g.cell] =
                                                 Written(g.servo)]
  /\ generating' = <<[generating[1] EXCEPT !.cell = @ + 1]>>
  /\ UNCHANGED <<callVars, pulseWidthArray, bufferChanged, paused, playing,
                 noiseVars, setAgain, lost>>

\* Mutant: the flag is set for the left channel only.
LeftChanged ==
  /\ generating # << >> /\ generating[1].cell = Cells
  /\ bufferChanged' = (bufferChanged \/ generating[1].servo < 2)
  /\ setAgain' = (pc \in {"copy", "clear"} /\ generating[1].servo < 2)
  /\ generating' = << >> /\ CallDone(generating[1].caller)
  /\ UNCHANGED <<speed, moves, pulseWidthArray, channelBuffer, paused, playing,
                 noiseVars, lost>>

\* The end of generatePCM() and of setServo().
SetChanged ==
  /\ generating # << >> /\ generating[1].cell = Cells
  /\ bufferChanged' = TRUE /\ setAgain' = (pc \in {"copy", "clear"})
  /\ generating' = << >> /\ CallDone(generating[1].caller)
  /\ UNCHANGED <<speed, moves, pulseWidthArray, channelBuffer, paused, playing,
                 noiseVars, lost>>

\* pause(), unpause()
SetPaused(c) ==
  /\ todo[c] # << >> /\ Head(todo[c]).do \in {"pause", "unpause"}
  /\ paused' = (Head(todo[c]).do = "pause") /\ CallDone(c)
  /\ UNCHANGED <<speed, moves, bufferVars, bufferChanged, playing, noiseVars,
                 setAgain, lost>>

\* stop(), when the activity is destroyed.
Quit ==
  /\ playing /\ playing' = FALSE
  /\ UNCHANGED <<callVars, bufferVars, bufferChanged, paused, noiseVars,
                 setAgain, lost>>

-----------------------------------------------------------------------------
(* The noise thread, run().                                                *)

calling == <<callVars, bufferVars, paused, playing>>

End ==
  /\ pc = "top" /\ ~playing /\ pc' = "ended"
  /\ audioBuffer' = Silence /\ sound' = Silence
  /\ UNCHANGED <<calling, bufferChanged, copied, setAgain, lost>>

\* Paused: silence is written, and then the flag set.
PausedPass ==
  /\ \/ /\ pc = "top" /\ playing /\ paused /\ pc' = "silent"
        /\ audioBuffer' = Silence /\ sound' = Silence
        /\ UNCHANGED <<bufferChanged, lost>>
     \/ /\ pc = "silent" /\ pc' = "top"
        /\ bufferChanged' = TRUE /\ lost' = FALSE
        /\ UNCHANGED <<audioBuffer, sound>>
  /\ UNCHANGED <<calling, copied, setAgain>>

TestChanged ==
  /\ pc = "top" /\ playing /\ ~paused
  /\ pc' = IF bufferChanged THEN "copy" ELSE "write"
  /\ copied' = 0 /\ setAgain' = FALSE
  /\ UNCHANGED <<calling, bufferChanged, audioBuffer, sound, lost>>

\* The pulses of the left channel are late by a part of the interval.
Image(buffers, n) == <<buffers[0][(n + 1) % Cells], buffers[1][n]>>

CopyCell ==
  /\ pc = "copy" /\ copied' = copied + 1
  /\ audioBuffer' = [audioBuffer EXCEPT ![copied] = Image(channelBuffer, copied)]
  /\ pc' = IF copied' = Cells THEN "clear" ELSE "copy"
  /\ UNCHANGED <<calling, bufferChanged, sound, setAgain, lost>>

\* Whatever has been set since the copy began is forgotten here.
ClearChanged ==
  /\ pc = "clear" /\ pc' = "write"
  /\ bufferChanged' = FALSE /\ lost' = setAgain
  /\ UNCHANGED <<calling, copied, audioBuffer, sound, setAgain>>

WriteSound ==
  /\ pc = "write" /\ pc' = "top" /\ sound' = audioBuffer
  /\ UNCHANGED <<calling, bufferChanged, copied, audioBuffer, setAgain, lost>>

NoiseThread ==
  End \/ PausedPass \/ TestChanged \/ CopyCell \/ ClearChanged \/ WriteSound

Caller(c) == setServo(c) \/ SetPaused(c)

Next ==
  \/ NoiseThread \/ WriteCell \/ SetChanged \/ Quit
  \/ \E c \in Callers : Call(c) \/ Caller(c)

Fairness ==
  /\ WF_vars(NoiseThread) /\ WF_vars(WriteCell \/ SetChanged)
  /\ \A c \in Callers : WF_vars(Caller(c))

Spec == Init /\ [][Next]_vars /\ Fairness

-----------------------------------------------------------------------------
(* Properties.                                                             *)

\* Types; no pulse is wider than the range (setServo).
TypeOK ==
  /\ speed \in Speeds \cup {20} /\ moves \in 0..MaxMoves
  /\ \A c \in Callers : Len(todo[c]) <= 3
  /\ pulseWidthArray \in [Servos -> 0..100]
  /\ generating = << >> \/ generating[1].cell \in 0..Cells
  /\ {bufferChanged, paused, playing, setAgain, lost} \subseteq BOOLEAN
  /\ pc \in {"top", "silent", "copy", "clear", "write", "ended"}
  /\ copied \in 0..Cells

\* If the generator goes on playing, it plays in the end what was set last, and
\* whole, unless that was set while the noise thread copied the setting before
\* and is lost (run).
PlaysSettings ==
  <>[](playing /\ ~paused) =>
    <>[](lost \/ sound = [n \in Indices |-> Image(channelBuffer, n)])

\* A pause silences the servos in the end, and so does the end of the
\* activity, whatever is being copied (run).
PauseSilences == <>[](paused \/ ~playing) => <>[](sound = Silence)

\* A pause also repairs a lost setting: a change is only missing from what is
\* played while nobody has paused since (run).
PauseRepairs ==
  pc \in {"top", "write"} /\ ~bufferChanged /\ generating = << >> /\ ~lost =>
    audioBuffer = [n \in Indices |-> Image(channelBuffer, n)]

=============================================================================
