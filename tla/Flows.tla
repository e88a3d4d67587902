------------------------------- MODULE Flows -------------------------------
(***************************************************************************)
(* The parts of Links for the model checker.  They share no state, so that *)
(* a behaviour is one of the part chosen at its beginning; the variables   *)
(* of the others stay what they are.                                       *)
(*                                                                         *)
(* Datagrams that fit, do not fit the console's buffer, and are refused.   *)
(* Commands of one and of two letters and one too long for the buffer, in  *)
(* batches of one or of several.  Two cells to a channel, which is enough  *)
(* for a copy of two settings.  Five rows of two MCUs in blocks of two     *)
(* rows, and buffers from one byte to more than the picture takes.         *)
(***************************************************************************)
EXTENDS Links

VARIABLE flow

SomeCommands == {<<"f">>, <<"h", "u">>, <<"s">>, <<"w", "w", "w", "w", "w">>}

ASSUME InstancesAssumption ==
  /\ Video!VideoAssumption /\ Fork!ForkliftAssumption /\ Audio!AudioAssumption
  /\ Con!ConsoleAssumption /\ Jpeg!CompressAssumption

everything == <<flow, videoVars, forkVars, audioVars, conVars, jpegVars>>

\* The flows that are not chosen have one initial state each.
FlowsInit ==
  /\ flow \in {"video", "forklift", "audio", "console", "jpeg"}
  /\ Video!Init /\ Fork!Init /\ Audio!Init /\ Con!Init /\ Jpeg!Init
  /\ flow # "video" => terminated /\ reachable
  /\ flow # "jpeg" =>
       bufsize = 1 /\ size.flush = 0 /\ \A b \in Jpeg!MCUs : size.mcu[b] = 0

Showing(A) ==
  flow = "video" /\ A /\ UNCHANGED <<flow, forkVars, audioVars, conVars, jpegVars>>
Lifting(A) ==
  flow = "forklift" /\ A /\ UNCHANGED <<flow, videoVars, audioVars, conVars, jpegVars>>
ServoBot(A) ==
  flow = "audio" /\ A /\ UNCHANGED <<flow, videoVars, forkVars, conVars, jpegVars>>
PC(A) ==
  flow = "console" /\ A /\ UNCHANGED <<flow, videoVars, forkVars, audioVars, jpegVars>>
Compressing(A) ==
  flow = "jpeg" /\ A /\ UNCHANGED <<flow, videoVars, forkVars, audioVars, conVars>>

FlowsNext ==
  \/ Showing(Video!Next) \/ Lifting(Fork!Next) \/ ServoBot(Audio!Next)
  \/ PC(Con!Next) \/ Compressing(Jpeg!Next)

\* The fairness of each module's Spec.
FlowsFairness ==
  /\ WF_everything(Showing(Video!SetUpVideo)) /\ WF_everything(Showing(Video!SendFrame))
  /\ SF_everything(Showing(Video!Deliver))
  /\ WF_everything(Lifting(Fork!readSerialInput))
  /\ WF_everything(ServoBot(Audio!NoiseThread))
  /\ WF_everything(ServoBot(Audio!WriteCell \/ Audio!SetChanged))
  /\ \A c \in {"ui", "tcp"} : WF_everything(ServoBot(Audio!Caller(c)))
  /\ WF_everything(PC(Con!ControlLoop)) /\ SF_everything(PC(Con!received))
  /\ WF_everything(PC(Con!ReadBlob \/ Con!TakeBlob))
  /\ WF_everything(Compressing(Jpeg!Next))

FlowsSpec == FlowsInit /\ [][FlowsNext]_everything /\ FlowsFairness

-----------------------------------------------------------------------------
(* The liveness properties of the instances, which their modules explain;  *)
(* those that hold of a part that goes on for ever say so of the part that *)
(* was chosen.                                                             *)

\* VideoLink: video starts, and once it has started it is shown.
VideoArrives == flow = "video" => Video!VideoStarts /\ Video!VideoShown

\* Forklift and ServoAudio: a command is performed for each that was sent in the
\* end, unless the buffer is overrun; what was set last is played in the end, and
\* a pause silences the servos.
CommandsArrive ==
  /\ Fork!AllPerformed
  /\ flow = "audio" => Audio!PlaysSettings /\ Audio!PauseSilences

\* Console: texts are sent and blobs drawn in the end, but for those stored in the
\* gap between the use of a field and its clearing.
ConsoleDelivers == Con!TextSpoken /\ Con!BlobDrawn

\* JpegCompress: the call ends.
CompressionEnds == flow = "jpeg" => Jpeg!CompressionEnds

=============================================================================
