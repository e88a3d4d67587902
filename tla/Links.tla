------------------------------- MODULE Links -------------------------------
(***************************************************************************)
(* The parts in which something has to get through: video from the phone   *)
(* to the console (VideoLink), commands to the forklift (Forklift),        *)
(* settings to the servo pulse generator (ServoAudio), texts and blobs     *)
(* through the console's threads (Console), and a picture through the JPEG *)
(* library (JpegCompress).  They share no state; Console has its own view  *)
(* of the network.                                                         *)
(***************************************************************************)

CONSTANTS
  Sizes, Capacity, MaxDatagram, FdLimit, MaxFrames,
  Commands, MaxCommands, BUFFERSIZE,
  DriveSpeeds, Cells, MaxMoves,
  MaxTexts, MaxBlobs,
  image_height, MCUs_per_row, DCTSIZE, HeaderSizes, MCUSizes, BufSizes

VARIABLES
  clientIp, terminated, reachable, sendVideo, SocketFD, open, failed, frame,
  pinned, net, packetBuffer, packetBuffPos, android, overrun,
  rx, inBytes, serialIndex, i, end, motors, sent, performed, overtaken,
  driveSpeed, todo, moves, pulseWidthArray, generating, channelBuffer,
  bufferChanged, paused, playing, noise, copied, audioBuffer, sound, setAgain,
  lost,
  loop, extraData, typed, spoken, arriving, blobs,
  _targetBlob, drawing, tb, drawn, textLost, blobLost,
  size, bufsize, stream, free_in_buffer, jpegsize, at, y, next_scanline,
  in_row_ctr, call_pass_startup, buffer, rows_to_go, cur_iMCU_row, mcu_ctr,
  suspended

Video == INSTANCE VideoLink
Fork  == INSTANCE Forklift
Audio == INSTANCE ServoAudio
           WITH Speeds <- DriveSpeeds, speed <- driveSpeed, pc <- noise
Con   == INSTANCE Console WITH net <- arriving
Jpeg  == INSTANCE JpegCompress

videoVars == <<clientIp, terminated, reachable, sendVideo, SocketFD, open, failed,
               frame, pinned, net, packetBuffer, packetBuffPos, android, overrun>>
forkVars  == <<rx, inBytes, serialIndex, i, end, motors, sent, performed, overtaken>>
audioVars == <<driveSpeed, todo, moves, pulseWidthArray, generating, channelBuffer,
               bufferChanged, paused, playing, noise, copied, audioBuffer, sound,
               setAgain, lost>>
conVars   == <<loop, extraData, typed, spoken, arriving, blobs, _targetBlob,
               drawing, tb, drawn, textLost, blobLost>>
jpegVars  == <<size, bufsize, stream, free_in_buffer, jpegsize, at, y,
               next_scanline, in_row_ctr, call_pass_startup, buffer, rows_to_go,
               cur_iMCU_row, mcu_ctr, suspended>>

-----------------------------------------------------------------------------
(* The safety properties of the instances, which their modules explain.    *)

\* What comes through comes once and whole: a picture shown is one frame sent
\* on a connected socket, forklift commands are performed as they were sent while
\* no batch has gone on past the end of one, and the buffer is left only for a
\* command too long for it or in such a batch, a pause repairs a lost servo
\* setting, texts and blobs come once and in order,
\* and a compressed picture is whole or not returned, with the types of all
\* instances (videoPacketHandler, readSerialInput, PulseGenerator.run,
\* DataThread.run, put_jpeg_grey_memory).
OnceAndWhole ==
  /\ Video!TypeOK /\ Video!SendsOnSocket /\ Video!ShowsOneFrame
  /\ Fork!TypeOK /\ Fork!CommandsObeyed /\ Fork!StaysInBuffer
  /\ Audio!TypeOK /\ Audio!PauseRepairs
  /\ Con!TypeOK /\ Con!SpokenOnce /\ Con!DrawnOnce
  /\ Jpeg!TypeOK /\ Jpeg!ReturnedWhole /\ Jpeg!ExitsOnlyWhenFull

=============================================================================
