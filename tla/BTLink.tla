------------------------------- MODULE BTLink -------------------------------
(***************************************************************************)
(* The phone's Bluetooth thread (BTCommThread.java), the radio link, and   *)
(* the robot's status lines on their way into RobotState                   *)
(* (RobotStateHandler.onBtDataRecive).                                     *)
(*                                                                         *)
(* Commands come as messages of a looper.  A message that finds a          *)
(* connection is written, and then everything that has arrived is read; a  *)
(* message that finds none starts connect(), which blocks, and is dropped. *)
(* A status line is a sequence of fields and a newline.  The read buffer   *)
(* survives a disconnection, and the robot prints whether or not anybody   *)
(* listens, so lines are torn at both ends of a connection.  A field is    *)
(* its line and its place in it; what its number says is left out.  Only   *)
(* this thread works on its streams and buffer, so one message is one step *)
(* for the writing and one for each byte read.                             *)
(***************************************************************************)
EXTENDS Integers, Sequences

CONSTANTS
  Fields,      \* fields of a status line, 13 in the code
  LogLines,    \* the lines that are log text ("L ..."), of one field
  MaxLines,    \* bound: status lines the robot prints
  MaxMsgs,     \* bound: commands told apart; those after it are all number 0
  QueueBound,  \* bound: messages waiting, unbounded in the code
  MaxLosses    \* bound: how often the radio link is lost

ASSUME LinkAssumption ==
  /\ Fields \in Nat \ {0} /\ MaxLines \in Nat /\ LogLines \subseteq Nat
  /\ MaxMsgs \in Nat \ {0} /\ QueueBound \in Nat \ {0} /\ MaxLosses \in Nat

VARIABLES
  up,          \* the robot can be reached by radio
  losses,
  streams,     \* "none", "open", or "broken": open here but lost on the air
  thread,      \* where the Bluetooth thread is
  queue,       \* messages waiting for the handler
  posted,      \* the newest command posted
  written,     \* the commands written to the robot, those told apart (history)
  air,         \* bytes from the robot that can be read
  printed,     \* the last byte the robot printed: <<line, place>>
  readBuffer,
  state,       \* RobotState: for each field the byte it was read from
  blueToothConnected,
  stage,       \* this connection: 0 no newline was read yet, 1 the first was,
               \* 2 that of a status line was after it (history)
  alarms, live \* UI alarms; connections that delivered a line (history)

linkVars   == <<up, losses>>
threadVars == <<queue, posted, written>>
dataVars   == <<readBuffer, state, stage>>
vars == <<linkVars, streams, thread, threadVars, air, printed, dataVars,
          blueToothConnected, alarms, live>>

Places(line) == IF line \in LogLines THEN 1 ELSE Fields
Newline(byte) == byte[2] > Places(byte[1])

Init ==
  /\ up \in BOOLEAN /\ losses = 0
  /\ streams = "none" /\ thread = "starting"
  /\ queue = << >> /\ posted = 0 /\ written = << >>
  /\ air = << >> /\ printed = <<1, 0>>
  /\ readBuffer = << >> /\ state = [f \in 1..Fields |-> <<0, f>>]
  /\ blueToothConnected = FALSE /\ stage = 0 /\ alarms = 0 /\ live = 0

-----------------------------------------------------------------------------
(* The air, the robot and the relay.                                       *)

LoseLink ==
  /\ up /\ losses < MaxLosses
  /\ up' = FALSE /\ losses' = losses + 1
  /\ streams' = IF streams = "open" THEN "broken" ELSE streams
  /\ UNCHANGED <<thread, threadVars, air, printed, dataVars,
                 blueToothConnected, alarms, live>>

FindLink ==
  /\ ~up /\ up' = TRUE
  /\ UNCHANGED <<losses, streams, thread, threadVars, air, printed, dataVars,
                 blueToothConnected, alarms, live>>

\* The robot prints the next byte; it is lost unless a connection is open.
RobotPrints ==
  /\ printed[1] <= MaxLines
  /\ printed' = IF Newline(printed) THEN <<printed[1] + 1, 1>>
                                    ELSE <<printed[1], printed[2] + 1>>
  /\ printed'[1] <= MaxLines
  /\ air' = IF up /\ streams = "open" THEN Append(air, printed') ELSE air
  /\ UNCHANGED <<linkVars, streams, thread, threadVars, dataVars,
                 blueToothConnected, alarms, live>>

\* RobotStateHandler posts a command once the thread has made its handler.
Post ==
  /\ thread # "starting" /\ Len(queue) < QueueBound
  /\ IF posted < MaxMsgs
     THEN posted' = posted + 1 /\ queue' = Append(queue, posted')
     ELSE UNCHANGED posted /\ queue' = Append(queue, 0)
  /\ UNCHANGED <<linkVars, streams, thread, written, air, printed,
                 dataVars, blueToothConnected, alarms, live>>

-----------------------------------------------------------------------------
(* The thread.                                                             *)

\* connect() returns, with streams or without any; the first time the thread
\* goes on to make its handler.
ConnectReturns ==
  /\ thread \in {"starting", "connecting"} /\ thread' = "looping"
  /\ \/ up /\ streams' = "open" /\ stage' = 0
     \/ ~up /\ UNCHANGED <<streams, stage>>
  /\ UNCHANGED <<linkVars, threadVars, air, printed, readBuffer, state,
                 blueToothConnected, alarms, live>>

\* disconnect(): the streams are null, what was not read is gone.
Disconnect ==
  /\ streams' = "none" /\ air' = << >>

\* onBtDataError()
onBtDataError ==
  /\ alarms' = IF blueToothConnected THEN alarms + 1 ELSE alarms
  /\ blueToothConnected' = FALSE

\* handleMessage() without a connection: the message is dropped.
DropAndConnect ==
  /\ thread = "looping" /\ queue # << >> /\ streams = "none"
  /\ queue' = Tail(queue) /\ thread' = "connecting"
  /\ UNCHANGED <<linkVars, streams, posted, written, air, printed,
                 dataVars, blueToothConnected, alarms, live>>

\* The robot gets a command.
Written(command) ==
  written' = IF command = 0 THEN written ELSE Append(written, command)

\* Mutant: a failed write goes unnoticed.
WriteMessageBlindly ==
  /\ thread = "looping" /\ queue # << >> /\ streams # "none"
  /\ queue' = Tail(queue) /\ thread' = "reading"
  /\ IF streams = "open" THEN Written(Head(queue)) ELSE UNCHANGED written
  /\ UNCHANGED <<linkVars, streams, posted, air, printed, dataVars,
                 blueToothConnected, alarms, live>>

\* Mutant: a message is written once more after it was written.
WriteMessageAgain ==
  /\ thread = "looping" /\ queue # << >> /\ streams # "none"
  /\ thread' = "reading"
  /\ \/ /\ streams = "open" /\ Written(Head(queue))
        /\ queue' \in {queue, Tail(queue)}
        /\ UNCHANGED <<streams, air, blueToothConnected, alarms>>
     \/ /\ streams = "broken" /\ UNCHANGED written /\ queue' = Tail(queue)
        /\ Disconnect /\ onBtDataError
  /\ UNCHANGED <<linkVars, posted, printed, dataVars, live>>

\* handleMessage(): write(), which finds out that the link is lost.
WriteMessage ==
  /\ thread = "looping" /\ queue # << >> /\ streams # "none"
  /\ queue' = Tail(queue) /\ thread' = "reading"
  /\ \/ /\ streams = "open" /\ Written(Head(queue))
        /\ UNCHANGED <<streams, air, blueToothConnected, alarms>>
     \/ /\ streams = "broken" /\ UNCHANGED written
        /\ Disconnect /\ onBtDataError
  /\ UNCHANGED <<linkVars, posted, printed, dataVars, live>>

\* The parser of a status line stops where a field is missing or no number.
Parsed(data) ==
  [f \in 1..Fields |->
     IF f <= Len(data) /\ \A g \in 1..f : data[g][1] \notin LogLines
     THEN data[f] ELSE state[f]]

\* onBtDataRecive(data)
onBtDataRecive(data) ==
  /\ blueToothConnected' = TRUE
  /\ state' = IF data # << >> /\ data[1][1] \in LogLines THEN state
                                                         ELSE Parsed(data)

\* Mutant: the read buffer is not emptied at the end of a line.
ReadLineAndKeep ==
  /\ readBuffer' = readBuffer
  /\ onBtDataRecive(readBuffer)

\* The end of a line: the buffer is emptied and its text handed over.
ReadLine ==
  /\ readBuffer' = << >>
  /\ onBtDataRecive(readBuffer)

\* read(): one byte.
ReadByte ==
  /\ thread = "reading" /\ streams # "none" /\ air # << >>
  /\ air' = Tail(air)
  /\ IF Newline(Head(air))
     THEN /\ ReadLine
          /\ stage' = IF stage = 0 THEN 1
                      ELSE IF Head(air)[1] \in LogLines THEN stage ELSE 2
          /\ live' = IF stage = 0 THEN live + 1 ELSE live
     ELSE /\ readBuffer' = Append(readBuffer, Head(air))
          /\ UNCHANGED <<state, blueToothConnected, stage, live>>
  /\ UNCHANGED <<linkVars, streams, thread, threadVars, printed, alarms>>

\* read() on a lost link may throw instead.
ReadFails ==
  /\ thread = "reading" /\ streams = "broken"
  /\ Disconnect /\ onBtDataError
  /\ UNCHANGED <<linkVars, thread, threadVars, printed, dataVars, live>>

\* Nothing is available any more: handleMessage() returns.
ReadDone ==
  /\ thread = "reading" /\ (streams = "none" \/ air = << >>)
  /\ thread' = "looping"
  /\ UNCHANGED <<linkVars, streams, threadVars, air, printed, dataVars,
                 blueToothConnected, alarms, live>>

BTThread ==
  \/ ConnectReturns \/ DropAndConnect \/ WriteMessage
  \/ ReadByte \/ ReadFails \/ ReadDone

Next == LoseLink \/ FindLink \/ RobotPrints \/ Post \/ BTThread

Spec == Init /\ [][Next]_vars /\ WF_vars(BTThread) /\ WF_vars(Post)

-----------------------------------------------------------------------------
(* Properties.                                                             *)

Bytes == (0..MaxLines) \X (0..Fields + 1)

\* Types: the read buffer holds no newline, and no stream outlives its link
\* as "open" (BTCommThread's fields).
TypeOK ==
  /\ up \in BOOLEAN /\ losses \in 0..MaxLosses
  /\ streams \in {"none", "open", "broken"} /\ (streams = "open" => up)
  /\ thread \in {"starting", "connecting", "looping", "reading"}
  /\ Len(queue) <= QueueBound /\ posted \in 0..MaxMsgs
  /\ written \in Seq(1..MaxMsgs) /\ stage \in 0..2
  /\ \A n \in DOMAIN air : air[n] \in Bytes
  /\ \A n \in DOMAIN readBuffer : ~Newline(readBuffer[n])
  /\ state \in [1..Fields -> Bytes] /\ blueToothConnected \in BOOLEAN

\* Of the sequence of all that was written to the robot: commands reach it in
\* the order in which they were posted, and none of them is in it twice,
\* however often the link is lost and the queue grows while connect() blocks
\* (handleMessage drops, never retries).
CommandsInOrder ==
  \A i, j \in 1..Len(written) : i < j => written[i] < written[j]

\* Once a connection has delivered its first newline and after that a whole
\* status line, the robot's state is one line of the robot's with every field
\* in its place: only the first line of a connection can be torn, whatever
\* the last connection left in the buffer (read, onBtDataRecive).
OnlyFirstLineTorn ==
  stage = 2 =>
    \E line \in 1..MaxLines : \A f \in 1..Fields : state[f] = <<line, f>>

\* The user hears of a lost link at most once for each connection that has
\* delivered anything (onBtDataError).
AlarmPerConnection == alarms <= live

\* What is received and announced is right, whatever the link does.
ReceptionRight == TypeOK /\ OnlyFirstLineTorn /\ AlarmPerConnection

\* When the robot stays within reach it is connected for good, and when it
\* stays out of reach the robot's state says so in the end.
LinkFollowsRadio ==
  /\ <>[]up => <>[](streams = "open")
  /\ <>[]~up => <>[]~blueToothConnected

=============================================================================
