------------------------------ MODULE Forklift ------------------------------
(***************************************************************************)
(* The forklift sketch (Forklift.pde): the serial reader, which takes what *)
(* is available in one batch, and the commands for its three motors.       *)
(*                                                                         *)
(* A command is a sequence of letters, sent with a terminator.  Nothing    *)
(* makes a sender wait for one to be performed before it sends the next,   *)
(* nor keeps one within the buffer; once the reader has left the buffer,   *)
(* what it does is undefined, and the model stops.                         *)
(***************************************************************************)
EXTENDS Integers, Sequences, SequencesExt

CONSTANTS
  Commands,     \* the commands the sender chooses from
  MaxCommands,  \* bound: commands sent
  BUFFERSIZE    \* 256 in the code

VARIABLES
  rx,                    \* bytes received and not yet read
  inBytes, serialIndex,  \* the buffer and where the next byte goes
  i, end,                \* the loop over a batch; i = end outside of it
  motors,                \* what each motor does
  sent, performed,       \* commands sent and performed (history)
  overtaken              \* a batch went on past the end of a command (history)

vars == <<rx, inBytes, serialIndex, i, end, motors, sent, performed, overtaken>>

NUL == "NUL"
Terminator == ";"
Motors == {"lift", "left", "right"}

\* Commands are one letter or more, as the help text lists them.
ForkliftAssumption ==
  /\ MaxCommands \in Nat /\ BUFFERSIZE \in Nat \ {0}
  /\ Commands \subseteq Seq(STRING)
  /\ \A c \in Commands : /\ Len(c) > 0
                         /\ \A k \in 1..Len(c) : c[k] \notin {NUL, Terminator}

Init ==
  /\ rx = << >> /\ inBytes = [n \in 0..BUFFERSIZE - 1 |-> NUL]
  /\ serialIndex = 0 /\ i = 0 /\ end = 0
  /\ motors = [m \in Motors |-> "RELEASE"]
  /\ sent = << >> /\ performed = << >> /\ overtaken = FALSE

\* The string at the start of the buffer.
CString(buffer) ==
  LET n == CHOOSE k \in DOMAIN buffer :
             buffer[k] = NUL /\ \A j \in 0..k - 1 : buffer[j] # NUL
  IN [k \in 1..n |-> buffer[k - 1]]

\* performCommand(): those that change no motor are left out.
Performed(command) ==
  CASE command = <<"f">> -> [motors EXCEPT !["left"] = "FORWARD", !["right"] = "FORWARD"]
    [] command = <<"r">> -> [motors EXCEPT !["left"] = "FORWARD"]
    [] command = <<"l">> -> [motors EXCEPT !["right"] = "FORWARD"]
    [] command = <<"b">> -> [motors EXCEPT !["left"] = "BACKWARD", !["right"] = "BACKWARD"]
    [] command \in {<<"s">>, <<"h", "s">>} -> [m \in Motors |-> "RELEASE"]
    [] command = <<"h", "u">> -> [motors EXCEPT !["lift"] = "FORWARD"]
    [] command = <<"h", "d">> -> [motors EXCEPT !["lift"] = "BACKWARD"]
    [] OTHER -> motors

performCommand(command) ==
  /\ motors' = Performed(command)
  /\ performed' = Append(performed, command)

Send ==
  /\ Len(sent) < MaxCommands
  /\ \E command \in Commands :
       /\ sent' = Append(sent, command)
       /\ rx' = rx \o Append(command, Terminator)
  /\ UNCHANGED <<inBytes, serialIndex, i, end, motors, performed, overtaken>>

\* A mutant of BeginBatch: each batch is stored from the start of the buffer.
BatchFromStart ==
  /\ i = end /\ i' = 0
  /\ end' \in 1..Len(rx)
  /\ UNCHANGED <<rx, inBytes, serialIndex, motors, sent, performed, overtaken>>

\* loop(): a batch of what has arrived so far is begun.
BeginBatch ==
  /\ i = end /\ i' = serialIndex
  /\ \E serialAvail \in 1..Len(rx) : end' = serialIndex + serialAvail
  /\ UNCHANGED <<rx, inBytes, serialIndex, motors, sent, performed, overtaken>>

\* readSerialInput(): one byte; the index of the buffer is set back at the
\* end of a command, that of the loop is not.
ReadByte ==
  /\ i < end /\ i < BUFFERSIZE
  /\ i' = i + 1 /\ rx' = Tail(rx)
  /\ overtaken' = (overtaken \/ (Head(rx) = Terminator /\ i' < end))
  /\ IF Head(rx) = Terminator
     THEN /\ inBytes' = [inBytes EXCEPT ![i] = NUL]
          /\ serialIndex' = 0
          /\ IF i > 0 THEN performCommand(CString(inBytes'))
                      ELSE UNCHANGED <<motors, performed>>
     ELSE /\ inBytes' = [inBytes EXCEPT ![i] = Head(rx)]
          /\ serialIndex' = serialIndex + 1
          /\ UNCHANGED <<motors, performed>>
  /\ UNCHANGED <<end, sent>>

readSerialInput == BeginBatch \/ ReadByte

Next == Send \/ readSerialInput

Spec == Init /\ [][Next]_vars /\ WF_vars(readSerialInput)

-----------------------------------------------------------------------------
(* Properties.                                                             *)

\* The next byte goes behind the buffer, whose end is not tested.
Overrun == i < end /\ i = BUFFERSIZE

\* Types; the command being read is not longer than the batch has come.
TypeOK ==
  /\ i \in 0..BUFFERSIZE /\ end \in Nat /\ i <= end /\ serialIndex \in 0..i
  /\ DOMAIN inBytes = 0..BUFFERSIZE - 1
  /\ motors \in [Motors -> {"RELEASE", "FORWARD", "BACKWARD"}]
  /\ overtaken \in BOOLEAN

\* As long as no batch has gone on past the end of a command, what is performed
\* is what was sent, in the same order and each command once, wherever the
\* batches begin and end (readSerialInput).
CommandsObeyed == ~overtaken => IsPrefix(performed, sent)

\* The reader leaves its buffer only for a command that is too long for it, or
\* in a batch that went on past the end of one (readSerialInput).
StaysInBuffer ==
  Overrun => overtaken \/ \E n \in 1..Len(sent) : Len(sent[n]) >= BUFFERSIZE

\* Unless the buffer is overrun, as many commands are performed in the end as
\* were sent; with CommandsObeyed, they are those that were sent if no batch
\* went on past the end of one (readSerialInput).
AllPerformed == <>[](Overrun \/ Len(performed) = Len(sent))

\* What the comment on readSerialInput says of every batch: a command is parsed
\* when the full command has been sent, so that what was sent is performed.
CommandsPerformed == IsPrefix(performed, sent)

=============================================================================
