------------------------------ MODULE Console ------------------------------
(***************************************************************************)
(* The console's control loop (DataThread), the speech callback that       *)
(* shares its ControllerState, and the hand-over of RobotState and of      *)
(* target blobs to the drawing thread.  DAController has one               *)
(* ControllerState, which getState() fills in anew and returns to the loop *)
(* and to the callback alike; only its text is modelled.  The listener     *)
(* runs inside update(), that is in the control loop's thread.             *)
(***************************************************************************)
EXTENDS Integers, Sequences

CONSTANTS
  MaxTexts,  \* bound: texts the operator types
  MaxBlobs   \* bound: blobs the phone sends

ConsoleAssumption == {MaxTexts, MaxBlobs} \subseteq Nat

VARIABLES
  loop,          \* the place of the control loop
  extraData,     \* the text to speak of the ControllerState, 0 if there is none
  typed,         \* texts typed
  spoken,        \* the texts that were sent and not empty
  net,           \* blobs on their way from the phone
  blobs,         \* blobs that the phone has sent
  _targetBlob,   \* the newest blob, 0 for null
  drawing, tb,   \* getTargetBlob(): its place and its local variable
  drawn,         \* the blobs drawn
  textLost,      \* the last text was stored after a state was sent and before
                 \*   its text was cleared (history)
  blobLost       \* the last blob was overwritten unread (history)

speechVars == <<extraData, typed, spoken, textLost>>
blobVars   == <<net, blobs, _targetBlob, drawing, tb, drawn, blobLost>>
vars == <<loop, speechVars, blobVars>>

Init ==
  /\ loop = "get" /\ extraData = 0 /\ typed = 0 /\ spoken = << >>
  /\ net = << >> /\ blobs = 0
  /\ _targetBlob = 0 /\ drawing = FALSE /\ tb = 0 /\ drawn = << >>
  /\ textLost = FALSE /\ blobLost = FALSE

-----------------------------------------------------------------------------
(* The control loop, run().                                                *)

\* Mutant: every turn of the loop starts with an empty state.
GetNewState ==
  /\ loop = "get" /\ loop' = "send" /\ extraData' = 0
  /\ UNCHANGED <<typed, spoken, textLost, blobVars>>

\* The sticks and the time are filled in; the text stays what it is.
GetState ==
  /\ loop = "get" /\ loop' = "send"
  /\ UNCHANGED <<speechVars, blobVars>>

sendTCP ==
  /\ loop = "send" /\ loop' = "update"
  /\ spoken' = IF extraData = 0 THEN spoken ELSE Append(spoken, extraData)
  /\ UNCHANGED <<extraData, typed, textLost, blobVars>>

\* Mutant: a blob that is not drawn yet is kept, and the new one dropped.
ReceiveFirst ==
  /\ loop = "update" /\ net # << >> /\ net' = Tail(net)
  /\ _targetBlob' = IF _targetBlob = 0 THEN Head(net) ELSE _targetBlob
  /\ blobLost' = FALSE
  /\ UNCHANGED <<loop, speechVars, blobs, drawing, tb, drawn>>

\* The listener, for what update() finds.
received ==
  /\ loop = "update" /\ net # << >> /\ net' = Tail(net)
  /\ _targetBlob' = Head(net) /\ blobLost' = FALSE
  /\ UNCHANGED <<loop, speechVars, blobs, drawing, tb, drawn>>

\* update() returns, or throws, which ends the loop for good.
UpdateReturns ==
  /\ loop = "update" /\ loop' \in {"clear", "ended"}
  /\ UNCHANGED <<speechVars, blobVars>>

ClearText ==
  /\ loop = "clear" /\ loop' = "sleep" /\ extraData' = 0
  /\ UNCHANGED <<typed, spoken, textLost, blobVars>>

Sleep ==
  /\ loop = "sleep" /\ loop' = "get"
  /\ UNCHANGED <<speechVars, blobVars>>

ControlLoop == GetState \/ sendTCP \/ received \/ UpdateReturns \/ ClearText \/ Sleep

-----------------------------------------------------------------------------
(* The operator, the phone and the drawing thread.                         *)

\* speech() stores the text in the state it asks for, wherever the loop is.
speech ==
  /\ typed < MaxTexts /\ typed' = typed + 1
  /\ extraData' = typed' /\ textLost' = (loop \in {"update", "clear"})
  /\ UNCHANGED <<loop, spoken, blobVars>>

SendBlob ==
  /\ blobs < MaxBlobs /\ blobs' = blobs + 1 /\ net' = Append(net, blobs')
  /\ UNCHANGED <<loop, speechVars, _targetBlob, drawing, tb, drawn, blobLost>>

\* getTargetBlob() reads the field,
ReadBlob ==
  /\ ~drawing /\ _targetBlob # 0 /\ drawing' = TRUE /\ tb' = _targetBlob
  /\ UNCHANGED <<loop, speechVars, net, blobs, _targetBlob, drawn, blobLost>>

\* and then sets it to null, whatever has arrived in between.
TakeBlob ==
  /\ drawing /\ drawing' = FALSE /\ _targetBlob' = 0
  /\ blobLost' = (_targetBlob # tb)
  /\ drawn' = Append(drawn, tb)
  /\ UNCHANGED <<loop, speechVars, net, blobs, tb>>

Next == ControlLoop \/ speech \/ SendBlob \/ ReadBlob \/ TakeBlob

\* The drawing thread and the control loop go on, and update() handles what
\* has arrived; nothing is assumed of the operator and the phone.
Fairness ==
  WF_vars(ControlLoop) /\ SF_vars(received) /\ WF_vars(ReadBlob \/ TakeBlob)

Spec == Init /\ [][Next]_vars /\ Fairness

-----------------------------------------------------------------------------
(* Properties.                                                             *)

Rising(s) == \A n \in 1..Len(s) - 1 : s[n] < s[n + 1]

TypeOK ==
  /\ typed \in 0..MaxTexts /\ blobs \in 0..MaxBlobs
  /\ loop \in {"get", "send", "update", "clear", "sleep", "ended"}
  /\ extraData \in 0..typed /\ {_targetBlob, tb} \subseteq 0..blobs

\* A text is sent at most once, and texts in the order they were typed in,
\* although callback and loop share one object (run, speech).
SpokenOnce == Rising(spoken)

\* A blob is drawn at most once, and none after a newer one (getTargetBlob).
DrawnOnce == Rising(drawn)

\* A text typed is sent, if the loop goes on, unless a newer one was typed or it
\* was stored between the sending of a state and the clearing of its text, that
\* is while update() runs or before it is cleared (run, speech).
TextSpoken ==
  \A n \in 1..MaxTexts :
    typed = n ~> \/ loop = "ended" \/ typed > n \/ textLost
                 \/ \E k \in 1..Len(spoken) : spoken[k] = n

\* A blob that the phone sends is drawn, or a newer one is, if the loop goes on,
\* unless it was received while the drawing thread was taking the one before
\* (received, getTargetBlob).
BlobDrawn ==
  \A b \in 1..MaxBlobs :
    blobs = b ~> \/ loop = "ended" \/ blobs > b \/ blobLost
                 \/ \E n \in 1..Len(drawn) : drawn[n] = b

=============================================================================
