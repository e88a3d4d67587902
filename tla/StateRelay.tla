----------------------------- MODULE StateRelay -----------------------------
(***************************************************************************)
(* The heart of the phone application (RobotStateHandler.java).  The       *)
(* network thread stores the console's newest ControllerState, the camera  *)
(* thread stores the newest TargetBlob, and the run loop, reading those    *)
(* fields again at every use and without a lock, toggles auto-aim and      *)
(* posts states and blobs to the Bluetooth thread.                         *)
(*                                                                         *)
(* A ControllerState is its number in the console's sequence, which stands *)
(* for its timestamp too: the console stamps one state per 100 ms pass.    *)
(* What a state or blob carries beyond that, the copies sent back to the   *)
(* console, and the message queue of the Bluetooth thread are left out.    *)
(***************************************************************************)
EXTENDS Naturals, Sequences

CONSTANTS
  MaxStates,  \* bound on the states the console sends
  MaxBlobs    \* bound on the blobs the camera finds

ASSUME BoundAssumption == MaxStates \in Nat /\ MaxBlobs \in Nat

VARIABLES
  r3,                \* the ControllerStates received with R3 down
  controllerState,   \* the field: number of a state, 0 for null
  clientConnection,  \* the field is not null
  storing,           \* the listener has stored the state, not the connection
  bTcom,             \* bTcomThread: "null", "connecting" (no handler), "ready"
  last,              \* lastControllerTimeStamp
  autoAimOn,         \* state.autoAimOn
  posted,            \* last ControllerState posted to the Bluetooth thread
  found,             \* number of blobs found
  targetBlob,        \* the field: number and timestamp; number 0 for null
  lastBlob,          \* lastTargetBlobTimeStamp
  computed,          \* the blob that was last given its aim points
  aims,              \* blobs posted to the Bluetooth thread, in order
  pc,                \* where the run loop is
  toggledBy          \* states that toggled auto-aim (history)

consoleVars == <<r3, controllerState, clientConnection, storing>>
blobVars    == <<found, targetBlob, lastBlob, computed, aims>>
vars == <<r3, controllerState, clientConnection, storing, bTcom, last,
          autoAimOn, posted, found, targetBlob, lastBlob, computed, aims, pc,
          toggledBy>>

\* Blob timestamps come from the phone's clock and ControllerState timestamps
\* from the console's, so one may or may not equal the other.
Stamps == 1..MaxStates + 1

NoBlob == [id |-> 0, stamp |-> 0]
Blobs  == [id : 1..MaxBlobs, stamp : Stamps]

Locations == {"check", "toggle", "mark", "post", "blob", "stamp", "compute",
              "send", "aim", "clear", "dead"}

Init ==
  /\ r3 = {} /\ controllerState = 0
  /\ clientConnection = FALSE /\ storing = FALSE
  /\ bTcom = "null"
  /\ last = 0 /\ autoAimOn = FALSE /\ posted = 0
  /\ found = 0 /\ targetBlob = NoBlob /\ lastBlob = 0
  /\ computed = 0 /\ aims = << >>
  /\ pc = "check"
  /\ toggledBy = {}

\* What the run loop is about to use is null: a state or a blob that it looks
\* into or sends, or the handler it obtains a message from.
NullMet ==
  \/ pc \in {"toggle", "mark", "stamp"} /\ controllerState = 0
  \/ pc \in {"compute", "send"} /\ targetBlob = NoBlob
  \/ pc = "post" /\ bTcom # "ready"
  \/ pc = "aim" /\ autoAimOn /\ bTcom # "ready"

Goto(from, to) == pc = from /\ ~NullMet /\ pc' = to

-----------------------------------------------------------------------------
(* The other threads.                                                      *)

\* Listener.received of a ControllerState stores the state first ...
ReceiveState ==
  /\ ~storing /\ controllerState < MaxStates
  /\ controllerState' = controllerState + 1
  /\ r3' \in {r3, r3 \union {controllerState + 1}}
  /\ storing' = TRUE
  /\ UNCHANGED <<clientConnection, bTcom, last, autoAimOn, posted, blobVars, pc,
                 toggledBy>>

\* ... and then the connection it came from.
StoreConnection ==
  /\ storing
  /\ storing' = FALSE
  /\ clientConnection' = TRUE
  /\ UNCHANGED <<r3, controllerState, bTcom, last, autoAimOn, posted,
                 blobVars, pc, toggledBy>>

\* startListening starts the run loop before it creates the Bluetooth thread.
CreateBTComThread ==
  /\ bTcom = "null"
  /\ bTcom' = "connecting"
  /\ UNCHANGED <<consoleVars, last, autoAimOn, posted, blobVars, pc, toggledBy>>

\* BTCommThread.run has tried to connect and now has its handler.
HandlerReady ==
  /\ bTcom = "connecting"
  /\ bTcom' = "ready"
  /\ UNCHANGED <<consoleVars, last, autoAimOn, posted, blobVars, pc, toggledBy>>

\* onTargetBlobFound, on the camera's conversion thread.
onTargetBlobFound ==
  /\ found < MaxBlobs
  /\ found' = found + 1
  /\ \E t \in Stamps : targetBlob' = [id |-> found + 1, stamp |-> t]
  /\ UNCHANGED <<consoleVars, bTcom, last, autoAimOn, posted, lastBlob, computed,
                 aims, pc, toggledBy>>

-----------------------------------------------------------------------------
(* The run loop, one step per use of a shared field.                       *)

NewState == bTcom # "null" /\ controllerState # 0 /\ controllerState # last

CheckState ==
  /\ clientConnection
  /\ \/ NewState /\ Goto("check", "toggle")
     \/ ~NewState /\ Goto("check", "blob")
  /\ UNCHANGED <<consoleVars, bTcom, last, autoAimOn, posted, blobVars, toggledBy>>

ToggleAutoAim ==
  /\ Goto("toggle", "mark")
  /\ \/ /\ controllerState \in r3
        /\ autoAimOn' = ~autoAimOn
        /\ toggledBy' = toggledBy \union {controllerState}
     \/ /\ controllerState \notin r3
        /\ UNCHANGED <<autoAimOn, toggledBy>>
  /\ UNCHANGED <<consoleVars, bTcom, last, posted, blobVars>>

\* Mutant: the timestamp is not remembered.
NotMarked ==
  /\ Goto("mark", "post")
  /\ UNCHANGED <<consoleVars, bTcom, last, autoAimOn, posted, blobVars, toggledBy>>

MarkSeen ==
  /\ Goto("mark", "post")
  /\ last' = controllerState
  /\ UNCHANGED <<consoleVars, bTcom, autoAimOn, posted, blobVars, toggledBy>>

\* Mutant: what was seen before is posted, not what is there now.
PostSeen ==
  /\ Goto("post", "blob")
  /\ posted' = last
  /\ UNCHANGED <<consoleVars, bTcom, last, autoAimOn, blobVars, toggledBy>>

\* The message's obj is read from the field once more.
PostState ==
  /\ Goto("post", "blob")
  /\ posted' = controllerState
  /\ UNCHANGED <<consoleVars, bTcom, last, autoAimOn, blobVars, toggledBy>>

\* The exception is not caught and takes the application down.
NullPointerException ==
  /\ NullMet /\ pc' = "dead"
  /\ UNCHANGED <<consoleVars, bTcom, last, autoAimOn, posted, blobVars, toggledBy>>

\* Mutant: the null test is missing.
NewBlobUntested == targetBlob.stamp # lastBlob

NewBlob == targetBlob # NoBlob /\ targetBlob.stamp # lastBlob

CheckBlob ==
  /\ \/ NewBlob /\ Goto("blob", "stamp")
     \/ ~NewBlob /\ Goto("blob", "check")
  /\ UNCHANGED <<consoleVars, bTcom, last, autoAimOn, posted, blobVars, toggledBy>>

\* The time remembered for blobs is that of the controller state.
StampBlob ==
  /\ Goto("stamp", "compute")
  /\ lastBlob' = controllerState
  /\ UNCHANGED <<consoleVars, bTcom, last, autoAimOn, posted, found, targetBlob,
                 computed, aims, toggledBy>>

\* Mutant: aim points are computed when there are none yet.
ComputeFirst ==
  /\ Goto("compute", "send")
  /\ computed' = IF computed = 0 THEN targetBlob.id ELSE computed
  /\ UNCHANGED <<consoleVars, bTcom, last, autoAimOn, posted, found, targetBlob,
                 lastBlob, aims, toggledBy>>

\* calculateAimpoints() of the blob that is there now.
ComputeAim ==
  /\ Goto("compute", "send")
  /\ computed' = targetBlob.id
  /\ UNCHANGED <<consoleVars, bTcom, last, autoAimOn, posted, found, targetBlob,
                 lastBlob, aims, toggledBy>>

\* Mutant: the blob is taken from its field once the console has it.
SendAndClear ==
  /\ Goto("send", "aim")
  /\ targetBlob' = NoBlob
  /\ UNCHANGED <<consoleVars, bTcom, last, autoAimOn, posted, found, lastBlob,
                 computed, aims, toggledBy>>

\* The console is sent the blob that is there now.
SendBlob ==
  /\ Goto("send", "aim")
  /\ UNCHANGED <<consoleVars, bTcom, last, autoAimOn, posted, blobVars, toggledBy>>

\* While auto-aim is on the blob that is there now goes to the robot.
PostAim ==
  /\ Goto("aim", "clear")
  /\ \/ autoAimOn /\ aims' = Append(aims, targetBlob.id)
     \/ ~autoAimOn /\ UNCHANGED aims
  /\ UNCHANGED <<consoleVars, bTcom, last, autoAimOn, posted, found, targetBlob,
                 lastBlob, computed, toggledBy>>

\* Mutant: the blob stays.
BlobStays ==
  /\ Goto("clear", "check")
  /\ UNCHANGED <<consoleVars, bTcom, last, autoAimOn, posted, blobVars, toggledBy>>

ClearBlob ==
  /\ Goto("clear", "check")
  /\ targetBlob' = NoBlob
  /\ UNCHANGED <<consoleVars, bTcom, last, autoAimOn, posted, found, lastBlob,
                 computed, aims, toggledBy>>

RunLoop == CheckState \/ ToggleAutoAim \/ MarkSeen \/ PostState
             \/ CheckBlob \/ StampBlob \/ ComputeAim \/ SendBlob \/ PostAim
             \/ ClearBlob \/ NullPointerException

\* An uncaught exception in the run loop ends the process.
Next ==
  /\ pc # "dead"
  /\ \/ ReceiveState \/ StoreConnection
     \/ CreateBTComThread \/ HandlerReady
     \/ onTargetBlobFound
     \/ RunLoop

\* The listener finishes what it began, startListening() and the first connect()
\* return, and the run loop is scheduled again and again; nobody promises that
\* commands or blobs come.
Fairness ==
  /\ WF_vars(StoreConnection)
  /\ WF_vars(CreateBTComThread) /\ WF_vars(HandlerReady)
  /\ WF_vars(RunLoop)

Spec == Init /\ [][Next]_vars /\ Fairness

-----------------------------------------------------------------------------
(* Correctness                                                             *)

TypeOK ==
  /\ r3 \subseteq 1..MaxStates /\ toggledBy \subseteq 1..MaxStates
  /\ controllerState \in 0..MaxStates
  /\ last \in 0..MaxStates /\ posted \in 0..MaxStates
  /\ clientConnection \in BOOLEAN /\ storing \in BOOLEAN
  /\ autoAimOn \in BOOLEAN
  /\ bTcom \in {"null", "connecting", "ready"}
  /\ found \in 0..MaxBlobs
  /\ targetBlob \in Blobs \union {NoBlob}
  /\ lastBlob \in 0..MaxStates /\ computed \in 0..MaxBlobs
  /\ aims \in Seq(1..MaxBlobs)
  /\ pc \in Locations

\* The only null that the run loop meets, and dies of, is the handler of the
\* Bluetooth thread when the first state comes before that thread has it (line
\* 445, which does not test it).  Of what the loop does test - the state, the
\* blob, the thread - nothing is null when it is read again, whatever the other
\* threads have stored since; and once a state was posted the loop never dies.
DiesOnlyAtFirstPost ==
  [][pc' = "dead" => pc = "post" /\ bTcom # "ready" /\ posted = 0]_vars

\* A state in which R3 is down toggles auto-aim at most once, though the run
\* loop tests one state, reads R3 of another and remembers a third.
ToggleOncePerState ==
  [][autoAimOn' # autoAimOn => controllerState \notin toggledBy]_vars

\* The robot adds an aim to where its turret already points, so no blob may
\* steer it twice, nor an older blob after a newer one; and a blob is posted only
\* after aim points were computed in the same pass, for it or for one that it has
\* replaced since and whose points it then lacks (lines 462 and 470).
AimOncePerBlob ==
  [][aims' # aims =>
       /\ computed <= aims'[Len(aims')]
       /\ \A k \in 1..Len(aims) : aims[k] < computed]_vars

\* Commands reach the Bluetooth thread as through a mailbox for the latest one:
\* each post takes the newest state there is, so they never go back in time,
\* and unless the application dies the last state sent is eventually posted.
Mailbox == INSTANCE LatestValue WITH
  latest <- controllerState, delivered <- posted, alive <- pc # "dead"

ImplementsMailbox == Mailbox!Spec

=============================================================================
