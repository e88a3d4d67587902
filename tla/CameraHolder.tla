---------------------------- MODULE CameraHolder ----------------------------
(***************************************************************************)
(* The singleton that owns android.hardware.Camera (CameraHolder.java) and *)
(* its one caller, the Receiver activity, which opens the camera when its  *)
(* surface appears and, when the surface goes, calls keep() and then       *)
(* release().  A released camera that was kept is freed later by a delayed *)
(* RELEASE_CAMERA message on the holder's own thread, which may already    *)
(* have been taken off the queue when the activity opens the camera again. *)
(* The parameters, and the preview started and stopped with the camera,    *)
(* are left out.                                                           *)
(***************************************************************************)
EXTENDS Integers

CONSTANTS
  KeepTime,    \* how long keep() holds the camera (3000 ms in the code)
  MaxTime      \* bound on the modelled clock

ASSUME TimeAssumption == KeepTime \in Nat \ {0} /\ MaxTime \in Nat

VARIABLES
  now,          \* System.currentTimeMillis()
  device,       \* mCameraDevice # null
  users,        \* mUsers
  keepBefore,   \* mKeepBeforeTime
  messages,     \* due times of the queued RELEASE_CAMERA messages
  dispatching,  \* the holder's thread has taken a message, not yet the monitor
  camera,       \* Receiver.camera # null
  pausing,      \* Receiver.mPausing
  surface,      \* the surface exists
  closing,      \* closeCamera is between keep() and release()
  keptAt        \* time of the last keep() (history, for KeptLongEnough)

holderVars   == <<device, users, keepBefore, messages>>
receiverVars == <<camera, pausing, surface, closing>>
vars == <<now, device, users, keepBefore, messages, dispatching,
          camera, pausing, surface, closing, keptAt>>

Init ==
  /\ now = 0
  /\ device = FALSE
  /\ users = 0
  /\ keepBefore = 0
  /\ messages = {}
  /\ dispatching = FALSE
  /\ camera = FALSE
  /\ pausing = FALSE
  /\ surface = FALSE
  /\ closing = FALSE
  /\ keptAt = 0

-----------------------------------------------------------------------------
(* CameraHolder: each operation runs under the holder's monitor.           *)

\* open() when the hardware grants the camera.  (When it does not, the null
\* device is dereferenced and the process goes down: ProcessDies.)
open ==
  /\ users = 0
  /\ device' = TRUE
  /\ users' = users + 1
  /\ messages' = {}
  /\ keepBefore' = 0

keep ==
  /\ users \in {0, 1}
  /\ keepBefore' = now + KeepTime
  /\ keptAt' = now

\* Mutant: the user count is not looked at.
ReleaseInUse(u) ==
  \/ ~device /\ UNCHANGED <<device, messages>>
  \/ /\ device /\ now < keepBefore
     /\ messages' = messages \union {keepBefore}
     /\ UNCHANGED device
  \/ device /\ now >= keepBefore /\ device' = FALSE /\ UNCHANGED messages

\* Mutant: a message that comes too early is not posted again.
ReleaseNotReposted(u) ==
  \/ (u # 0 \/ ~device \/ now < keepBefore) /\ UNCHANGED <<device, messages>>
  \/ /\ u = 0 /\ device /\ now >= keepBefore
     /\ device' = FALSE
     /\ UNCHANGED messages

\* Mutant: the keep time is not looked at.
ReleaseAtOnce(u) ==
  \/ (u # 0 \/ ~device) /\ UNCHANGED <<device, messages>>
  \/ u = 0 /\ device /\ device' = FALSE /\ UNCHANGED messages

\* releaseCamera() with user count u: leave a camera that is in use or gone,
\* try again later while it is kept, free it.  Every message is due at the
\* keep time it was posted for, so a second one for that time adds nothing.
releaseCamera(u) ==
  \/ /\ u # 0 \/ ~device
     /\ UNCHANGED <<device, messages>>
  \/ /\ u = 0 /\ device /\ now < keepBefore
     /\ messages' = messages \union {keepBefore}
     /\ UNCHANGED device
  \/ /\ u = 0 /\ device /\ now >= keepBefore
     /\ device' = FALSE
     /\ UNCHANGED messages

release ==
  /\ users' = users - 1
  /\ releaseCamera(users - 1)
  /\ UNCHANGED keepBefore

-----------------------------------------------------------------------------
(* The holder's handler thread.                                            *)

\* Mutant: the message is dropped instead of dispatched.
MessageDropped ==
  /\ ~dispatching
  /\ \E due \in messages : due <= now /\ messages' = messages \ {due}
  /\ UNCHANGED <<now, device, users, keepBefore, dispatching, receiverVars, keptAt>>

\* The looper takes a due message; its handler has yet to get the monitor.
TakeMessage ==
  /\ ~dispatching
  /\ \E due \in messages : due <= now /\ messages' = messages \ {due}
  /\ dispatching' = TRUE
  /\ UNCHANGED <<now, device, users, keepBefore, receiverVars, keptAt>>

handleMessage ==
  /\ dispatching
  /\ dispatching' = FALSE
  /\ releaseCamera(users)
  /\ UNCHANGED <<now, users, keepBefore, receiverVars, keptAt>>

-----------------------------------------------------------------------------
(* Receiver, on the UI thread.                                             *)

openCamera == ~camera /\ open /\ camera' = TRUE

\* surfaceCreated() starts the preview, which opens the camera first, unless
\* the activity is pausing.
surfaceCreated ==
  /\ ~surface /\ ~closing
  /\ surface' = TRUE
  /\ \/ pausing /\ UNCHANGED <<holderVars, camera>>
     \/ ~pausing /\ openCamera
  /\ UNCHANGED <<now, dispatching, pausing, closing, keptAt>>

\* surfaceDestroyed(): closeCamera() up to its keep() ...
surfaceDestroyed ==
  /\ surface
  /\ surface' = FALSE
  /\ \/ ~camera /\ UNCHANGED <<keepBefore, closing, keptAt>>
     \/ camera /\ now + KeepTime <= MaxTime /\ keep /\ closing' = TRUE
  /\ UNCHANGED <<now, device, users, messages, dispatching, camera, pausing>>

\* Mutant: the reference to the camera is not cleared.
CloseKeepsReference ==
  /\ closing
  /\ closing' = FALSE
  /\ release
  /\ UNCHANGED <<now, dispatching, camera, pausing, surface, keptAt>>

\* ... and from its release() to its end.
closeCamera ==
  /\ closing
  /\ closing' = FALSE
  /\ release
  /\ camera' = FALSE
  /\ UNCHANGED <<now, dispatching, pausing, surface, keptAt>>

onStop ==
  /\ ~pausing /\ ~closing
  /\ pausing' = TRUE
  /\ UNCHANGED <<now, holderVars, dispatching, camera, surface, closing, keptAt>>

onResume ==
  /\ pausing /\ ~closing
  /\ pausing' = FALSE
  /\ UNCHANGED <<now, holderVars, dispatching, camera, surface, closing, keptAt>>

\* The process is killed, and the kernel frees the camera with everything else.
ProcessDies ==
  /\ device' = FALSE /\ users' = 0 /\ keepBefore' = 0
  /\ messages' = {} /\ dispatching' = FALSE
  /\ camera' = FALSE /\ pausing' = FALSE /\ surface' = FALSE /\ closing' = FALSE
  /\ UNCHANGED <<now, keptAt>>

Tick ==
  /\ now < MaxTime
  /\ now' = now + 1
  /\ UNCHANGED <<holderVars, dispatching, receiverVars, keptAt>>

Next ==
  \/ TakeMessage \/ handleMessage
  \/ surfaceCreated \/ surfaceDestroyed \/ closeCamera
  \/ onStop \/ onResume \/ ProcessDies
  \/ Tick

\* The holder's thread and the clock keep running and closeCamera() does not
\* stop half way; the user and the system owe nothing.
Fairness ==
  /\ WF_vars(TakeMessage) /\ WF_vars(handleMessage)
  /\ WF_vars(closeCamera) /\ WF_vars(Tick)

Spec == Init /\ [][Next]_vars /\ Fairness

-----------------------------------------------------------------------------
(* Correctness                                                             *)

\* Every variable has its type, and the activity's user count is never more
\* than one, so that open() is never refused.
TypeOK ==
  /\ now \in Nat /\ keepBefore \in Nat /\ keptAt \in Nat
  /\ users \in {0, 1}
  /\ messages \subseteq Nat
  /\ device \in BOOLEAN /\ dispatching \in BOOLEAN
  /\ camera \in BOOLEAN /\ pausing \in BOOLEAN
  /\ surface \in BOOLEAN /\ closing \in BOOLEAN

\* A camera in use is never freed under its user: a stale RELEASE_CAMERA
\* message handled after the camera was opened again leaves it alone, and
\* mUsers counts what the activity holds.
InUseIsOpen ==
  /\ camera => users = 1 /\ device
  /\ ~camera => users = 0

\* No camera is left on for ever: one that is held without a user always has a
\* release message queued or being handled, whatever open() removed and
\* however often the handler found it too early and queued another.
HeldHasRelease == device /\ users = 0 => messages # {} \/ dispatching

\* While the process lives, the camera is not freed before the keep time given
\* by the last keep() has passed, though messages of earlier keeps may arrive.
KeptLongEnough ==
  [][device /\ ~device' => now >= keptAt + KeepTime \/ ProcessDies]_vars

\* Seen from the activity the holder is a lease: a camera is granted, returned,
\* held, and one that is held is eventually freed or granted again.
Lease == INSTANCE CameraLease WITH
  lease <- IF users > 0 THEN "open" ELSE IF device THEN "held" ELSE "closed"

ImplementsLease == Lease!Spec

=============================================================================
