------------------------------ MODULE FramePool ------------------------------
(***************************************************************************)
(* The way of a camera frame on the phone (CameraPreviewHandler.java and   *)
(* OpenGLCamRenderer.java).  The camera fills a buffer of its pool and     *)
(* queues it for the UI thread; onPreviewFrame hands it to the conversion  *)
(* worker or, if the worker is not ready, gives it back to the pool; the   *)
(* worker converts it for the renderer, or sends it as video once there is *)
(* a console to send it to, and then gives it back.                        *)
(*                                                                         *)
(* The worker's run() is synchronized, so it holds its monitor except      *)
(* while it waits for a frame, and it converts under the renderer's frame  *)
(* lock.  The UI thread and the worker give buffers back through the same  *)
(* one-element argument array.  What a frame shows is left out.            *)
(***************************************************************************)
EXTENDS Integers, Sequences

CONSTANT NUMBER_OF_BUFFERS   \* 16 in the code

ASSUME BuffersAssumption == NUMBER_OF_BUFFERS \in Nat \ {0}

VARIABLES
  pool,             \* the camera's free buffers
  queue,            \* filled buffers on their way to onPreviewFrame
  ui,               \* where the UI thread is in onPreviewFrame
  data,             \* the buffer it is called with
  worker,           \* where the conversion worker is
  curFrame,         \* the worker's buffer, 0 for null
  mArglist,         \* what the argument array of addCallbackBuffer holds
  sendVideo,
  frameLock,        \* who holds it: "free", "worker" or "renderer"
  frameEnqueued,
  renderRequested,  \* requestRender() was called, no pass has begun since
  renderer,         \* where the render thread is in onDrawFrame
  texture,          \* "none" until initialised, then "blank" or a "frame"
  fresh,            \* a frame was accepted and is not yet converted (history)
  stale             \* the frame set last is not the texture (history)

poolVars   == <<pool, queue>>
uiVars     == <<ui, data>>
renderVars == <<frameEnqueued, renderRequested, renderer, texture, stale>>
vars == <<poolVars, uiVars, worker, curFrame, mArglist, sendVideo, frameLock,
          renderVars, fresh>>

Buffers == 1..NUMBER_OF_BUFFERS

\* init() has put every buffer into the pool.
Init ==
  /\ pool = [b \in Buffers |-> b] /\ queue = << >>
  /\ ui = "idle" /\ data = 0
  /\ worker = "starting" /\ curFrame = 0
  /\ mArglist = NUMBER_OF_BUFFERS
  /\ sendVideo = FALSE
  /\ frameLock = "free"
  /\ frameEnqueued = FALSE /\ renderRequested = FALSE /\ renderer = "idle"
  /\ texture = "none"
  /\ fresh = FALSE /\ stale = FALSE

-----------------------------------------------------------------------------
(* The camera service.                                                     *)

FillBuffer ==
  /\ pool # << >>
  /\ pool' = Tail(pool)
  /\ queue' = Append(queue, Head(pool))
  /\ UNCHANGED <<uiVars, worker, curFrame, mArglist, sendVideo, frameLock,
                 renderVars, fresh>>

-----------------------------------------------------------------------------
(* onPreviewFrame, on the UI thread.                                       *)

UIStep(from, to) == ui = from /\ ui' = to /\ UNCHANGED data

onPreviewFrame ==
  /\ ui = "idle" /\ queue # << >>
  /\ ui' = "nextFrame"
  /\ data' = Head(queue)
  /\ queue' = Tail(queue)
  /\ UNCHANGED <<pool, worker, curFrame, mArglist, sendVideo, frameLock,
                 renderVars, fresh>>

\* The worker has its monitor in every other place.
MonitorFree == worker \in {"starting", "waiting", "notified"}

\* Mutant: a frame is accepted before the worker has woken up for the last.
AcceptTwice ==
  /\ worker \in {"waiting", "notified"}
  /\ UIStep("nextFrame", "video")
  /\ curFrame' = data
  /\ worker' = "notified"
  /\ fresh' = TRUE
  /\ UNCHANGED <<poolVars, mArglist, sendVideo, frameLock, renderVars>>

\* nextFrame() takes the frame when the worker waits for one ...
AcceptFrame ==
  /\ MonitorFree /\ worker = "waiting"
  /\ UIStep("nextFrame", "video")
  /\ curFrame' = data
  /\ worker' = "notified"
  /\ fresh' = TRUE
  /\ UNCHANGED <<poolVars, mArglist, sendVideo, frameLock, renderVars>>

\* Mutant: an ignored frame is not given back.
IgnoreAndKeep ==
  /\ MonitorFree /\ worker # "waiting"
  /\ UIStep("nextFrame", "video")
  /\ UNCHANGED <<poolVars, worker, curFrame, mArglist, sendVideo, frameLock,
                 renderVars, fresh>>

\* ... and ignores it when the worker has yet to start or to wake up.
IgnoreFrame ==
  /\ MonitorFree /\ worker # "waiting"
  /\ UIStep("nextFrame", "setArg")
  /\ UNCHANGED <<poolVars, worker, curFrame, mArglist, sendVideo, frameLock,
                 renderVars, fresh>>

\* addCallbackBuffer(data) stores the buffer in the array ...
UISetArg ==
  /\ UIStep("setArg", "invoke")
  /\ mArglist' = data
  /\ UNCHANGED <<poolVars, worker, curFrame, sendVideo, frameLock, renderVars, fresh>>

\* ... and calls the camera with what the array then holds.
UIInvoke ==
  /\ UIStep("invoke", "video")
  /\ pool' = Append(pool, mArglist)
  /\ UNCHANGED <<queue, worker, curFrame, mArglist, sendVideo, frameLock,
                 renderVars, fresh>>

\* The video starts once there is a console; nothing stops it again.
StartVideo ==
  /\ UIStep("video", "idle")
  /\ sendVideo' \in {sendVideo, TRUE}
  /\ UNCHANGED <<poolVars, worker, curFrame, mArglist, frameLock, renderVars, fresh>>

-----------------------------------------------------------------------------
(* ConversionWorker.run.                                                   *)

WorkerStep(from, to) == worker = from /\ worker' = to

\* Mutant: the worker does not wait for its first frame.
WorkerStartsAtOnce ==
  /\ WorkerStep("starting", "lock")
  /\ UNCHANGED <<poolVars, uiVars, curFrame, mArglist, sendVideo, frameLock,
                 renderVars, fresh>>

\* The worker enters run() and waits for its first frame.
WorkerStarts ==
  /\ WorkerStep("starting", "waiting")
  /\ UNCHANGED <<poolVars, uiVars, curFrame, mArglist, sendVideo, frameLock,
                 renderVars, fresh>>

\* Notified, it gets its monitor back.
WorkerWakes ==
  /\ WorkerStep("notified", "lock")
  /\ UNCHANGED <<poolVars, uiVars, curFrame, mArglist, sendVideo, frameLock,
                 renderVars, fresh>>

WorkerLocks ==
  /\ frameLock = "free"
  /\ WorkerStep("lock", "convert")
  /\ frameLock' = "worker"
  /\ UNCHANGED <<poolVars, uiVars, curFrame, mArglist, sendVideo, renderVars, fresh>>

\* A frame is sent as video or handed to the renderer, never both.
Convert ==
  /\ WorkerStep("convert", "setArg")
  /\ fresh' = FALSE
  /\ \/ sendVideo /\ UNCHANGED <<frameEnqueued, stale>>
     \/ ~sendVideo /\ frameEnqueued' = TRUE /\ stale' = TRUE
  /\ UNCHANGED <<poolVars, uiVars, curFrame, mArglist, sendVideo, frameLock,
                 renderRequested, renderer, texture>>

WorkerSetArg ==
  /\ WorkerStep("setArg", "invoke")
  /\ mArglist' = curFrame
  /\ UNCHANGED <<poolVars, uiVars, curFrame, sendVideo, frameLock, renderVars, fresh>>

WorkerInvoke ==
  /\ WorkerStep("invoke", "unlock")
  /\ pool' = Append(pool, mArglist)
  /\ UNCHANGED <<queue, uiVars, curFrame, mArglist, sendVideo, frameLock,
                 renderVars, fresh>>

\* Mutant: the frame lock is not given back.
WorkerKeepsLock ==
  /\ WorkerStep("unlock", "render")
  /\ UNCHANGED <<poolVars, uiVars, curFrame, mArglist, sendVideo, frameLock,
                 renderVars, fresh>>

WorkerUnlocks ==
  /\ WorkerStep("unlock", "render")
  /\ frameLock' = "free"
  /\ UNCHANGED <<poolVars, uiVars, curFrame, mArglist, sendVideo, renderVars, fresh>>

\* It asks for a render pass and waits for the next frame.
WorkerWaits ==
  /\ WorkerStep("render", "waiting")
  /\ renderRequested' = TRUE
  /\ UNCHANGED <<poolVars, uiVars, curFrame, mArglist, sendVideo, frameLock,
                 frameEnqueued, renderer, texture, stale, fresh>>

-----------------------------------------------------------------------------
(* OpenGLCamRenderer.onDrawFrame, on the render thread.                    *)

RenderStep(from, to) == renderer = from /\ renderer' = to

\* A pass begins; it loads a texture only if a frame is enqueued.
onDrawFrame ==
  /\ renderRequested
  /\ renderRequested' = FALSE
  /\ \/ frameEnqueued /\ RenderStep("idle", "lock")
     \/ ~frameEnqueued /\ RenderStep("idle", "idle")
  /\ UNCHANGED <<poolVars, uiVars, worker, curFrame, mArglist, sendVideo,
                 frameLock, frameEnqueued, texture, stale, fresh>>

\* Mutant: the texture is loaded without the frame lock.
RendererBargesIn ==
  /\ RenderStep("lock", "load")
  /\ UNCHANGED <<poolVars, uiVars, worker, curFrame, mArglist, sendVideo,
                 frameLock, frameEnqueued, renderRequested, texture, stale, fresh>>

RendererLocks ==
  /\ frameLock = "free"
  /\ RenderStep("lock", "load")
  /\ frameLock' = "renderer"
  /\ UNCHANGED <<poolVars, uiVars, worker, curFrame, mArglist, sendVideo,
                 frameEnqueued, renderRequested, texture, stale, fresh>>

\* The first pass makes a blank texture instead of loading the frame ...
initializeTexture ==
  /\ RenderStep("load", "clear")
  /\ texture = "none" /\ texture' = "blank"
  /\ frameLock' = "free"
  /\ UNCHANGED <<poolVars, uiVars, worker, curFrame, mArglist, sendVideo,
                 frameEnqueued, renderRequested, stale, fresh>>

\* ... later ones load the frame, and the lock is given back ...
LoadTexture ==
  /\ RenderStep("load", "clear")
  /\ texture # "none" /\ texture' = "frame" /\ stale' = FALSE
  /\ frameLock' = "free"
  /\ UNCHANGED <<poolVars, uiVars, worker, curFrame, mArglist, sendVideo,
                 frameEnqueued, renderRequested, fresh>>

\* ... and only then is the flag cleared.
ClearEnqueued ==
  /\ RenderStep("clear", "idle")
  /\ frameEnqueued' = FALSE
  /\ UNCHANGED <<poolVars, uiVars, worker, curFrame, mArglist, sendVideo,
                 frameLock, renderRequested, texture, stale, fresh>>

-----------------------------------------------------------------------------

UI == onPreviewFrame \/ AcceptFrame \/ IgnoreFrame \/ UISetArg \/ UIInvoke
        \/ StartVideo

Worker == WorkerStarts \/ WorkerWakes \/ WorkerLocks \/ Convert \/ WorkerSetArg
            \/ WorkerInvoke \/ WorkerUnlocks \/ WorkerWaits

Renderer == onDrawFrame \/ RendererLocks \/ initializeTexture \/ LoadTexture
              \/ ClearEnqueued

Next == FillBuffer \/ UI \/ Worker \/ Renderer

\* The camera and the three threads are scheduled for as long as they can run.
Fairness ==
  WF_vars(FillBuffer) /\ WF_vars(UI) /\ WF_vars(Worker) /\ WF_vars(Renderer)

Spec == Init /\ [][Next]_vars /\ Fairness

-----------------------------------------------------------------------------
(* Correctness                                                             *)

TypeOK ==
  /\ pool \in Seq(Buffers) /\ queue \in Seq(Buffers)
  /\ ui \in {"idle", "nextFrame", "setArg", "invoke", "video"}
  /\ data \in Buffers \union {0}
  /\ worker \in {"starting", "waiting", "notified", "lock", "convert", "setArg",
                 "invoke", "unlock", "render"}
  /\ curFrame \in Buffers \union {0}
  /\ mArglist \in Buffers
  /\ frameLock \in {"free", "worker", "renderer"}
  /\ renderer \in {"idle", "lock", "load", "clear"}
  /\ texture \in {"none", "blank", "frame"}
  /\ sendVideo \in BOOLEAN /\ fresh \in BOOLEAN /\ stale \in BOOLEAN
  /\ frameEnqueued \in BOOLEAN /\ renderRequested \in BOOLEAN

UIHolds     == ui \in {"nextFrame", "setArg", "invoke"}
WorkerHolds == worker \in {"notified", "lock", "convert", "setArg", "invoke"}

\* The preview does not dry up: the camera gets as many buffers back as it
\* fills, though two threads give them back through one array.
NoBufferShort ==
  NUMBER_OF_BUFFERS = Len(pool) + Len(queue)
                        + (IF UIHolds THEN 1 ELSE 0)
                        + (IF WorkerHolds THEN 1 ELSE 0)

\* Conversion and texture upload, which share the frame array, exclude one
\* another.
FrameExclusive ==
  /\ worker \in {"convert", "setArg", "invoke", "unlock"} => frameLock = "worker"
  /\ renderer = "load" => frameLock = "renderer"

\* The worker converts each frame it accepted, once, before it takes another:
\* the notification is neither lost nor doubled.
ConvertedOnce == [][(AcceptFrame => ~fresh) /\ (Convert => fresh)]_vars

\* No thread waits on another for ever: frames go on being converted.
PreviewFlows == []<><<Convert>>_vars

\* "We are done with this buffer, so add it back to the pool": what goes back
\* to the pool is no buffer that is still queued, held or in the pool.
DoneWithBuffer ==
  LET held == (IF UIHolds THEN <<data>> ELSE << >>)
                \o (IF WorkerHolds THEN <<curFrame>> ELSE << >>)
      all  == pool \o queue \o held
  IN \A i, j \in 1..Len(all) : all[i] = all[j] => i = j

\* "load new preview frame as a texture, if needed": between render passes a
\* frame that is not yet the texture is still marked as needing to be loaded, once
\* frames are loaded at all (the first pass takes its frame for loaded with the
\* blank texture it makes).
LoadedIfNeeded ==
  renderer = "idle" /\ stale /\ texture = "frame" => frameEnqueued

=============================================================================
