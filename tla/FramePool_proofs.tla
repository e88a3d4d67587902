-------------------------- MODULE FramePool_proofs --------------------------
(***************************************************************************)
(* Proofs about FramePool, for any number of buffers.  The inductive       *)
(* invariant has four parts that are proved apart: the types of what is    *)
(* counted and where buffers are (Places), the count, the lock, and which  *)
(* of the worker's places a frame that is not yet converted goes with.     *)
(***************************************************************************)
EXTENDS FramePool, TLAPS

UIPlaces == {"idle", "nextFrame", "setArg", "invoke", "video"}
WorkerPlaces == {"starting", "waiting", "notified", "lock", "convert", "setArg",
                 "invoke", "unlock", "render"}

\* Whoever holds a buffer holds one of the camera's, not null.
Places ==
  /\ pool \in Seq(Buffers) /\ queue \in Seq(Buffers)
  /\ ui \in UIPlaces /\ worker \in WorkerPlaces
  /\ data \in Buffers \union {0} /\ curFrame \in Buffers \union {0}
  /\ ui \in {"nextFrame", "setArg", "invoke"} => data \in Buffers
  /\ worker \notin {"starting", "waiting"} => curFrame \in Buffers
  /\ mArglist \in Buffers

LockInv ==
  /\ frameLock \in {"free", "worker", "renderer"}
  /\ renderer \in {"idle", "lock", "load", "clear"}
  /\ worker \in WorkerPlaces
  /\ FrameExclusive

BoolOK ==
  /\ texture \in {"none", "blank", "frame"}
  /\ sendVideo \in BOOLEAN /\ fresh \in BOOLEAN /\ stale \in BOOLEAN
  /\ frameEnqueued \in BOOLEAN /\ renderRequested \in BOOLEAN

FreshInv ==
  /\ fresh \in BOOLEAN
  /\ worker \in {"notified", "lock", "convert"} => fresh = TRUE
  /\ worker \notin {"notified", "lock", "convert"} => fresh = FALSE

-----------------------------------------------------------------------------

LEMMA InitPlaces == Init => Places
<1> SUFFICES ASSUME Init PROVE Places
  OBVIOUS
<1>1. NUMBER_OF_BUFFERS \in Buffers
  BY BuffersAssumption DEF Buffers
<1>2. pool \in Seq(Buffers)
  BY BuffersAssumption DEF Init, Buffers
<1> QED
  BY <1>1, <1>2 DEF Init, Places, UIPlaces, WorkerPlaces

LEMMA NextPlaces == Places /\ [Next]_vars => Places'
<1> SUFFICES ASSUME Places, [Next]_vars PROVE Places'
  OBVIOUS
<1> USE DEF Places, UIPlaces, WorkerPlaces, UIStep, WorkerStep, poolVars, uiVars
<1>1. CASE FillBuffer
  BY <1>1 DEF FillBuffer
<1>2. CASE onPreviewFrame
  BY <1>2 DEF onPreviewFrame
<1>3. CASE AcceptFrame \/ IgnoreFrame \/ UISetArg
  BY <1>3 DEF AcceptFrame, IgnoreFrame, UISetArg
<1>8. CASE UIInvoke
  <2>1. pool' \in Seq(Buffers)
    BY <1>8 DEF UIInvoke
  <2> QED BY <1>8, <2>1 DEF UIInvoke
<1>9. CASE StartVideo
  <2>1. ui' = "idle" /\ UNCHANGED <<pool, queue, data, worker, curFrame, mArglist>>
    BY <1>9 DEF StartVideo
  <2> QED BY <2>1
<1>4. CASE WorkerStarts \/ WorkerWakes \/ WorkerLocks \/ Convert
  BY <1>4 DEF WorkerStarts, WorkerWakes, WorkerLocks, Convert
<1>5. CASE WorkerSetArg \/ WorkerInvoke \/ WorkerUnlocks \/ WorkerWaits
  BY <1>5 DEF WorkerSetArg, WorkerInvoke, WorkerUnlocks, WorkerWaits
<1>6. CASE Renderer
  BY <1>6 DEF Renderer, onDrawFrame, RendererLocks, initializeTexture, LoadTexture,
              ClearEnqueued
<1>7. CASE UNCHANGED vars
  BY <1>7 DEF vars
<1> QED
  BY <1>1, <1>2, <1>3, <1>4, <1>5, <1>6, <1>7, <1>8, <1>9 DEF Next, UI, Worker

-----------------------------------------------------------------------------
(* The count: each step moves one buffer or none.                          *)

LEMMA InitCount == Init => NoBufferShort
<1> SUFFICES ASSUME Init PROVE NoBufferShort
  OBVIOUS
<1>1. Len(pool) = NUMBER_OF_BUFFERS /\ Len(queue) = 0
  BY BuffersAssumption DEF Init, Buffers
<1>2. ~UIHolds /\ ~WorkerHolds
  BY DEF Init, UIHolds, WorkerHolds
<1> QED
  BY <1>1, <1>2, BuffersAssumption DEF NoBufferShort

LEMMA NextCount == Places /\ NoBufferShort /\ [Next]_vars => NoBufferShort'
<1> SUFFICES ASSUME Places, NoBufferShort, [Next]_vars PROVE NoBufferShort'
  OBVIOUS
<1> USE BuffersAssumption
        DEF Places, UIPlaces, WorkerPlaces, NoBufferShort, UIHolds, WorkerHolds,
            UIStep, WorkerStep, poolVars, uiVars
<1>1. CASE FillBuffer
  <2>1. Len(pool') = Len(pool) - 1 /\ Len(queue') = Len(queue) + 1
    BY <1>1 DEF FillBuffer
  <2> QED BY <1>1, <2>1 DEF FillBuffer
<1>2. CASE onPreviewFrame
  <2>1. Len(queue') = Len(queue) - 1 /\ pool' = pool
    BY <1>2 DEF onPreviewFrame
  <2> QED BY <1>2, <2>1 DEF onPreviewFrame
<1>3. CASE AcceptFrame \/ IgnoreFrame \/ UISetArg
  BY <1>3 DEF AcceptFrame, IgnoreFrame, UISetArg
<1>10. CASE StartVideo
  <2>1. ui = "video" /\ ui' = "idle" /\ UNCHANGED <<pool, queue, worker>>
    BY <1>10 DEF StartVideo
  <2> QED BY <2>1
<1>4. CASE UIInvoke
  <2>1. Len(pool') = Len(pool) + 1
    BY <1>4 DEF UIInvoke
  <2> QED BY <1>4, <2>1 DEF UIInvoke
<1>5. CASE WorkerStarts \/ WorkerWakes \/ WorkerLocks \/ Convert
  BY <1>5 DEF WorkerStarts, WorkerWakes, WorkerLocks, Convert
<1>6. CASE WorkerSetArg \/ WorkerUnlocks \/ WorkerWaits
  BY <1>6 DEF WorkerSetArg, WorkerUnlocks, WorkerWaits
<1>7. CASE WorkerInvoke
  <2>1. Len(pool') = Len(pool) + 1
    BY <1>7 DEF WorkerInvoke
  <2> QED BY <1>7, <2>1 DEF WorkerInvoke
<1>8. CASE Renderer
  BY <1>8 DEF Renderer, onDrawFrame, RendererLocks, initializeTexture, LoadTexture,
              ClearEnqueued
<1>9. CASE UNCHANGED vars
  BY <1>9 DEF vars
<1> QED
  BY <1>1, <1>2, <1>3, <1>4, <1>5, <1>6, <1>7, <1>8, <1>9, <1>10
  DEF Next, UI, Worker

-----------------------------------------------------------------------------
(* The frame lock and the accepted frame.                                  *)

LEMMA NextLock == LockInv /\ [Next]_vars => LockInv'
<1> SUFFICES ASSUME LockInv, [Next]_vars PROVE LockInv'
  OBVIOUS
<1> USE DEF LockInv, FrameExclusive, WorkerPlaces, WorkerStep, RenderStep, renderVars
<1>1. CASE FillBuffer
  BY <1>1 DEF FillBuffer
<1>2. CASE UI
  BY <1>2 DEF UI, onPreviewFrame, AcceptFrame, IgnoreFrame, UISetArg, UIInvoke,
              StartVideo
<1>3. CASE WorkerStarts \/ WorkerWakes \/ WorkerLocks \/ Convert
  BY <1>3 DEF WorkerStarts, WorkerWakes, WorkerLocks, Convert
<1>4. CASE WorkerSetArg \/ WorkerInvoke \/ WorkerUnlocks \/ WorkerWaits
  BY <1>4 DEF WorkerSetArg, WorkerInvoke, WorkerUnlocks, WorkerWaits
<1>5. CASE Renderer
  BY <1>5 DEF Renderer, onDrawFrame, RendererLocks, initializeTexture, LoadTexture,
              ClearEnqueued
<1>6. CASE UNCHANGED vars
  BY <1>6 DEF vars
<1> QED
  BY <1>1, <1>2, <1>3, <1>4, <1>5, <1>6 DEF Next, Worker

LEMMA NextFresh == Places /\ FreshInv /\ [Next]_vars => FreshInv'
<1> SUFFICES ASSUME Places, FreshInv, [Next]_vars PROVE FreshInv'
  OBVIOUS
<1> USE DEF FreshInv, Places, WorkerPlaces, WorkerStep
<1>1. CASE FillBuffer \/ Renderer
  BY <1>1 DEF FillBuffer, Renderer, onDrawFrame, RendererLocks, initializeTexture,
              LoadTexture, ClearEnqueued
<1>2. CASE UI
  BY <1>2 DEF UI, onPreviewFrame, AcceptFrame, IgnoreFrame, UISetArg, UIInvoke,
              StartVideo, MonitorFree
<1>3. CASE WorkerStarts \/ WorkerWakes \/ WorkerLocks \/ Convert
  BY <1>3 DEF WorkerStarts, WorkerWakes, WorkerLocks, Convert
<1>4. CASE WorkerSetArg \/ WorkerInvoke \/ WorkerUnlocks \/ WorkerWaits
  BY <1>4 DEF WorkerSetArg, WorkerInvoke, WorkerUnlocks, WorkerWaits
<1>5. CASE UNCHANGED vars
  BY <1>5 DEF vars
<1> QED
  BY <1>1, <1>2, <1>3, <1>4, <1>5 DEF Next, Worker

LEMMA NextBoolOK == BoolOK /\ [Next]_vars => BoolOK'
<1> SUFFICES ASSUME BoolOK, [Next]_vars PROVE BoolOK'
  OBVIOUS
<1> USE DEF BoolOK, renderVars
<1>1. CASE FillBuffer
  BY <1>1 DEF FillBuffer
<1>2. CASE UI
  BY <1>2 DEF UI, onPreviewFrame, AcceptFrame, IgnoreFrame, UISetArg, UIInvoke,
              StartVideo
<1>3. CASE WorkerStarts \/ WorkerWakes \/ WorkerLocks \/ Convert
  BY <1>3 DEF WorkerStarts, WorkerWakes, WorkerLocks, Convert
<1>4. CASE WorkerSetArg \/ WorkerInvoke \/ WorkerUnlocks \/ WorkerWaits
  BY <1>4 DEF WorkerSetArg, WorkerInvoke, WorkerUnlocks, WorkerWaits
<1>5. CASE Renderer
  BY <1>5 DEF Renderer, onDrawFrame, RendererLocks, initializeTexture, LoadTexture,
              ClearEnqueued
<1>6. CASE UNCHANGED vars
  BY <1>6 DEF vars
<1> QED
  BY <1>1, <1>2, <1>3, <1>4, <1>5, <1>6 DEF Next, Worker

-----------------------------------------------------------------------------

IInv == Places /\ NoBufferShort /\ LockInv /\ FreshInv /\ BoolOK

LEMMA Inductive == Spec => []IInv
<1>1. Init => IInv
  BY InitPlaces, InitCount
  DEF Init, IInv, LockInv, FrameExclusive, FreshInv, BoolOK, WorkerPlaces
<1>2. IInv /\ [Next]_vars => IInv'
  BY NextPlaces, NextCount, NextLock, NextFresh, NextBoolOK DEF IInv
<1> QED
  BY <1>1, <1>2, PTL DEF Spec

\* Every variable keeps its type: a thread that gives a buffer back, or finds
\* one in the argument array, never finds null there.
THEOREM TypeCorrect == Spec => []TypeOK
<1>1. IInv => TypeOK
  BY DEF IInv, Places, LockInv, BoolOK, TypeOK, UIPlaces, WorkerPlaces
<1> QED
  BY <1>1, Inductive, PTL

\* The race on the argument array costs the camera no buffer: with any number of
\* them, the pool gets as many back as it gave.
THEOREM PoolKeepsItsSize == Spec => []NoBufferShort
<1>1. IInv => NoBufferShort
  BY DEF IInv
<1> QED
  BY <1>1, Inductive, PTL

\* Converting a frame and uploading it as a texture never overlap.
THEOREM ConversionExcludesUpload == Spec => []FrameExclusive
<1>1. IInv => FrameExclusive
  BY DEF IInv, LockInv
<1> QED
  BY <1>1, Inductive, PTL

\* Each frame the worker accepts is converted once before it accepts another.
THEOREM EachFrameOnce == Spec => ConvertedOnce
<1>1. IInv => (AcceptFrame => ~fresh) /\ (Convert => fresh)
  BY DEF IInv, FreshInv, AcceptFrame, Convert, WorkerStep
<1> QED
  BY <1>1, Inductive, PTL DEF ConvertedOnce

=============================================================================
