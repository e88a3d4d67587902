------------------------- MODULE CameraHolder_proofs -------------------------
(***************************************************************************)
(* The camera holder's safety properties, for every keep time and clock    *)
(* bound, from one inductive invariant.                                    *)
(***************************************************************************)
EXTENDS CameraHolder, TLAPS

\* The activity has a camera only while its surface exists or closeCamera() is
\* half way.
OwnershipInv == (camera => surface \/ closing) /\ (closing => camera /\ ~surface)

\* A camera about to be released, or held, has the keep time of the last keep().
KeepInv ==
  closing \/ (device /\ ~camera) => keepBefore = keptAt + KeepTime

NumOK ==
  /\ now \in Nat /\ keepBefore \in Nat /\ keptAt \in Nat
  /\ users \in {0, 1}
  /\ messages \subseteq Nat

BoolOK ==
  /\ device \in BOOLEAN /\ dispatching \in BOOLEAN
  /\ camera \in BOOLEAN /\ pausing \in BOOLEAN
  /\ surface \in BOOLEAN /\ closing \in BOOLEAN

IInv == NumOK /\ InUseIsOpen /\ HeldHasRelease /\ OwnershipInv /\ KeepInv

LEMMA InitIInv == Init => IInv
  BY TimeAssumption DEF Init, IInv, NumOK, InUseIsOpen, HeldHasRelease,
     OwnershipInv, KeepInv

\* The steps that open, free or hand back the camera, one conjunct at a time.
LEMMA HandleMessageIInv == ASSUME IInv, handleMessage PROVE IInv'
<1> USE TimeAssumption DEF IInv, NumOK, InUseIsOpen, HeldHasRelease,
        OwnershipInv, KeepInv, holderVars, receiverVars, handleMessage, releaseCamera
<1>1. NumOK'
  OBVIOUS
<1>2. InUseIsOpen'
  OBVIOUS
<1>3. HeldHasRelease'
  OBVIOUS
<1>4. OwnershipInv'
  OBVIOUS
<1>5. KeepInv'
  OBVIOUS
<1>. QED BY <1>1, <1>2, <1>3, <1>4, <1>5

LEMMA SurfaceCreatedIInv == ASSUME IInv, surfaceCreated PROVE IInv'
<1> USE DEF IInv, NumOK, InUseIsOpen, HeldHasRelease, OwnershipInv, KeepInv,
        holderVars
<1>1. CASE pausing /\ UNCHANGED <<holderVars, camera>>
  BY <1>1 DEF surfaceCreated
<1>2. CASE ~camera /\ open /\ camera' = TRUE
  <2>1. /\ device' = TRUE /\ users' = 1 /\ messages' = {} /\ keepBefore' = 0
        /\ camera' = TRUE /\ surface' = TRUE /\ closing = FALSE
        /\ UNCHANGED <<now, dispatching, closing, keptAt>>
    BY <1>2 DEF surfaceCreated, openCamera, open
  <2>2. NumOK'
    BY <2>1
  <2>. QED BY <2>1, <2>2
<1>. QED BY <1>1, <1>2 DEF surfaceCreated, openCamera

LEMMA CloseCameraIInv == ASSUME IInv, closeCamera PROVE IInv'
<1> USE DEF IInv, NumOK, InUseIsOpen, HeldHasRelease, OwnershipInv, KeepInv
<1>1. users = 1 /\ device /\ ~surface /\ keepBefore = keptAt + KeepTime
  BY DEF closeCamera
<1>2. /\ users' = 0 /\ camera' = FALSE /\ closing' = FALSE
      /\ UNCHANGED <<now, keepBefore, dispatching, surface, keptAt>>
  BY <1>1 DEF closeCamera, release
<1>3. releaseCamera(0)
  BY <1>1 DEF closeCamera, release
<1>4. messages' \subseteq messages \union {keepBefore}
  BY <1>3 DEF releaseCamera
<1>5. device' => messages' # {}
  BY <1>1, <1>3 DEF releaseCamera
<1>6. NumOK'
  BY <1>2, <1>4
<1>7. InUseIsOpen' /\ HeldHasRelease' /\ OwnershipInv' /\ KeepInv'
  BY <1>1, <1>2, <1>5
<1>. QED BY <1>6, <1>7

LEMMA NextIInv == IInv /\ [Next]_vars => IInv'
<1> SUFFICES ASSUME IInv, [Next]_vars PROVE IInv'
  OBVIOUS
<1>2. CASE handleMessage
  BY <1>2, HandleMessageIInv
<1>3. CASE surfaceCreated
  BY <1>3, SurfaceCreatedIInv
<1>5. CASE closeCamera
  BY <1>5, CloseCameraIInv
<1> USE TimeAssumption DEF IInv, NumOK, InUseIsOpen, HeldHasRelease,
        OwnershipInv, KeepInv, holderVars, receiverVars
<1>1. CASE TakeMessage
  BY <1>1 DEF TakeMessage
<1>4. CASE surfaceDestroyed
  BY <1>4 DEF surfaceDestroyed, keep
<1>6. CASE onStop
  BY <1>6 DEF onStop
<1>7. CASE onResume
  BY <1>7 DEF onResume
<1>8. CASE ProcessDies
  BY <1>8 DEF ProcessDies
<1>9. CASE Tick
  BY <1>9 DEF Tick
<1>10. CASE UNCHANGED vars
  BY <1>10 DEF vars
<1>. QED
  BY <1>1, <1>2, <1>3, <1>4, <1>5, <1>6, <1>7, <1>8, <1>9, <1>10 DEF Next

LEMMA NextBoolOK == BoolOK /\ [Next]_vars => BoolOK'
<1> SUFFICES ASSUME BoolOK, [Next]_vars PROVE BoolOK'
  OBVIOUS
<1> USE DEF BoolOK
<1>1. CASE TakeMessage
  BY <1>1, Zenon DEF TakeMessage, receiverVars
<1>2. CASE handleMessage
  BY <1>2, Zenon DEF handleMessage, releaseCamera, receiverVars
<1>3. CASE surfaceCreated
  BY <1>3, Zenon DEF surfaceCreated, openCamera, open, holderVars
<1>4. CASE surfaceDestroyed
  BY <1>4, Zenon DEF surfaceDestroyed, keep
<1>5. CASE closeCamera
  BY <1>5, Zenon DEF closeCamera, release, releaseCamera
<1>6. CASE onStop \/ onResume
  BY <1>6, Zenon DEF onStop, onResume, holderVars
<1>7. CASE ProcessDies
  BY <1>7, Zenon DEF ProcessDies
<1>8. CASE Tick
  BY <1>8, Zenon DEF Tick, holderVars, receiverVars
<1>9. CASE UNCHANGED vars
  BY <1>9, Zenon DEF vars
<1>. QED
  BY <1>1, <1>2, <1>3, <1>4, <1>5, <1>6, <1>7, <1>8, <1>9, Zenon DEF Next

LEMMA Inductive == Spec => [](IInv /\ BoolOK)
<1>1. Init => BoolOK
  BY DEF Init, BoolOK
<1>. QED BY <1>1, InitIInv, NextIInv, NextBoolOK, PTL DEF Spec

\* Every variable of the holder and of its activity keeps its type.
THEOREM TypeCorrect == Spec => []TypeOK
<1>1. IInv /\ BoolOK => TypeOK
  BY Zenon DEF IInv, NumOK, BoolOK, TypeOK
<1>. QED BY <1>1, Inductive, PTL

\* The camera is never freed under the activity that has it open.
THEOREM NeverFreedInUse == Spec => []InUseIsOpen
  BY Inductive, PTL DEF IInv

\* A held camera always has a release under way.
THEOREM HeldIsReleasable == Spec => []HeldHasRelease
  BY Inductive, PTL DEF IInv

\* The keep time is honoured by every step but the death of the process.
THEOREM KeepHonoured == Spec => KeptLongEnough
<1> USE DEF IInv, NumOK, InUseIsOpen, KeepInv, OwnershipInv
<1>1. ASSUME IInv, handleMessage, device, ~device'
      PROVE  now >= keptAt + KeepTime
  <2>1. users = 0 /\ now >= keepBefore
    BY <1>1 DEF handleMessage, releaseCamera
  <2>2. keepBefore = keptAt + KeepTime
    BY <1>1, <2>1
  <2>. QED BY <2>1, <2>2
<1>2. ASSUME IInv, closeCamera, device, ~device'
      PROVE  now >= keptAt + KeepTime
  BY <1>2 DEF closeCamera, release, releaseCamera
<1>3. device /\ ~device' =>
        ~(TakeMessage \/ surfaceCreated \/ surfaceDestroyed \/ onStop
            \/ onResume \/ Tick)
  BY DEF TakeMessage, surfaceCreated, openCamera, surfaceDestroyed, onStop, onResume,
         Tick, open, holderVars
<1>4. IInv /\ [Next]_vars
        => [device /\ ~device' => now >= keptAt + KeepTime \/ ProcessDies]_vars
  BY <1>1, <1>2, <1>3, Zenon DEF Next
<1>. QED BY <1>4, Inductive, PTL DEF Spec, KeptLongEnough

\* The safety part of the refinement: each step of the holder is a step of the
\* lease it promises, or leaves the lease as it is.
THEOREM RefinesLease == Spec => Lease!Init /\ [][Lease!Next]_(
                          IF users > 0 THEN "open" ELSE IF device THEN "held" ELSE "closed")
<1> DEFINE L == IF users > 0 THEN "open" ELSE IF device THEN "held" ELSE "closed"
<1>1. Init => Lease!Init
  BY DEF Init, Lease!Init
<1>2. IInv /\ [Next]_vars => [Lease!Next]_L
  <2> SUFFICES ASSUME IInv, [Next]_vars PROVE [Lease!Next]_L
    OBVIOUS
  <2> USE DEF IInv, NumOK, InUseIsOpen, OwnershipInv, Lease!Next
  <2>1. CASE handleMessage
    BY <2>1 DEF handleMessage, releaseCamera, Lease!Expire
  <2>2. CASE surfaceCreated
    BY <2>2 DEF surfaceCreated, openCamera, open, holderVars, Lease!Grant
  <2>3. CASE closeCamera
    BY <2>3 DEF closeCamera, release, releaseCamera, Lease!Return
  <2>4. CASE ProcessDies
    BY <2>4 DEF ProcessDies, Lease!Die
  <2>5. CASE TakeMessage \/ surfaceDestroyed \/ onStop \/ onResume \/ Tick
    BY <2>5 DEF TakeMessage, surfaceDestroyed, onStop, onResume, Tick, holderVars
  <2>6. CASE UNCHANGED vars
    BY <2>6 DEF vars
  <2>. QED BY <2>1, <2>2, <2>3, <2>4, <2>5, <2>6 DEF Next
<1>. QED BY <1>1, <1>2, Inductive, PTL DEF Spec

=============================================================================
