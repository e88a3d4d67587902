-------------------------- MODULE StateRelay_proofs --------------------------
(***************************************************************************)
(* The safety of the phone's run loop, for any number of states and blobs. *)
(***************************************************************************)
EXTENDS StateRelay, TLAPS

\* The types of the variables the order argument is about.
NumOK ==
  /\ controllerState \in 0..MaxStates
  /\ last \in 0..MaxStates /\ posted \in 0..MaxStates
  /\ toggledBy \subseteq 1..MaxStates
  /\ pc \in Locations

\* How far the states that toggled auto-aim can reach: not beyond the state
\* remembered, except between the toggle and the step that remembers.
ToggleInv ==
  /\ last <= controllerState
  /\ pc = "toggle" => last < controllerState
  /\ pc # "mark" => \A s \in toggledBy : s <= last
  /\ pc = "mark" => \A s \in toggledBy : s <= controllerState

LEMMA InitToggle == Init => NumOK /\ ToggleInv
  BY BoundAssumption DEF Init, NumOK, ToggleInv, Locations

LEMMA NextToggle == NumOK /\ ToggleInv /\ [Next]_vars => (NumOK /\ ToggleInv)'
<1> SUFFICES ASSUME NumOK, ToggleInv, [Next]_vars PROVE (NumOK /\ ToggleInv)'
  OBVIOUS
<1> USE BoundAssumption DEF NumOK, ToggleInv, Locations, Goto, blobVars,
        consoleVars
<1>1. CASE ReceiveState
  BY <1>1 DEF ReceiveState
<1>2. CASE StoreConnection \/ CreateBTComThread \/ HandlerReady \/ onTargetBlobFound
  BY <1>2 DEF StoreConnection, CreateBTComThread, HandlerReady, onTargetBlobFound
<1>3. CASE CheckState
  BY <1>3 DEF CheckState, NewState
<1>4. CASE ToggleAutoAim
  <2>1. /\ pc = "toggle" /\ pc' = "mark"
        /\ toggledBy' \subseteq toggledBy \union {controllerState}
        /\ UNCHANGED <<controllerState, last, posted>>
    BY <1>4 DEF ToggleAutoAim
  <2>. QED BY <2>1
<1>5. CASE MarkSeen
  BY <1>5 DEF MarkSeen
<1>6. CASE PostState
  BY <1>6 DEF PostState
<1>9. CASE NullPointerException
  <2>1. pc = "mark" => controllerState = 0
    BY <1>9 DEF NullPointerException, NullMet
  <2>2. \A s \in toggledBy : s <= last
    BY <2>1
  <2>3. /\ pc' = "dead"
        /\ UNCHANGED <<controllerState, last, posted, toggledBy>>
    BY <1>9 DEF NullPointerException
  <2>. QED BY <2>2, <2>3
<1>7. CASE CheckBlob \/ StampBlob \/ ComputeAim \/ SendBlob \/ PostAim \/ ClearBlob
  BY <1>7 DEF CheckBlob, StampBlob, ComputeAim, SendBlob, PostAim, ClearBlob
<1>8. CASE UNCHANGED vars
  BY <1>8 DEF vars
<1>. QED
  BY <1>1, <1>2, <1>3, <1>4, <1>5, <1>6, <1>7, <1>8, <1>9 DEF Next, RunLoop

LEMMA Ordered == Spec => [](NumOK /\ ToggleInv)
  BY InitToggle, NextToggle, PTL DEF Spec

\* No controller state toggles auto-aim twice.
THEOREM TogglesOnce == Spec => ToggleOncePerState
<1>1. NumOK /\ ToggleInv /\ [Next]_vars
        => [autoAimOn' # autoAimOn => controllerState \notin toggledBy]_vars
  <2> SUFFICES ASSUME NumOK, ToggleInv, Next, autoAimOn' # autoAimOn
               PROVE  controllerState \notin toggledBy
    OBVIOUS
  <2>1. pc = "toggle"
    BY Zenon DEF Next, RunLoop, ReceiveState, StoreConnection, CreateBTComThread,
       HandlerReady, onTargetBlobFound, CheckState, ToggleAutoAim, MarkSeen,
       PostState, NullPointerException, CheckBlob, StampBlob, ComputeAim, SendBlob,
       PostAim, ClearBlob, Goto
  <2>. QED BY <2>1 DEF NumOK, ToggleInv
<1>. QED BY <1>1, Ordered, PTL DEF Spec, ToggleOncePerState

-----------------------------------------------------------------------------
(* Every post delivers the newest state.                                   *)

\* The safety part of the refinement: seen through the state stored, the state
\* last posted and whether the application lives, the phone is a mailbox for
\* the latest state.
THEOREM RefinesMailbox ==
  Spec => Mailbox!Init /\ [][Mailbox!Next]_<<controllerState, posted, pc # "dead">>
<1> USE DEF Mailbox!Next
<1>1. Init => Mailbox!Init
  BY DEF Init, Mailbox!Init
<1>2. [Next]_vars => [Mailbox!Next]_<<controllerState, posted, pc # "dead">>
  <2> SUFFICES ASSUME [Next]_vars
               PROVE  [Mailbox!Next]_<<controllerState, posted, pc # "dead">>
    OBVIOUS
  <2>1. CASE pc # "dead" /\ ReceiveState
    BY <2>1 DEF ReceiveState, blobVars, Mailbox!Put
  <2>2. CASE PostState
    BY <2>2 DEF PostState, Goto, consoleVars, Mailbox!Deliver
  <2>3. CASE pc # "dead" /\ NullPointerException
    BY <2>3 DEF NullPointerException, consoleVars, Mailbox!Die
  <2>4. CASE StoreConnection \/ CreateBTComThread \/ HandlerReady \/ onTargetBlobFound
    BY <2>4 DEF StoreConnection, CreateBTComThread, HandlerReady,
       onTargetBlobFound, consoleVars
  <2>5. CASE CheckState \/ ToggleAutoAim \/ MarkSeen
    BY <2>5 DEF CheckState, ToggleAutoAim, MarkSeen, Goto, consoleVars
  <2>6. CASE CheckBlob \/ StampBlob \/ ComputeAim \/ SendBlob \/ PostAim \/ ClearBlob
    BY <2>6 DEF CheckBlob, StampBlob, ComputeAim, SendBlob, PostAim, ClearBlob,
       Goto, consoleVars, blobVars
  <2>7. CASE UNCHANGED vars
    BY <2>7 DEF vars
  <2>. QED BY <2>1, <2>2, <2>3, <2>4, <2>5, <2>6, <2>7 DEF Next, RunLoop
<1>. QED BY <1>1, <1>2, PTL DEF Spec

-----------------------------------------------------------------------------
(* No blob steers the robot twice.                                         *)

AimsAscend == \A i, j \in 1..Len(aims) : i < j => aims[i] < aims[j]

BlobOK ==
  /\ found \in 0..MaxBlobs
  /\ targetBlob \in Blobs \union {NoBlob}
  /\ aims \in Seq(1..MaxBlobs)
  /\ pc \in Locations

\* A blob waiting in the field is newer than all that were posted, except
\* between its own posting and the step that clears the field.
AimInv ==
  /\ AimsAscend
  /\ \A i \in 1..Len(aims) : aims[i] <= found
  /\ targetBlob.id <= found
  /\ pc \in {"stamp", "compute", "send", "aim", "clear"} => targetBlob # NoBlob
  /\ targetBlob # NoBlob /\ pc # "clear"
       => \A i \in 1..Len(aims) : aims[i] < targetBlob.id

LEMMA InitAim == Init => BlobOK /\ AimInv
  BY BoundAssumption DEF Init, BlobOK, AimInv, AimsAscend, Locations, NoBlob

\* Posting an aim is the step that needs the invariant.
LEMMA PostAimInv == ASSUME BlobOK, AimInv, PostAim PROVE (BlobOK /\ AimInv)'
<1> USE BoundAssumption DEF BlobOK, AimInv, AimsAscend, Locations, Goto,
        consoleVars, Blobs, NoBlob
<1>1. CASE UNCHANGED aims
  BY <1>1 DEF PostAim
<1>2. CASE aims' = Append(aims, targetBlob.id)
  <2>1. /\ pc = "aim" /\ pc' = "clear"
        /\ found' = found /\ targetBlob' = targetBlob
        /\ targetBlob \in Blobs /\ targetBlob # NoBlob
    BY DEF PostAim
  <2>11. targetBlob.id \in 1..MaxBlobs
    BY <2>1
  <2>2. /\ Len(aims') = Len(aims) + 1 /\ aims' \in Seq(1..MaxBlobs)
        /\ \A i \in 1..Len(aims) : aims'[i] = aims[i]
        /\ aims'[Len(aims) + 1] = targetBlob.id
    BY <1>2, <2>11
  <2>3. \A i \in 1..Len(aims) : aims[i] < targetBlob.id
    BY <2>1
  <2>4. \A i, j \in 1..Len(aims') : i < j => aims'[i] < aims'[j]
    <3> SUFFICES ASSUME NEW i \in 1..Len(aims'), NEW j \in 1..Len(aims'), i < j
                 PROVE  aims'[i] < aims'[j]
      OBVIOUS
    <3>1. i \in 1..Len(aims) /\ aims'[i] = aims[i]
      BY <2>2
    <3>2. CASE j \in 1..Len(aims)
      BY <2>2, <3>1, <3>2
    <3>3. CASE j = Len(aims) + 1
      BY <2>2, <2>3, <3>1, <3>3
    <3>. QED BY <2>2, <3>2, <3>3
  <2>5. \A i \in 1..Len(aims') : aims'[i] <= found'
    <3> SUFFICES ASSUME NEW i \in 1..Len(aims') PROVE aims'[i] <= found'
      OBVIOUS
    <3>1. CASE i \in 1..Len(aims)
      BY <2>1, <2>2, <3>1
    <3>2. CASE i = Len(aims) + 1
      BY <2>1, <2>2, <3>2
    <3>. QED BY <2>2, <3>1, <3>2
  <2>6. BlobOK'
    BY <2>1, <2>2
  <2>7. AimInv'
    BY <2>1, <2>4, <2>5
  <2>. QED BY <2>6, <2>7
<1>. QED BY <1>1, <1>2 DEF PostAim

LEMMA NextAim == BlobOK /\ AimInv /\ [Next]_vars => (BlobOK /\ AimInv)'
<1> SUFFICES ASSUME BlobOK, AimInv, [Next]_vars PROVE (BlobOK /\ AimInv)'
  OBVIOUS
<1>1. CASE PostAim
  BY <1>1, PostAimInv
<1> USE BoundAssumption DEF BlobOK, AimInv, AimsAscend, Locations, Goto,
        blobVars, consoleVars, Blobs, NoBlob
<1>2. CASE onTargetBlobFound
  <2>1. PICK t \in Stamps : targetBlob' = [id |-> found + 1, stamp |-> t]
    BY <1>2 DEF onTargetBlobFound
  <2>2. targetBlob' \in Blobs /\ targetBlob'.id = found + 1
    BY <1>2, <2>1 DEF onTargetBlobFound
  <2>3. /\ found' = found + 1 /\ found' \in 0..MaxBlobs
        /\ aims' = aims /\ pc' = pc
    BY <1>2 DEF onTargetBlobFound
  <2>4. BlobOK'
    BY <2>2, <2>3
  <2>5. AimsAscend' /\ \A i \in 1..Len(aims') : aims'[i] <= found
    BY <2>3
  <2>6. \A i \in 1..Len(aims') : aims'[i] \in Nat
    BY <2>3
  <2>7. AimInv'
    BY <2>2, <2>3, <2>5, <2>6
  <2>. QED BY <2>4, <2>7
<1>3. CASE CheckBlob
  BY <1>3 DEF CheckBlob, NewBlob
<1>4. CASE ClearBlob
  BY <1>4 DEF ClearBlob
<1>5. CASE StampBlob \/ ComputeAim \/ SendBlob
  BY <1>5 DEF StampBlob, ComputeAim, SendBlob
<1>6. CASE ReceiveState \/ StoreConnection \/ CreateBTComThread \/ HandlerReady
  BY <1>6 DEF ReceiveState, StoreConnection, CreateBTComThread, HandlerReady
<1>7. CASE CheckState \/ ToggleAutoAim \/ MarkSeen \/ PostState \/ NullPointerException
  BY <1>7 DEF CheckState, ToggleAutoAim, MarkSeen, PostState, NullPointerException,
     NullMet
<1>8. CASE UNCHANGED vars
  BY <1>8 DEF vars
<1>. QED
  BY <1>1, <1>2, <1>3, <1>4, <1>5, <1>6, <1>7, <1>8 DEF Next, RunLoop

\* The blobs that steer the turret are posted in the order they were found, and
\* each at most once.
LEMMA AimsRise == Spec => []AimsAscend
  BY InitAim, NextAim, PTL DEF Spec, AimInv

-----------------------------------------------------------------------------
(* The nulls that the run loop meets.                                      *)

\* What the run loop has tested stays true between its steps: the listener
\* never takes a state away, only the run loop clears the blob, and whoever
\* turned auto-aim on posted that state to a handler before he came to the blob.
FieldInv ==
  /\ clientConnection \/ storing => controllerState # 0
  /\ pc \notin {"check", "dead"} => controllerState # 0
  /\ pc \in {"stamp", "compute", "send", "aim", "clear"} => targetBlob # NoBlob
  /\ autoAimOn => bTcom = "ready" \/ pc \in {"mark", "post", "dead"}
  /\ posted # 0 => bTcom = "ready"

LEMMA InitTyped == Init => TypeOK /\ FieldInv
<1> SUFFICES ASSUME Init PROVE TypeOK /\ FieldInv
  OBVIOUS
<1>1. clientConnection \in BOOLEAN /\ storing \in BOOLEAN /\ autoAimOn \in BOOLEAN
  BY Zenon DEF Init
<1>2. aims \in Seq(1..MaxBlobs)
  BY DEF Init
<1>3. TypeOK
  BY <1>1, <1>2, BoundAssumption DEF Init, TypeOK, Locations
<1>4. FieldInv
  BY DEF Init, FieldInv
<1>. QED BY <1>3, <1>4

\* An aim that is posted is that of a blob, so the aims stay numbers of blobs.
LEMMA PostAimTyped == ASSUME TypeOK, FieldInv, PostAim PROVE (TypeOK /\ FieldInv)'
<1>1. pc = "aim" /\ pc' = "clear"
  BY DEF PostAim, Goto
<1>2. targetBlob.id \in 1..MaxBlobs
  BY <1>1 DEF TypeOK, FieldInv, Blobs
<1>3. aims' \in Seq(1..MaxBlobs)
  <2>1. aims \in Seq(1..MaxBlobs)
    BY DEF TypeOK
  <2>2. aims' = aims \/ aims' = Append(aims, targetBlob.id)
    BY DEF PostAim
  <2>3. Append(aims, targetBlob.id) \in Seq(1..MaxBlobs)
    BY <1>2, <2>1
  <2>. QED BY <2>1, <2>2, <2>3
<1>. QED
  BY <1>1, <1>3 DEF PostAim, TypeOK, FieldInv, Locations, consoleVars

\* A blob that is found replaces the one in the field, and is not null.
LEMMA BlobFoundTyped ==
  ASSUME TypeOK, FieldInv, onTargetBlobFound PROVE (TypeOK /\ FieldInv)'
<1> USE BoundAssumption
<1>1. found + 1 \in 1..MaxBlobs
  BY DEF onTargetBlobFound, TypeOK
<1>2. targetBlob' \in Blobs
  BY <1>1 DEF onTargetBlobFound, Blobs
<1>3. targetBlob' # NoBlob
  BY <1>2 DEF Blobs, NoBlob
<1>. QED
  BY <1>1, <1>2, <1>3 DEF onTargetBlobFound, TypeOK, FieldInv, consoleVars

LEMMA NextTyped == TypeOK /\ FieldInv /\ [Next]_vars => (TypeOK /\ FieldInv)'
<1> SUFFICES ASSUME TypeOK, FieldInv, [Next]_vars PROVE (TypeOK /\ FieldInv)'
  OBVIOUS
<1>1. CASE PostAim
  BY <1>1, PostAimTyped
<1>2. CASE onTargetBlobFound
  BY <1>2, BlobFoundTyped
<1> USE BoundAssumption DEF TypeOK, FieldInv, Locations, Goto, blobVars,
        consoleVars
<1>3. CASE ReceiveState
  BY <1>3 DEF ReceiveState
<1>4. CASE StoreConnection
  BY <1>4 DEF StoreConnection
<1>5. CASE CreateBTComThread
  BY <1>5 DEF CreateBTComThread
<1>6. CASE HandlerReady
  BY <1>6 DEF HandlerReady
<1>7. CASE CheckState
  BY <1>7 DEF CheckState, NewState
<1>8. CASE ToggleAutoAim
  <2>1. /\ pc = "toggle" /\ pc' = "mark"
        /\ autoAimOn' \in BOOLEAN
        /\ toggledBy' \subseteq toggledBy \union ({controllerState} \intersect r3)
        /\ UNCHANGED <<consoleVars, bTcom, last, posted, blobVars>>
    BY <1>8 DEF ToggleAutoAim
  <2>. QED BY <2>1
<1>9. CASE MarkSeen \/ PostState \/ NullPointerException
  BY <1>9 DEF MarkSeen, PostState, NullPointerException, NullMet
<1>10. CASE CheckBlob
  BY <1>10 DEF CheckBlob, NewBlob
<1>11. CASE StampBlob
  BY <1>11 DEF StampBlob
<1>15. CASE SendBlob
  BY <1>15 DEF SendBlob
<1>14. CASE ComputeAim
  <2>1. computed' \in 0..MaxBlobs
    BY <1>14 DEF ComputeAim, Blobs, NoBlob
  <2>. QED BY <2>1, <1>14 DEF ComputeAim
<1>12. CASE ClearBlob
  BY <1>12 DEF ClearBlob
<1>13. CASE UNCHANGED vars
  BY <1>13 DEF vars
<1>. QED
  BY <1>1, <1>2, <1>3, <1>4, <1>5, <1>6, <1>7, <1>8, <1>9, <1>10, <1>11, <1>12,
     <1>13, <1>14, <1>15 DEF Next, RunLoop

LEMMA Typed == Spec => [](TypeOK /\ FieldInv)
  BY InitTyped, NextTyped, PTL DEF Spec

\* Every variable keeps its type, whatever the threads interleave to.
THEOREM TypeCorrect == Spec => []TypeOK
  BY Typed, PTL

\* The run loop dies of no null but the handler of the Bluetooth thread, and of
\* that only when it posts the first state, for any number of states and blobs.
THEOREM OnlyFirstPostDies == Spec => DiesOnlyAtFirstPost
<1>1. TypeOK /\ FieldInv /\ [Next]_vars
        => [pc' = "dead" => pc = "post" /\ bTcom # "ready" /\ posted = 0]_vars
  <2> SUFFICES ASSUME TypeOK, FieldInv, Next, pc' = "dead"
               PROVE  pc = "post" /\ bTcom # "ready" /\ posted = 0
    OBVIOUS
  <2>1. pc # "dead" /\ NullMet
    BY DEF Next, RunLoop, ReceiveState, StoreConnection, CreateBTComThread,
       HandlerReady, onTargetBlobFound, CheckState, ToggleAutoAim, MarkSeen,
       PostState, CheckBlob, StampBlob, ComputeAim, SendBlob, PostAim, ClearBlob,
       NullPointerException, Goto
  <2>. QED BY <2>1 DEF NullMet, FieldInv
<1>. QED BY <1>1, Typed, PTL DEF Spec, DiesOnlyAtFirstPost

-----------------------------------------------------------------------------
(* A blob that is posted follows the computing of aim points.              *)

\* Between the computing and the posting the blob in the field is the one that
\* was computed, or a newer one, and none of those posted is as new.
ComputeInv ==
  pc \in {"send", "aim"} =>
    /\ computed <= targetBlob.id
    /\ \A k \in 1..Len(aims) : aims[k] < computed

LEMMA InitCompute == Init => ComputeInv
  BY DEF Init, ComputeInv

LEMMA NextCompute ==
  ASSUME BlobOK, AimInv, TypeOK, ComputeInv, [Next]_vars PROVE ComputeInv'
<1> USE DEF ComputeInv, Goto, consoleVars, blobVars
<1>1. CASE ComputeAim
  <2>1. /\ pc = "compute" /\ computed' = targetBlob.id /\ targetBlob' = targetBlob
        /\ aims' = aims /\ targetBlob # NoBlob
    BY <1>1 DEF ComputeAim, AimInv
  <2>2. targetBlob.id \in Nat /\ \A k \in 1..Len(aims) : aims[k] < targetBlob.id
    BY <2>1 DEF AimInv, BlobOK, Blobs
  <2>. QED BY <2>1, <2>2
<1>2. CASE onTargetBlobFound
  <2>1. /\ targetBlob'.id = found + 1 /\ computed' = computed /\ aims' = aims
        /\ pc' = pc
    BY <1>2 DEF onTargetBlobFound
  <2>2. pc \in {"send", "aim"} => computed <= found
    BY BoundAssumption DEF AimInv, TypeOK, Blobs, NoBlob
  <2>. QED BY <2>1, <2>2, BoundAssumption DEF TypeOK
<1>3. CASE SendBlob
  BY <1>3 DEF SendBlob
<1>4. CASE StampBlob \/ PostAim \/ ClearBlob \/ CheckBlob
  BY <1>4 DEF StampBlob, PostAim, ClearBlob, CheckBlob
<1>5. CASE CheckState \/ ToggleAutoAim \/ MarkSeen \/ PostState
  BY <1>5 DEF CheckState, ToggleAutoAim, MarkSeen, PostState
<1>6. CASE ReceiveState \/ StoreConnection \/ CreateBTComThread \/ HandlerReady
  BY <1>6 DEF ReceiveState, StoreConnection, CreateBTComThread, HandlerReady
<1>7. CASE NullPointerException
  BY <1>7 DEF NullPointerException
<1>8. CASE UNCHANGED vars
  BY <1>8 DEF vars
<1>. QED
  BY <1>1, <1>2, <1>3, <1>4, <1>5, <1>6, <1>7, <1>8 DEF Next, RunLoop

\* No blob steers the robot twice nor after a newer one, and each is posted only
\* after aim points were computed in the same pass, for it or for one that it has
\* replaced since.
THEOREM AimsOnce == Spec => AimOncePerBlob
<1>1. Init => ComputeInv
  BY InitCompute
<1>2. BlobOK /\ AimInv /\ TypeOK /\ ComputeInv /\ [Next]_vars => ComputeInv'
  BY NextCompute
<1>3. BlobOK /\ AimInv /\ [Next]_vars => (BlobOK /\ AimInv)'
  BY NextAim
<1>4. TypeOK /\ ComputeInv /\ [Next]_vars
        => [aims' # aims => /\ computed <= aims'[Len(aims')]
                            /\ \A k \in 1..Len(aims) : aims[k] < computed]_vars
  <2> SUFFICES ASSUME TypeOK, ComputeInv, Next, aims' # aims
               PROVE  /\ computed <= aims'[Len(aims')]
                      /\ \A k \in 1..Len(aims) : aims[k] < computed
    OBVIOUS
  <2>1. pc = "aim"
    BY DEF Next, RunLoop, ReceiveState, StoreConnection, CreateBTComThread,
       HandlerReady, onTargetBlobFound, CheckState, ToggleAutoAim, MarkSeen,
       PostState, CheckBlob, StampBlob, ComputeAim, SendBlob, PostAim, ClearBlob,
       NullPointerException, Goto, blobVars
  <2>2. aims' = Append(aims, targetBlob.id)
    BY DEF Next, RunLoop, ReceiveState, StoreConnection, CreateBTComThread,
       HandlerReady, onTargetBlobFound, CheckState, ToggleAutoAim, MarkSeen,
       PostState, CheckBlob, StampBlob, ComputeAim, SendBlob, PostAim, ClearBlob,
       NullPointerException, blobVars
  <2>3. aims'[Len(aims')] = targetBlob.id
    BY <2>2 DEF TypeOK
  <2>. QED BY <2>1, <2>3 DEF ComputeInv
<1>5. Spec => []TypeOK
  BY TypeCorrect
<1>. QED
  BY <1>1, <1>2, <1>3, <1>4, <1>5, InitAim, PTL DEF Spec, AimOncePerBlob

=============================================================================
