# A walking robot, its phone and its console: TLA+ models

The repository holds the software of a remote-controlled robot. A PC console
(`src/Processing/RoboCommand`) sends joystick states over TCP to an Android
phone on the robot (`src/JAVA/Netcat`); the phone passes them over Bluetooth to
an Arduino (`src/Arduino/robot`) that moves the servos, looks for a coloured
target in its camera picture, lets the turret follow it when auto-aim is on, and
sends video back by UDP. Some smaller programs stand beside these: a servo
offset tool, a forklift, two Arduino libraries, an Android application that
drives servos through the audio output (`src/JAVA/ServoBot`), and the BASIC
program of an earlier robot. The repository has no tests and two lines of
readme; its claims are in its comments.

```
 console  --TCP: ControllerState-->  phone  --Bluetooth: frames-->  Arduino
 DataThread                 RobotStateHandler  BTCommThread         robot.pde
     ^  <--TCP: RobotState, TargetBlob--  ^  <-----status lines------  servos
     |                                    | onTargetBlobFound
     <--UDP: JPEG-- framebuffet.c <-- CameraPreviewHandler <-- CameraHolder
```

Every module here is translated from the source. `PROJECT.json` maps each
definition to the lines it stands for.

## Inventory

| Component | State | Operations | Interacts with | What is hard | Correct when |
|---|---|---|---|---|---|
| `CameraHolder.java`, camera part of `Receiver.java` | device, user count, keep time, delayed messages | open, keep, release, delayed release | UI thread, its handler thread | stale messages, process death | never freed in use or too early, never left on |
| `CameraPreviewHandler.java`, `OpenGLCamRenderer.java` | buffer pool, worker's frame, argument array, frame flag | onPreviewFrame, nextFrame, run, addCallbackBuffer, onDrawFrame | camera, UI thread, worker, GL thread | monitor, two locks, two unlocked shared fields | no buffer lost or given back early; the newest frame is drawn |
| `RobotStateHandler.java` | newest ControllerState, TargetBlob, connection, auto-aim, timestamps, RobotState | listener, onTargetBlobFound, run, onBtDataRecive, startListening | Kryonet thread, camera worker, Bluetooth thread, UI thread | no locks at all, fields read several times a pass | newest command forwarded; one toggle per state, one aim per blob |
| `BTCommThread.java` | streams, read buffer, message queue | connect, write, read, disconnect | RobotStateHandler, robot | blocking connect, loss of the link inside a line | commands in order, whole status lines |
| `ControllerState.java`, `TargetBlob.java`, parser in `robot.pde` | line, receive buffer, pending command | toBytes, msgReady, readJoystick | phone, serial line | lost and damaged bytes, buffer overrun | only states that were sent, and the framing found again |
| control part of `robot.pde` | pose, times of the movement, gait, speeds, turret, lights | loop, handleJoystick, movement, moveNow, toggles | serial line, clock | blocking turns, clock granularity, 16/32-bit arithmetic | movements take their time, legs stay on their way, the handler returns |
| console `DataThread.pde`, `dacontroller.pde` | newest RobotState and TargetBlob, shared ControllerState | run, listener, getState, speech, getTargetBlob | phone | speech callback and control loop share an object | every text sent once, every blob drawn once |
| console `RoboCommand.pde` | packet buffer and position | videoPacketHandler, UDP listener | phone | long packets, losses | a picture is one frame, and pictures keep coming |
| native `framebuffet.c` | socket, colour, block sums, JPEG destination | setupJPEG, sendJPEG, detectTargetBlob, getAvgColor, put_jpeg_grey_memory | worker, JPEG library | set-up tried again, global arrays, a full buffer | targets found, pictures whole |
| JPEG library, as `framebuffet.c` uses it | rows, MCU counters, bit buffer, pools, virtual arrays | compress, encode_mcu_huff, alloc, free_pool, access_virt_sarray | `framebuffet.c`, `malloc()`, temporary file | suspension half way, allocations that fail | what was begun is taken back; nothing overlaps, nothing is left |
| `offsets.pde` | offsets, EEPROM | keys, save, read | EEPROM, `robot.pde` | reset between two writes | what was stored is read back |
| `Forklift.pde` | serial buffer, motors | readSerialInput, performCommand | serial line | batches that end in a command | commands obeyed as sent |
| `MechShield` library | ticks and bounds of servos, registers | setPosition, getPosition, setBounds, analogWrite, sleep | I2C | failed transmissions | record, degrees and chip agree |
| `DallasEPROM` library | scratchpad, pages, lock bytes | readPage, writePage, lockPage, isPageLocked | 1-Wire bus | lost transactions | what a call says is true |
| ServoBot `PulseGenerator.java`, `Movement.java` | pulse widths, channel buffers, changed flag | run, setServo, pause, movements | UI, command and audio threads | double buffer without a lock | the newest setting is played |

What is not modelled, and why, is said below.

## The modules

**CameraHolder** (with **CameraLease**). Variables are the holder's fields, the
due times of its queued messages, whether its thread has taken one and is about
to handle it (`dispatching`), and the activity's `camera`, `mPausing` and
surface. Each synchronized method is one step; `closeCamera()` is two, for the
holder's thread may run between `keep()` and `release()`. The process may die at
any time. `CameraLease` is what the activity sees: closed, open or held, and a
held camera is eventually closed or granted again.

**StateRelay** (with **LatestValue**). The run loop is one step for each use of a
shared field, because nothing keeps the other threads out in between. A
ControllerState is its number; blobs have a number and a timestamp from another
clock, which may or may not equal a state's. `LatestValue` is a mailbox that
delivers the newest value. What the loop uses may be null (`NullMet`), and then it
dies (`NullPointerException`), which the mailbox allows as its death; that this
happens only when a command comes before the Bluetooth thread has its handler is
`DiesOnlyAtFirstPost`. `lastControllerTimeStamp` starts at 0, as no state's number does.

**RobotSerial**. Bytes are sets of bits, so that the checksum is the real
exclusive or. The phone writes frames, the line loses or damages bytes, and the
parser takes windows of payload and checksum. Its central quirk is modelled: a
rejected window leaves the command pending, and the next window is read from
wherever the parser then is. `owed` and `forwarded` are history.

**FramePool**. One step per lock, wait, notification and access to a field that
threads share. The monitor is free exactly in the three places where the worker
has not started, waits, or has been notified and has not run. `mArglist`,
`frameEnqueued` and `frameLock` are the fields of that name. The renderer's first
pass makes a blank texture instead of loading the frame (`initializeTexture`).

**RobotControl**. `handleJoystick()` runs to the first movement it waits for in
one step; the movements it waits for are in `todo` and take a step for their
start, for each `moveNow(); delay(1)`, and for their end; the rest of the handler
is one more step. `loop()` calls `msgReady()` and `moveNow()` in turn. Times are
relative to `millis()`: `elapsed` since the start of the movement and `sameMs`,
whether `moveNow()` has moved in this millisecond. `Tick` may come between any
two steps, so every speed of the processor is included. Leg angles, the stride
offset, damage and the range finders are left out.

**BTLink**. The phone's Bluetooth thread with its looper's queue, the radio link,
and the robot's status lines. `connect()` blocks and drops the message that
started it; a write finds out that the link is lost; reading takes one byte a
step. The read buffer and `blueToothConnected` outlive a connection. A byte is
its line and its place in it, so that a state put together from two lines shows.

**Interpolation**. `movement()` and `moveNow()` of one servo, with the unsigned
quotient, the multiplication by a signed distance and the cut to an int, at
parameterised widths, and a clock that wraps. A movement in which `millis()`
wraps is marked (`wrapped`), for a leg may then overshoot; one that starts from such a
place is too.

**Console**. The control loop is one step for each use of the ControllerState
that the speech callback shares; the listener runs inside `update()`, hence in
the loop's thread; the drawing thread reads the blob and clears it in two steps.
Of the ControllerState only the text is modelled. Its time stamp, which the loop
and `getState()` take from different clocks, is not: two states of the loop are
100 ms apart, which a model without durations cannot tell.

**VideoLink**. Set-up is tried with each frame until it succeeds, and a failed
`connect()` leaves its socket open. The address text may or may not be
terminated, as what follows it in memory is undefined. Datagrams are lost and
overtake each other. The handler's exception on a long datagram leaves the
position where it was (`overrun`).

**ServoAudio**. The threads that call `Movement`, the synchronized setter writing
cell after cell, the flag set after the writing, and the audio thread copying
cells and clearing the flag after the copying. `lost` marks a setting whose flag
the audio thread cleared.

**BlobDetect**. Sums by block in a flat array that is not bounded by the blocks,
the best block, the walks to its four sides (the one downwards runs through the
column's end), the average and the calibration.

**ServoOffsets**, **DallasEPROM**, **MechShield**, **Forklift**. One step per
EEPROM byte, per 1-Wire transaction, per library call, and per byte read. The
chips and the buses are external; the environment may reset the board, unplug
the chip or refuse a transmission at any step. A chip that is unplugged or misses a
part hears nothing of a transaction until the next reset, and what it does not
answer reads as ones; `cut` says that it left in the middle of one. A
MechShield's registers have the thirteen bits of the chip, the highest of which
switches the pin off (`Length`). Forklift's sender sends what and when it likes,
for the repository has none; `overtaken` marks that a batch went on past the end
of a command, and the model stops when a byte would go behind the buffer
(`Overrun`), since what follows is undefined.

**JpegCompress**. `put_jpeg_grey_memory()` with the library's controllers below it:
rows into the group buffer, MCUs out of it, the destination that suspends, and
`jpeg_finish_compress()`, which ends the process when a row is missing.
**JpegHuffman** has the contents that this leaves out: codes derived from a table
of counts, bits, stuffed bytes, and an MCU that is given up. **JpegMemory** has
pools, slop, chunks of rows and what each release frees; **JpegVirtual** the window
over a virtual array and its file, shown to implement **PlainArray**, which is
what the library's comment promises a caller. `Offsets` is the offset in the file
that `do_sarray_io()` adds up chunk by chunk.

**Servos** (`ServoOffsets`, `MechShield`, `Interpolation`), **Memories**
(`DallasEPROM`, `JpegVirtual`, `JpegMemory`), **Natives** (`BlobDetect`) and
**Links** (`VideoLink`, `Forklift`, `ServoAudio`, `Console`, `JpegCompress`) put
parts side by side with their
constants left open and state their properties once, for the model checker and
for the proofs.

**Programs** and **Flows** are instances for the model checker: the first extends
Servos, Memories and Natives and adds the entropy encoder, the last part that is
called and returns, the second extends Links, whose parts are those through which something passes. The
parts share no state with each other, so one is chosen at the start of each
behaviour and the variables of the others stay as they are; the bounds are in the
heads of the two modules and in their cfgs.

The modules `MC...` only give instances. A definition introduced by the comment
`Mutant` is a wrong form of the definition after it; substituted for it, it makes
a run find its property violated. Each property of a passing run has one.

## The runs

| Run | Bounds | Shows |
|---|---|---|
| `camera_holder` | keep time 2, clock to 7 | `InUseIsOpen`, `HeldHasRelease`, `KeptLongEnough`, `ImplementsLease`. The clock has room for three keeps whose times overlap, so that messages of all ages meet. |
| `state_relay` | 3 states, 2 blobs | `DiesOnlyAtFirstPost`, `ToggleOncePerState`, `AimOncePerBlob`, `ImplementsMailbox`. Three states are one tested, one read and one remembered in one pass; two blobs are one replaced by another. |
| `robot_serial` | payload 3, buffer 5, 2 bytes damaged or 5 lost, 1 aim | `NoGhostState`, `InOrder`, `Resynchronises`. A fault may come while the parser recovers from the one before, and five bytes are a whole frame, in a row or not: a turn of the robot loses many frames in a row, and leaves the parser between two bytes of one as this does. |
| `frame_pool` | 3 buffers | `NoBufferShort`, `FrameExclusive`, `ConvertedOnce`, `PreviewFlows`. Three buffers are one converted, one in `onPreviewFrame`, one free or queued. |
| `robot_control` | speeds -2..2 around 2 and 1, seven joystick states, 1 aim | `GaitInPhase`, `NoMovementMissed`, `ResetCompletes`, `HandlerReturns`. Speeds of 0 and below, which holding Up leads to, are included. |
| `frame_pool_done` | 3 buffers | finding: a buffer in use is given to the camera |
| `frame_pool_texture` | 3 buffers | finding: a frame that is never uploaded |
| `robot_control_step` | a walker | finding: a walking step cut short |
| `bt_link` | 2 fields, 4 lines (one of them log text), 2 commands, queue of 2, 2 losses | `ReceptionRight`, `CommandsInOrder`, `LinkFollowsRadio`. Two losses give three connections, the middle one torn at both ends; after the second command it is posted again, and the queue never ends. |
| `programs` | see `Programs.tla` | `OffsetsKept`, `ChipTellsTruth`, `ServosStayRight`, `MovesOn`, `SearchRight`, `ImplementsArray`, `MemoryHolds`, `CodesReadBack`: what single calls leave behind, with resets, lost transactions, failed allocations and full buffers. |
| `flows` | see `Flows.tla` | `OnceAndWhole`, `VideoArrives`, `CommandsArrive`, `ConsoleDelivers`, `CompressionEnds`: what is sent arrives, once and whole, with losses and races. |
| `forklift_batch` | 2 commands of a letter | finding: one of two commands performed twice |

Why the bounds of `programs` and `flows` are enough: two calls of the EPROM library are one
that breaks off and one that meets what it left, and two missed transactions one
in each; the offsets surround a change of the high byte and of the sign; a clock
of eight bits and ints of five wrap within a few movements; pictures of
3x5 pixels have blocks of 2x2 and a row and a column left over, with one pixel
that differs from all others, or columns in two colours; a window
of half the array has to move, and four allocations fill a pool and ask for a
second; a destination of one byte to more than the picture suspends at each MCU
and at none. Two cells of a channel buffer are one before and one after the copy
that the setter overtakes; three texts and two blobs are one lost, one replaced
and one delivered. Three forklift commands, one of them longer than the buffer of
five, fill a batch with two and a half, end one in the middle of a command, and
overrun the buffer in both ways; the bounds of the shield's servos reach to the
end of the chip's cycle, so that the pulse of the twelfth pin does not fit.

`CHECK_DEADLOCK FALSE` stands where the system really may stop: no console
sends, no user touches the phone and the modelled clock is at its bound, no more
calls are made, or the application has died.

### What the findings are

* `addCallbackBuffer` passes the buffer through an array that two threads share
  without a lock. The UI thread reaches it only when it drops a frame between the
  worker's notification and its waking up, which is why it is rare. `NoBufferShort`
  shows, and a theorem proves, that the count of buffers survives even so.
* `onDrawFrame` clears its flag after unlocking.
* The forklift performs the first of two commands in a batch twice and loses the
  second. `OnceAndWhole` says what remains true while no batch goes past the end
  of a command, and `CommandsArrive` that the number of commands is right.
* `moveNow()` returns false when called twice in a millisecond, and `loop()` takes
  that for standing still. `NoMovementMissed` says what remains true of turns: one
  may be skipped as a whole, but none stops half way.

### What holds only under a condition

`NoGhostState` and `Resynchronises` are stated for sticks at rest: a stick byte may
have the bits of a `C` or be an `A`. `NoGhostState` is stated, moreover, for one
fault, since the exclusive or does not see two changes that cancel out, and for
one aim correction whose bytes stand out (`AimsStandOut`). The bytes of a
correction are those of `(int) (ratioAz * 64)` and `(int) (ratioElv * 32)`
(`TargetBlob.java:56`). After a fault a window may slide over the correction and
the headers around it, and then only their exclusive or gives it away. That
fails to happen for a byte pair like (2, 0), which is the difference of `A` and
`C`, and for the same correction twice in a row. For each part of the condition
TLC finds `NoGhostState` without it violated. The condition is part of the
formulas; the constants of the run meet it.

`SearchRight` says that a search that reports a target saw one (`NoFalseTarget`)
for tolerances up to 255: the score to beat is 255 for each pixel of a block, so
that with a tolerance above it every picture without a better block matches. Of the
box it says only that it holds its row: downwards it may run past the array.

`CrcProtects` (in `ChipTellsTruth`) lets a page be torn where the chip left while it
was being read: the checksum is that of the command and comes before the page.

`MovesOn` exempts a movement in which `millis()` wraps, every 49.7
days. `PulseIsTicks` (in `ServosStayRight`) is about a transmission that arrived,
and `CommandsObeyed` and `StaysInBuffer` (in `OnceAndWhole`) about batches that do
not go past the end of a command.

`TextSpoken` (in `ConsoleDelivers`) lets a text be lost that was stored after a
state was sent and before its text was cleared, and no other.

### Departures of the code from its comments that no run is about

Read while modelling. The models have the code's behaviour (or leave out the
value concerned), and no run is aimed at the comment.

* `CameraPreviewHandler.java:555`: `nextFrame()` is synchronized on the worker, whose
  `run()` keeps the monitor, so it waits for the end of a conversion instead of
  dropping the frame ("Need so that we can throw frames away", line 459). Frames
  are dropped only in the short time before a notified worker wakes up.
* `RobotStateHandler.java:462`: the aim points of one blob are computed and another
  is posted (line 470) when the camera thread has replaced it in between; its aim
  points are zero and the turret does not move for it ("autoaim the head if
  needed", line 466). `AimOncePerBlob` says that this is the only way.
* `DallasEPROM.cpp:142` and `:225`: `writePage()` and `lockPage()` return 0 for what an
  EEPROM did not hear, and for an EPROM that left before its programming pulse;
  `DallasEPROM.h:145` and `:153` say "0 on success". `ChipTellsTruth` says what
  remains true.
* `MechShield.cpp:64`: a pulse that ends at 4096 or later switches the pin off, and
  `setPosition()` returns 0, which `MechShield.h:152` calls success; it takes bounds
  near 4096 microseconds, which `setBounds()` accepts. `:62`: the pulse is recorded
  before it is transmitted, so that after a failure `getPositionMicro()`, the
  "currently set pulse width" (`MechShield.h:126`), is one that was never set.
* `DallasEPROM.cpp:192` cuts `1 << page` to a byte, so that pages from 8 on are not locked;
  `:232` returns error codes from a function that is said to tell locked from
  not locked.
* `MechShield.cpp:56` takes 181 to 199 for degrees; `:110` returns the opposite of
  what `MechShield.h:134` says of `isRunning()`.
* `framebuffet.c:712`: `getAvgColor()` ignores the percentage that
  `CameraPreviewHandler.java:118` passes.
* `Forklift.pde:92`: `hs`, the stop of the lift, stops all motors.
* `offsets.pde:47` leaves out the key for the ninth of its nine servos.
* `PulseGenerator.java:244`: a generator that has ended is not started again,
  although its static instance is used again; `:282` lets servo number 4 pass;
  `:332` rounds downwards, so that a percentage read and set again drifts.
* `jmemmgr.c`, `free_pool()`: closing the files of virtual arrays is in none of the
  models.

## Fairness

Threads, handlers and the clock are weakly fair: Android, the PC and the Arduino's
loop run on as long as they can, and a handler that has begun goes on. Nothing is
assumed of users, of the operator's texts, or of faults, which are bounded in
number. The console is assumed to send only in `RobotSerial`, where it sends ten
states a second whether or not they change. In `RobotControl` the clock is fair so
that `while (moveNow())` ends.

In `BTLink` the relay keeps posting (the console keeps sending), and the
properties say themselves that the radio stays up or down. In `VideoLink` the
network is strongly fair: of datagrams sent for ever some arrive, though any of
them may be lost. In `Console` the listener is strongly fair, since `update()` is
called in every turn of the loop but is not enabled between two of them. The
compression is one thread that runs on. No run assumes that a lock is granted in
order. Java fields without `volatile` are assumed to become visible in the end;
where a race is modelled, it is the order of reads and writes.

## Proofs

For all values of the constants, from the named assumptions on them. A run shows
each of the properties on a small instance, under the same name.

* `CameraHolder_proofs`: types, `InUseIsOpen`, `HeldHasRelease`,
  `KeptLongEnough`, and that each step is one of `CameraLease` (its fairness is
  left to TLC). The invariant adds who owns the camera (`OwnershipInv`: a camera
  only with a surface or half way through `closeCamera`) and that the keep time
  in force is that of the last `keep()` (`KeepInv`); without the first, user
  count and camera could part on a second `surfaceCreated`.
* `StateRelay_proofs`: types, `DiesOnlyAtFirstPost`, `ToggleOncePerState`,
  `AimOncePerBlob` and that each step is one of `LatestValue`. The invariant says
  that a state that has toggled is at most the one remembered once the loop has
  left its toggle, and that a blob posted is either cleared, replaced by a newer
  one, or about to be cleared. For the nulls `FieldInv` says why a test stays
  true without a lock: the listener replaces a state and never takes it away,
  only the run loop itself clears the blob, and auto-aim is on only after a state
  was posted to a handler.
* `FramePool_proofs`: types, `NoBufferShort`, `FrameExclusive`,
  `ConvertedOnce`. `Places` says that whoever holds a buffer does not hold null;
  `FreshInv` ties an accepted frame to the worker's place.
* `RobotControl_proofs`: types, `GaitInPhase`, `NoMovementMissed`,
  `ResetCompletes`. The gait counter is one step ahead of the walking step begun
  last (`GaitInv`); once a handler has carried a movement on, it is never in a
  millisecond in which `moveNow()` has moved (`TimeInv`), whence no later
  movement is cut short; and a reset is the last movement of its handler
  (`ResetInv`). That the speeds stay within their bounds needs the adjustment to
  be remembered while the handler waits (`HandlerInv`).
* `BTLink_proofs`: types, `CommandsInOrder`, and `ReceptionRight`: only the
  first line of a connection can be torn. All that was written and all that is
  queued rises, and lies in this order below what was posted (`QueueInv`). What can be read is what was
  printed, without gaps, up to the newest byte as long as the link is there
  (`AirInv`), and after its first newline a connection reads lines from their
  beginning (`LineInv`), whatever the buffer kept from the last one.
* `RobotSerial_proofs`: types, `InOrder` and `NoGhostState`. The invariant of the
  first (`CleanInv`) is that the bytes received and on the line are cut into
  frames: there is a sequence of marks, one at the first byte of each frame, each
  with its kind and the state that is owed from there on, and the parser stands at
  the first of them. That of the second (`FramesInv`) has the parser in step
  with such a cut of the stream as it was before its one byte was lost or damaged
  (`Flawed`), until that byte is taken; from then on there is a cut of the stream
  itself, and the parser may be anywhere in it. What is left is which windows the
  checksum passes: one with the flaw in it is rejected (`FlawedIsRejected`), and
  one that slid is aligned again or has the bits of a header, or of the aim
  correction with the headers around it, an odd number of times
  (`WindowInFrames`, `AimPositions`). The numbers of bits are those of subsets of
  the window's positions, one position more at a time (`OneMore`). The payload
  has two bytes or more: in a window of two a correction fits in other ways.
* `Programs_proofs`, memories: `ChipTellsTruth` of the DallasEPROM library: what is
  stored in a place was asked for by a call of that page (`AskedInv`, which
  includes what the scratchpad holds, since a later call may still copy it), and
  while every part of a call was heard, the places behind it hold it
  (`HeardInv`). Of a call that returns 0 and was not heard it says nothing. And `ImplementsArray`: a JPEG virtual array is a plain array, for
  any size of the array, of an access, of the strip and of its chunks. The lemmas
  show that the chunks transferred together are one span of rows
  (`TransfersAre`), by induction over the chunks; the invariant is that a defined
  row outside the window is in the file, and one in a window that is not dirty is
  there as in the buffer (`FileInv`), and that what may be written is in a window
  that is dirty (`WindowInv`). From it follows too that the file is never read
  past what was written, and that an array without a file is never asked for rows
  that are not in memory.
* `Programs_proofs`, memory manager: `MemoryHolds`, for objects and arrays of any
  size and any failures of `malloc()`. The invariant says of the blocks
  (`BlocksInv`) that each but the control block belongs to one pool, whose used
  part, free part and header are the whole of it, and that the total is the sum
  of them; and of the objects (`ObjectsInv`) that each lies in the used part of
  the block of a pool of its lifetime, apart from the others. The first is what
  makes the difference when pools are freed: it shows that the sum over the
  blocks that go is the sum over the pools (`FreedIs`), so that `jpeg_destroy`
  leaves nothing (`DestroyLeavesNothing`). One lemma for each thing an allocation
  may do (`TakeFromKeeps`, `NewPoolKeeps`, `LargeKeeps`, and `ChunksKeep` by
  induction over the chunks of an array).
* `Programs_proofs`, colour search: `SearchRight`, for any picture, size and number
  of blocks. The lemmas say what each part computes: the pixels of a block
  (`InBlockIs`), those that count into its sum, which are more by the leftover
  rows (`CountsIntoIs`), the best block (`BestIs`), that the average colour is off
  by at most one more than the average error (`AverageIs`), and the box
  (`BoxIs`). `CalibratedIsFound` needs that nothing spills into the block in the
  middle (`CentreIs`), which is where the assumption about the leftover comes from.
* Sums, for both of these: the library's folds are recursive functions, and that
  they have values at all is an induction over the size of a finite set
  (`FoldExists`, from `SubsetInduction`). From `SumIs`, which says that a sum is
  that without an element and the element, follow the sums of unions, of smaller
  and of renamed functions.
* `Programs_proofs`, servos: `OffsetsKept`, for any number of servos, any one-to-one
  wiring and all 16-bit offsets; the lemmas are arithmetic: the high byte is the
  quotient in two's complement (`HighByte`), and joining it with any low byte
  replaces only the low byte (`JoinHigh`), whence the reading back and the bound
  of 255 on a torn offset; the invariant ties each byte of the EEPROM to the
  value whose writing was begun (`Stored`), and between the two bytes the offset
  in RAM to it (`Halfway`). `ServosStayRight`: degrees read back to within one
  from any bounds at least 180 ticks apart, by two divisions that round down, and
  what arrived at the chip is the pulse of the record modulo its thirteen bits
  (`ShieldInv`, `Pulses`). `MovesOn`: a leg stays between the ends of its
  movement (`LegOnWay`) and comes nearer to its target by the exact quotient. The invariant of the leg
  (`LegInv`) says that while the clock has not wrapped since the movement began
  the unsigned product is exact, and that the position is on the part of the way
  that is not later than the clock.
* `Flows_proofs`: `OnceAndWhole`, which also holds the types of its five parts.
  - Video (`VideoInv`): between two datagrams the buffer is empty and its position
    at the start, or it was overrun and the position is at its end for good, so
    that a picture shown is of one frame.
  - Forklift (`ForkInv`): while no batch has gone on past the end of a command, each
    byte received is a letter of a command that was sent, the next one after the
    byte before it (`OnTheLine`), what was read of the command at hand is at the
    start of the buffer, and those before it were performed as they were sent.
    Any commands may be on their way, of any length.
  - Servos by sound (`AudioInv`): while nobody is within `setServo()`, each cell
    copied since the copy began is that of the channel buffer unless the flag was
    set again (`CopyInv`), and so are all cells once the flag is clear, unless a
    setting was lost.
  - Console (`TextInv`, `BlobInv`): what was spoken and drawn rises and lies below
    what is still to be spoken and drawn, and that below what is on its way.
  - JPEG (`JpegInv`): while no MCU was refused, the stream is the first parts of
    the picture in order and takes the sum of their sizes (`StreamRight`). A
    refusal leaves its row short for good, so that `next_scanline` never reaches
    the height, and it shows that the whole picture is at least as large as the
    destination; hence what is returned is whole, and `jpeg_finish_compress()`
    ends the process only when the destination is no larger than the picture.
    The sums are over finite sets, by induction over a set of numbers
    (`SumOverSet`, `TotalAdds`, `TotalGrows`).

What the assumptions on constants say beyond their types: the integers of a leg
have an even number of values and the clock's number is a multiple of the
integers' times the scale (2^16, 2^32 and 256 in the code), targets are
positions and a speed times the scale fits the clock (`InterpolationAssumption`);
a servo's bounds are in order and fit the board's ints (`ShieldAssumption`), which
`setBounds()` leaves to its caller; a forklift command has a letter and holds
neither terminator nor NUL (`ForkliftAssumption`); a virtual array's memory
fits at least one access (`VirtualAssumption`, from the minimum heights that
`realize_virt_arrays()` works with); the header of a pool and the largest
allocation are multiples of the alignment, and nothing of size zero is asked for
(`MemoryAssumption`; 16, 1000000000 and 8 in the code); and a picture has a pixel
in each block, its leftover rows are those of at most half a column of blocks, and
the colour looked for is not 0,0 before anybody calibrates (`BlobAssumption`; 240
rows in 32 blocks leave three blocks' over, and 16 are above the middle).

Only model-checked:

* everything with fairness (`ImplementsLease`'s and `ImplementsMailbox`'s
  liveness, `Resynchronises`, `PreviewFlows`, `HandlerReturns`,
  `LinkFollowsRadio`, and the arrivals of `flows`), which is out of the prover's
  reach;
* `CodesReadBack`: the codes that `jpeg_make_c_derived_tbl()` derives are powers of
  two and binary digits that add up over a table, and the decoder of the property
  goes through a string of bits by recursion. Both are induction over data.

## Not modelled

* The sensor managers copy readings into RobotState; `blueduino_init` sends a list
  of set-up commands; `IPCommThread` of the phone is never started.
* `image_processing.c`, `yuv420sp2rgb.c`, the DCT and the quantization: arithmetic
  on pixels and coefficients with no state between calls.
* `bmech.bas`, the earlier robot: its state is servo positions that one loop sets,
  for a compiler whose arithmetic the repository does not tell.
* The JPEG decompressor, its progressive and optimising modes and command-line
  tools, ARToolKit, ARToolKitPlus, controlP5, procontroll and udp: other projects'
  code. The application calls only the compressor, with a grey or YCbCr picture
  and default settings; the two tracking libraries are compiled into it and never
  called. These are most of the repository's C and C++ lines, so that the share
  of all lines that the models stand for is small, and would not honestly
  become large: what the application itself consists of is mostly Java and
  Processing, of which all but the items of this list is modelled.
* A second `init()` of the preview while the worker still converts a frame of the
  first; the fields of RobotState and the message text that three threads
  append to; leg angles, stride offset, damage and range finders of the robot;
  sliders, dialogs and drawing.

## Plan

1. `PreviewRestart`: `CameraHolder` with `FramePool` when the surface comes and
   goes, for the buffer that outlives its preview.
2. `Robot`: `RobotSerial` with `RobotControl`: the buffer that overruns during a
   turn, toggles counted from the console's presses to the lamp.
3. `Teleoperation`: console, relay, Bluetooth thread and robot in one; its abstract
   specification is that the robot acts on a subsequence of the console's states.
4. RobotState and its message text on their way back to the console.

Proofs to come: how soon `RobotSerial` finds the frames again, as a bound on the
bytes read instead of its liveness; and the refinement of step 3.
