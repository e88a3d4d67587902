----------------------------- MODULE BlobDetect -----------------------------
(***************************************************************************)
(* The colour search of framebuffet.c: detectTargetBlob(), getBestBlock()  *)
(* and getBlockAvg(), and the calibration by getAvgColor().                *)
(*                                                                         *)
(* A picture is its chroma plane, Rows x Cols pixels <<cb, cr>>.  It is    *)
(* cut into blocks of Width x Height pixels, and what is left over at its  *)
(* right and lower edge still counts into blockTmp: the array is flat, so  *)
(* a pixel below the last block counts into the next column of blocks, and *)
(* one to the right of it lands past the array.                            *)
(***************************************************************************)
EXTENDS Integers, FiniteSetsExt, Functions

CONSTANTS
  blocks,         \* blocks in a row and in a column, 32 in the code
  Rows, Cols,     \* chroma_height and chroma_width, 240 and 400
  Pictures,       \* the pictures
  U, V,           \* the target's colour before anybody calibrates
  Tolerances,     \* values of tolarance
  MaxCalls,       \* bound: pictures searched or calibrated with
  MaxPast         \* bound: how far past the array memory may look like a match

Width  == Cols \div blocks  \* blockWidth
Height == Rows \div blocks  \* blockHeight
Pixels == (0..Rows - 1) \X (0..Cols - 1)

\* A picture has at least one pixel in each block, and the rows that are left
\* over, which count into the next column from its top, end above the middle: in
\* the code they are those of 3 blocks, and 16 blocks are above the middle one.
BlobAssumption ==
  /\ blocks \in Nat \ {0} /\ Rows \in Nat /\ Cols \in Nat
  /\ Rows >= blocks /\ Cols >= blocks
  /\ (Rows + Height - 1) \div Height - blocks <= blocks \div 2
  /\ Pictures # {} /\ Pictures \subseteq [Pixels -> (0..255) \X (0..255)]
  /\ <<U, V>> \in ((0..255) \X (0..255)) \ {<<0, 0>>}
  /\ Tolerances \subseteq Nat /\ MaxPast \in Nat /\ MaxCalls \in Nat

VARIABLES
  calls,
  picture, tolarance,  \* the arguments of the last call
  blockTmp,            \* the errors of the blocks, as a flat array
  best,                \* bestX and bestY
  avgColor,
  result,              \* what the call returned
  blob,                \* left, right, up and down of the blob found
  target,              \* target_cb and target_cr, from the console's settings
  kind,                \* what was called last: "none", "search", "average"
  calibrated, shown    \* the colour of getAvgColor and its picture

vars == <<calls, picture, tolarance, blockTmp, best, avgColor, result, blob,
          target, kind, calibrated, shown>>

Flat == 0..blocks * blocks - 1
Blocks == (0..blocks - 1) \X (0..blocks - 1)
Index(x, y) == x * blocks + y
Diff(a, b) == IF a > b THEN a - b ELSE b - a
Plane(pic, k) == [p \in Pixels |-> pic[p][k]]
Errors(pic) ==
  [p \in Pixels |-> Diff(target[1], pic[p][1]) + Diff(target[2], pic[p][2])]
CountsInto(n) == {p \in Pixels : Index(p[2] \div Width, p[1] \div Height) = n}
InBlock(x, y) == {p \in Pixels : p[2] \div Width = x /\ p[1] \div Height = y}

\* getBlockAvg()
getBlockAvg(pic, x, y) ==
  <<SumFunctionOnSet(Plane(pic, 1), InBlock(x, y)) \div (Width * Height),
    SumFunctionOnSet(Plane(pic, 2), InBlock(x, y)) \div (Width * Height)>>

\* Mutant: the sums of the last picture are not cleared.
StaleErrors(pic, old) ==
  [n \in Flat |-> old[n] + SumFunctionOnSet(Errors(pic), CountsInto(n))]

\* getBestBlock(): the sums, cleared first.
SumErrors(pic, old) ==
  [n \in Flat |-> SumFunctionOnSet(Errors(pic), CountsInto(n))]

\* The first block, column by column, that is better than all before it, and
\* better than a block that is off by 255 everywhere.
BestIndex(sums) ==
  LET ns == {n \in Flat : sums[n] < Width * Height * 255
                          /\ \A k \in Flat : sums[n] < sums[k]
                                             \/ (sums[n] = sums[k] /\ n <= k)}
  IN IF ns = {} THEN 0 ELSE CHOOSE n \in ns : TRUE

\* How many blocks match in a row, from the best one on: the first offset
\* that leaves the range or does not match.
Steps(match(_), limit) ==
  Min({k \in 0..limit + 1 : k = limit + 1 \/ ~match(k)})

Left(sums, n, x, max) ==
  Steps(LAMBDA k : sums[n - k * blocks] < max, x)
Right(sums, n, x, max) ==
  Steps(LAMBDA k : sums[n + k * blocks] < max, blocks - 1 - x)

Up(sums, n, y, max) == Steps(LAMBDA k : sums[n - k] < max, y)

\* The rows below: the loop has no end but a block that does not match, goes
\* on in the next column, and past the array meets whatever is there.
Down(sums, n, max) ==
  LET k == Steps(LAMBDA d : sums[n + d] < max, blocks * blocks - 1 - n)
  IN IF n + k < blocks * blocks THEN {k} ELSE k..k + MaxPast

Found(score, max) == score < max

Init ==
  /\ calls = 0 /\ picture = (CHOOSE pic \in Pictures : TRUE) /\ tolarance = 0
  /\ blockTmp = [n \in Flat |-> 0] /\ best = <<0, 0>> /\ avgColor = <<0, 0>>
  /\ result = -1 /\ blob = << >> /\ kind = "none"
  /\ target = <<U, V>> /\ calibrated = <<0, 0>> /\ shown = picture

detectTargetBlob(pic, tol) ==
  \E sums \in {SumErrors(pic, blockTmp)} :
    LET n     == BestIndex(sums)
        x     == n \div blocks
        y     == n % blocks
        max   == Width * Height * tol
        score == IF sums[n] < Width * Height * 255 THEN sums[n]
                                                   ELSE Width * Height * 255
    IN /\ picture' = pic /\ tolarance' = tol
       /\ blockTmp' = sums /\ best' = <<x, y>>
       /\ IF Found(score, max)
          THEN /\ result' = score /\ avgColor' = getBlockAvg(pic, x, y)
               /\ \E d \in Down(sums, n, max) :
                    blob' = [left  |-> Left(sums, n, x, max),
                             right |-> Right(sums, n, x, max),
                             up    |-> Up(sums, n, y, max), down |-> d]
          ELSE result' = -1 /\ UNCHANGED <<avgColor, blob>>
       /\ kind' = "search" /\ UNCHANGED <<target, calibrated, shown>>

\* getAvgColor(): whatever the percentage of the view it is asked for.
getAvgColor(pic) ==
  /\ picture' = pic /\ shown' = pic /\ kind' = "average"
  /\ calibrated' = getBlockAvg(pic, blocks \div 2, blocks \div 2)
  /\ result' = -1
  /\ UNCHANGED <<tolarance, blockTmp, best, avgColor, blob, target>>

\* The operator takes the colour that was reported over into the settings.
TakeColour ==
  /\ kind = "average" /\ target # calibrated /\ target' = calibrated
  /\ UNCHANGED <<calls, picture, tolarance, blockTmp, best, avgColor, result,
                 blob, kind, calibrated, shown>>

Call ==
  /\ calls < MaxCalls /\ calls' = calls + 1
  /\ \E pic \in Pictures : \/ \E tol \in Tolerances : detectTargetBlob(pic, tol)
                           \/ getAvgColor(pic)

Next == Call \/ TakeColour

Spec == Init /\ [][Next]_vars

-----------------------------------------------------------------------------
(* Properties.                                                             *)

TrueError(x, y) == SumFunctionOnSet(Errors(picture), InBlock(x, y))
Matches(x, y) == blockTmp[Index(x, y)] < Width * Height * tolarance

\* Types; a match is never worse than the tolerance (getBestBlock).
TypeOK ==
  /\ picture \in Pictures /\ tolarance \in Tolerances \cup {0}
  /\ blockTmp \in [Flat -> Nat] /\ best \in Blocks
  /\ result \in -1..Width * Height * tolarance
  /\ result = -1 \/ result < Width * Height * tolarance
  /\ {avgColor, calibrated, target} \subseteq Nat \X Nat
  /\ shown \in Pictures /\ kind \in {"none", "search", "average"}

\* A target that is reported is in the picture: the block itself, without
\* what spills into its sum, and the colour that is reported are within the
\* tolerance (getBestBlock, getBlockAvg).  A tolerance above the score that the
\* search begins with, 255 for each pixel, finds a target in every picture.
NoFalseTarget ==
  result >= 0 /\ kind = "search" /\ tolarance <= 255 =>
    /\ TrueError(best[1], best[2]) < Width * Height * tolarance
    /\ Diff(target[1], avgColor[1]) + Diff(target[2], avgColor[2]) <= tolarance + 1

\* A target is found wherever it is in the picture, last picture or not,
\* except where the leftover rows of the column before spill into its sum.
Spilled(x, y) == x > 0 /\ y < (Rows + Height - 1) \div Height - blocks
NoMissedTarget ==
  result = -1 /\ kind = "search" =>
    \A b \in Blocks : Spilled(b[1], b[2])
      \/ TrueError(b[1], b[2]) >= Width * Height * tolarance
      \/ TrueError(b[1], b[2]) >= Width * Height * 255

\* The box holds the row of matching blocks around the best one and at most
\* one block more, to the left (the loops of detectTargetBlob).
BoxHoldsRow ==
  result >= 0 =>
    LET inBox == best[1] - blob.left..best[1] + blob.right - 1
    IN /\ \A x \in inBox : x = best[1] - blob.left \/ Matches(x, best[2])
       /\ \A x \in {best[1] - blob.left, best[1] + blob.right} :
            x \in 0..blocks - 1 => ~Matches(x, best[2])

\* Calibration and search agree: a picture whose centre has one colour, once
\* that colour was taken over, is found to hold the target (getAvgColor,
\* detectTargetBlob).
CalibratedIsFound ==
  LET centre == InBlock(blocks \div 2, blocks \div 2)
  IN kind = "search" /\ target = calibrated /\ picture = shown
       /\ tolarance > 0 /\ (\A p, q \in centre : picture[p] = picture[q])
       => result >= 0

=============================================================================
