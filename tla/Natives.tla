------------------------------ MODULE Natives -------------------------------
(***************************************************************************)
(* The colour search of the native code (BlobDetect), on pictures of a     *)
(* shape that is left open, with its properties.                           *)
(***************************************************************************)

CONSTANTS
  blocks, chroma_height, chroma_width, Pictures, U, V, Tolerances, MaxSearches,
  MaxPast

VARIABLES
  searches, picture, tolarance, blockTmp, best, avgColor, result, blob, target,
  kind, calibrated, shown

Search == INSTANCE BlobDetect
  WITH Rows <- chroma_height, Cols <- chroma_width, MaxCalls <- MaxSearches,
       calls <- searches

searchVars == <<searches, picture, tolarance, blockTmp, best, avgColor, result,
                blob, target, kind, calibrated, shown>>

-----------------------------------------------------------------------------
(* Properties, which the module explains.                                  *)

\* BlobDetect: a target is found if and only if it is in the picture, the box
\* around it holds the row of matching blocks, and what was calibrated with is
\* found (detectTargetBlob, getAvgColor).
SearchRight ==
  /\ Search!TypeOK /\ Search!NoFalseTarget /\ Search!NoMissedTarget
  /\ Search!BoxHoldsRow /\ Search!CalibratedIsFound

=============================================================================
