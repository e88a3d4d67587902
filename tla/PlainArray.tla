----------------------------- MODULE PlainArray -----------------------------
(***************************************************************************)
(* What a virtual array of the JPEG memory manager promises its callers:   *)
(* an array of rows, filled from its beginning.  An access grants some     *)
(* rows, which may be read, and written if that was asked for, until the   *)
(* next access.                                                            *)
(***************************************************************************)
EXTENDS Integers

CONSTANTS Rows, MaxAccess, Contents

VARIABLES
  preZero,  \* rows are zero before they are written
  row,      \* the content of each row, 0 if it is not defined yet
  defined,  \* how many rows are defined
  grant     \* the rows that the caller may use, and whether it may write

vars == <<preZero, row, defined, grant>>

Nothing == [first |-> 0, rows |-> 0, writable |-> FALSE]

Init ==
  /\ preZero \in BOOLEAN /\ row = [r \in 0..Rows - 1 |-> 0]
  /\ defined = 0 /\ grant = Nothing

\* Rows may be skipped by nobody who writes, and rows that are not defined
\* may be read only if they are zero.  What a new row holds before it is
\* written is anything, unless it is zero.
Access(first, n, writable) ==
  /\ first + n <= Rows /\ n <= MaxAccess
  /\ IF writable THEN first <= defined ELSE preZero \/ first + n <= defined
  /\ grant' = [first |-> first, rows |-> n, writable |-> writable]
  /\ IF writable /\ first + n > defined
     THEN /\ defined' = first + n
          /\ row' \in [0..Rows - 1 -> Contents]
          /\ \A r \in 0..Rows - 1 :
               (r \notin defined..defined' - 1 => row'[r] = row[r])
                 /\ (preZero /\ r \in defined..defined' - 1 => row'[r] = 0)
     ELSE UNCHANGED <<row, defined>>
  /\ UNCHANGED preZero

Write(r, c) ==
  /\ grant.writable /\ r \in grant.first..grant.first + grant.rows - 1
  /\ row' = [row EXCEPT ![r] = c] /\ UNCHANGED <<preZero, defined, grant>>

Next ==
  \/ \E first, n \in 0..Rows, w \in BOOLEAN : Access(first, n, w)
  \/ \E r \in 0..Rows - 1, c \in Contents : Write(r, c)

Spec == Init /\ [][Next]_vars

=============================================================================
