----------------------------- MODULE LatestValue -----------------------------
(***************************************************************************)
(* What the phone promises for the console's commands: a mailbox for the   *)
(* latest value.  Values may be overwritten before they are delivered, but *)
(* what is delivered is always the newest value there is at that moment,   *)
(* and the last value put is eventually delivered, unless the mailbox dies. *)
(***************************************************************************)
EXTENDS Naturals

VARIABLES
  latest,     \* the newest value put, values being numbered in order; 0: none
  delivered,  \* the last value delivered, 0 before the first
  alive

vars == <<latest, delivered, alive>>

Init == latest = 0 /\ delivered = 0 /\ alive = TRUE

Put == alive /\ latest' = latest + 1 /\ UNCHANGED <<delivered, alive>>

\* Delivering a value a second time shows nothing new and changes nothing.
Deliver == alive /\ delivered' = latest /\ UNCHANGED <<latest, alive>>

Die == alive /\ alive' = FALSE /\ UNCHANGED <<latest, delivered>>

Next == Put \/ Deliver \/ Die

Spec == Init /\ [][Next]_vars /\ WF_vars(Deliver)

==============================================================================
