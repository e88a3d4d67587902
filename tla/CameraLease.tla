----------------------------- MODULE CameraLease -----------------------------
(***************************************************************************)
(* What CameraHolder promises its caller, from the outside: the camera is  *)
(* closed, open (leased to the activity) or held (kept warm with no user). *)
(* A held camera is either leased again or, eventually, closed.            *)
(***************************************************************************)

VARIABLE lease

LeaseStates == {"closed", "open", "held"}

Init == lease = "closed"

\* open() succeeds, from a closed camera or from one that is still held.
Grant == lease \in {"closed", "held"} /\ lease' = "open"

\* release() hands the camera back: held if keep() was called recently enough,
\* closed at once otherwise.
Return == lease = "open" /\ lease' \in {"held", "closed"}

\* A held camera nobody asked for is closed.
Expire == lease = "held" /\ lease' = "closed"

\* The process dies and takes the camera handle with it.
Die == lease # "closed" /\ lease' = "closed"

Next == Grant \/ Return \/ Expire \/ Die

Spec == Init /\ [][Next]_lease /\ WF_lease(Expire)

==============================================================================
