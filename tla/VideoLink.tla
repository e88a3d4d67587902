----------------------------- MODULE VideoLink -----------------------------
(***************************************************************************)
(* Video from the phone to the console: the set-up that the preview        *)
(* callback tries with each frame (CameraPreviewHandler.onPreviewFrame,    *)
(* setupJPEG and MakeNetworkConnection of framebuffet.c), the worker's     *)
(* sendJPEG, datagrams that are lost or overtake each other, and the       *)
(* console's videoPacketHandler with its buffer and position.              *)
(*                                                                         *)
(* Sizes are in units; a datagram of at most Capacity units fits the       *)
(* console's buffer, one of more than MaxDatagram is refused by send().    *)
(***************************************************************************)
EXTENDS Integers, Sequences

CONSTANTS
  Sizes,        \* sizes of a datagram, the JPEG and its terminator
  Capacity,     \* the length of packetBuffer, 64000 in the code
  MaxDatagram,  \* the most that UDP carries, 65507
  FdLimit,      \* sockets that the process may have open
  MaxFrames     \* bound: frames; after it the last one is repeated

VideoAssumption ==
  /\ Sizes \subseteq Nat \ {0} /\ Capacity \in Nat /\ MaxDatagram \in Nat
  /\ FdLimit \in Nat \ {0} /\ MaxFrames \in Nat \ {0}

VARIABLES
  clientIp,       \* RobotStateHandler knows the address of a console
  terminated,     \* the byte after the address text happens to be a zero
  reachable,      \* connect() finds a route
  sendVideo,
  SocketFD,       \* "zero", "bad" (-1), "closed", "unconnected", "connected"
  open,           \* sockets that are open
  failed,         \* the last socket() found the limit reached (history)
  frame,          \* the number of the last frame sent
  pinned,         \* arrays of sendJPEG that were never released
  net,            \* the datagrams on their way
  packetBuffer,   \* the console: the frames whose bytes are in the buffer,
  packetBuffPos,  \*   where the next byte goes,
  android,        \*   the frames whose bytes are in the picture shown,
  overrun         \*   and whether a datagram ran over the buffer (history)

phone   == <<sendVideo, SocketFD, open, failed>>
world   == <<clientIp, terminated, reachable>>
console == <<packetBuffer, packetBuffPos, android, overrun>>
vars == <<world, phone, frame, pinned, net, console>>

Init ==
  /\ clientIp = FALSE /\ terminated \in BOOLEAN /\ reachable \in BOOLEAN
  /\ sendVideo = FALSE /\ SocketFD = "zero" /\ open = 0 /\ failed = FALSE
  /\ frame = 0 /\ pinned = 0 /\ net = {}
  /\ packetBuffer = << >> /\ packetBuffPos = 0 /\ android = << >>
  /\ overrun = FALSE

ConsoleConnects ==
  /\ ~clientIp /\ clientIp' = TRUE
  /\ UNCHANGED <<terminated, reachable, phone, frame, pinned, net, console>>

RouteChanges ==
  /\ reachable' = ~reachable
  /\ UNCHANGED <<clientIp, terminated, phone, frame, pinned, net, console>>

-----------------------------------------------------------------------------
(* The phone.                                                              *)

\* MakeNetworkConnection(): the socket, the address, the connection.
NoSocket ==
  open = FdLimit /\ SocketFD' = "bad" /\ failed' = TRUE /\ UNCHANGED open

BadAddress ==
  open < FdLimit /\ ~terminated /\ SocketFD' = "closed"
    /\ UNCHANGED <<open, failed>>

NoRoute ==
  open < FdLimit /\ terminated /\ ~reachable /\ SocketFD' = "unconnected"
    /\ open' = open + 1 /\ UNCHANGED failed

Connected ==
  open < FdLimit /\ terminated /\ reachable /\ SocketFD' = "connected"
    /\ open' = open + 1 /\ UNCHANGED failed

\* Mutant: setupJPEG() is called for the first frame only.
SetUpOnce ==
  /\ ~sendVideo /\ clientIp /\ SocketFD = "zero"
  /\ \/ (NoSocket \/ BadAddress \/ NoRoute) /\ UNCHANGED sendVideo
     \/ Connected /\ sendVideo' = TRUE
  /\ UNCHANGED <<world, frame, pinned, net, console>>

\* onPreviewFrame(): until it succeeds, set-up is tried with every frame.
SetUpVideo ==
  /\ ~sendVideo /\ clientIp
  /\ \/ (NoSocket \/ BadAddress \/ NoRoute) /\ UNCHANGED sendVideo
     \/ Connected /\ sendVideo' = TRUE
  /\ UNCHANGED <<world, frame, pinned, net, console>>

\* sendJPEG(), with its early return.
sendJPEG(size) ==
  /\ sendVideo /\ frame' = IF frame < MaxFrames THEN frame + 1 ELSE frame
  /\ IF SocketFD \in {"zero", "bad"}
     THEN pinned' = 1 /\ UNCHANGED net
     ELSE /\ UNCHANGED pinned
          /\ IF SocketFD = "connected" /\ size <= MaxDatagram
             THEN net' = net \cup {[frame |-> frame', size |-> size]}
             ELSE UNCHANGED net
  /\ UNCHANGED <<world, phone, console>>

-----------------------------------------------------------------------------
(* The network and the console.                                            *)

Lose ==
  /\ \E p \in net : net' = net \ {p}
  /\ UNCHANGED <<world, phone, frame, pinned, console>>

\* A datagram that runs over the buffer: the bytes that fit are stored, then
\* an exception is thrown, which the udp library prints.
Overrun(p) ==
  /\ packetBuffPos + p.size > Capacity
  /\ packetBuffPos' = Capacity /\ overrun' = TRUE
  /\ packetBuffer' = IF packetBuffPos < Capacity
                     THEN Append(packetBuffer, p.frame) ELSE packetBuffer
  /\ UNCHANGED android

\* videoPacketHandler()
videoPacketHandler(p) ==
  \/ Overrun(p)
  \/ /\ packetBuffPos + p.size <= Capacity
     /\ android' = Append(packetBuffer, p.frame)
     /\ packetBuffer' = << >> /\ packetBuffPos' = 0 /\ UNCHANGED overrun

Deliver ==
  /\ \E p \in net : net' = net \ {p} /\ videoPacketHandler(p)
  /\ UNCHANGED <<world, phone, frame, pinned>>

SendFrame == \E size \in Sizes : sendJPEG(size)

Next ==
  ConsoleConnects \/ RouteChanges \/ SetUpVideo \/ SendFrame \/ Lose \/ Deliver

Fairness ==
  WF_vars(SetUpVideo) /\ WF_vars(SendFrame) /\ SF_vars(Deliver)

Spec == Init /\ [][Next]_vars /\ Fairness

-----------------------------------------------------------------------------
(* Properties.                                                             *)

\* Types; the limit on sockets is the system's (MakeNetworkConnection).
TypeOK ==
  /\ {clientIp, terminated, reachable, sendVideo, failed, overrun} \subseteq BOOLEAN
  /\ SocketFD \in {"zero", "bad", "closed", "unconnected", "connected"}
  /\ open \in 0..FdLimit /\ frame \in 0..MaxFrames
  /\ net \subseteq [frame : 1..MaxFrames, size : Sizes]
  /\ packetBuffPos \in 0..Capacity

\* Video is sent on a connected socket only, so that sendJPEG never takes its
\* early return, which keeps the frame's array (onPreviewFrame, sendJPEG).
SendsOnSocket == (sendVideo => SocketFD = "connected") /\ pinned = 0

\* A picture shown is made of the bytes of one frame, and between datagrams
\* the position is at the start unless one ran over the buffer
\* (videoPacketHandler).
ShowsOneFrame == Len(android) <= 1 /\ (packetBuffPos = 0 \/ overrun)

\* When the console's address is known and can be parsed and there is a route
\* from some time on, video starts, or the sockets of the tries before have
\* used up the limit (onPreviewFrame).
VideoStarts ==
  <>clientIp /\ terminated /\ <>[]reachable => <>(sendVideo \/ failed)

\* Video that has started reaches the console's screen up to the last frame,
\* through losses, as long as no datagram ran over the buffer.
VideoShown == <>sendVideo /\ []~overrun => <>(android = <<MaxFrames>>)

=============================================================================
