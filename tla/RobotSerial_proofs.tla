--------------------------- MODULE RobotSerial_proofs ---------------------------
(***************************************************************************)
(* The byte stream to the robot, for any payload length, payloads, aim     *)
(* corrections, noise and buffer size: types, the order in which the       *)
(* states arrive on a clean line, and what a lost or damaged byte cannot   *)
(* make of them.                                                           *)
(***************************************************************************)
EXTENDS RobotSerial, SequenceTheorems, FiniteSetTheorems, WellFoundedInduction, TLAPS

-----------------------------------------------------------------------------
(* Frames.                                                                 *)

LEMMA PayloadBytes ==
  ASSUME NEW p \in [1..PayloadLen -> Byte]
  PROVE  p \in Seq(Byte) /\ Len(p) = PayloadLen
<1>1. [1..PayloadLen -> Byte] \subseteq Seq(Byte)
  BY FrameAssumption, SeqDef
<1>2. p \in Seq(Byte) /\ DOMAIN p = 1..PayloadLen
  BY <1>1
<1>. QED BY <1>2, FrameAssumption, LenProperties

LEMMA SamePayload ==
  ASSUME NEW p \in [1..PayloadLen -> Byte], NEW q \in [1..PayloadLen -> Byte],
         \A i \in 1..PayloadLen : p[i] = q[i]
  PROVE  p = q
BY PayloadBytes, SeqEqual

LEMMA ChecksumByte == \A s : Checksum(s) \in Byte
  BY DEF Checksum, Byte

LEMMA Headers == C \in Byte /\ A \in Byte /\ C # A
<1>1. 1 \in C /\ 1 \notin A
  BY DEF C, A
<1>2. C \subseteq Bits /\ A \subseteq Bits
  BY DEF C, A, Bits
<1>. QED BY <1>1, <1>2 DEF Byte

\* A frame is its header, the payload and the checksum.
LEMMA StateFrameBytes ==
  ASSUME NEW p \in States
  PROVE  /\ StateFrame(p) \in Seq(Byte) /\ Len(StateFrame(p)) = PayloadLen + 2
         /\ StateFrame(p)[1] = C
         /\ \A i \in 1..PayloadLen : StateFrame(p)[i + 1] = p[i]
         /\ StateFrame(p)[PayloadLen + 2] = Checksum(p)
<1>1. p \in Seq(Byte) /\ Len(p) = PayloadLen /\ PayloadLen \in Nat
  BY PayloadBytes, FrameAssumption
<1>2. <<C>> \in Seq(Byte) /\ Len(<<C>>) = 1 /\ <<C>>[1] = C
  BY Headers
<1>3. /\ <<C>> \o p \in Seq(Byte) /\ Len(<<C>> \o p) = PayloadLen + 1
      /\ \A i \in 1..PayloadLen + 1 :
           (<<C>> \o p)[i] = IF i <= 1 THEN <<C>>[i] ELSE p[i - 1]
  BY <1>1, <1>2, ConcatProperties
<1> DEFINE q == <<C>> \o p
           c == Checksum(p)
<1>4. StateFrame(p) = Append(q, c)
  <2>1. StateFrame(p) = q \o <<c>>
    BY DEF StateFrame
  <2>. QED BY <1>3, <2>1, ChecksumByte, AppendIsConcat
<1> HIDE DEF q
<1>5. /\ Append(q, c) \in Seq(Byte) /\ Len(Append(q, c)) = PayloadLen + 2
      /\ \A i \in 1..PayloadLen + 1 : Append(q, c)[i] = q[i]
      /\ Append(q, c)[PayloadLen + 2] = c
  BY <1>1, <1>3, ChecksumByte, AppendProperties DEF q
<1>6. q[1] = C
  BY <1>1, <1>2, <1>3 DEF q
<1>7. ASSUME NEW i \in 1..PayloadLen PROVE q[i + 1] = p[i]
  <2>1. i + 1 \in 1..PayloadLen + 1 /\ ~(i + 1 <= 1) /\ (i + 1) - 1 = i
    BY <1>1
  <2>. QED BY <1>3, <2>1 DEF q
<1>. QED BY <1>1, <1>4, <1>5, <1>6, <1>7

LEMMA AimFrameBytes ==
  ASSUME NEW a \in Aims
  PROVE  /\ AimFrame(a) \in Seq(Byte) /\ Len(AimFrame(a)) = 3
         /\ AimFrame(a)[1] = A /\ AimFrame(a)[2] = a[1] /\ AimFrame(a)[3] = a[2]
<1>1. a \in Seq(Byte) /\ Len(a) = 2
  <2>1. [1..2 -> Byte] \subseteq Seq(Byte)
    BY SeqDef
  <2>2. a \in Seq(Byte) /\ DOMAIN a = 1..2
    BY <2>1, FrameAssumption
  <2>. QED BY <2>2, LenProperties
<1>2. <<A>> \in Seq(Byte) /\ Len(<<A>>) = 1 /\ <<A>>[1] = A
  BY Headers
<1> DEFINE h == <<A>>
<1> HIDE DEF h
<1>3. /\ h \o a \in Seq(Byte) /\ Len(h \o a) = Len(h) + Len(a)
      /\ \A i \in 1..Len(h) + Len(a) :
           (h \o a)[i] = IF i <= Len(h) THEN h[i] ELSE a[i - Len(h)]
  <2>1. h \in Seq(Byte)
    BY <1>2 DEF h
  <2>. QED BY <1>1, <2>1, ConcatProperties
<1>4. Len(h) = 1 /\ h[1] = A /\ AimFrame(a) = h \o a
  BY <1>2 DEF h, AimFrame
<1>. QED BY <1>1, <1>3, <1>4

-----------------------------------------------------------------------------
(* Types.                                                                  *)

LEMMA InitTyped == Init => TypeOK
<1> SUFFICES ASSUME Init PROVE TypeOK
  OBVIOUS
<1>1. {} \in Byte
  BY DEF Byte
<1>2. joystick1 \in [1..PayloadLen -> Byte] /\ prev_joystick1 \in [1..PayloadLen -> Byte]
  BY <1>1 DEF Init, AllZero
<1>3. /\ line \in Seq(Byte) /\ rx \in Seq(Byte) /\ owed \in Seq(States)
      /\ Len(rx) = 0
  BY EmptySeq DEF Init
<1>. QED BY <1>2, <1>3, FrameAssumption, BoundAssumption DEF Init, TypeOK

\* What is left of the receive buffer when its first bytes are taken.
LEMMA RestOfBuffer ==
  ASSUME TypeOK, NEW m \in 0..Len(rx)
  PROVE  /\ SubSeq(rx, m + 1, Len(rx)) \in Seq(Byte)
         /\ Len(SubSeq(rx, m + 1, Len(rx))) = Len(rx) - m
         /\ \A i \in 1..Len(rx) - m : SubSeq(rx, m + 1, Len(rx))[i] = rx[i + m]
<1>1. rx \in Seq(Byte) /\ Len(rx) \in Nat /\ m + 1 \in Int
  BY DEF TypeOK
<1>2. \A i \in m + 1..Len(rx) : rx[i] \in Byte
  BY <1>1, ElementOfSeq
<1>. QED BY <1>1, <1>2, SubSeqProperties

\* A window is a payload.
LEMMA WindowBytes ==
  ASSUME TypeOK, Len(rx) >= PayloadLen
  PROVE  /\ Window \in [1..PayloadLen -> Byte]
         /\ \A i \in 1..PayloadLen : Window[i] = rx[i]
<1>1. rx \in Seq(Byte) /\ Len(rx) \in Nat /\ PayloadLen \in Nat \ {0}
  BY FrameAssumption DEF TypeOK
<1>2. \A i \in 1..PayloadLen : rx[i] \in Byte
  BY <1>1, ElementOfSeq
<1>3. /\ Window \in Seq(Byte) /\ Len(Window) = PayloadLen
      /\ \A i \in 1..PayloadLen : Window[i] = rx[i]
  BY <1>1, <1>2, SubSeqProperties DEF Window
<1>. QED BY <1>3, LenProperties

LEMMA NextTyped == TypeOK /\ [Next]_vars => TypeOK'
<1> SUFFICES ASSUME TypeOK, [Next]_vars PROVE TypeOK'
  OBVIOUS
<1>1. /\ PayloadLen \in Nat \ {0} /\ RxSize \in Nat /\ MaxFaults \in Nat /\ MaxAims \in Nat
      /\ Len(rx) \in Nat
  BY FrameAssumption, BoundAssumption DEF TypeOK
<1>2. ASSUME NEW p \in States, SendState(p) PROVE TypeOK'
  <2>1. line' \in Seq(Byte)
    BY <1>2, StateFrameBytes DEF SendState
  <2>2. owed' \in Seq(States)
    BY <1>2, AppendProperties, EmptySeq DEF SendState, TypeOK
  <2>. QED BY <1>2, <2>1, <2>2 DEF SendState, TypeOK
<1>3. ASSUME NEW a \in Aims, SendAim(a) PROVE TypeOK'
  <2>1. line' \in Seq(Byte)
    BY <1>3, AimFrameBytes DEF SendAim
  <2>. QED BY <1>1, <1>3, <2>1 DEF SendAim, TypeOK
<1>4. CASE Arrive
  <2>1. Head(line) \in Byte /\ line' \in Seq(Byte)
    BY <1>4, HeadTailProperties DEF Arrive, TypeOK
  <2>2. rx' \in Seq(Byte) /\ Len(rx') = Len(rx) + 1
    BY <1>4, <2>1, AppendProperties DEF Arrive, TypeOK
  <2>. QED BY <1>1, <1>4, <2>1, <2>2 DEF Arrive, TypeOK
<1>5. CASE LoseByte
  <2>1. line' \in Seq(Byte) /\ owed' \in Seq(States)
    BY <1>5, HeadTailProperties, EmptySeq DEF LoseByte, Fault, TypeOK
  <2>. QED BY <1>1, <1>5, <2>1 DEF LoseByte, Fault, TypeOK
<1>6. CASE DamageByte
  <2>1. owed' \in Seq(States)
    BY <1>6, EmptySeq DEF DamageByte, Fault
  <2>2. line' \in Seq(Byte)
    <3>1. PICK b \in Noise \ {Head(line)} : line' = [line EXCEPT ![1] = b]
      BY <1>6 DEF DamageByte
    <3>2. b \in Byte /\ 1 \in 1..Len(line) /\ line \in Seq(Byte)
      BY <1>6, FrameAssumption DEF DamageByte, TypeOK
    <3>. QED BY <3>1, <3>2, ExceptSeq
  <2>. QED BY <1>1, <1>6, <2>1, <2>2 DEF DamageByte, Fault, TypeOK
<1>7. CASE ReadCommand
  <2>1. rx' \in Seq(Byte) /\ Len(rx') = Len(rx) - 1
    BY <1>7, HeadTailProperties DEF ReadCommand, TypeOK
  <2>2. currentCommand' \in {"none", "C", "A"}
    BY <1>7 DEF ReadCommand, Command
  <2>. QED BY <1>1, <1>7, <2>1, <2>2 DEF ReadCommand, TypeOK
<1>8. CASE ReadJoystick \/ RejectJoystick
  <2>1. PayloadLen + 1 \in 0..Len(rx) /\ Len(rx) >= PayloadLen
    BY <1>1, <1>8 DEF ReadJoystick, RejectJoystick, JoystickReady
  <2>2. rx' = SubSeq(rx, (PayloadLen + 1) + 1, Len(rx))
    BY <1>1, <1>8 DEF ReadJoystick, RejectJoystick
  <2>3. rx' \in Seq(Byte) /\ Len(rx') = Len(rx) - (PayloadLen + 1)
    BY <2>1, <2>2, RestOfBuffer
  <2>4. Window \in [1..PayloadLen -> Byte]
    BY <2>1, WindowBytes
  <2>5. owed' \in Seq(States)
    BY <1>8, HeadTailProperties DEF ReadJoystick, RejectJoystick, TypeOK
  <2>6. Len(rx') <= RxSize
    BY <1>1, <2>3 DEF TypeOK
  <2>. QED
    BY <1>8, <2>3, <2>4, <2>5, <2>6 DEF ReadJoystick, RejectJoystick, TypeOK
<1>9. CASE ReadAim
  <2>1. 2 \in 0..Len(rx) /\ rx' = SubSeq(rx, 2 + 1, Len(rx))
    BY <1>1, <1>9 DEF ReadAim
  <2>2. rx' \in Seq(Byte) /\ Len(rx') = Len(rx) - 2
    BY <2>1, RestOfBuffer
  <2>. QED BY <1>1, <1>9, <2>2 DEF ReadAim, TypeOK
<1>10. CASE UNCHANGED vars
  BY <1>10 DEF vars, TypeOK
<1>. QED
  BY <1>2, <1>3, <1>4, <1>5, <1>6, <1>7, <1>8, <1>9, <1>10 DEF Next, msgReady

\* Every variable keeps its type; in particular the receive buffer never holds
\* more than it has room for, and every window that is accepted is a payload.
THEOREM TypeCorrect == Spec => []TypeOK
  BY InitTyped, NextTyped, PTL DEF Spec

-----------------------------------------------------------------------------
(* Where the frames of a clean stream begin.                               *)

FrameLen(kind) == IF kind = "C" THEN PayloadLen + 2 ELSE 3
Carries(kind)  == IF kind = "C" THEN 1 ELSE 0

\* A mark stands at the first byte of a frame: its position, the kind of the
\* frame, and which of the states owed is the first that comes with it or after.
Marks == [at : Int, kind : {"C", "A"}, owes : Int]

\* Byte number d of an aim correction.
AimByte(d, byte) ==
  /\ d = 1 => byte = A
  /\ d = 2 => \E a \in Aims : byte = a[1]
  /\ d = 3 => \E a \in Aims : byte = a[2]

\* Byte number d of a marked frame.
FrameByte(mark, d, byte, states) ==
  IF mark.kind = "C" THEN byte = StateFrame(states[mark.owes])[d]
                     ELSE AimByte(d, byte)

\* f marks the n frames that end the stream s, one after the other to its end,
\* and the states in them are the sequence states.
Marked(f, n, s, states) ==
  /\ f \in [1..n + 1 -> Marks]
  /\ f[1].owes = 1
  /\ f[n + 1].owes = Len(states) + 1 /\ f[n + 1].at = Len(s) + 1
  /\ \A j, k \in 1..n + 1 : j < k => f[j].owes + Carries(f[j].kind) <= f[k].owes
  /\ \A k \in 1..n :
       /\ f[k + 1].at = f[k].at + FrameLen(f[k].kind)
       /\ f[k + 1].owes = f[k].owes + Carries(f[k].kind)
       /\ f[k + 1].at <= Len(s) + 1
       /\ \A i \in 1..Len(s) : f[k].at <= i /\ i < f[k + 1].at
            => FrameByte(f[k], i - f[k].at + 1, s[i], states)

\* The parser is at the beginning of a frame, or behind its header.
InStep(f, n) ==
  /\ currentCommand = "none" => f[1].at = 1
  /\ currentCommand # "none" => n # 0 /\ f[1].at = 0 /\ f[1].kind = currentCommand

\* What has arrived and what is on its way.
Stream == rx \o line

\* While nothing was lost or damaged the parser is in step with the frames, and
\* the states that are owed are those in the frames that it has not taken.
CleanInv ==
  faults = 0 => \E n \in Nat : \E f \in [1..n + 1 -> Marks] :
                  Marked(f, n, Stream, owed) /\ InStep(f, n)

\* A frame that carries a state carries one that is owed.
LEMMA OwedStates ==
  ASSUME NEW n \in Nat, NEW s \in Seq(Byte), NEW o \in Seq(States), NEW f,
         Marked(f, n, s, o), NEW k \in 1..n, f[k].kind = "C"
  PROVE  f[k].owes \in 1..Len(o)
<1>1. /\ f[k] \in Marks /\ f[1] \in Marks /\ f[1].owes = 1
      /\ f[k].owes + 1 <= Len(o) + 1 /\ Len(o) \in Nat
  BY DEF Marked, Carries
<1>2. 1 <= f[k].owes
  <2>1. CASE k = 1
    BY <1>1, <2>1
  <2>2. CASE k # 1
    <3>1. f[1].owes + Carries(f[1].kind) <= f[k].owes
      BY <2>2 DEF Marked
    <3>. QED BY <1>1, <3>1 DEF Carries, Marks
  <2>. QED BY <2>1, <2>2
<1>. QED BY <1>1, <1>2 DEF Marks

\* When bytes are taken from its front the marks of a stream move.
LEMMA TakeFront ==
  ASSUME NEW n \in Nat, NEW s \in Seq(Byte), NEW o \in Seq(States), NEW f,
         Marked(f, n, s, o), NEW m \in 0..Len(s), NEW t \in Seq(Byte),
         Len(t) = Len(s) - m, \A i \in 1..Len(t) : t[i] = s[i + m]
  PROVE  Marked([k \in 1..n + 1 |-> [f[k] EXCEPT !.at = f[k].at - m]], n, t, o)
<1> DEFINE g == [k \in 1..n + 1 |-> [f[k] EXCEPT !.at = f[k].at - m]]
<1>1. /\ Len(s) \in Nat /\ Len(t) \in Nat /\ m \in Nat
      /\ f \in [1..n + 1 -> Marks]
  BY DEF Marked
<1>2. ASSUME NEW k \in 1..n + 1
      PROVE  /\ g[k] \in Marks /\ f[k] \in Marks /\ g[k].at = f[k].at - m
             /\ g[k].kind = f[k].kind /\ g[k].owes = f[k].owes
  BY <1>1 DEF Marks
<1>3. g \in [1..n + 1 -> Marks]
  BY <1>2
<1> HIDE DEF g
<1>4. /\ g[1].owes = 1 /\ g[n + 1].owes = Len(o) + 1 /\ g[n + 1].at = Len(t) + 1
      /\ \A j, k \in 1..n + 1 : j < k => g[j].owes + Carries(g[j].kind) <= g[k].owes
  BY <1>1, <1>2 DEF Marked
<1>5. ASSUME NEW k \in 1..n
      PROVE  /\ g[k + 1].at = g[k].at + FrameLen(g[k].kind)
             /\ g[k + 1].owes = g[k].owes + Carries(g[k].kind)
             /\ g[k + 1].at <= Len(t) + 1
             /\ \A i \in 1..Len(t) : g[k].at <= i /\ i < g[k + 1].at
                  => FrameByte(g[k], i - g[k].at + 1, t[i], o)
  <2>1. /\ k \in 1..n + 1 /\ k + 1 \in 1..n + 1
        /\ FrameLen(f[k].kind) \in Int /\ Carries(f[k].kind) \in Int
    BY FrameAssumption DEF FrameLen, Carries
  <2>2. /\ f[k].at \in Int /\ f[k + 1].at \in Int
        /\ g[k].at = f[k].at - m /\ g[k + 1].at = f[k + 1].at - m
        /\ g[k].kind = f[k].kind
        /\ g[k].owes = f[k].owes /\ g[k + 1].owes = f[k + 1].owes
    BY <1>2, <2>1 DEF Marks
  <2>3. /\ f[k + 1].at = f[k].at + FrameLen(f[k].kind)
        /\ f[k + 1].owes = f[k].owes + Carries(f[k].kind)
        /\ f[k + 1].at <= Len(s) + 1
    BY DEF Marked
  <2>4. ASSUME NEW i \in 1..Len(t), g[k].at <= i, i < g[k + 1].at
        PROVE  FrameByte(g[k], i - g[k].at + 1, t[i], o)
    <3>1. i \in Nat /\ i + m \in 1..Len(s) /\ t[i] = s[i + m]
      BY <1>1
    <3>2. /\ f[k].at <= i + m /\ i + m < f[k + 1].at
          /\ (i + m) - f[k].at + 1 = i - g[k].at + 1
      <4>1. \A x \in Int : /\ x - m <= i => x <= i + m
                           /\ i < x - m => i + m < x
                           /\ (i + m) - x + 1 = i - (x - m) + 1
        BY <1>1, <3>1
      <4>. QED BY <2>2, <2>4, <4>1
    <3>3. FrameByte(f[k], (i + m) - f[k].at + 1, s[i + m], o)
      BY <3>1, <3>2 DEF Marked
    <3>. QED BY <2>2, <3>1, <3>2, <3>3 DEF FrameByte
  <2>. QED BY <1>1, <2>1, <2>2, <2>3, <2>4, SMTT(30)
<1>6. Marked(g, n, t, o)
  BY <1>3, <1>4, <1>5 DEF Marked
<1>. QED BY <1>6 DEF g

\* The first frame is left behind, with the state that it carried.
LEMMA TakeFrame ==
  ASSUME NEW n \in Nat \ {0}, NEW s \in Seq(Byte), NEW o \in Seq(States), NEW f,
         Marked(f, n, s, o), NEW u \in Seq(States),
         Len(u) = Len(o) - Carries(f[1].kind),
         \A i \in 1..Len(u) : u[i] = o[i + Carries(f[1].kind)]
  PROVE  Marked([k \in 1..n |-> [f[k + 1] EXCEPT
                                   !.owes = f[k + 1].owes - Carries(f[1].kind)]],
                n - 1, s, u)
<1> DEFINE c == Carries(f[1].kind)
           g == [k \in 1..n |-> [f[k + 1] EXCEPT !.owes = f[k + 1].owes - c]]
<1>1. /\ Len(o) \in Nat /\ Len(u) \in Nat /\ c \in {0, 1} /\ c \in Int
      /\ f \in [1..n + 1 -> Marks] /\ f[1] \in Marks
  BY DEF Marked, Carries
<1> HIDE DEF c
<1>2. ASSUME NEW k \in 1..n
      PROVE  /\ g[k] \in Marks /\ f[k + 1] \in Marks /\ g[k].at = f[k + 1].at
             /\ g[k].kind = f[k + 1].kind /\ g[k].owes = f[k + 1].owes - c
             /\ f[k + 1].owes \in Int
  <2>1. k + 1 \in 1..n + 1
    OBVIOUS
  <2>2. f[k + 1] \in Marks
    BY <1>1, <2>1
  <2>3. f[k + 1].owes \in Int /\ f[k + 1].owes - c \in Int
    BY <1>1, <2>2 DEF Marks
  <2>4. g[k] = [f[k + 1] EXCEPT !.owes = f[k + 1].owes - c]
    OBVIOUS
  <2>. QED BY <2>2, <2>3, <2>4 DEF Marks
<1>3. g \in [1..n -> Marks]
  BY <1>2
<1> HIDE DEF g
<1>4. g[1].owes = 1
  <2>1. 1 \in 1..n
    OBVIOUS
  <2>2. f[1].owes = 1 /\ f[1 + 1].owes = f[1].owes + c
    BY <2>1 DEF Marked, c
  <2>3. g[1].owes = f[1 + 1].owes - c
    BY <1>2, <2>1
  <2>. QED BY <1>1, <2>2, <2>3
<1>5. g[n].owes = Len(u) + 1 /\ g[n].at = Len(s) + 1
  <2>1. n \in 1..n /\ f[n + 1].owes = Len(o) + 1 /\ f[n + 1].at = Len(s) + 1
    BY DEF Marked
  <2>2. g[n].owes = f[n + 1].owes - c /\ g[n].at = f[n + 1].at
    BY <1>2, <2>1
  <2>3. Len(u) = Len(o) - c
    BY DEF c
  <2>. QED BY <1>1, <2>1, <2>2, <2>3
<1>6. ASSUME NEW j \in 1..n, NEW k \in 1..n, j < k
      PROVE  g[j].owes + Carries(g[j].kind) <= g[k].owes
  <2>1. j + 1 \in 1..n + 1 /\ k + 1 \in 1..n + 1 /\ j + 1 < k + 1
    BY <1>6
  <2>2. f[j + 1].owes + Carries(f[j + 1].kind) <= f[k + 1].owes
    BY <2>1 DEF Marked
  <2>3. Carries(f[j + 1].kind) \in Int
    BY DEF Carries
  <2>4. /\ g[j].owes = f[j + 1].owes - c /\ g[j].kind = f[j + 1].kind
        /\ g[k].owes = f[k + 1].owes - c
        /\ f[j + 1].owes \in Int /\ f[k + 1].owes \in Int
    BY <1>2
  <2>. QED BY <1>1, <2>2, <2>3, <2>4, SMTT(30)
<1>7. ASSUME NEW k \in 1..n - 1
      PROVE  /\ g[k + 1].at = g[k].at + FrameLen(g[k].kind)
             /\ g[k + 1].owes = g[k].owes + Carries(g[k].kind)
             /\ g[k + 1].at <= Len(s) + 1
             /\ \A i \in 1..Len(s) : g[k].at <= i /\ i < g[k + 1].at
                  => FrameByte(g[k], i - g[k].at + 1, s[i], u)
  <2>1. k \in 1..n /\ k + 1 \in 1..n
    OBVIOUS
  <2>2. /\ g[k].at = f[k + 1].at /\ g[k + 1].at = f[(k + 1) + 1].at
        /\ g[k].kind = f[k + 1].kind
        /\ g[k].owes = f[k + 1].owes - c /\ g[k + 1].owes = f[(k + 1) + 1].owes - c
        /\ f[k + 1].owes \in Int /\ f[(k + 1) + 1].owes \in Int
    BY <1>2, <2>1
  <2>3. /\ f[(k + 1) + 1].at = f[k + 1].at + FrameLen(f[k + 1].kind)
        /\ f[(k + 1) + 1].owes = f[k + 1].owes + Carries(f[k + 1].kind)
        /\ f[(k + 1) + 1].at <= Len(s) + 1
    BY <2>1 DEF Marked
  <2>4. ASSUME NEW i \in 1..Len(s), g[k].at <= i, i < g[k + 1].at
        PROVE  FrameByte(g[k], i - g[k].at + 1, s[i], u)
    <3>1. FrameByte(f[k + 1], i - f[k + 1].at + 1, s[i], o)
      BY <2>1, <2>2, <2>4 DEF Marked
    <3>2. CASE f[k + 1].kind = "C"
      <4>1. f[k + 1].owes \in 1..Len(o)
        BY <2>1, <3>2, OwedStates
      <4>2. 1 + c <= f[k + 1].owes
        <5>1. 1 \in 1..n + 1 /\ k + 1 \in 1..n + 1 /\ 1 < k + 1
          BY <2>1
        <5>. QED BY <5>1 DEF Marked, c
      <4>3. g[k].owes \in 1..Len(u) /\ g[k].owes + c = f[k + 1].owes
        <5>1. Len(u) = Len(o) - c
          BY DEF c
        <5>2. PICK x \in Int : x = f[k + 1].owes
          BY <2>2
        <5>3. x \in 1..Len(o) /\ 1 + c <= x /\ g[k].owes = x - c
          BY <2>2, <4>1, <4>2, <5>2
        <5>4. x - c \in 1..Len(o) - c /\ (x - c) + c = x
          BY <1>1, <5>3
        <5>. QED BY <5>1, <5>2, <5>3, <5>4
      <4>4. u[g[k].owes] = o[f[k + 1].owes]
        BY <4>3 DEF c
      <4>. QED BY <2>2, <3>1, <3>2, <4>4 DEF FrameByte
    <3>3. CASE f[k + 1].kind # "C"
      BY <2>2, <3>1, <3>3 DEF FrameByte
    <3>. QED BY <3>2, <3>3
  <2>5. Carries(g[k].kind) \in Int
    BY DEF Carries
  <2>. QED BY <1>1, <2>2, <2>3, <2>4, <2>5, SMTT(30)
<1>8. Marked(g, n - 1, s, u)
  <2>1. (n - 1) + 1 = n
    OBVIOUS
  <2>. QED BY <1>3, <1>4, <1>5, <1>6, <1>7, <2>1 DEF Marked
<1>. QED BY <1>8 DEF g, c

\* fr is a frame, and u the states that are owed with it after the states o.
Adds(kind, fr, o, u) ==
  /\ kind \in {"C", "A"} /\ fr \in Seq(Byte) /\ Len(fr) = FrameLen(kind)
  /\ u \in Seq(States) /\ Len(u) = Len(o) + Carries(kind)
  /\ \A i \in 1..Len(o) : u[i] = o[i]
  /\ kind = "C" => fr = StateFrame(u[Len(o) + 1])
  /\ kind = "A" => \E a \in Aims : fr = AimFrame(a)

\* A frame is written behind the others.
LEMMA AddFrame ==
  ASSUME NEW n \in Nat, NEW s \in Seq(Byte), NEW o \in Seq(States), NEW f,
         Marked(f, n, s, o), NEW kind, NEW fr, NEW u, Adds(kind, fr, o, u)
  PROVE  \E g \in [1..(n + 1) + 1 -> Marks] :
           /\ Marked(g, n + 1, s \o fr, u)
           /\ g[1].at = f[1].at /\ \A k \in 1..n + 1 : g[k].at = f[k].at
           /\ g[n + 1].kind = kind /\ \A k \in 1..n : g[k] = f[k]
<1> DEFINE t == s \o fr
           g == [k \in 1..(n + 1) + 1 |->
                   IF k <= n THEN f[k]
                   ELSE IF k = n + 1
                        THEN [at |-> Len(s) + 1, kind |-> kind, owes |-> Len(o) + 1]
                        ELSE [at |-> Len(t) + 1, kind |-> "A", owes |-> Len(u) + 1]]
<1> USE DEF Adds
<1>1. /\ Len(s) \in Nat /\ Len(fr) \in Nat /\ Len(o) \in Nat /\ Len(u) \in Nat
      /\ Carries(kind) \in {0, 1} /\ FrameLen(kind) \in Nat \ {0}
      /\ f \in [1..n + 1 -> Marks]
      /\ f[n + 1].owes = Len(o) + 1 /\ f[n + 1].at = Len(s) + 1
  BY FrameAssumption DEF Marked, Carries, FrameLen
<1>2. /\ t \in Seq(Byte) /\ Len(t) = Len(s) + Len(fr)
      /\ \A i \in 1..Len(t) : t[i] = IF i <= Len(s) THEN s[i] ELSE fr[i - Len(s)]
  <2>1. /\ s \o fr \in Seq(Byte) /\ Len(s \o fr) = Len(s) + Len(fr)
        /\ \A i \in 1..Len(s) + Len(fr) :
             (s \o fr)[i] = IF i <= Len(s) THEN s[i] ELSE fr[i - Len(s)]
    BY ConcatProperties
  <2>. QED BY <2>1, Zenon
<1> HIDE DEF t
<1>3. \A k \in 1..n : g[k] = f[k]
  OBVIOUS
<1>4. g[n + 1] = [at |-> Len(s) + 1, kind |-> kind, owes |-> Len(o) + 1]
  OBVIOUS
<1>5. g[(n + 1) + 1] = [at |-> Len(t) + 1, kind |-> "A", owes |-> Len(u) + 1]
  OBVIOUS
<1>6. g \in [1..(n + 1) + 1 -> Marks]
  <2>1. \A k \in 1..n : f[k] \in Marks
    <3>1. \A k \in 1..n : k \in 1..n + 1
      OBVIOUS
    <3>. QED BY <1>1, <3>1, Zenon
  <2>2. /\ [at |-> Len(s) + 1, kind |-> kind, owes |-> Len(o) + 1] \in Marks
        /\ [at |-> Len(t) + 1, kind |-> "A", owes |-> Len(u) + 1] \in Marks
    BY <1>1, <1>2 DEF Marks
  <2>. QED BY <2>1, <2>2
<1> HIDE DEF g
<1>7. \A k \in 1..n + 1 : /\ g[k].at = f[k].at /\ g[k].owes = f[k].owes
                          /\ f[k].at \in Int /\ f[k].owes \in Int
  <2> SUFFICES ASSUME NEW k \in 1..n + 1
               PROVE  /\ g[k].at = f[k].at /\ g[k].owes = f[k].owes
                      /\ f[k].at \in Int /\ f[k].owes \in Int
    OBVIOUS
  <2>1. f[k].at \in Int /\ f[k].owes \in Int
    BY <1>1 DEF Marks
  <2>2. CASE k \in 1..n
    BY <1>3, <2>1, <2>2
  <2>3. CASE k = n + 1
    BY <1>1, <1>4, <2>1, <2>3
  <2>. QED BY <2>2, <2>3
<1>8. g[1].owes = 1 /\ g[1].at = f[1].at
  <2>1. 1 \in 1..n + 1 /\ f[1].owes = 1
    BY DEF Marked
  <2>. QED BY <1>3, <1>7, <2>1
<1>9. ASSUME NEW j \in 1..(n + 1) + 1, NEW k \in 1..(n + 1) + 1, j < k
      PROVE  g[j].owes + Carries(g[j].kind) <= g[k].owes
  <2>1. CASE k \in 1..n + 1
    <3>1. j \in 1..n /\ j \in 1..n + 1
      BY <1>9, <2>1
    <3>2. f[j].owes + Carries(f[j].kind) <= f[k].owes
      BY <1>9, <2>1, <3>1 DEF Marked
    <3>. QED BY <1>3, <1>7, <2>1, <3>1, <3>2
  <2>2. CASE k = (n + 1) + 1 /\ j \in 1..n
    <3>1. n + 1 \in 1..n + 1 /\ j \in 1..n + 1 /\ j < n + 1
      BY <2>2
    <3>2. f[j].owes + Carries(f[j].kind) <= f[n + 1].owes
      BY <3>1 DEF Marked
    <3>3. g[j] = f[j] /\ g[k].owes = Len(u) + 1 /\ f[j].owes \in Int
      BY <1>3, <1>5, <1>7, <2>2, <3>1
    <3>4. Carries(f[j].kind) \in Int
      BY DEF Carries
    <3>. QED BY <1>1, <3>2, <3>3, <3>4
  <2>3. CASE k = (n + 1) + 1 /\ j = n + 1
    <3>1. g[j].owes = Len(o) + 1 /\ g[j].kind = kind /\ g[k].owes = Len(u) + 1
      BY <1>4, <1>5, <2>3
    <3>. QED BY <1>1, <3>1
  <2>. QED BY <1>9, <2>1, <2>2, <2>3
<1>10. ASSUME NEW k \in 1..n
       PROVE  /\ g[k + 1].at = g[k].at + FrameLen(g[k].kind)
              /\ g[k + 1].owes = g[k].owes + Carries(g[k].kind)
              /\ g[k + 1].at <= Len(t) + 1
              /\ \A i \in 1..Len(t) : g[k].at <= i /\ i < g[k + 1].at
                   => FrameByte(g[k], i - g[k].at + 1, t[i], u)
  <2>1. k + 1 \in 1..n + 1 /\ g[k] = f[k]
    BY <1>3
  <2>2. g[k + 1].at = f[k + 1].at /\ g[k + 1].owes = f[k + 1].owes /\ f[k + 1].at \in Int
    BY <1>7, <2>1
  <2>3. /\ f[k + 1].at = f[k].at + FrameLen(f[k].kind)
        /\ f[k + 1].owes = f[k].owes + Carries(f[k].kind)
        /\ f[k + 1].at <= Len(s) + 1
    BY DEF Marked
  <2>4. ASSUME NEW i \in 1..Len(t), f[k].at <= i, i < f[k + 1].at
        PROVE  FrameByte(f[k], i - f[k].at + 1, t[i], u)
    <3>1. i \in 1..Len(s) /\ t[i] = s[i]
      BY <1>1, <1>2, <2>2, <2>3, <2>4
    <3>2. FrameByte(f[k], i - f[k].at + 1, s[i], o)
      BY <2>4, <3>1 DEF Marked
    <3>3. f[k].kind = "C" => f[k].owes \in 1..Len(o)
      BY OwedStates
    <3>. QED BY <3>1, <3>2, <3>3 DEF FrameByte
  <2>. QED BY <1>1, <1>2, <2>1, <2>2, <2>3, <2>4
<1>11. /\ g[(n + 1) + 1].at = g[n + 1].at + FrameLen(g[n + 1].kind)
       /\ g[(n + 1) + 1].owes = g[n + 1].owes + Carries(g[n + 1].kind)
       /\ g[(n + 1) + 1].at <= Len(t) + 1
  BY <1>1, <1>2, <1>4, <1>5
<1>12. ASSUME NEW i \in 1..Len(t), g[n + 1].at <= i
       PROVE  FrameByte(g[n + 1], i - g[n + 1].at + 1, t[i], u)
  <2>1. /\ g[n + 1].at = Len(s) + 1 /\ g[n + 1].kind = kind
        /\ g[n + 1].owes = Len(o) + 1
    BY <1>4
  <2>2. /\ i - Len(s) \in 1..Len(fr) /\ t[i] = fr[i - Len(s)]
        /\ i - g[n + 1].at + 1 = i - Len(s)
    BY <1>1, <1>2, <1>12, <2>1
  <2>3. kind = "A" => AimByte(i - Len(s), fr[i - Len(s)])
    BY AimFrameBytes DEF AimByte
  <2>. QED BY <2>1, <2>2, <2>3 DEF FrameByte
<1>13. Marked(g, n + 1, t, u)
  <2>1. \A k \in 1..n + 1 :
           /\ g[k + 1].at = g[k].at + FrameLen(g[k].kind)
           /\ g[k + 1].owes = g[k].owes + Carries(g[k].kind)
           /\ g[k + 1].at <= Len(t) + 1
           /\ \A i \in 1..Len(t) : g[k].at <= i /\ i < g[k + 1].at
                => FrameByte(g[k], i - g[k].at + 1, t[i], u)
    <3> SUFFICES ASSUME NEW k \in 1..n + 1
                 PROVE  /\ g[k + 1].at = g[k].at + FrameLen(g[k].kind)
                        /\ g[k + 1].owes = g[k].owes + Carries(g[k].kind)
                        /\ g[k + 1].at <= Len(t) + 1
                        /\ \A i \in 1..Len(t) : g[k].at <= i /\ i < g[k + 1].at
                             => FrameByte(g[k], i - g[k].at + 1, t[i], u)
      OBVIOUS
    <3>1. k \in 1..n \/ k = n + 1
      OBVIOUS
    <3>. QED BY <1>10, <1>11, <1>12, <3>1
  <2>. QED BY <1>5, <1>6, <1>8, <1>9, <2>1 DEF Marked
<1>14. g[n + 1].kind = kind
  BY <1>4
<1>. QED BY <1>3, <1>6, <1>7, <1>8, <1>13, <1>14 DEF t

-----------------------------------------------------------------------------
(* The stream and the steps.                                               *)

LEMMA StreamBytes ==
  ASSUME TypeOK
  PROVE  /\ Stream \in Seq(Byte) /\ Len(Stream) = Len(rx) + Len(line)
         /\ Len(rx) \in Nat /\ Len(line) \in Nat
         /\ \A i \in 1..Len(rx) + Len(line) :
              Stream[i] = IF i <= Len(rx) THEN rx[i] ELSE line[i - Len(rx)]
<1>1. rx \in Seq(Byte) /\ line \in Seq(Byte)
  BY DEF TypeOK
<1>. QED BY <1>1, ConcatProperties DEF Stream

\* A frame is written when the line is empty, so it goes behind all the others.
LEMMA StreamGrows ==
  ASSUME TypeOK, line = << >>, rx' = rx
  PROVE  Stream' = Stream \o line'
<1>1. rx \in Seq(Byte)
  BY DEF TypeOK
<1>2. Stream = rx
  BY <1>1, ConcatEmptySeq DEF Stream
<1>. QED BY <1>2 DEF Stream

\* A byte that arrives stays where it is in the stream.
LEMMA StreamStays == ASSUME TypeOK, TypeOK', Arrive PROVE Stream' = Stream
<1>1. /\ rx \in Seq(Byte) /\ line \in Seq(Byte) /\ line # << >>
      /\ rx' = Append(rx, Head(line)) /\ line' = Tail(line)
  BY DEF Arrive, TypeOK
<1>2. Head(line) \in Byte /\ Head(line) = line[1] /\ Len(line) \in Nat \ {0}
  BY <1>1, HeadTailProperties, EmptySeq
<1>3. /\ Len(rx') = Len(rx) + 1 /\ \A i \in 1..Len(rx) : rx'[i] = rx[i]
      /\ rx'[Len(rx) + 1] = line[1]
  BY <1>1, <1>2, AppendProperties
<1>4. Len(line') = Len(line) - 1 /\ \A i \in 1..Len(line') : line'[i] = line[i + 1]
  BY <1>1, HeadTailProperties
<1>5. /\ Stream \in Seq(Byte) /\ Len(Stream) = Len(rx) + Len(line)
      /\ Len(rx) \in Nat
      /\ \A i \in 1..Len(rx) + Len(line) :
           Stream[i] = IF i <= Len(rx) THEN rx[i] ELSE line[i - Len(rx)]
  BY StreamBytes
<1>6. /\ Stream' \in Seq(Byte) /\ Len(Stream') = Len(rx') + Len(line')
      /\ \A i \in 1..Len(rx') + Len(line') :
           Stream'[i] = IF i <= Len(rx') THEN rx'[i] ELSE line'[i - Len(rx')]
  <2>1. rx' \in Seq(Byte) /\ line' \in Seq(Byte)
    BY DEF TypeOK
  <2>. QED BY <2>1, ConcatProperties DEF Stream
<1>7. Len(Stream') = Len(Stream) /\ Len(Stream) = Len(rx') + Len(line')
  BY <1>2, <1>3, <1>4, <1>5, <1>6
<1>8. ASSUME NEW i \in 1..Len(Stream) PROVE Stream'[i] = Stream[i]
  <2>1. CASE i \in 1..Len(rx)
    <3>1. Stream[i] = rx[i] /\ Stream'[i] = rx'[i]
      BY <1>3, <1>5, <1>6, <1>7, <2>1
    <3>. QED BY <1>3, <2>1, <3>1
  <2>2. CASE i = Len(rx) + 1
    <3>1. Stream[i] = line[i - Len(rx)] /\ Stream'[i] = rx'[i] /\ i - Len(rx) = 1
      BY <1>3, <1>5, <1>6, <1>7, <2>2
    <3>. QED BY <1>3, <2>2, <3>1
  <2>3. CASE i > Len(rx) + 1
    <3>1. Stream[i] = line[i - Len(rx)] /\ Stream'[i] = line'[i - Len(rx')]
      BY <1>3, <1>5, <1>6, <1>7, <2>3
    <3>2. i - Len(rx') \in 1..Len(line') /\ (i - Len(rx')) + 1 = i - Len(rx)
      BY <1>2, <1>3, <1>4, <1>5, <2>3
    <3>. QED BY <1>4, <3>1, <3>2
  <2>. QED BY <1>5, <2>1, <2>2, <2>3
<1>. QED BY <1>5, <1>6, <1>7, <1>8, SeqEqual

\* What the parser takes is the front of the stream.
LEMMA StreamTaken ==
  ASSUME TypeOK, TypeOK', NEW m \in 0..Len(rx),
         rx' = SubSeq(rx, m + 1, Len(rx)), line' = line
  PROVE  /\ m \in 0..Len(Stream) /\ Stream \in Seq(Byte) /\ Stream' \in Seq(Byte)
         /\ Len(Stream') = Len(Stream) - m
         /\ \A i \in 1..Len(Stream') : Stream'[i] = Stream[i + m]
<1>1. /\ Stream \in Seq(Byte) /\ Len(Stream) = Len(rx) + Len(line)
      /\ Len(rx) \in Nat /\ Len(line) \in Nat
      /\ \A i \in 1..Len(rx) + Len(line) :
           Stream[i] = IF i <= Len(rx) THEN rx[i] ELSE line[i - Len(rx)]
  BY StreamBytes
<1>2. /\ Len(rx') = Len(rx) - m /\ \A i \in 1..Len(rx) - m : rx'[i] = rx[i + m]
  BY RestOfBuffer
<1>3. /\ Stream' \in Seq(Byte) /\ Len(Stream') = Len(rx') + Len(line)
      /\ \A i \in 1..Len(rx') + Len(line) :
           Stream'[i] = IF i <= Len(rx') THEN rx'[i] ELSE line[i - Len(rx')]
  <2>1. rx' \in Seq(Byte) /\ line' \in Seq(Byte)
    BY DEF TypeOK
  <2>. QED BY <2>1, ConcatProperties DEF Stream
<1>4. ASSUME NEW i \in 1..Len(Stream') PROVE Stream'[i] = Stream[i + m]
  <2>1. /\ m \in Nat /\ Len(rx') \in Nat /\ Len(rx') + m = Len(rx) /\ i \in Nat
        /\ i \in 1..Len(rx') + Len(line) /\ i + m \in 1..Len(rx) + Len(line)
    <3>1. m \in Nat /\ Len(rx') \in Nat /\ Len(rx') + m = Len(rx)
      BY <1>1, <1>2
    <3>2. i \in 1..Len(rx') + Len(line)
      BY <1>3
    <3>. QED BY <1>1, <3>1, <3>2
  <2>2. CASE i <= Len(rx')
    <3>1. i \in 1..Len(rx) - m /\ i + m <= Len(rx)
      BY <1>1, <2>1, <2>2
    <3>2. Stream'[i] = rx'[i] /\ Stream[i + m] = rx[i + m]
      BY <1>1, <1>3, <2>1, <2>2, <3>1
    <3>. QED BY <1>2, <3>1, <3>2
  <2>3. CASE i > Len(rx')
    <3>1. Stream'[i] = line[i - (Len(rx) - m)]
      BY <1>2, <1>3, <2>1, <2>3
    <3>2. Stream[i + m] = line[(i + m) - Len(rx)]
      <4>1. i + m > Len(rx) /\ Len(rx) \in Nat /\ i + m \in Int
        BY <1>1, <2>1, <2>3
      <4>2. ~(i + m <= Len(rx))
        BY <4>1
      <4>. QED BY <1>1, <2>1, <4>2
    <3>3. i - (Len(rx) - m) = (i + m) - Len(rx)
      BY <1>1, <2>1
    <3>. QED BY <3>1, <3>2, <3>3
  <2>. QED BY <2>1, <2>2, <2>3
<1>. QED BY <1>1, <1>2, <1>3, <1>4

LEMMA InitClean == Init => CleanInv
<1> SUFFICES ASSUME Init PROVE CleanInv
  OBVIOUS
<1> DEFINE f == [k \in 1..0 + 1 |-> [at |-> 1, kind |-> "A", owes |-> 1]]
<1>1. owed = << >> /\ Stream = << >> /\ Len(<< >>) = 0
  BY EmptySeq, ConcatEmptySeq DEF Init, Stream
<1>2. f \in [1..0 + 1 -> Marks] /\ f[1].at = 1 /\ f[1].owes = 1
  BY DEF Marks
<1> HIDE DEF f
<1>3. Marked(f, 0, Stream, owed)
  BY <1>1, <1>2 DEF Marked
<1>4. InStep(f, 0)
  BY <1>2 DEF Init, InStep
<1>. QED BY <1>2, <1>3, <1>4 DEF CleanInv

\* A new frame is marked behind those that are there; the parser does not move.
LEMMA SendClean ==
  ASSUME TypeOK, TypeOK', CleanInv, faults = 0, faults' = faults,
         line = << >>, rx' = rx, currentCommand' = currentCommand,
         NEW kind, Adds(kind, line', owed, owed')
  PROVE  CleanInv'
<1>1. /\ Stream \in Seq(Byte) /\ owed \in Seq(States)
      /\ owed' \in Seq(States) /\ line' \in Seq(Byte)
  BY StreamBytes DEF TypeOK
<1>2. PICK n \in Nat : \E f \in [1..n + 1 -> Marks] :
        Marked(f, n, Stream, owed) /\ InStep(f, n)
  BY DEF CleanInv
<1>3. PICK f \in [1..n + 1 -> Marks] : Marked(f, n, Stream, owed) /\ InStep(f, n)
  BY <1>2
<1>4. Stream' = Stream \o line'
  BY StreamGrows
<1>5. PICK g \in [1..(n + 1) + 1 -> Marks] :
           /\ Marked(g, n + 1, Stream \o line', owed')
           /\ g[1].at = f[1].at
           /\ \A k \in 1..n : g[k] = f[k]
  BY <1>1, <1>3, AddFrame
<1>6. InStep(g, n + 1)'
  BY <1>3, <1>5 DEF InStep
<1>7. Marked(g, n + 1, Stream', owed') /\ n + 1 \in Nat
  BY <1>4, <1>5
<1>. QED BY <1>6, <1>7, <1>5 DEF CleanInv

\* In step with the frames, the parser takes a header for what it is.
LEMMA CommandClean ==
  ASSUME TypeOK, TypeOK', CleanInv, faults = 0, ReadCommand PROVE CleanInv'
<1>1. PICK n \in Nat : \E f \in [1..n + 1 -> Marks] :
        Marked(f, n, Stream, owed) /\ InStep(f, n)
  BY DEF CleanInv
<1>2. PICK f \in [1..n + 1 -> Marks] : Marked(f, n, Stream, owed) /\ InStep(f, n)
  BY <1>1
<1>3. /\ currentCommand = "none" /\ rx # << >> /\ currentCommand' = Command(Head(rx))
      /\ rx' = Tail(rx) /\ line' = line /\ owed' = owed
  BY DEF ReadCommand
<1>4. /\ rx \in Seq(Byte) /\ Len(rx) \in Nat \ {0} /\ Head(rx) = rx[1]
      /\ rx' = SubSeq(rx, 1 + 1, Len(rx)) /\ 1 \in 0..Len(rx)
  BY <1>3, EmptySeq, TailIsSubSeq DEF TypeOK
<1>5. /\ 1 \in 0..Len(Stream) /\ Stream \in Seq(Byte) /\ Stream' \in Seq(Byte)
      /\ Len(Stream') = Len(Stream) - 1
      /\ \A i \in 1..Len(Stream') : Stream'[i] = Stream[i + 1]
  BY <1>3, <1>4, StreamTaken
<1>6. 1 \in 1..Len(Stream) /\ Stream[1] = rx[1]
  BY <1>4, StreamBytes
<1>7. f[1].at = 1 /\ n # 0
  <2>1. f[1].at = 1 /\ f[n + 1].at = Len(Stream) + 1
    BY <1>2, <1>3 DEF InStep, Marked
  <2>2. Len(Stream) # 0
    BY <1>5, <1>6
  <2>. QED BY <1>5, <2>1, <2>2
<1>8. currentCommand' = f[1].kind
  <2>1. 1 \in 1..n /\ f[1] \in Marks /\ f[1].kind \in {"C", "A"}
    BY <1>7 DEF Marks
  <2>2. 1 < f[1 + 1].at
    BY <1>2, <1>7, <2>1, FrameAssumption DEF Marked, FrameLen
  <2>3. FrameByte(f[1], 1, Stream[1], owed)
    <3>1. FrameByte(f[1], 1 - f[1].at + 1, Stream[1], owed)
      BY <1>2, <1>6, <1>7, <2>1, <2>2 DEF Marked
    <3>. QED BY <1>7, <3>1
  <2>4. CASE f[1].kind = "C"
    <3>1. owed \in Seq(States) /\ f[1].owes \in 1..Len(owed)
      BY <1>2, <1>5, <2>1, <2>4, OwedStates DEF TypeOK
    <3>2. owed[f[1].owes] \in States
      BY <3>1, ElementOfSeq
    <3>3. rx[1] = C
      BY <1>6, <2>3, <2>4, <3>2, StateFrameBytes DEF FrameByte
    <3>. QED BY <1>3, <1>4, <2>4, <3>3, Headers DEF Command
  <2>5. CASE f[1].kind = "A"
    <3>1. rx[1] = A
      BY <1>6, <2>3, <2>5 DEF FrameByte, AimByte
    <3>. QED BY <1>3, <1>4, <2>5, <3>1, Headers DEF Command
  <2>. QED BY <2>1, <2>4, <2>5
<1> DEFINE g == [k \in 1..n + 1 |-> [f[k] EXCEPT !.at = f[k].at - 1]]
<1>9. Marked(g, n, Stream', owed')
  <2>1. owed \in Seq(States)
    BY DEF TypeOK
  <2>2. Marked(g, n, Stream', owed)
    BY <1>2, <1>5, <2>1, TakeFront
  <2>. QED BY <1>3, <2>2
<1>10. InStep(g, n)'
  <2>1. 1 \in 1..n + 1 /\ f[1] \in Marks
    BY <1>2
  <2>2. g[1].at = 0 /\ g[1].kind = f[1].kind
    BY <1>7, <2>1 DEF Marks
  <2>3. currentCommand' # "none"
    BY <1>8, <2>1 DEF Marks
  <2>. QED BY <1>7, <1>8, <2>2, <2>3 DEF InStep
<1>11. g \in [1..n + 1 -> Marks]
  BY <1>9 DEF Marked
<1>. QED BY <1>9, <1>10, <1>11 DEF CleanInv

\* On a clean line the window that is taken behind a 'C' is the payload that is
\* owed first, and its checksum is right.
LEMMA WindowOwed ==
  ASSUME TypeOK, NEW n \in Nat, NEW f, Marked(f, n, Stream, owed), InStep(f, n),
         JoystickReady
  PROVE  owed # << >> /\ Window = Head(owed) /\ WindowOK
<1>1. /\ n # 0 /\ f[1].at = 0 /\ f[1].kind = "C" /\ f[1].owes = 1 /\ 1 \in 1..n
  BY DEF InStep, JoystickReady, Marked
<1>2. /\ owed \in Seq(States) /\ Stream \in Seq(Byte) /\ PayloadLen \in Nat \ {0}
      /\ Len(rx) \in Nat /\ Len(line) \in Nat /\ Len(Stream) = Len(rx) + Len(line)
      /\ PayloadLen + 1 <= Len(rx)
  BY StreamBytes, FrameAssumption DEF TypeOK, JoystickReady
<1>3. 1 \in 1..Len(owed)
  BY <1>1, <1>2, OwedStates
<1>4. owed[1] \in States /\ owed # << >> /\ Head(owed) = owed[1]
  BY <1>2, <1>3, ElementOfSeq, EmptySeq
<1>5. f[1 + 1].at = PayloadLen + 2
  <2>1. f[1 + 1].at = f[1].at + FrameLen(f[1].kind)
    BY <1>1 DEF Marked
  <2>. QED BY <1>1, <1>2, <2>1 DEF FrameLen
<1>6. ASSUME NEW i \in 1..PayloadLen + 1
      PROVE  rx[i] = StateFrame(owed[1])[i + 1]
  <2>1. /\ i \in 1..Len(Stream) /\ i \in 1..Len(rx) + Len(line) /\ i <= Len(rx)
        /\ 0 <= i /\ i < PayloadLen + 2 /\ i - 0 + 1 = i + 1
    BY <1>2
  <2>2. Stream[i] = rx[i]
    BY <2>1, StreamBytes
  <2>3. FrameByte(f[1], i - f[1].at + 1, Stream[i], owed)
    BY <1>1, <1>5, <2>1 DEF Marked
  <2>. QED BY <1>1, <2>1, <2>2, <2>3 DEF FrameByte
<1>7. \A i \in 1..PayloadLen : rx[i] = owed[1][i]
  <2> SUFFICES ASSUME NEW i \in 1..PayloadLen PROVE rx[i] = owed[1][i]
    OBVIOUS
  <2>1. i \in 1..PayloadLen + 1
    BY <1>2
  <2>. QED BY <1>4, <1>6, <2>1, StateFrameBytes
<1>8. rx[PayloadLen + 1] = Checksum(owed[1])
  <2>1. PayloadLen + 1 \in 1..PayloadLen + 1 /\ (PayloadLen + 1) + 1 = PayloadLen + 2
    BY <1>2
  <2>. QED BY <1>4, <1>6, <2>1, StateFrameBytes
<1>9. Window = owed[1]
  <2>1. /\ Window \in [1..PayloadLen -> Byte]
        /\ \A i \in 1..PayloadLen : Window[i] = rx[i]
    BY <1>2, WindowBytes
  <2>2. owed[1] \in [1..PayloadLen -> Byte]
    BY <1>4, FrameAssumption
  <2>3. \A i \in 1..PayloadLen : Window[i] = owed[1][i]
    BY <1>7, <2>1
  <2>. QED BY <2>1, <2>2, <2>3, SamePayload
<1>. QED BY <1>4, <1>8, <1>9 DEF WindowOK

\* When the rest of the first frame is taken the parser is at the next one.
LEMMA TakeClean ==
  ASSUME TypeOK, TypeOK', NEW n \in Nat \ {0}, NEW f, Marked(f, n, Stream, owed),
         f[1].at = 0, NEW m \in 0..Len(rx), m = FrameLen(f[1].kind) - 1,
         rx' = SubSeq(rx, m + 1, Len(rx)), line' = line,
         currentCommand' = "none",
         Len(owed') = Len(owed) - Carries(f[1].kind),
         \A i \in 1..Len(owed') : owed'[i] = owed[i + Carries(f[1].kind)]
  PROVE  CleanInv'
<1> DEFINE g == [k \in 1..n + 1 |-> [f[k] EXCEPT !.at = f[k].at - m]]
           h == [k \in 1..n |-> [g[k + 1] EXCEPT
                                   !.owes = g[k + 1].owes - Carries(g[1].kind)]]
<1>1. /\ m \in 0..Len(Stream) /\ Stream \in Seq(Byte) /\ Stream' \in Seq(Byte)
      /\ Len(Stream') = Len(Stream) - m
      /\ \A i \in 1..Len(Stream') : Stream'[i] = Stream[i + m]
  BY StreamTaken
<1>2. owed \in Seq(States) /\ owed' \in Seq(States) /\ n \in Nat
  BY DEF TypeOK
<1>3. Marked(g, n, Stream', owed)
  BY <1>1, <1>2, TakeFront, ZenonT(30)
<1>4. /\ f \in [1..n + 1 -> Marks] /\ 1 \in 1..n + 1 /\ 1 + 1 \in 1..n + 1
      /\ 1 \in 1..n
  BY DEF Marked
<1>5. g[1].kind = f[1].kind /\ g[1 + 1].at = f[1 + 1].at - m
  BY <1>4 DEF Marks
<1>6. f[1 + 1].at - m = 1
  <2>1. f[1 + 1].at = f[1].at + FrameLen(f[1].kind)
    BY <1>4 DEF Marked
  <2>2. FrameLen(f[1].kind) \in Int
    BY FrameAssumption DEF FrameLen
  <2>. QED BY <2>1, <2>2
<1>7. g \in [1..n + 1 -> Marks]
  BY <1>3 DEF Marked
<1> HIDE DEF g
<1>8. Marked(h, n - 1, Stream', owed')
  <2>1. /\ Len(owed') = Len(owed) - Carries(g[1].kind)
        /\ \A i \in 1..Len(owed') : owed'[i] = owed[i + Carries(g[1].kind)]
    BY <1>5
  <2>. QED BY <1>1, <1>2, <1>3, <2>1, TakeFrame
<1>9. h[1].at = 1
  <2>1. g[1 + 1] \in Marks
    BY <1>4, <1>7
  <2>. QED BY <1>4, <1>5, <1>6, <2>1 DEF Marks
<1>10. InStep(h, n - 1)'
  BY <1>9 DEF InStep
<1>11. n - 1 \in Nat /\ h \in [1..(n - 1) + 1 -> Marks]
  BY <1>8, SMTT(30) DEF Marked
<1>. QED BY <1>8, <1>10, <1>11 DEF CleanInv

LEMMA NextClean == TypeOK /\ TypeOK' /\ CleanInv /\ [Next]_vars => CleanInv'
<1> SUFFICES ASSUME TypeOK, TypeOK', CleanInv, [Next]_vars PROVE CleanInv'
  OBVIOUS
<1>1. CASE faults' # 0
  BY <1>1 DEF CleanInv
<1> SUFFICES ASSUME faults' = 0 PROVE CleanInv'
  BY <1>1
<1>2. /\ faults \in Nat /\ owed \in Seq(States) /\ PayloadLen \in Nat \ {0}
      /\ Len(rx) \in Nat /\ Len(owed) \in Nat
  BY FrameAssumption, BoundAssumption DEF TypeOK
<1>3. ASSUME faults = 0
      PROVE  \E n \in Nat : \E f \in [1..n + 1 -> Marks] :
               Marked(f, n, Stream, owed) /\ InStep(f, n)
  BY <1>3 DEF CleanInv
<1>4. ASSUME NEW p \in States, SendState(p) PROVE CleanInv'
  <2>1. faults = 0 /\ faults' = faults /\ line = << >> /\ rx' = rx
        /\ currentCommand' = currentCommand
        /\ line' = StateFrame(p) /\ owed' = Append(owed, p)
    BY <1>4 DEF SendState
  <2>2. /\ owed' \in Seq(States) /\ Len(owed') = Len(owed) + 1
        /\ \A i \in 1..Len(owed) : owed'[i] = owed[i]
        /\ owed'[Len(owed) + 1] = p
    BY <1>2, <2>1, AppendProperties
  <2>3. line' \in Seq(Byte) /\ Len(line') = PayloadLen + 2
    BY <2>1, StateFrameBytes
  <2>4. Adds("C", line', owed, owed')
    BY <2>1, <2>2, <2>3 DEF Adds, FrameLen, Carries
  <2>. QED BY <2>1, <2>4, SendClean
<1>5. ASSUME NEW a \in Aims, SendAim(a) PROVE CleanInv'
  <2>1. faults = 0 /\ faults' = faults /\ line = << >> /\ rx' = rx
        /\ currentCommand' = currentCommand
        /\ line' = AimFrame(a) /\ owed' = owed
    BY <1>5 DEF SendAim
  <2>2. line' \in Seq(Byte) /\ Len(line') = 3
    BY <2>1, AimFrameBytes
  <2>3. Adds("A", line', owed, owed')
    BY <1>2, <2>1, <2>2 DEF Adds, FrameLen, Carries
  <2>. QED BY <2>1, <2>3, SendClean
<1>6. CASE Arrive
  <2>1. /\ faults = 0 /\ owed' = owed /\ currentCommand' = currentCommand
        /\ Stream' = Stream
    BY <1>6, StreamStays DEF Arrive
  <2>2. PICK n \in Nat : \E f \in [1..n + 1 -> Marks] :
          Marked(f, n, Stream, owed) /\ InStep(f, n)
    BY <1>3, <2>1
  <2>3. PICK f \in [1..n + 1 -> Marks] : Marked(f, n, Stream, owed) /\ InStep(f, n)
    BY <2>2
  <2>4. Marked(f, n, Stream', owed') /\ InStep(f, n)'
    BY <2>1, <2>3 DEF InStep
  <2>. QED BY <2>4 DEF CleanInv
<1>7. CASE LoseByte \/ DamageByte
  BY <1>2, <1>7 DEF LoseByte, DamageByte, Fault
<1>8. CASE ReadCommand
  <2>1. faults = 0
    BY <1>8 DEF ReadCommand
  <2>. QED BY <1>8, <2>1, CommandClean
<1>9. CASE ReadJoystick
  <2>1. /\ faults = 0 /\ JoystickReady /\ line' = line /\ currentCommand' = "none"
        /\ rx' = SubSeq(rx, (PayloadLen + 1) + 1, Len(rx))
        /\ PayloadLen + 1 \in 0..Len(rx)
    BY <1>2, <1>9 DEF ReadJoystick, JoystickReady
  <2>2. PICK n \in Nat : \E f \in [1..n + 1 -> Marks] :
          Marked(f, n, Stream, owed) /\ InStep(f, n)
    BY <1>3, <2>1
  <2>3. PICK f \in [1..n + 1 -> Marks] : Marked(f, n, Stream, owed) /\ InStep(f, n)
    BY <2>2
  <2>4. n \in Nat \ {0} /\ f[1].at = 0 /\ f[1].kind = "C"
    BY <2>1, <2>3 DEF InStep, JoystickReady
  <2>5. PayloadLen + 1 = FrameLen(f[1].kind) - 1 /\ Carries(f[1].kind) = 1
    BY <1>2, <2>4 DEF FrameLen, Carries
  <2>6. owed # << >>
    BY <2>1, <2>3, WindowOwed
  <2>7. owed' = Tail(owed)
    BY <1>9, <2>6 DEF ReadJoystick
  <2>8. Len(owed') = Len(owed) - 1 /\ \A i \in 1..Len(owed') : owed'[i] = owed[i + 1]
    BY <1>2, <2>6, <2>7, HeadTailProperties
  <2>. QED BY <2>1, <2>3, <2>4, <2>5, <2>8, TakeClean
<1>10. CASE RejectJoystick
  <2>1. faults = 0 /\ JoystickReady /\ ~WindowOK
    BY <1>10 DEF RejectJoystick
  <2>2. PICK n \in Nat : \E f \in [1..n + 1 -> Marks] :
          Marked(f, n, Stream, owed) /\ InStep(f, n)
    BY <1>3, <2>1
  <2>3. PICK f \in [1..n + 1 -> Marks] : Marked(f, n, Stream, owed) /\ InStep(f, n)
    BY <2>2
  <2>. QED BY <2>1, <2>3, WindowOwed
<1>11. CASE ReadAim
  <2>1. /\ faults = 0 /\ line' = line /\ currentCommand' = "none" /\ owed' = owed
        /\ currentCommand = "A"
        /\ rx' = SubSeq(rx, 2 + 1, Len(rx)) /\ 2 \in 0..Len(rx)
    BY <1>2, <1>11 DEF ReadAim
  <2>2. PICK n \in Nat : \E f \in [1..n + 1 -> Marks] :
          Marked(f, n, Stream, owed) /\ InStep(f, n)
    BY <1>3, <2>1
  <2>3. PICK f \in [1..n + 1 -> Marks] : Marked(f, n, Stream, owed) /\ InStep(f, n)
    BY <2>2
  <2>4. n \in Nat \ {0} /\ f[1].at = 0 /\ f[1].kind = "A"
    BY <2>1, <2>3 DEF InStep
  <2>5. 2 = FrameLen(f[1].kind) - 1 /\ Carries(f[1].kind) = 0
    BY <2>4 DEF FrameLen, Carries
  <2>6. /\ Len(owed') = Len(owed) - Carries(f[1].kind)
        /\ \A i \in 1..Len(owed') : owed'[i] = owed[i + Carries(f[1].kind)]
    BY <1>2, <2>1, <2>5
  <2>. QED BY <2>1, <2>3, <2>4, <2>5, <2>6, TakeClean
<1>12. CASE UNCHANGED vars
  <2>1. /\ faults = 0 /\ owed' = owed /\ currentCommand' = currentCommand
        /\ Stream' = Stream
    BY <1>12 DEF vars, Stream
  <2>2. PICK n \in Nat : \E f \in [1..n + 1 -> Marks] :
          Marked(f, n, Stream, owed) /\ InStep(f, n)
    BY <1>3, <2>1
  <2>3. PICK f \in [1..n + 1 -> Marks] : Marked(f, n, Stream, owed) /\ InStep(f, n)
    BY <2>2
  <2>4. Marked(f, n, Stream', owed') /\ InStep(f, n)'
    BY <2>1, <2>3 DEF InStep
  <2>. QED BY <2>4 DEF CleanInv
<1>. QED
  BY <1>4, <1>5, <1>6, <1>7, <1>8, <1>9, <1>10, <1>11, <1>12 DEF Next, msgReady

LEMMA Clean == Spec => [](TypeOK /\ CleanInv)
<1>1. Init => TypeOK /\ CleanInv
  BY InitTyped, InitClean
<1>2. (TypeOK /\ CleanInv) /\ [Next]_vars => (TypeOK /\ CleanInv)'
  BY NextTyped, NextClean
<1>. QED BY <1>1, <1>2, PTL DEF Spec

\* On a clean line the robot acts on every state, in the order sent, with any
\* number of aim corrections between them, whatever bytes they are of.
THEOREM StatesInOrder == Spec => InOrder
<1>1. ASSUME TypeOK, CleanInv
      PROVE  [ReadJoystick /\ faults = 0 => owed # << >> /\ joystick1' = Head(owed)]_vars
  <2>1. SUFFICES ASSUME ReadJoystick, faults = 0
                 PROVE  owed # << >> /\ joystick1' = Head(owed)
    OBVIOUS
  <2>2. PICK n \in Nat : \E f \in [1..n + 1 -> Marks] :
          Marked(f, n, Stream, owed) /\ InStep(f, n)
    BY <1>1, <2>1 DEF CleanInv
  <2>3. PICK f \in [1..n + 1 -> Marks] : Marked(f, n, Stream, owed) /\ InStep(f, n)
    BY <2>2
  <2>4. JoystickReady /\ joystick1' = Window
    BY <2>1 DEF ReadJoystick
  <2>. QED BY <1>1, <2>3, <2>4, WindowOwed
<1>. QED BY <1>1, Clean, PTL DEF InOrder

-----------------------------------------------------------------------------
(* Which windows the checksum fails on.                                    *)

\* The bytes of a window: the payload and the byte that it is checked with.
Places == 1..PayloadLen + 1

\* The positions among those of T at which the buffer has bit b.
With(T, b) == {i \in T : b \in rx[i]}

\* How much a byte adds to the number of bytes with bit b.
Has(b, byte) == IF b \in byte THEN 1 ELSE 0

\* One position more.
LEMMA OneMore ==
  ASSUME NEW T, NEW j, j \notin T, NEW S, S = T \union {j}, NEW b,
         IsFiniteSet(With(T, b))
  PROVE  /\ IsFiniteSet(With(S, b))
         /\ Cardinality(With(S, b)) = Cardinality(With(T, b)) + Has(b, rx[j])
         /\ Cardinality(With(T, b)) \in Nat
<1> DEFINE W == With(T, b)
           V == With(S, b)
<1>0. Cardinality(W) \in Nat
  BY FS_CardinalityType
<1>1. CASE b \in rx[j]
  <2>1. V = W \union {j} /\ j \notin W
    BY <1>1 DEF With
  <2>2. Has(b, rx[j]) = 1
    BY <1>1 DEF Has
  <2> HIDE DEF W, V
  <2>3. IsFiniteSet(W \union {j}) /\ Cardinality(W \union {j}) = Cardinality(W) + 1
    BY <2>1, FS_AddElement DEF W
  <2>4. IsFiniteSet(V) /\ Cardinality(V) = Cardinality(W) + Has(b, rx[j])
    BY <2>1, <2>2, <2>3
  <2>. QED BY <1>0, <2>4 DEF W, V
<1>2. CASE b \notin rx[j]
  <2>1. V = W
    BY <1>2 DEF With
  <2>. QED BY <1>0, <1>2, <2>1 DEF Has
<1>. QED BY <1>1, <1>2

\* The bytes at up to four positions that have a bit.
LEMMA CountOne ==
  ASSUME NEW i, NEW b
  PROVE  IsFiniteSet(With({i}, b)) /\ Cardinality(With({i}, b)) = Has(b, rx[i])
<1>1. With({}, b) = {} /\ {} \union {i} = {i} /\ i \notin {}
  BY DEF With
<1>2. IsFiniteSet(With({}, b)) /\ Cardinality(With({}, b)) = 0
  BY <1>1, FS_EmptySet
<1>3. IsFiniteSet(With({i}, b)) /\ Cardinality(With({i}, b)) = 0 + Has(b, rx[i])
  BY <1>1, <1>2, OneMore
<1>. QED BY <1>1, <1>3 DEF Has

LEMMA CountTwo ==
  ASSUME NEW i, NEW j, i # j, NEW b
  PROVE  /\ IsFiniteSet(With({i, j}, b))
         /\ Cardinality(With({i, j}, b)) = Has(b, rx[i]) + Has(b, rx[j])
<1> DEFINE T == {i}
           S == {i, j}
<1>1. S = T \union {j} /\ j \notin T
  OBVIOUS
<1>2. IsFiniteSet(With(T, b))
  BY CountOne
<1> HIDE DEF S, T
<1>3. /\ IsFiniteSet(With(S, b))
      /\ Cardinality(With(S, b)) = Cardinality(With(T, b)) + Has(b, rx[j])
  BY <1>1, <1>2, OneMore
<1>. QED BY <1>3, CountOne DEF S, T

LEMMA CountThree ==
  ASSUME NEW i, NEW j, NEW k, i # j, i # k, j # k, NEW b
  PROVE  /\ IsFiniteSet(With({i, j, k}, b))
         /\ Cardinality(With({i, j, k}, b)) = Has(b, rx[i]) + Has(b, rx[j]) + Has(b, rx[k])
<1> DEFINE T == {i, j}
           S == {i, j, k}
<1>1. S = T \union {k} /\ k \notin T
  OBVIOUS
<1>2. IsFiniteSet(With(T, b))
  BY CountTwo
<1> HIDE DEF S, T
<1>3. /\ IsFiniteSet(With(S, b))
      /\ Cardinality(With(S, b)) = Cardinality(With(T, b)) + Has(b, rx[k])
  BY <1>1, <1>2, OneMore
<1>. QED BY <1>3, CountTwo DEF S, T

LEMMA CountFour ==
  ASSUME NEW i, NEW j, NEW k, NEW l, i # j, i # k, j # k, i # l, j # l, k # l, NEW b
  PROVE  Cardinality(With({i, j, k, l}, b))
           = Has(b, rx[i]) + Has(b, rx[j]) + Has(b, rx[k]) + Has(b, rx[l])
<1> DEFINE T == {i, j, k}
           S == {i, j, k, l}
<1>1. S = T \union {l} /\ l \notin T
  OBVIOUS
<1>2. /\ IsFiniteSet(With(T, b))
      /\ Cardinality(With(T, b)) = Has(b, rx[i]) + Has(b, rx[j]) + Has(b, rx[k])
  BY CountThree
<1> HIDE DEF S, T
<1>3. /\ IsFiniteSet(With(S, b))
      /\ Cardinality(With(S, b)) = Cardinality(With(T, b)) + Has(b, rx[l])
  BY <1>1, <1>2, OneMore
<1>. QED BY <1>2, <1>3 DEF S

\* A window whose bytes have some bit an odd number of times is rejected.
LEMMA OddIsRejected ==
  ASSUME TypeOK, Len(rx) >= PayloadLen + 1, NEW b \in Bits,
         Cardinality(With(Places, b)) % 2 = 1
  PROVE  ~WindowOK
<1> DEFINE T == 1..PayloadLen
           j == PayloadLen + 1
<1>1. PayloadLen \in Nat \ {0} /\ Len(rx) \in Nat
  BY FrameAssumption DEF TypeOK
<1>2. /\ Window \in [T -> Byte] /\ \A i \in T : Window[i] = rx[i]
  BY <1>1, WindowBytes
<1>3. {i \in DOMAIN Window : b \in Window[i]} = With(T, b)
  BY <1>2 DEF With
<1>4. IsFiniteSet(With(T, b))
  <2>1. IsFiniteSet(T) /\ With(T, b) \subseteq T
    BY <1>1, FS_Interval DEF With
  <2>. QED BY <2>1, FS_Subset
<1> DEFINE S == Places
<1>5. S = T \union {j} /\ j \notin T
  BY <1>1 DEF Places
<1>6. /\ Cardinality(With(S, b)) = Cardinality(With(T, b)) + Has(b, rx[j])
      /\ Cardinality(With(T, b)) \in Nat
  <2> HIDE DEF S, T
  <2>. QED BY <1>4, <1>5, OneMore
<1> DEFINE c == Cardinality(With(T, b))
<1>7. b \in Checksum(Window) <=> c % 2 = 1
  BY <1>3 DEF Checksum
<1>8. (c + Has(b, rx[j])) % 2 = 1 /\ c \in Nat
  BY <1>6
<1> HIDE DEF c
<1>9. (b \in rx[j]) # (b \in Checksum(Window))
  <2>1. CASE b \in rx[j]
    <3>1. (c + 1) % 2 = 1
      BY <1>8, <2>1 DEF Has
    <3>2. c % 2 # 1
      BY <1>8, <3>1
    <3>. QED BY <1>7, <2>1, <3>2
  <2>2. CASE b \notin rx[j]
    <3>1. (c + 0) % 2 = 1
      BY <1>8, <2>2 DEF Has
    <3>2. c % 2 = 1
      BY <1>8, <3>1
    <3>. QED BY <1>7, <2>2, <3>2
  <2>. QED BY <2>1, <2>2
<1>. QED BY <1>9 DEF WindowOK

\* So is one in which only the bytes at some positions have more than bit 0, if
\* those have another bit an odd number of times.
LEMMA FewAreRejected ==
  ASSUME TypeOK, Len(rx) >= PayloadLen + 1, NEW T \in SUBSET Places,
         \A i \in Places \ T : rx[i] \subseteq {0},
         NEW b \in Bits \ {0}, Cardinality(With(T, b)) % 2 = 1
  PROVE  ~WindowOK
<1>1. With(Places, b) = With(T, b)
  BY DEF With
<1>. QED BY <1>1, OddIsRejected

\* The bits of the headers.
LEMMA HeaderBits ==
  /\ \A b \in Bits \ {0} : (b \in C <=> b \in {1, 6}) /\ (b \in A <=> b = 6)
  /\ 6 \in Bits \ {0} /\ 1 \in Bits \ {0}
BY DEF Bits, C, A

LEMMA HeaderIsRejected ==
  ASSUME TypeOK, Len(rx) >= PayloadLen + 1, NEW i \in Places,
         rx[i] \in {C, A},
         \A k \in Places \ {i} : rx[k] \subseteq {0}
  PROVE  ~WindowOK
<1>1. 6 \in rx[i] /\ 6 \in Bits \ {0}
  BY HeaderBits
<1>2. Cardinality(With({i}, 6)) = 1
  BY <1>1, CountOne DEF Has
<1>3. Cardinality(With({i}, 6)) % 2 = 1
  BY <1>2
<1>4. {i} \in SUBSET Places
  OBVIOUS
<1>. QED BY <1>1, <1>3, <1>4, FewAreRejected

\* The first byte of an aim correction, and the second.
First  == {a[1] : a \in Aims}
Second == {a[2] : a \in Aims}

LEMMA StandOut ==
  ASSUME AimsStandOut, NEW x \in First, NEW y \in Second
  PROVE  /\ \E b \in Bits \ {0} : (b \in x) # (b = 6)
         /\ \E b \in Bits \ {0} : (b \in y) # (b \in {1, 6})
         /\ \E b \in Bits \ {0} : ((b \in x) # (b \in y)) # (b = 6)
         /\ \E b \in Bits \ {0} : ((b \in x) # (b \in y)) # (b = 1)
         /\ \E b \in Bits \ {0} : ((b \in x) # (b \in y)) # (b \in {1, 6})
<1>1. PICK a \in Aims : x = a[1]
  BY DEF First
<1>2. PICK e \in Aims : y = e[2]
  BY DEF Second
<1> DEFINE d == ((x \ y) \union (y \ x)) \ {0}
<1>3. x \in Byte /\ y \in Byte
  <2>1. a \in [1..2 -> Byte] /\ e \in [1..2 -> Byte]
    BY FrameAssumption
  <2>. QED BY <1>1, <1>2, <2>1
<1>4. x \ {0} # {6} /\ y \ {0} # {1, 6} /\ d # {1} /\ d # {6} /\ d # {1, 6}
  BY <1>1, <1>2 DEF AimsStandOut
<1>5. \A b \in Bits \ {0} : b \in d <=> ((b \in x) # (b \in y))
  OBVIOUS
<1>6. /\ d \subseteq Bits \ {0} /\ x \ {0} \subseteq Bits \ {0} /\ y \ {0} \subseteq Bits \ {0}
      /\ 1 \in Bits \ {0} /\ 6 \in Bits \ {0}
  BY <1>3, HeaderBits DEF Byte
<1> HIDE DEF d
<1>7. \E b \in Bits \ {0} : (b \in x) # (b = 6)
  BY <1>4, <1>6
<1>8. \E b \in Bits \ {0} : (b \in y) # (b \in {1, 6})
  BY <1>4, <1>6
<1>9. /\ \E b \in Bits \ {0} : (b \in d) # (b = 6)
      /\ \E b \in Bits \ {0} : (b \in d) # (b = 1)
      /\ \E b \in Bits \ {0} : (b \in d) # (b \in {1, 6})
  BY <1>4, <1>6
<1>10. /\ \E b \in Bits \ {0} : ((b \in x) # (b \in y)) # (b = 6)
       /\ \E b \in Bits \ {0} : ((b \in x) # (b \in y)) # (b = 1)
       /\ \E b \in Bits \ {0} : ((b \in x) # (b \in y)) # (b \in {1, 6})
  BY <1>5, <1>9
<1>. QED BY <1>7, <1>8, <1>10

-----------------------------------------------------------------------------
(* Windows in a stream of frames.                                          *)

\* With the sticks at rest a state frame has no bits but bit 0 behind its 'C'.
LEMMA PlainBytes ==
  ASSUME SticksAtRest, NEW p \in States, NEW d \in 2..PayloadLen + 2
  PROVE  StateFrame(p)[d] \subseteq {0}
<1>1. PayloadLen \in Nat \ {0} /\ p \in [1..PayloadLen -> Byte]
  BY FrameAssumption
<1>2. CASE d \in 2..PayloadLen + 1
  <2>1. d - 1 \in 1..PayloadLen /\ (d - 1) + 1 = d
    BY <1>1, <1>2
  <2>2. StateFrame(p)[d] = p[d - 1]
    BY <2>1, StateFrameBytes
  <2>. QED BY <2>1, <2>2 DEF SticksAtRest
<1>3. CASE d = PayloadLen + 2
  <2>1. StateFrame(p)[d] = Checksum(p)
    BY <1>3, StateFrameBytes
  <2>2. ASSUME NEW b \in Checksum(p), b # 0 PROVE FALSE
    <3>1. b \in Bits /\ Cardinality({i \in DOMAIN p : b \in p[i]}) % 2 = 1
      BY DEF Checksum
    <3>2. {i \in DOMAIN p : b \in p[i]} = {}
      BY <1>1, <2>2 DEF SticksAtRest
    <3>. QED BY <3>1, <3>2, FS_EmptySet
  <2>. QED BY <2>1, <2>2
<1>. QED BY <1>1, <1>2, <1>3

\* The bytes of a marked frame.
LEMMA StateBytes ==
  ASSUME SticksAtRest, NEW n \in Nat, NEW s \in Seq(Byte), NEW u \in Seq(States),
         NEW f, Marked(f, n, s, u), NEW k \in 1..n, f[k].kind = "C",
         NEW i \in 1..Len(s), f[k].at <= i, i < f[k].at + PayloadLen + 2
  PROVE  /\ i = f[k].at => s[i] = C
         /\ i # f[k].at => s[i] \subseteq {0}
         /\ u[f[k].owes] \in States
         /\ s[i] = StateFrame(u[f[k].owes])[i - f[k].at + 1]
<1>1. f[k].owes \in 1..Len(u)
  BY OwedStates
<1>2. u[f[k].owes] \in States
  BY <1>1, ElementOfSeq
<1>3. /\ f[k + 1].at = f[k].at + (PayloadLen + 2) /\ f[k].at \in Int
      /\ PayloadLen \in Nat \ {0} /\ Len(s) \in Nat
  BY FrameAssumption DEF Marked, FrameLen, Marks
<1>4. i < f[k + 1].at
  BY <1>3
<1>5. s[i] = StateFrame(u[f[k].owes])[i - f[k].at + 1]
  <2>1. FrameByte(f[k], i - f[k].at + 1, s[i], u)
    BY <1>4 DEF Marked
  <2>. QED BY <2>1 DEF FrameByte
<1>6. CASE i = f[k].at
  <2>1. i - f[k].at + 1 = 1
    BY <1>3, <1>6
  <2>. QED BY <1>2, <1>5, <1>6, <2>1, StateFrameBytes
<1>7. CASE i # f[k].at
  <2>1. i - f[k].at + 1 \in 2..PayloadLen + 2
    <3>1. \A x \in Int : x <= i /\ i < x + PayloadLen + 2 /\ i # x
            => i - x + 1 \in 2..PayloadLen + 2
      BY <1>3
    <3>. QED BY <1>3, <1>7, <3>1
  <2>. QED BY <1>2, <1>5, <1>7, <2>1, PlainBytes
<1>. QED BY <1>6, <1>7, <1>2, <1>5

LEMMA AimBytes ==
  ASSUME NEW n \in Nat, NEW s \in Seq(Byte), NEW u \in Seq(States),
         NEW f, Marked(f, n, s, u), NEW k \in 1..n, f[k].kind = "A",
         NEW i \in 1..Len(s)
  PROVE  /\ i = f[k].at => s[i] = A
         /\ i = f[k].at + 1 => s[i] \in First
         /\ i = f[k].at + 2 => s[i] \in Second
<1>1. /\ f[k + 1].at = f[k].at + 3 /\ f[k].at \in Int /\ Len(s) \in Nat /\ i \in Int
  <2>1. k \in 1..n + 1 /\ FrameLen(f[k].kind) = 3
    BY DEF FrameLen
  <2>2. f[k] \in Marks /\ f[k + 1].at = f[k].at + FrameLen(f[k].kind)
    BY <2>1 DEF Marked
  <2>. QED BY <2>1, <2>2 DEF Marks
<1>2. ASSUME i = f[k].at \/ i = f[k].at + 1 \/ i = f[k].at + 2
      PROVE  AimByte(i - f[k].at + 1, s[i])
  <2>1. f[k].at <= i /\ i < f[k + 1].at
    BY <1>1, <1>2, SMTT(30)
  <2>2. FrameByte(f[k], i - f[k].at + 1, s[i], u)
    BY <2>1 DEF Marked
  <2>. QED BY <2>2 DEF FrameByte
<1>3. CASE i = f[k].at
  <2>1. i - f[k].at + 1 = 1
    BY <1>1, <1>3
  <2>2. AimByte(1, s[i])
    BY <1>2, <1>3, <2>1
  <2>3. s[i] = A
    BY <2>2 DEF AimByte
  <2>4. i # f[k].at + 1 /\ i # f[k].at + 2
    BY <1>1, <1>3
  <2>. QED BY <2>3, <2>4
<1>4. CASE i = f[k].at + 1
  <2>1. i - f[k].at + 1 = 2
    BY <1>1, <1>4
  <2>2. AimByte(2, s[i])
    BY <1>2, <1>4, <2>1
  <2>3. \E a \in Aims : s[i] = a[1]
    BY <2>2 DEF AimByte
  <2>4. i # f[k].at /\ i # f[k].at + 2
    BY <1>1, <1>4
  <2>. QED BY <2>3, <2>4 DEF First
<1>5. CASE i = f[k].at + 2
  <2>1. i - f[k].at + 1 = 3
    BY <1>1, <1>5
  <2>2. AimByte(3, s[i])
    BY <1>2, <1>5, <2>1
  <2>3. \E a \in Aims : s[i] = a[2]
    BY <2>2 DEF AimByte
  <2>4. i # f[k].at /\ i # f[k].at + 1
    BY <1>1, <1>5
  <2>. QED BY <2>3, <2>4 DEF Second
<1>. QED BY <1>3, <1>4, <1>5

\* Every byte is in a frame, once the first frame has begun.
LEMMA InAFrame ==
  ASSUME NEW n \in Nat, NEW s \in Seq(Byte), NEW u \in Seq(States),
         NEW f, Marked(f, n, s, u), f[1].at <= 1, s # << >>
  PROVE  \E k \in 1..n : f[k].at <= 1 /\ 1 < f[k + 1].at
<1> DEFINE T == {k \in 1..n + 1 : 1 < f[k].at}
<1>1. Len(s) \in Nat \ {0} /\ f[n + 1].at = Len(s) + 1 /\ n + 1 \in 1..n + 1
  BY EmptySeq DEF Marked
<1>2. n + 1 \in T /\ T \subseteq Nat
  BY <1>1
<1>3. \E k \in T : \A j \in T : ~(j < k)
  <2>1. IsWellFoundedOn(OpToRel(<, Nat), Nat)
    BY NatLessThanWellFounded
  <2>2. PICK k \in T : \A j \in T : ~(<<j, k>> \in OpToRel(<, Nat))
    BY <1>2, <2>1, WFMin
  <2>3. \A j \in T : ~(j < k)
    BY <1>2, <2>2, Zenon DEF OpToRel
  <2>. QED BY <2>3
<1>4. PICK k \in T : \A j \in T : ~(j < k)
  BY <1>3
<1>5. k # 1 /\ k \in 1..n + 1 /\ 1 < f[k].at
  <2>1. f[1].at \in Int
    BY DEF Marked, Marks
  <2>. QED BY <2>1
<1>6. k - 1 \in 1..n /\ (k - 1) + 1 = k /\ k - 1 \in 1..n + 1
  BY <1>5
<1>7. f[k - 1].at \in Int
  BY <1>6 DEF Marked, Marks
<1>8. f[k - 1].at <= 1
  BY <1>4, <1>6, <1>7
<1>. QED BY <1>5, <1>6, <1>8

\* At most one aim correction is among the frames.
OneAim(f, n) ==
  /\ \A j, k \in 1..n : f[j].kind = "A" /\ f[k].kind = "A" => j = k
  /\ aimsSent = 0 => \A k \in 1..n : f[k].kind = "C"

\* Windows with bits of headers or of an aim correction at two positions,
LEMMA TwoRejected ==
  ASSUME TypeOK, Len(rx) >= PayloadLen + 1, NEW p \in Places, NEW q \in Places, p # q,
         \A i \in Places : i # p /\ i # q => rx[i] \subseteq {0},
         \E b \in Bits \ {0} : (b \in rx[p]) # (b \in rx[q])
  PROVE  ~WindowOK
<1> DEFINE T == {p, q}
<1>1. PICK b \in Bits \ {0} : (b \in rx[p]) # (b \in rx[q])
  OBVIOUS
<1>2. Cardinality(With(T, b)) = Has(b, rx[p]) + Has(b, rx[q])
  BY CountTwo
<1>3. Cardinality(With(T, b)) % 2 = 1
  BY <1>1, <1>2 DEF Has
<1>4. T \in SUBSET Places /\ \A i \in Places \ T : rx[i] \subseteq {0}
  OBVIOUS
<1> HIDE DEF T
<1>. QED BY <1>3, <1>4, FewAreRejected

\* at three,
LEMMA ThreeRejected ==
  ASSUME NEW p \in Places, NEW q \in Places, NEW r \in Places, p # q, p # r, q # r
  PROVE  TypeOK /\ Len(rx) >= PayloadLen + 1
         /\ (\A i \in Places : i # p /\ i # q /\ i # r => rx[i] \subseteq {0})
         /\ (\E b \in Bits \ {0} : (b \in rx[p]) <=> ((b \in rx[q]) <=> (b \in rx[r])))
           => ~WindowOK
<1> DEFINE T == {p, q, r}
<1>1. \A b : Cardinality(With(T, b)) = Has(b, rx[p]) + Has(b, rx[q]) + Has(b, rx[r])
  BY CountThree
<1> SUFFICES ASSUME TypeOK, Len(rx) >= PayloadLen + 1,
                    \A i \in Places : i # p /\ i # q /\ i # r => rx[i] \subseteq {0},
                    NEW b \in Bits \ {0},
                    (b \in rx[p]) <=> ((b \in rx[q]) <=> (b \in rx[r]))
             PROVE  ~WindowOK
  OBVIOUS
<1>2. Cardinality(With(T, b)) % 2 = 1
  <2>1. \/ b \in rx[p] /\ b \in rx[q] /\ b \in rx[r]
        \/ b \in rx[p] /\ b \notin rx[q] /\ b \notin rx[r]
        \/ b \notin rx[p] /\ b \in rx[q] /\ b \notin rx[r]
        \/ b \notin rx[p] /\ b \notin rx[q] /\ b \in rx[r]
    OBVIOUS
  <2>2. Has(b, rx[p]) + Has(b, rx[q]) + Has(b, rx[r]) \in {1, 3}
    BY <2>1 DEF Has
  <2> HIDE DEF T
  <2>3. Cardinality(With(T, b)) = Has(b, rx[p]) + Has(b, rx[q]) + Has(b, rx[r])
    BY <1>1
  <2>. QED BY <2>2, <2>3
<1>3. T \in SUBSET Places /\ \A i \in Places \ T : rx[i] \subseteq {0}
  OBVIOUS
<1> HIDE DEF T
<1>. QED BY <1>2, <1>3, FewAreRejected

\* and at four.
LEMMA FourRejected ==
  ASSUME NEW p \in Places, NEW q \in Places, NEW r \in Places, NEW t \in Places,
         p # q, p # r, q # r, p # t, q # t, r # t
  PROVE  TypeOK /\ Len(rx) >= PayloadLen + 1
         /\ (\A i \in Places : i # p /\ i # q /\ i # r /\ i # t => rx[i] \subseteq {0})
         /\ (\E b \in Bits \ {0} :
               ~(((b \in rx[p]) <=> (b \in rx[q])) <=> ((b \in rx[r]) <=> (b \in rx[t]))))
           => ~WindowOK
<1> DEFINE T == {p, q, r, t}
<1>1. \A b : Cardinality(With(T, b))
               = Has(b, rx[p]) + Has(b, rx[q]) + Has(b, rx[r]) + Has(b, rx[t])
  BY CountFour
<1> SUFFICES ASSUME TypeOK, Len(rx) >= PayloadLen + 1,
                    \A i \in Places : i # p /\ i # q /\ i # r /\ i # t
                      => rx[i] \subseteq {0},
                    NEW b \in Bits \ {0},
                    ~(((b \in rx[p]) <=> (b \in rx[q])) <=> ((b \in rx[r]) <=> (b \in rx[t])))
             PROVE  ~WindowOK
  OBVIOUS
<1>2. Cardinality(With(T, b)) % 2 = 1
  <2>1. \/ /\ ~(b \in rx[p] <=> b \in rx[q])
           /\ (b \in rx[r] <=> b \in rx[t])
        \/ /\ (b \in rx[p] <=> b \in rx[q])
           /\ ~(b \in rx[r] <=> b \in rx[t])
    OBVIOUS
  <2>2. Has(b, rx[p]) + Has(b, rx[q]) + Has(b, rx[r]) + Has(b, rx[t]) \in {1, 3}
    BY <2>1 DEF Has
  <2> HIDE DEF T
  <2>3. Cardinality(With(T, b)) = Has(b, rx[p]) + Has(b, rx[q]) + Has(b, rx[r]) + Has(b, rx[t])
    BY <1>1
  <2>. QED BY <2>2, <2>3
<1>3. T \in SUBSET Places /\ \A i \in Places \ T : rx[i] \subseteq {0}
  OBVIOUS
<1> HIDE DEF T
<1>. QED BY <1>2, <1>3, FewAreRejected

\* A window is rejected whose bytes are those of an aim correction, from h on,
\* or the part of it that is in the window, with the header of a state behind it.
LEMMA AimPositions ==
  ASSUME TypeOK, AimsStandOut, Len(rx) >= PayloadLen + 1, PayloadLen >= 2,
         NEW h \in Int, -1 <= h, h <= PayloadLen + 1,
         \A i \in Places :
           /\ i = h => rx[i] = A
           /\ i = h + 1 => rx[i] \in First
           /\ i = h + 2 => rx[i] \in Second
           /\ i = h + 3 => rx[i] = C
           /\ i \notin {h, h + 1, h + 2, h + 3} => rx[i] \subseteq {0}
  PROVE  ~WindowOK
<1> DEFINE p == h
           q == h + 1
           r == h + 2
           t == h + 3
<1>1. PayloadLen \in Nat
  BY FrameAssumption
<1>2. /\ p \in Places => rx[p] = A
      /\ q \in Places => rx[q] \in First
      /\ r \in Places => rx[r] \in Second
      /\ t \in Places => rx[t] = C
  OBVIOUS
<1>3. \A i \in Places : i # p /\ i # q /\ i # r /\ i # t => rx[i] \subseteq {0}
  OBVIOUS
<1>4. p # q /\ p # r /\ p # t /\ q # r /\ q # t /\ r # t
  OBVIOUS
<1>5. \/ p \in Places /\ q \notin Places /\ r \notin Places /\ t \notin Places
      \/ p \in Places /\ q \in Places /\ r \notin Places /\ t \notin Places
      \/ p \in Places /\ q \in Places /\ r \in Places /\ t \notin Places
      \/ p \in Places /\ q \in Places /\ r \in Places /\ t \in Places
      \/ p \notin Places /\ q \in Places /\ r \in Places /\ t \in Places
      \/ p \notin Places /\ q \notin Places /\ r \in Places /\ t \in Places
  BY <1>1 DEF Places
<1> HIDE DEF p, q, r, t
<1>7. CASE p \in Places /\ q \notin Places /\ r \notin Places /\ t \notin Places
  <2>1. \A i \in Places \ {p} : rx[i] \subseteq {0}
    BY <1>3, <1>7
  <2>. QED BY <1>2, <1>7, <2>1, HeaderIsRejected
<1>8. CASE p \in Places /\ q \in Places /\ r \notin Places /\ t \notin Places
  <2>1. rx[p] = A /\ rx[q] \in First
    BY <1>2, <1>8
  <2>2. Aims # {}
    BY <2>1 DEF First
  <2>3. PICK y : y \in Second
    BY <2>2 DEF Second
  <2>4. PICK b \in Bits \ {0} : (b \in rx[q]) # (b = 6)
    BY <2>1, <2>3, StandOut
  <2>5. (b \in rx[p]) # (b \in rx[q])
    BY <2>1, <2>4, HeaderBits
  <2>6. \A i \in Places : i # p /\ i # q => rx[i] \subseteq {0}
    BY <1>3, <1>8
  <2>. QED BY <1>4, <1>8, <2>5, <2>6, TwoRejected
<1>9. CASE p \in Places /\ q \in Places /\ r \in Places /\ t \notin Places
  <2>1. rx[p] = A /\ rx[q] \in First /\ rx[r] \in Second
    BY <1>2, <1>9
  <2>2. PICK b \in Bits \ {0} : ((b \in rx[q]) # (b \in rx[r])) # (b = 6)
    BY <2>1, StandOut
  <2>3. (b \in rx[p]) <=> ((b \in rx[q]) <=> (b \in rx[r]))
    BY <2>1, <2>2, HeaderBits
  <2>4. \A i \in Places : i # p /\ i # q /\ i # r => rx[i] \subseteq {0}
    BY <1>3, <1>9
  <2>. QED BY <1>4, <1>9, <2>3, <2>4, ThreeRejected
<1>10. CASE p \in Places /\ q \in Places /\ r \in Places /\ t \in Places
  <2>1. rx[p] = A /\ rx[q] \in First /\ rx[r] \in Second /\ rx[t] = C
    BY <1>2, <1>10
  <2>2. PICK b \in Bits \ {0} : ((b \in rx[q]) # (b \in rx[r])) # (b = 1)
    BY <2>1, StandOut
  <2>3. ~(((b \in rx[p]) <=> (b \in rx[q])) <=> ((b \in rx[r]) <=> (b \in rx[t])))
    <3>1. (b \in rx[p] <=> b = 6) /\ (b \in rx[t] <=> b \in {1, 6})
      BY <2>1, HeaderBits
    <3>. QED BY <2>2, <3>1
  <2>. QED BY <1>3, <1>4, <1>10, <2>3, FourRejected
<1>11. CASE p \notin Places /\ q \in Places /\ r \in Places /\ t \in Places
  <2>1. rx[q] \in First /\ rx[r] \in Second /\ rx[t] = C
    BY <1>2, <1>11
  <2>2. PICK b \in Bits \ {0} : ((b \in rx[q]) # (b \in rx[r])) # (b \in {1, 6})
    BY <2>1, StandOut
  <2>3. (b \in rx[q]) <=> ((b \in rx[r]) <=> (b \in rx[t]))
    BY <2>1, <2>2, HeaderBits
  <2>4. \A i \in Places : i # q /\ i # r /\ i # t => rx[i] \subseteq {0}
    BY <1>3, <1>11
  <2>. QED BY <1>4, <1>11, <2>3, <2>4, ThreeRejected
<1>12. CASE p \notin Places /\ q \notin Places /\ r \in Places /\ t \in Places
  <2>1. rx[r] \in Second /\ rx[t] = C
    BY <1>2, <1>12
  <2>2. Aims # {}
    BY <2>1 DEF Second
  <2>3. PICK x : x \in First
    BY <2>2 DEF First
  <2>4. PICK b \in Bits \ {0} : (b \in rx[r]) # (b \in {1, 6})
    BY <2>1, <2>3, StandOut
  <2>5. (b \in rx[r]) # (b \in rx[t])
    BY <2>1, <2>4, HeaderBits
  <2>6. \A i \in Places : i # r /\ i # t => rx[i] \subseteq {0}
    BY <1>3, <1>12
  <2>. QED BY <1>4, <1>12, <2>5, <2>6, TwoRejected
<1>. QED BY <1>5, <1>7, <1>8, <1>9, <1>10, <1>11, <1>12

\* The buffer is the front of the stream.
LEMMA FrontOfStream ==
  ASSUME TypeOK, Len(rx) >= PayloadLen + 1, NEW i \in Places
  PROVE  /\ i \in 1..Len(Stream) /\ Stream[i] = rx[i] /\ i \in Nat
         /\ PayloadLen \in Nat \ {0} /\ i <= PayloadLen + 1 /\ 1 <= i
<1>1. PayloadLen \in Nat \ {0} /\ i \in 1..PayloadLen + 1
  BY FrameAssumption DEF Places
<1>. QED BY <1>1, StreamBytes

\* A window with an aim correction in it, or a part of it, is rejected if what is
\* before it is plain.
LEMMA AimIsRejected ==
  ASSUME TypeOK, SticksAtRest, AimsStandOut, PayloadLen >= 2, Len(rx) >= PayloadLen + 1,
         NEW n \in Nat, NEW u \in Seq(States), NEW f, Marked(f, n, Stream, u),
         OneAim(f, n), NEW j \in 1..n, f[j].kind = "A",
         -1 <= f[j].at, f[j].at <= PayloadLen + 1,
         \A i \in Places : i < f[j].at => rx[i] \subseteq {0}
  PROVE  ~WindowOK
<1> DEFINE h == f[j].at
<1>1. /\ Stream \in Seq(Byte) /\ Len(Stream) \in Nat /\ h \in Int /\ f[j + 1].at = h + 3
      /\ PayloadLen \in Nat
  <2>1. j \in 1..n + 1 /\ FrameLen(f[j].kind) = 3
    BY DEF FrameLen
  <2>2. f[j] \in Marks /\ f[j + 1].at = f[j].at + FrameLen(f[j].kind)
    BY <2>1 DEF Marked
  <2>. QED BY <2>1, <2>2, StreamBytes, FrameAssumption DEF Marks
<1>2. ASSUME NEW i \in Places
      PROVE  /\ i = h => rx[i] = A
             /\ i = h + 1 => rx[i] \in First
             /\ i = h + 2 => rx[i] \in Second
  <2>1. i \in 1..Len(Stream) /\ Stream[i] = rx[i]
    BY FrontOfStream
  <2>. QED BY <1>1, <2>1, AimBytes
<1>3. ASSUME NEW i \in Places, h + 3 <= i
      PROVE  /\ i = h + 3 => rx[i] = C
             /\ i # h + 3 => rx[i] \subseteq {0}
  <2>1. /\ i \in 1..Len(Stream) /\ Stream[i] = rx[i] /\ i \in Nat
        /\ PayloadLen \in Nat \ {0} /\ i <= PayloadLen + 1
    BY FrontOfStream
  <2>2. j + 1 \in 1..n
    <3>1. f[n + 1].at = Len(Stream) + 1
      BY DEF Marked
    <3>2. j # n
      BY <1>1, <1>3, <2>1, <3>1
    <3>. QED BY <3>2
  <2>3. f[j + 1].kind = "C"
    <3>1. f[j + 1].kind # "A"
      BY <2>2 DEF OneAim
    <3>2. f[j + 1] \in Marks
      BY <2>2 DEF Marked
    <3>. QED BY <3>1, <3>2 DEF Marks
  <2>4. f[j + 1].at <= i /\ i < f[j + 1].at + PayloadLen + 2
    BY <1>1, <1>3, <2>1, SMTT(30)
  <2>5. /\ i = f[j + 1].at => Stream[i] = C
        /\ i # f[j + 1].at => Stream[i] \subseteq {0}
    <3> HIDE DEF h
    <3> DEFINE k == j + 1
    <3>1. /\ k \in 1..n /\ f[k].kind = "C" /\ i \in 1..Len(Stream)
          /\ f[k].at <= i /\ i < f[k].at + PayloadLen + 2
      BY <2>1, <2>2, <2>3, <2>4
    <3> HIDE DEF k
    <3>2. (i = f[k].at => Stream[i] = C) /\ (i # f[k].at => Stream[i] \subseteq {0})
      BY <1>1, <3>1, StateBytes
    <3>. QED BY <3>2 DEF k
  <2>. QED BY <1>1, <2>1, <2>5
<1>4. ASSUME NEW i \in Places
      PROVE  /\ i = h => rx[i] = A
             /\ i = h + 1 => rx[i] \in First
             /\ i = h + 2 => rx[i] \in Second
             /\ i = h + 3 => rx[i] = C
             /\ i \notin {h, h + 1, h + 2, h + 3} => rx[i] \subseteq {0}
  <2>1. i \in Nat
    BY FrontOfStream
  <2>2. CASE h + 3 <= i
    BY <1>1, <1>2, <1>3, <2>1, <2>2
  <2>3. CASE i < h
    BY <1>1, <1>2, <2>1, <2>3
  <2>4. CASE ~(h + 3 <= i) /\ ~(i < h)
    <3>1. i = h \/ i = h + 1 \/ i = h + 2
      <4> HIDE DEF h
      <4>1. h \in Int
        BY <1>1
      <4>. QED BY <2>1, <2>4, <4>1
    <3>. QED BY <1>1, <1>2, <2>1, <3>1, SMTT(30)
  <2>. QED BY <2>2, <2>3, <2>4
<1> HIDE DEF h
<1>5. -1 <= h /\ h <= PayloadLen + 1 /\ h \in Int
  BY <1>1 DEF h
<1>. QED BY <1>4, <1>5, AimPositions

\* The place of a state frame in the stream, seen from the window.
LEMMA StateInWindow ==
  ASSUME TypeOK, SticksAtRest, Len(rx) >= PayloadLen + 1,
         NEW n \in Nat, NEW u \in Seq(States), NEW f, Marked(f, n, Stream, u),
         NEW k \in 1..n, f[k].kind = "C", NEW i \in Places,
         f[k].at <= i, i < f[k].at + PayloadLen + 2
  PROVE  /\ i = f[k].at => rx[i] = C
         /\ i # f[k].at => rx[i] \subseteq {0}
         /\ u[f[k].owes] \in States
         /\ rx[i] = StateFrame(u[f[k].owes])[i - f[k].at + 1]
<1>1. i \in 1..Len(Stream) /\ Stream[i] = rx[i] /\ Stream \in Seq(Byte)
  BY FrontOfStream, StreamBytes
<1>2. /\ i = f[k].at => Stream[i] = C
      /\ i # f[k].at => Stream[i] \subseteq {0}
      /\ u[f[k].owes] \in States
      /\ Stream[i] = StateFrame(u[f[k].owes])[i - f[k].at + 1]
  BY <1>1, StateBytes
<1>. QED BY <1>1, <1>2

\* The bytes behind a 'C' that stood in front of the stream.
LEMMA BehindHeader ==
  ASSUME SticksAtRest, NEW n \in Nat, NEW s \in Seq(Byte), NEW u \in Seq(States),
         NEW f, Marked(f, n, s, u), NEW k \in 1..n, f[k].kind = "C", f[k].at = 0,
         NEW i \in Places, i \in 1..Len(s)
  PROVE  /\ s[i] = StateFrame(u[f[k].owes])[i + 1] /\ s[i] \subseteq {0}
         /\ u[f[k].owes] \in States
<1>1. PayloadLen \in Nat \ {0} /\ i \in 1..PayloadLen + 1
  BY FrameAssumption DEF Places
<1>2. f[k].at <= i /\ i < f[k].at + PayloadLen + 2
  BY <1>1
<1>3. ASSUME NEW j \in 1..n, f[j].kind = "C", f[j].at <= i, i < f[j].at + PayloadLen + 2
      PROVE  /\ i # f[j].at => s[i] \subseteq {0}
             /\ u[f[j].owes] \in States
             /\ s[i] = StateFrame(u[f[j].owes])[i - f[j].at + 1]
  BY <1>3, StateBytes
<1>4. i # f[k].at /\ i - f[k].at + 1 = i + 1
  BY <1>1
<1>. QED BY <1>2, <1>3, <1>4

\* A window behind a 'C' is the payload of its frame and is accepted, if no byte
\* of it was lost or damaged.
LEMMA WindowOfFrame ==
  ASSUME TypeOK, SticksAtRest, Len(rx) >= PayloadLen + 1,
         NEW s \in Seq(Byte), \A i \in Places : i \in 1..Len(s) /\ rx[i] = s[i],
         NEW n \in Nat, NEW u \in Seq(States), NEW f, Marked(f, n, s, u),
         NEW k \in 1..n, f[k].kind = "C", f[k].at = 0
  PROVE  WindowOK /\ \E j \in 1..Len(u) : Window = u[j]
<1> DEFINE p == u[f[k].owes]
<1>1. PayloadLen \in Nat \ {0} /\ Len(rx) \in Nat
  BY FrameAssumption DEF TypeOK
<1>2. f[k].owes \in 1..Len(u)
  BY OwedStates
<1>3. p \in States
  BY <1>2, ElementOfSeq
<1>4. ASSUME NEW i \in Places PROVE rx[i] = StateFrame(p)[i + 1]
  BY BehindHeader
<1>5. ASSUME NEW i \in 1..PayloadLen PROVE rx[i] = p[i]
  <2>1. i \in Places
    BY <1>1 DEF Places
  <2>. QED BY <1>3, <1>4, <2>1, StateFrameBytes
<1>6. rx[PayloadLen + 1] = Checksum(p)
  <2>1. PayloadLen + 1 \in Places /\ (PayloadLen + 1) + 1 = PayloadLen + 2
    BY <1>1 DEF Places
  <2>. QED BY <1>3, <1>4, <2>1, StateFrameBytes
<1>7. Window = p
  <2>1. /\ Window \in [1..PayloadLen -> Byte]
        /\ \A i \in 1..PayloadLen : Window[i] = rx[i]
    BY <1>1, WindowBytes
  <2>2. p \in [1..PayloadLen -> Byte]
    BY <1>3, FrameAssumption
  <2>3. \A i \in 1..PayloadLen : Window[i] = p[i]
    BY <1>5, <2>1
  <2> HIDE DEF p
  <2>. QED BY <2>1, <2>2, <2>3, SamePayload
<1>. QED BY <1>2, <1>6, <1>7 DEF WindowOK

\* Wherever a window begins in a stream of frames with at most one aim correction
\* in it, it is rejected or it is the payload of a frame.
LEMMA WindowInFrames ==
  ASSUME TypeOK, SticksAtRest, AimsStandOut, PayloadLen >= 2, Len(rx) >= PayloadLen + 1,
         NEW n \in Nat, NEW u \in Seq(States), NEW f, Marked(f, n, Stream, u),
         f[1].at <= 1, OneAim(f, n), WindowOK
  PROVE  \E j \in 1..Len(u) : Window = u[j]
<1>1. /\ Stream \in Seq(Byte) /\ Stream # << >> /\ Len(Stream) \in Nat
      /\ PayloadLen \in Nat \ {0} /\ Len(Stream) >= PayloadLen + 1
  BY StreamBytes, FrameAssumption, EmptySeq
<1>2. PICK k \in 1..n : f[k].at <= 1 /\ 1 < f[k + 1].at
  BY <1>1, InAFrame
<1> DEFINE h == f[k].at
           e == f[k + 1].at
<1>3. /\ h \in Int /\ e \in Int /\ e = h + FrameLen(f[k].kind)
      /\ f[k].kind \in {"C", "A"}
  <2>1. k \in 1..n + 1 /\ k + 1 \in 1..n + 1
    OBVIOUS
  <2>. QED BY <2>1 DEF Marked, Marks
<1>4. \A i \in Places : i \in Nat /\ 1 <= i /\ i <= PayloadLen + 1
  BY FrontOfStream
<1>5. CASE f[k].kind = "A"
  <2>1. -1 <= f[k].at /\ f[k].at <= PayloadLen + 1
    BY <1>1, <1>2, <1>3, <1>5 DEF FrameLen
  <2>2. \A i \in Places : i < f[k].at => rx[i] \subseteq {0}
    BY <1>2, <1>3, <1>4
  <2>. QED BY <1>5, <2>1, <2>2, AimIsRejected
<1>6. CASE f[k].kind = "C"
  <2>1. e = h + PayloadLen + 2
    <3>1. FrameLen(f[k].kind) = PayloadLen + 2
      BY <1>6 DEF FrameLen
    <3> HIDE DEF h, e
    <3>. QED BY <1>1, <1>3, <3>1
  <2>2. ASSUME NEW i \in Places, i < e
        PROVE  /\ i = h => rx[i] = C
               /\ i # h => rx[i] \subseteq {0}
    <3>1. f[k].at <= i /\ i < f[k].at + PayloadLen + 2
      BY <1>2, <1>3, <1>4, <2>1, <2>2
    <3>. QED BY <1>6, <3>1, StateInWindow
  <2>3. CASE h = 1
    <3>1. 1 \in Places
      BY <1>1 DEF Places
    <3>2. \A i \in Places : i < e
      BY <1>1, <1>4, <2>1, <2>3
    <3>3. rx[1] = C /\ \A i \in Places \ {1} : rx[i] \subseteq {0}
      BY <2>2, <2>3, <3>1, <3>2
    <3>. QED BY <3>1, <3>3, HeaderIsRejected
  <2>4. CASE h = 0
    <3>1. \A i \in Places : i \in 1..Len(Stream) /\ rx[i] = Stream[i]
      BY FrontOfStream
    <3>. QED BY <1>1, <1>6, <2>4, <3>1, WindowOfFrame
  <2>5. CASE h < 0
    <3>1. e \in Places /\ e \in 2..PayloadLen + 1
      BY <1>1, <1>2, <1>3, <2>1, <2>5 DEF Places
    <3>2. k + 1 \in 1..n
      <4>1. f[n + 1].at = Len(Stream) + 1
        BY DEF Marked
      <4>2. k # n
        BY <1>1, <3>1, <4>1
      <4>. QED BY <4>2
    <3>3. \A i \in Places : i < e => rx[i] \subseteq {0}
      BY <1>3, <1>4, <2>2, <2>5
    <3>4. CASE f[k + 1].kind = "A"
      <4> DEFINE j == k + 1
      <4>1. /\ j \in 1..n /\ f[j].kind = "A" /\ -1 <= f[j].at /\ f[j].at <= PayloadLen + 1
            /\ \A i \in Places : i < f[j].at => rx[i] \subseteq {0}
        BY <1>1, <3>1, <3>2, <3>3, <3>4
      <4> HIDE DEF j
      <4>. QED BY <4>1, AimIsRejected
    <3>5. CASE f[k + 1].kind = "C"
      <4>1. ASSUME NEW i \in Places, e <= i
            PROVE  /\ i = e => rx[i] = C
                   /\ i # e => rx[i] \subseteq {0}
        <5> DEFINE j == k + 1
        <5>1. /\ j \in 1..n /\ f[j].kind = "C"
              /\ f[j].at <= i /\ i < f[j].at + PayloadLen + 2
          BY <1>1, <1>4, <3>1, <3>2, <3>5, <4>1
        <5> HIDE DEF j
        <5>2. /\ i = f[j].at => rx[i] = C
              /\ i # f[j].at => rx[i] \subseteq {0}
          BY <5>1, StateInWindow
        <5>. QED BY <5>2 DEF j
      <4>2. rx[e] = C
        BY <1>3, <3>1, <4>1
      <4>3. \A i \in Places \ {e} : rx[i] \subseteq {0}
        BY <1>3, <1>4, <3>3, <4>1
      <4>. QED BY <3>1, <4>2, <4>3, HeaderIsRejected
    <3>6. f[k + 1].kind \in {"C", "A"}
      <4>1. k + 1 \in 1..n + 1
        OBVIOUS
      <4>. QED BY <4>1 DEF Marked, Marks
    <3>. QED BY <3>4, <3>5, <3>6
  <2>. QED BY <1>2, <1>3, <2>3, <2>4, <2>5
<1>. QED BY <1>3, <1>5, <1>6

-----------------------------------------------------------------------------
(* The stream after one byte of it was lost or damaged.                    *)

\* t is the stream s with its byte D damaged,
Damaged(s, t, D) ==
  Len(t) = Len(s) /\ t[D] # s[D] /\ \A i \in 1..Len(t) : i # D => t[i] = s[i]

\* or lost.
Lost(s, t, D) ==
  Len(t) = Len(s) - 1 /\ \A i \in 1..Len(t) : t[i] = IF i < D THEN s[i] ELSE s[i + 1]

Flawed(s, t, D) == D \in 1..Len(s) /\ (Damaged(s, t, D) \/ Lost(s, t, D))

\* What is written later comes unchanged.
LEMMA FlawGrows ==
  ASSUME NEW s \in Seq(Byte), NEW t \in Seq(Byte), NEW x \in Seq(Byte), NEW D,
         Flawed(s, t, D)
  PROVE  Flawed(s \o x, t \o x, D)
<1> DEFINE v == s \o x
           w == t \o x
<1>1. Len(s) \in Nat /\ Len(t) \in Nat /\ Len(x) \in Nat /\ D \in 1..Len(s)
  BY DEF Flawed
<1>2. /\ Len(v) = Len(s) + Len(x)
      /\ \A i \in 1..Len(s) + Len(x) : v[i] = IF i <= Len(s) THEN s[i] ELSE x[i - Len(s)]
  <2>1. /\ Len(s \o x) = Len(s) + Len(x)
        /\ \A i \in 1..Len(s) + Len(x) :
             (s \o x)[i] = IF i <= Len(s) THEN s[i] ELSE x[i - Len(s)]
    BY ConcatProperties
  <2>. QED BY <2>1, Zenon
<1>3. /\ Len(w) = Len(t) + Len(x)
      /\ \A i \in 1..Len(t) + Len(x) : w[i] = IF i <= Len(t) THEN t[i] ELSE x[i - Len(t)]
  <2>1. /\ Len(t \o x) = Len(t) + Len(x)
        /\ \A i \in 1..Len(t) + Len(x) :
             (t \o x)[i] = IF i <= Len(t) THEN t[i] ELSE x[i - Len(t)]
    BY ConcatProperties
  <2>. QED BY <2>1, Zenon
<1> HIDE DEF v, w
<1>4. CASE Damaged(s, t, D)
  <2>1. Len(t) = Len(s) /\ t[D] # s[D] /\ \A i \in 1..Len(t) : i # D => t[i] = s[i]
    BY <1>4 DEF Damaged
  <2>2. v[D] = s[D] /\ w[D] = t[D] /\ D \in 1..Len(v)
    BY <1>1, <1>2, <1>3, <2>1
  <2>3. ASSUME NEW i \in 1..Len(w), i # D PROVE w[i] = v[i]
    BY <1>1, <1>2, <1>3, <2>1, <2>3
  <2>. QED BY <1>2, <1>3, <2>1, <2>2, <2>3 DEF Flawed, Damaged, v, w
<1>5. CASE Lost(s, t, D)
  <2>1. Len(t) = Len(s) - 1 /\ \A i \in 1..Len(t) : t[i] = IF i < D THEN s[i] ELSE s[i + 1]
    BY <1>5 DEF Lost
  <2>2. ASSUME NEW i \in 1..Len(w) PROVE w[i] = IF i < D THEN v[i] ELSE v[i + 1]
    <3>1. CASE i <= Len(t)
      <4>1. i \in 1..Len(t) /\ w[i] = t[i]
        BY <1>1, <1>3, <3>1
      <4>2. v[i] = s[i] /\ v[i + 1] = s[i + 1]
        BY <1>1, <1>2, <2>1, <4>1
      <4>. QED BY <2>1, <4>1, <4>2
    <3>2. CASE ~(i <= Len(t))
      <4>1. w[i] = x[i - Len(t)] /\ ~(i < D)
        BY <1>1, <1>3, <2>1, <3>2, SMTT(30)
      <4>2. /\ i + 1 \in 1..Len(s) + Len(x) /\ ~(i + 1 <= Len(s))
            /\ (i + 1) - Len(s) = i - Len(t)
        BY <1>1, <1>3, <2>1, <3>2
      <4>3. v[i + 1] = x[(i + 1) - Len(s)]
        BY <1>2, <4>2
      <4>. QED BY <4>1, <4>2, <4>3
    <3>. QED BY <3>1, <3>2
  <2>3. Len(w) = Len(v) - 1 /\ D \in 1..Len(v)
    BY <1>1, <1>2, <1>3, <2>1
  <2>4. Lost(v, w, D)
    BY <2>2, <2>3 DEF Lost
  <2>. QED BY <2>3, <2>4 DEF Flawed, v, w
<1>. QED BY <1>4, <1>5 DEF Flawed

\* The flaw comes nearer when bytes in front of it are taken.
LEMMA FlawMoves ==
  ASSUME NEW s \in Seq(Byte), NEW t \in Seq(Byte), NEW D, Flawed(s, t, D),
         NEW m \in 0..Len(t), m < D, NEW v \in Seq(Byte), NEW w \in Seq(Byte),
         Len(v) = Len(s) - m, \A i \in 1..Len(v) : v[i] = s[i + m],
         Len(w) = Len(t) - m, \A i \in 1..Len(w) : w[i] = t[i + m]
  PROVE  Flawed(v, w, D - m) /\ \A i \in 1..m : t[i] = s[i]
<1>1. Len(s) \in Nat /\ Len(t) \in Nat /\ m \in Nat /\ D \in 1..Len(s) /\ D \in Nat
  BY DEF Flawed
<1>2. D - m \in 1..Len(v) /\ (D - m) + m = D
  BY <1>1
<1>3. CASE Damaged(s, t, D)
  <2>1. Len(t) = Len(s) /\ t[D] # s[D] /\ \A i \in 1..Len(t) : i # D => t[i] = s[i]
    BY <1>3 DEF Damaged
  <2>2. ASSUME NEW i \in 1..Len(w), i # D - m PROVE w[i] = v[i]
    <3>1. i + m \in 1..Len(t) /\ i + m # D /\ i \in 1..Len(v)
      BY <1>1, <2>1, <2>2
    <3>. QED BY <2>1, <3>1
  <2>3. w[D - m] # v[D - m]
    BY <1>1, <1>2, <2>1
  <2>4. Damaged(v, w, D - m)
    BY <1>1, <2>1, <2>2, <2>3 DEF Damaged
  <2>5. \A i \in 1..m : t[i] = s[i]
    BY <1>1, <2>1
  <2>. QED BY <1>2, <2>4, <2>5 DEF Flawed
<1>4. CASE Lost(s, t, D)
  <2>1. Len(t) = Len(s) - 1 /\ \A i \in 1..Len(t) : t[i] = IF i < D THEN s[i] ELSE s[i + 1]
    BY <1>4 DEF Lost
  <2>2. ASSUME NEW i \in 1..Len(w) PROVE w[i] = IF i < D - m THEN v[i] ELSE v[i + 1]
    <3>1. /\ i + m \in 1..Len(t) /\ i \in 1..Len(v) /\ i + 1 \in 1..Len(v)
          /\ (i + m) + 1 = (i + 1) + m /\ (i < D - m <=> i + m < D)
      <4>1. Len(w) = Len(v) - 1 /\ Len(v) \in Nat
        BY <1>1, <2>1
      <4>2. i \in Nat /\ 1 <= i /\ i <= Len(w) /\ Len(w) = Len(t) - m
        BY <1>1, <2>1
      <4>3. i + m \in 1..Len(t)
        BY <1>1, <2>1, <4>2
      <4>4. i \in 1..Len(v) /\ i + 1 \in 1..Len(v)
        BY <4>1, <4>2
      <4>5. (i + m) + 1 = (i + 1) + m /\ (i < D - m <=> i + m < D)
        BY <1>1, <4>2
      <4>. QED BY <4>3, <4>4, <4>5
    <3>2. w[i] = t[i + m] /\ v[i] = s[i + m] /\ v[i + 1] = s[(i + 1) + m]
      BY <3>1
    <3>3. t[i + m] = IF i + m < D THEN s[i + m] ELSE s[(i + m) + 1]
      BY <2>1, <3>1
    <3>4. CASE i + m < D
      BY <3>1, <3>2, <3>3, <3>4
    <3>5. CASE ~(i + m < D)
      BY <3>1, <3>2, <3>3, <3>5
    <3>. QED BY <3>4, <3>5
  <2>3. Len(w) = Len(v) - 1
    BY <1>1, <2>1
  <2>4. Lost(v, w, D - m)
    BY <2>2, <2>3 DEF Lost
  <2>5. ASSUME NEW i \in 1..m PROVE t[i] = s[i]
    <3>1. i \in 1..Len(t) /\ i < D
      BY <1>1
    <3>. QED BY <2>1, <3>1
  <2>. QED BY <1>2, <2>4, <2>5 DEF Flawed
<1>. QED BY <1>3, <1>4 DEF Flawed

\* The byte that is lost or damaged is the one that would have arrived next.
LEMMA FlawStarts ==
  ASSUME TypeOK, TypeOK', LoseByte \/ DamageByte
  PROVE  Flawed(Stream, Stream', Len(rx) + 1)
<1> DEFINE D == Len(rx) + 1
<1>1. /\ Stream \in Seq(Byte) /\ Len(Stream) = Len(rx) + Len(line)
      /\ Len(rx) \in Nat /\ Len(line) \in Nat
      /\ \A i \in 1..Len(rx) + Len(line) :
           Stream[i] = IF i <= Len(rx) THEN rx[i] ELSE line[i - Len(rx)]
  BY StreamBytes
<1>2. rx' = rx
  BY DEF LoseByte, DamageByte
<1>3. /\ Stream' \in Seq(Byte) /\ Len(Stream') = Len(rx) + Len(line')
      /\ \A i \in 1..Len(rx) + Len(line') :
           Stream'[i] = IF i <= Len(rx) THEN rx[i] ELSE line'[i - Len(rx)]
  <2>1. rx' \in Seq(Byte) /\ line' \in Seq(Byte)
    BY DEF TypeOK
  <2>. QED BY <1>2, <2>1, ConcatProperties DEF Stream
<1>4. line \in Seq(Byte) /\ Len(line) \in Nat \ {0} /\ Head(line) = line[1]
  <2>1. line \in Seq(Byte) /\ line # << >>
    BY DEF LoseByte, DamageByte, TypeOK
  <2>. QED BY <2>1, EmptySeq
<1>5. D \in 1..Len(Stream) /\ D - Len(rx) = 1 /\ ~(D <= Len(rx)) /\ D \in Nat
  BY <1>1, <1>4
<1>6. CASE DamageByte
  <2>1. PICK b \in Noise \ {Head(line)} : line' = [line EXCEPT ![1] = b]
    BY <1>6 DEF DamageByte
  <2>2. 1 \in DOMAIN line
    BY <1>4
  <2>3. /\ Len(line') = Len(line) /\ line'[1] = b
        /\ \A i \in 1..Len(line) : i # 1 => line'[i] = line[i]
    BY <1>4, <2>1, <2>2
  <2>4. Stream[D] = line[1] /\ Stream'[D] = line'[1]
    BY <1>1, <1>3, <1>5, <2>3
  <2>5. ASSUME NEW i \in 1..Len(Stream'), i # D PROVE Stream'[i] = Stream[i]
    <3>1. CASE i <= Len(rx)
      BY <1>1, <1>3, <2>3, <3>1
    <3>2. CASE ~(i <= Len(rx))
      <4>1. Stream'[i] = line'[i - Len(rx)] /\ Stream[i] = line[i - Len(rx)]
        BY <1>1, <1>3, <2>3, <3>2
      <4>2. i - Len(rx) \in 1..Len(line) /\ i - Len(rx) # 1
        BY <1>1, <1>3, <2>3, <2>5, <3>2
      <4>. QED BY <2>3, <4>1, <4>2
    <3>. QED BY <3>1, <3>2
  <2>6. Len(Stream') = Len(Stream)
    BY <1>1, <1>3, <2>3
  <2> HIDE DEF D
  <2>7. Damaged(Stream, Stream', D)
    BY <1>4, <2>1, <2>3, <2>4, <2>5, <2>6 DEF Damaged
  <2>. QED BY <1>5, <2>7 DEF Flawed, D
<1>7. CASE LoseByte
  <2>1. Len(line') = Len(line) - 1 /\ \A i \in 1..Len(line') : line'[i] = line[i + 1]
    BY <1>4, <1>7, EmptySeq, HeadTailProperties DEF LoseByte
  <2>2. Len(Stream') = Len(Stream) - 1
    BY <1>1, <1>3, <1>4, <2>1
  <2>3. ASSUME NEW i \in 1..Len(Stream')
        PROVE  Stream'[i] = IF i < D THEN Stream[i] ELSE Stream[i + 1]
    <3>1. CASE i <= Len(rx)
      BY <1>1, <1>3, <1>4, <2>1, <3>1
    <3>2. CASE ~(i <= Len(rx))
      <4>1. Stream'[i] = line'[i - Len(rx)]
        BY <1>3, <3>2
      <4>2. /\ i - Len(rx) \in 1..Len(line') /\ (i - Len(rx)) + 1 = (i + 1) - Len(rx)
            /\ i + 1 \in 1..Len(rx) + Len(line) /\ ~(i + 1 <= Len(rx)) /\ ~(i < D)
        BY <1>1, <1>3, <1>4, <2>1, <3>2
      <4>3. Stream[i + 1] = line[(i + 1) - Len(rx)]
        BY <1>1, <4>2
      <4>. QED BY <2>1, <4>1, <4>2, <4>3
    <3>. QED BY <3>1, <3>2
  <2> HIDE DEF D
  <2>4. Lost(Stream, Stream', D)
    BY <2>2, <2>3 DEF Lost
  <2>. QED BY <1>5, <2>4 DEF Flawed, D
<1>. QED BY <1>6, <1>7

\* The damaged payload, or the damaged byte that it is checked with, is noticed.
LEMMA DamageIsNoticed ==
  ASSUME TypeOK, Len(rx) >= PayloadLen + 1, NEW p \in [1..PayloadLen -> Byte],
         NEW s, \A i \in 1..PayloadLen : s[i] = p[i], s[PayloadLen + 1] = Checksum(p),
         NEW D \in Places, rx[D] # s[D], \A i \in Places : i # D => rx[i] = s[i]
  PROVE  ~WindowOK
<1>1. PayloadLen \in Nat \ {0} /\ Len(rx) \in Nat
  BY FrameAssumption DEF TypeOK
<1>2. Window \in [1..PayloadLen -> Byte] /\ \A i \in 1..PayloadLen : Window[i] = rx[i]
  BY <1>1, WindowBytes
<1>3. \A i \in 1..PayloadLen : i \in Places /\ i # PayloadLen + 1
  BY <1>1 DEF Places
<1>4. CASE D = PayloadLen + 1
  <2>1. \A i \in 1..PayloadLen : Window[i] = p[i]
    BY <1>2, <1>3, <1>4
  <2>2. Window = p
    BY <1>2, <2>1, SamePayload
  <2>. QED BY <1>4, <2>2 DEF WindowOK
<1>5. CASE D # PayloadLen + 1
  <2>1. D \in 1..PayloadLen
    BY <1>1, <1>5 DEF Places
  <2>2. PayloadLen + 1 \in Places /\ rx[PayloadLen + 1] = Checksum(p)
    BY <1>1, <1>5 DEF Places
  <2>3. rx[D] \in Byte /\ p[D] \in Byte
    BY <1>2, <2>1
  <2>4. PICK b \in Bits : (b \in rx[D]) # (b \in p[D])
    <3>1. rx[D] # p[D]
      BY <2>1
    <3>. QED BY <2>3, <3>1 DEF Byte
  <2> DEFINE P == {i \in 1..PayloadLen : b \in p[i]}
             Q == {i \in 1..PayloadLen : b \in rx[i]}
  <2>5. IsFiniteSet(P) /\ IsFiniteSet(Q)
    <3>1. P \subseteq 1..PayloadLen /\ Q \subseteq 1..PayloadLen
      OBVIOUS
    <3>2. IsFiniteSet(1..PayloadLen)
      <4>1. 1 \in Int /\ PayloadLen \in Int
        BY <1>1
      <4>. QED BY <4>1, FS_Interval
    <3> HIDE DEF P, Q
    <3>. QED BY <3>1, <3>2, FS_Subset
  <2>6. \/ P = Q \union {D} /\ D \notin Q
        \/ Q = P \union {D} /\ D \notin P
    <3>1. \A i \in 1..PayloadLen : i # D => rx[i] = p[i]
      BY <1>3
    <3>. QED BY <2>1, <2>4, <3>1
  <2>7. (b \in Checksum(p) <=> Cardinality(P) % 2 = 1)
    <3>1. DOMAIN p = 1..PayloadLen
      OBVIOUS
    <3>. QED BY <3>1 DEF Checksum
  <2>8. (b \in Checksum(Window) <=> Cardinality(Q) % 2 = 1)
    <3>1. {i \in DOMAIN Window : b \in Window[i]} = Q
      BY <1>2
    <3>. QED BY <3>1 DEF Checksum
  <2> HIDE DEF P, Q
  <2>9. Cardinality(P) \in Nat /\ Cardinality(Q) \in Nat
    BY <2>5, FS_CardinalityType
  <2>10. Cardinality(P) = Cardinality(Q) + 1 \/ Cardinality(Q) = Cardinality(P) + 1
    BY <2>5, <2>6, FS_AddElement
  <2>11. (Cardinality(P) % 2 = 1) # (Cardinality(Q) % 2 = 1)
    <3>1. \A x, y \in Nat : x = y + 1 => (x % 2 = 1) # (y % 2 = 1)
      OBVIOUS
    <3>. QED BY <2>9, <2>10, <3>1
  <2>. QED BY <2>2, <2>7, <2>8, <2>11 DEF WindowOK
<1>. QED BY <1>4, <1>5

\* A window behind a 'C' with a byte of it lost or damaged is rejected.
LEMMA FlawedIsRejected ==
  ASSUME TypeOK, SticksAtRest, Len(rx) >= PayloadLen + 1,
         NEW n \in Nat, NEW s \in Seq(Byte), NEW u \in Seq(States), NEW f,
         Marked(f, n, s, u), NEW k \in 1..n, f[k].kind = "C", f[k].at = 0,
         NEW D, Flawed(s, Stream, D), D <= PayloadLen + 1
  PROVE  ~WindowOK
<1> DEFINE p == u[f[k].owes]
<1>1. /\ PayloadLen \in Nat \ {0} /\ Len(rx) \in Nat /\ Len(Stream) \in Nat
      /\ Len(Stream) >= PayloadLen + 1 /\ Len(s) \in Nat /\ Len(s) >= PayloadLen + 1
      /\ D \in 1..Len(s) /\ D \in Places
  <2>1. /\ PayloadLen \in Nat \ {0} /\ Len(rx) \in Nat /\ Len(Stream) \in Nat
        /\ Len(Stream) >= PayloadLen + 1 /\ Len(s) \in Nat
    BY StreamBytes, FrameAssumption DEF TypeOK
  <2>2. Len(s) >= PayloadLen + 1
    BY <2>1 DEF Flawed, Damaged, Lost
  <2>3. D \in 1..Len(s)
    BY DEF Flawed
  <2>. QED BY <2>1, <2>2, <2>3 DEF Places
<1>2. \A i \in Places : i \in Nat /\ 1 <= i /\ i <= PayloadLen + 1
  BY FrontOfStream
<1>3. \A i \in Places : i \in 1..Len(Stream) /\ Stream[i] = rx[i]
  BY FrontOfStream
<1>4. ASSUME NEW i \in Places
      PROVE  s[i] = StateFrame(p)[i + 1] /\ s[i] \subseteq {0} /\ p \in States
  <2>1. i \in 1..Len(s)
    BY <1>1, <1>2
  <2>. QED BY <2>1, BehindHeader
<1>5. CASE Damaged(s, Stream, D)
  <2>1. Stream[D] # s[D] /\ \A i \in 1..Len(Stream) : i # D => Stream[i] = s[i]
    BY <1>5 DEF Damaged
  <2>2. rx[D] # s[D] /\ \A i \in Places : i # D => rx[i] = s[i]
    BY <1>1, <1>3, <2>1
  <2>3. p \in States /\ p \in [1..PayloadLen -> Byte]
    BY <1>1, <1>4, FrameAssumption
  <2>4. ASSUME NEW i \in 1..PayloadLen PROVE s[i] = p[i]
    <3>1. i \in Places
      BY <1>1 DEF Places
    <3>. QED BY <1>4, <2>3, <3>1, StateFrameBytes
  <2>5. s[PayloadLen + 1] = Checksum(p)
    <3>1. PayloadLen + 1 \in Places /\ (PayloadLen + 1) + 1 = PayloadLen + 2
      BY <1>1 DEF Places
    <3>. QED BY <1>4, <2>3, <3>1, StateFrameBytes
  <2> HIDE DEF p
  <2>. QED BY <1>1, <2>2, <2>3, <2>4, <2>5, DamageIsNoticed
<1>6. CASE Lost(s, Stream, D)
  <2> DEFINE e == PayloadLen + 1
  <2>1. /\ Len(Stream) = Len(s) - 1
        /\ \A i \in 1..Len(Stream) : Stream[i] = IF i < D THEN s[i] ELSE s[i + 1]
    BY <1>6 DEF Lost
  <2>2. e \in Places /\ e + 1 \in 1..Len(s) /\ ~(e < D) /\ e \in Int
    BY <1>1, <2>1 DEF Places
  <2>3. ASSUME NEW i \in Places \ {e} PROVE rx[i] \subseteq {0}
    <3>1. CASE i < D
      BY <1>3, <1>4, <2>1, <3>1
    <3>2. CASE ~(i < D)
      <4>1. i + 1 \in Places
        BY <1>1, <1>2 DEF Places
      <4>2. rx[i] = s[i + 1]
        BY <1>3, <2>1, <3>2
      <4>. QED BY <1>4, <4>1, <4>2
    <3>. QED BY <3>1, <3>2
  <2>4. rx[e] = s[e + 1]
    BY <1>3, <2>1, <2>2
  <2>5. /\ f[k + 1].at = e + 1 /\ k + 1 \in 1..n /\ f[k + 1].kind \in {"C", "A"}
    <3>1. f[k + 1].at = f[k].at + FrameLen(f[k].kind) /\ FrameLen(f[k].kind) = PayloadLen + 2
      BY DEF Marked, FrameLen
    <3>2. f[n + 1].at = Len(s) + 1
      BY DEF Marked
    <3>3. k # n
      BY <1>1, <2>2, <3>1, <3>2
    <3>4. k + 1 \in 1..n + 1
      OBVIOUS
    <3>5. f[k + 1] \in Marks
      BY <3>4 DEF Marked
    <3>. QED BY <1>1, <3>1, <3>3, <3>5 DEF Marks
  <2>6. s[e + 1] \in {C, A}
    <3> DEFINE j == k + 1
               i == e + 1
    <3>1. /\ j \in 1..n /\ f[j].at = i /\ f[j].kind \in {"C", "A"} /\ i \in 1..Len(s)
          /\ i \in Int /\ i < i + PayloadLen + 2
      BY <1>1, <2>2, <2>5, SMTT(30)
    <3> HIDE DEF i, j
    <3>2. CASE f[j].kind = "C"
      <4>1. f[j].at <= i /\ i < f[j].at + PayloadLen + 2
        BY <3>1
      <4>. QED BY <3>1, <3>2, <4>1, StateBytes DEF i
    <3>3. CASE f[j].kind = "A"
      BY <3>1, <3>3, AimBytes DEF i
    <3>. QED BY <3>1, <3>2, <3>3
  <2> HIDE DEF e
  <2>. QED BY <2>2, <2>3, <2>4, <2>6, HeaderIsRejected
<1>. QED BY <1>5, <1>6 DEF Flawed

-----------------------------------------------------------------------------
(* The frames in the stream, while one byte at most is lost or damaged.    *)

\* f marks the frames that end s, of states u that were sent; the first of them
\* begins at the front of s or before it.
Framed(s, u, n, f) ==
  /\ s \in Seq(Byte) /\ u \in Seq(forwarded) /\ n \in Nat
  /\ Marked(f, n, s, u) /\ f[1].at <= 1 /\ OneAim(f, n)

\* The parser is at the beginning of a frame, or behind its header.
OnFrame(f, n) ==
  /\ currentCommand = "none" => \E k \in 1..n + 1 : f[k].at = 1
  /\ currentCommand # "none" => \E k \in 1..n : f[k].at = 0 /\ f[k].kind = currentCommand

\* The stream is s, with the parser anywhere in it once a byte went wrong; or the
\* byte that went wrong is still in it, and the parser is in step with the frames.
Follows(s, n, f) ==
  \/ Stream = s /\ (faults = 0 => OnFrame(f, n))
  \/ faults = 1 /\ OnFrame(f, n) /\ \E D : Flawed(s, Stream, D)

FramesInv == \E s, u, n, f : Framed(s, u, n, f) /\ Follows(s, n, f)

GhostInv ==
  SticksAtRest /\ AimsStandOut /\ faults <= 1 /\ aimsSent <= 1
    => joystick1 \in forwarded \union {AllZero} /\ FramesInv

LEMMA SentStates == ASSUME TypeOK PROVE \A u \in Seq(forwarded) : u \in Seq(States)
<1>1. forwarded \subseteq States
  BY DEF TypeOK
<1> SUFFICES ASSUME NEW u \in Seq(forwarded) PROVE u \in Seq(States)
  OBVIOUS
<1>2. Len(u) \in Nat /\ \A i \in 1..Len(u) : u[i] \in States
  BY <1>1, ElementOfSeq
<1>3. u = [i \in 1..Len(u) |-> u[i]]
  OBVIOUS
<1>4. u \in [1..Len(u) -> States]
  BY <1>2, <1>3
<1>. QED BY <1>2, <1>4, SeqDef

\* The marks of a stream whose first m bytes were taken.
Shifted(f, n, m) == [k \in 1..n + 1 |-> [f[k] EXCEPT !.at = f[k].at - m]]

LEMMA ShiftedMarks ==
  ASSUME NEW n \in Nat, NEW f \in [1..n + 1 -> Marks], NEW m \in Nat
  PROVE  \A k \in 1..n + 1 :
           /\ Shifted(f, n, m)[k].at = f[k].at - m /\ f[k].at \in Int
           /\ Shifted(f, n, m)[k].kind = f[k].kind
BY DEF Shifted, Marks

LEMMA FramedTaken ==
  ASSUME TypeOK, NEW s, NEW u, NEW n, NEW f, Framed(s, u, n, f), NEW m \in 0..Len(s),
         NEW t \in Seq(Byte), Len(t) = Len(s) - m, \A i \in 1..Len(t) : t[i] = s[i + m],
         forwarded' = forwarded, aimsSent' = aimsSent
  PROVE  Framed(t, u, n, Shifted(f, n, m))'
<1> DEFINE g == Shifted(f, n, m)
<1>1. s \in Seq(Byte) /\ u \in Seq(States) /\ n \in Nat /\ Marked(f, n, s, u)
  BY SentStates DEF Framed
<1>2. Marked(g, n, t, u)
  BY <1>1, TakeFront, SMTT(30) DEF Shifted
<1>3. f \in [1..n + 1 -> Marks] /\ m \in Nat
  BY <1>1 DEF Marked
<1>4. \A k \in 1..n + 1 : g[k].at = f[k].at - m /\ f[k].at \in Int /\ g[k].kind = f[k].kind
  BY <1>1, <1>3, ShiftedMarks
<1> HIDE DEF g
<1>5. g[1].at <= 1
  <2>1. 1 \in 1..n + 1 /\ f[1].at <= 1
    BY <1>1 DEF Framed
  <2>. QED BY <1>3, <1>4, <2>1
<1>6. OneAim(g, n)'
  <2>1. \A k \in 1..n : g[k].kind = f[k].kind
    BY <1>1, <1>4
  <2>. QED BY <2>1 DEF OneAim, Framed
<1>7. Framed(t, u, n, g)'
  BY <1>1, <1>2, <1>5, <1>6 DEF Framed
<1>. QED BY <1>7 DEF g

LEMMA InitFrames == Init => FramesInv
<1> SUFFICES ASSUME Init PROVE FramesInv
  OBVIOUS
<1> DEFINE f == [k \in 1..0 + 1 |-> [at |-> 1, kind |-> "A", owes |-> 1]]
<1>1. Stream = << >> /\ Len(<< >>) = 0 /\ << >> \in Seq(Byte) /\ << >> \in Seq(forwarded)
  BY EmptySeq, ConcatEmptySeq DEF Init, Stream
<1>2. f \in [1..0 + 1 -> Marks] /\ f[1].at = 1 /\ f[1].owes = 1
  BY DEF Marks
<1> HIDE DEF f
<1>3. Marked(f, 0, << >>, << >>)
  BY <1>1, <1>2 DEF Marked
<1>4. Framed(<< >>, << >>, 0, f)
  BY <1>1, <1>2, <1>3 DEF Framed, OneAim
<1>5. OnFrame(f, 0)
  BY <1>2 DEF Init, OnFrame
<1>. QED BY <1>1, <1>4, <1>5 DEF FramesInv, Follows

\* A new frame is marked behind the others.
LEMMA SendFrames ==
  ASSUME TypeOK, TypeOK', FramesInv, line = << >>, rx' = rx,
         currentCommand' = currentCommand, faults' = faults, NEW kind,
         \/ kind = "C" /\ aimsSent' = aimsSent
         \/ kind = "A" /\ aimsSent = 0 /\ aimsSent' = 1,
         \A u \in Seq(forwarded) : \E v \in Seq(forwarded') : Adds(kind, line', u, v)
  PROVE  FramesInv'
<1>1. PICK s, u, n, f : Framed(s, u, n, f) /\ Follows(s, n, f)
  BY DEF FramesInv
<1>2. /\ s \in Seq(Byte) /\ u \in Seq(forwarded) /\ u \in Seq(States) /\ n \in Nat
      /\ Marked(f, n, s, u) /\ f[1].at <= 1 /\ OneAim(f, n)
  BY <1>1, SentStates DEF Framed
<1>0. PICK x : x = line'
  OBVIOUS
<1>3. PICK v \in Seq(forwarded') : Adds(kind, x, u, v)
  BY <1>0, <1>2
<1>4. PICK g \in [1..(n + 1) + 1 -> Marks] :
        /\ Marked(g, n + 1, s \o x, v)
        /\ g[1].at = f[1].at /\ \A k \in 1..n + 1 : g[k].at = f[k].at
        /\ g[n + 1].kind = kind /\ \A k \in 1..n : g[k] = f[k]
  BY <1>2, <1>3, AddFrame, SMTT(30)
<1>5. OneAim(g, n + 1)'
  <2>1. \A k \in 1..n : g[k].kind = f[k].kind
    BY <1>4
  <2>2. \A k \in 1..n + 1 : k \in 1..n \/ k = n + 1
    BY <1>2
  <2>3. CASE kind = "C" /\ aimsSent' = aimsSent
    BY <1>2, <1>4, <2>1, <2>2, <2>3 DEF OneAim
  <2>4. CASE kind = "A" /\ aimsSent = 0 /\ aimsSent' = 1
    BY <1>2, <1>4, <2>1, <2>2, <2>4 DEF OneAim
  <2>. QED BY <2>3, <2>4
<1>6. Framed(s \o x, v, n + 1, g)'
  <2>1. s \o x \in Seq(Byte)
    BY <1>0, <1>2, ConcatProperties DEF TypeOK
  <2>. QED BY <1>2, <1>4, <1>5, <2>1 DEF Framed
<1>7. OnFrame(f, n) => OnFrame(g, n + 1)'
  <2>1. \A k \in 1..n + 1 : k \in 1..(n + 1) + 1
    BY <1>2
  <2>2. \A k \in 1..n : k \in 1..n + 1
    BY <1>2
  <2>. QED BY <1>4, <2>1, <2>2 DEF OnFrame
<1>8. Stream' = Stream \o x
  BY <1>0, StreamGrows
<1>9. CASE Stream = s /\ (faults = 0 => OnFrame(f, n))
  <2>1. Follows(s \o x, n + 1, g)'
    BY <1>7, <1>8, <1>9 DEF Follows
  <2>. QED BY <1>6, <2>1 DEF FramesInv
<1>10. CASE faults = 1 /\ OnFrame(f, n) /\ \E D : Flawed(s, Stream, D)
  <2>1. PICK D : Flawed(s, Stream, D)
    BY <1>10
  <2>2. Flawed(s \o x, Stream \o x, D)
    <3>1. Stream \in Seq(Byte) /\ x \in Seq(Byte)
      BY <1>0, StreamBytes DEF TypeOK
    <3>. QED BY <1>2, <2>1, <3>1, FlawGrows
  <2>3. Follows(s \o x, n + 1, g)'
    BY <1>7, <1>8, <1>10, <2>2 DEF Follows
  <2>. QED BY <1>6, <2>3 DEF FramesInv
<1>. QED BY <1>1, <1>9, <1>10 DEF Follows

\* The first byte that goes wrong leaves the frames where they were.
LEMMA FaultFrames ==
  ASSUME TypeOK, TypeOK', FramesInv, LoseByte \/ DamageByte, faults' <= 1
  PROVE  FramesInv'
<1>1. faults = 0 /\ faults' = 1
  <2>1. faults \in Nat /\ faults' = faults + 1
    BY BoundAssumption DEF TypeOK, LoseByte, DamageByte, Fault
  <2>. QED BY <2>1
<1>2. PICK s, u, n, f : Framed(s, u, n, f) /\ Follows(s, n, f)
  BY DEF FramesInv
<1>3. Stream = s /\ OnFrame(f, n)
  BY <1>1, <1>2 DEF Follows
<1>4. PICK D : D = Len(rx) + 1
  OBVIOUS
<1>5. Flawed(s, Stream', D)
  BY <1>3, <1>4, FlawStarts
<1>6. /\ currentCommand' = currentCommand /\ forwarded' = forwarded
      /\ aimsSent' = aimsSent
  BY DEF LoseByte, DamageByte
<1>7. Framed(s, u, n, f)'
  BY <1>2, <1>6 DEF Framed, OneAim
<1>8. OnFrame(f, n)'
  BY <1>3, <1>6 DEF OnFrame
<1>9. Follows(s, n, f)'
  BY <1>1, <1>5, <1>8 DEF Follows
<1>. QED BY <1>7, <1>9 DEF FramesInv

\* Bytes are taken from the front. The flaw goes with them or comes nearer.
LEMMA TakeFrames ==
  ASSUME TypeOK, TypeOK', FramesInv, NEW m \in 0..Len(rx), faults <= 1,
         rx' = SubSeq(rx, m + 1, Len(rx)), line' = line, faults' = faults,
         forwarded' = forwarded, aimsSent' = aimsSent,
         \A s, u, n, f :
           /\ Framed(s, u, n, f) /\ OnFrame(f, n)
           /\ \A i \in 1..m : i \in 1..Len(s) /\ rx[i] = s[i]
           => OnFrame(Shifted(f, n, m), n)'
  PROVE  FramesInv'
<1>1. /\ m \in 0..Len(Stream) /\ Stream \in Seq(Byte) /\ Stream' \in Seq(Byte)
      /\ Len(Stream') = Len(Stream) - m
      /\ \A i \in 1..Len(Stream') : Stream'[i] = Stream[i + m]
  BY StreamTaken
<1>2. PICK t \in Seq(Byte) : t = Stream'
  BY <1>1
<1>3. Len(t) = Len(Stream) - m /\ \A i \in 1..Len(t) : t[i] = Stream[i + m]
  BY <1>1, <1>2
<1>4. /\ Len(Stream) \in Nat /\ Len(rx) \in Nat /\ m \in Nat
      /\ \A i \in 1..m : i \in 1..Len(Stream) /\ Stream[i] = rx[i]
  BY StreamBytes
<1>5. PICK s, u, n, f : Framed(s, u, n, f) /\ Follows(s, n, f)
  BY DEF FramesInv
<1>6. s \in Seq(Byte) /\ Len(s) \in Nat
  BY <1>5 DEF Framed
<1>7. CASE Stream = s /\ (faults = 0 => OnFrame(f, n))
  <2>1. Framed(t, u, n, Shifted(f, n, m))'
    BY <1>1, <1>3, <1>5, <1>7, FramedTaken
  <2>2. faults = 0 => OnFrame(Shifted(f, n, m), n)'
    BY <1>4, <1>5, <1>7
  <2>3. Follows(t, n, Shifted(f, n, m))'
    BY <1>2, <2>2, <1>7 DEF Follows
  <2>. QED BY <2>1, <2>3 DEF FramesInv
<1>8. CASE faults = 1 /\ OnFrame(f, n) /\ \E D : Flawed(s, Stream, D)
  <2>1. PICK D : Flawed(s, Stream, D)
    BY <1>8
  <2>2. D \in 1..Len(s)
    BY <2>1 DEF Flawed
  <2>3. CASE m < D
    <3>1. m \in 0..Len(s)
      BY <1>4, <1>6, <2>2, <2>3
    <3>2. PICK v \in Seq(Byte) : Len(v) = Len(s) - m /\ \A i \in 1..Len(v) : v[i] = s[i + m]
      <4> DEFINE w == [i \in 1..Len(s) - m |-> s[i + m]]
      <4>1. Len(s) - m \in Nat /\ \A i \in 1..Len(s) - m : i + m \in 1..Len(s)
        BY <1>4, <1>6, <3>1
      <4>2. \A i \in 1..Len(s) - m : s[i + m] \in Byte
        BY <1>6, <4>1, ElementOfSeq
      <4>3. w \in [1..Len(s) - m -> Byte]
        BY <4>2
      <4>4. w \in Seq(Byte) /\ Len(w) = Len(s) - m
        <5> HIDE DEF w
        <5>1. w \in Seq(Byte)
          BY <4>1, <4>3, SeqDef
        <5>2. DOMAIN w = 1..Len(s) - m
          BY <4>3
        <5>. QED BY <4>1, <5>1, <5>2, LenProperties
      <4>5. \A i \in 1..Len(w) : w[i] = s[i + m]
        BY <4>4
      <4>. QED BY <4>4, <4>5
    <3>3. Flawed(v, t, D - m) /\ \A i \in 1..m : Stream[i] = s[i]
      <4>1. /\ Stream \in Seq(Byte) /\ m \in 0..Len(Stream) /\ m < D
            /\ Len(v) = Len(s) - m /\ \A i \in 1..Len(v) : v[i] = s[i + m]
            /\ Len(t) = Len(Stream) - m /\ \A i \in 1..Len(t) : t[i] = Stream[i + m]
        BY <1>1, <1>3, <2>3, <3>2
      <4>. QED BY <1>6, <2>1, <4>1, FlawMoves, ZenonT(30)
    <3>4. Framed(v, u, n, Shifted(f, n, m))'
      BY <1>5, <3>1, <3>2, FramedTaken
    <3>5. \A i \in 1..m : i \in 1..Len(s) /\ rx[i] = s[i]
      BY <1>4, <3>1, <3>3
    <3>6. OnFrame(Shifted(f, n, m), n)'
      BY <1>5, <1>8, <3>5
    <3>7. Follows(v, n, Shifted(f, n, m))'
      BY <1>2, <1>8, <3>3, <3>6 DEF Follows
    <3>. QED BY <3>4, <3>7 DEF FramesInv
  <2>4. CASE ~(m < D) /\ Damaged(s, Stream, D)
    <3>1. Len(Stream) = Len(s) /\ \A i \in 1..Len(Stream) : i # D => Stream[i] = s[i]
      BY <2>4 DEF Damaged
    <3>2. m \in 0..Len(s) /\ Len(t) = Len(s) - m
      BY <1>1, <1>3, <3>1
    <3>3. ASSUME NEW i \in 1..Len(t) PROVE t[i] = s[i + m]
      <4>1. i + m \in 1..Len(Stream) /\ i + m # D
        BY <1>3, <1>4, <2>2, <2>4
      <4>. QED BY <1>3, <3>1, <4>1
    <3>4. Framed(t, u, n, Shifted(f, n, m))'
      BY <1>5, <3>2, <3>3, FramedTaken
    <3>5. Follows(t, n, Shifted(f, n, m))'
      BY <1>2, <1>8 DEF Follows
    <3>. QED BY <3>4, <3>5 DEF FramesInv
  <2>5. CASE ~(m < D) /\ Lost(s, Stream, D)
    <3> DEFINE l == m + 1
    <3>1. /\ Len(Stream) = Len(s) - 1
          /\ \A i \in 1..Len(Stream) : Stream[i] = IF i < D THEN s[i] ELSE s[i + 1]
      BY <2>5 DEF Lost
    <3>2. l \in 0..Len(s) /\ Len(t) = Len(s) - l
      BY <1>1, <1>3, <1>4, <1>6, <3>1
    <3>3. ASSUME NEW i \in 1..Len(t) PROVE t[i] = s[i + l]
      <4>1. i + m \in 1..Len(Stream) /\ ~(i + m < D) /\ (i + m) + 1 = i + l
        BY <1>3, <1>4, <2>2, <2>5
      <4>. QED BY <1>3, <3>1, <4>1
    <3> HIDE DEF l
    <3>4. Framed(t, u, n, Shifted(f, n, l))'
      BY <1>5, <3>2, <3>3, FramedTaken
    <3>5. Follows(t, n, Shifted(f, n, l))'
      BY <1>2, <1>8 DEF Follows
    <3>. QED BY <3>4, <3>5 DEF FramesInv
  <2>. QED BY <1>4, <2>1, <2>2, <2>3, <2>4, <2>5 DEF Flawed
<1>. QED BY <1>5, <1>7, <1>8 DEF Follows

\* In step with the frames, the parser takes what belongs together.
LEMMA CommandOnFrame ==
  ASSUME TypeOK, SticksAtRest, ReadCommand, NEW s, NEW u, NEW n, NEW f,
         Framed(s, u, n, f), OnFrame(f, n), 1 \in 1..Len(s), rx[1] = s[1]
  PROVE  OnFrame(Shifted(f, n, 1), n)'
<1>1. s \in Seq(Byte) /\ u \in Seq(States) /\ n \in Nat /\ Marked(f, n, s, u)
  BY SentStates DEF Framed
<1>2. /\ currentCommand = "none" /\ rx # << >> /\ currentCommand' = Command(Head(rx))
      /\ Head(rx) = rx[1]
  BY EmptySeq DEF ReadCommand, TypeOK
<1>3. PICK k \in 1..n + 1 : f[k].at = 1
  BY <1>2 DEF OnFrame
<1>4. f \in [1..n + 1 -> Marks] /\ f[n + 1].at = Len(s) + 1
  BY <1>1 DEF Marked
<1>5. k \in 1..n /\ f[k].kind \in {"C", "A"}
  <2>1. k # n + 1
    BY <1>1, <1>3, <1>4
  <2>. QED BY <1>1, <1>4, <2>1 DEF Marks
<1>6. currentCommand' = f[k].kind
  <2>1. CASE f[k].kind = "C"
    <3> DEFINE i == 1
    <3>1. i \in 1..Len(s) /\ f[k].at <= i /\ i < f[k].at + PayloadLen + 2 /\ i = f[k].at
      BY <1>3, FrameAssumption
    <3> HIDE DEF i
    <3>2. s[i] = C
      BY <1>1, <1>5, <2>1, <3>1, StateBytes
    <3>. QED BY <1>2, <2>1, <3>2, Headers DEF Command, i
  <2>2. CASE f[k].kind = "A"
    <3>1. s[1] = A
      BY <1>1, <1>3, <1>5, <2>2, AimBytes
    <3>. QED BY <1>2, <2>2, <3>1, Headers DEF Command
  <2>. QED BY <1>5, <2>1, <2>2
<1>7. Shifted(f, n, 1)[k].at = 0 /\ Shifted(f, n, 1)[k].kind = f[k].kind
  <2>1. \A j \in 1..n + 1 : /\ Shifted(f, n, 1)[j].at = f[j].at - 1
                            /\ Shifted(f, n, 1)[j].kind = f[j].kind
    BY <1>1, <1>4, ShiftedMarks
  <2>. QED BY <1>3, <2>1
<1>. QED BY <1>5, <1>6, <1>7 DEF OnFrame

LEMMA RestOnFrame ==
  ASSUME TypeOK, NEW s, NEW u, NEW n, NEW f,
         Framed(s, u, n, f), OnFrame(f, n), currentCommand # "none",
         currentCommand' = "none", NEW m \in Nat, m = FrameLen(currentCommand) - 1
  PROVE  OnFrame(Shifted(f, n, m), n)'
<1>1. n \in Nat /\ Marked(f, n, s, u)
  BY DEF Framed
<1>2. f \in [1..n + 1 -> Marks]
  BY <1>1 DEF Marked
<1>3. PICK k \in 1..n : f[k].at = 0 /\ f[k].kind = currentCommand
  BY DEF OnFrame
<1>4. f[k + 1].at = f[k].at + FrameLen(f[k].kind) /\ k + 1 \in 1..n + 1
  BY <1>1 DEF Marked
<1>5. FrameLen(currentCommand) \in Int
  BY FrameAssumption DEF FrameLen
<1>6. f[k + 1].at = m + 1
  BY <1>3, <1>4, <1>5
<1>7. Shifted(f, n, m)[k + 1].at = 1
  <2>1. \A j \in 1..n + 1 : Shifted(f, n, m)[j].at = f[j].at - m
    BY <1>1, <1>2, ShiftedMarks
  <2>. QED BY <1>4, <1>6, <2>1
<1>. QED BY <1>4, <1>7 DEF OnFrame

\* A window whose bytes are all there is accepted, in step with the frames.
LEMMA WholeWindow ==
  ASSUME TypeOK, SticksAtRest, JoystickReady, NEW s, NEW u, NEW n, NEW f,
         Framed(s, u, n, f), OnFrame(f, n),
         \A i \in Places : i \in 1..Len(s) /\ rx[i] = s[i]
  PROVE  WindowOK /\ Window \in forwarded
<1>1. /\ s \in Seq(Byte) /\ u \in Seq(States) /\ u \in Seq(forwarded) /\ n \in Nat
      /\ Marked(f, n, s, u)
  BY SentStates DEF Framed
<1>2. PICK k \in 1..n : f[k].at = 0 /\ f[k].kind = "C"
  BY DEF OnFrame, JoystickReady
<1>3. Len(rx) >= PayloadLen + 1
  BY DEF JoystickReady
<1>4. WindowOK /\ \E j \in 1..Len(u) : Window = u[j]
  BY <1>1, <1>2, <1>3, WindowOfFrame
<1>. QED BY <1>1, <1>4, ElementOfSeq

\* What is accepted was sent.
LEMMA AcceptedWasSent ==
  ASSUME TypeOK, SticksAtRest, AimsStandOut, PayloadLen >= 2, FramesInv,
         JoystickReady, WindowOK
  PROVE  Window \in forwarded
<1>1. PICK s, u, n, f : Framed(s, u, n, f) /\ Follows(s, n, f)
  BY DEF FramesInv
<1>2. /\ s \in Seq(Byte) /\ u \in Seq(States) /\ u \in Seq(forwarded) /\ n \in Nat
      /\ Marked(f, n, s, u) /\ f[1].at <= 1 /\ OneAim(f, n)
  BY <1>1, SentStates DEF Framed
<1>3. Len(rx) >= PayloadLen + 1
  BY DEF JoystickReady
<1>4. CASE Stream = s
  <2>1. \E j \in 1..Len(u) : Window = u[j]
    <3>1. Marked(f, n, Stream, u)
      BY <1>2, <1>4
    <3>. QED BY <1>2, <1>3, <3>1, WindowInFrames
  <2>. QED BY <1>2, <2>1, ElementOfSeq
<1>5. CASE OnFrame(f, n) /\ \E D : Flawed(s, Stream, D)
  <2>1. PICK D : Flawed(s, Stream, D)
    BY <1>5
  <2>2. D \in 1..Len(s) /\ Len(s) \in Nat /\ PayloadLen \in Nat \ {0}
    BY <1>2, <2>1, FrameAssumption DEF Flawed
  <2>3. CASE D <= PayloadLen + 1
    <3>1. PICK k \in 1..n : f[k].at = 0 /\ f[k].kind = "C"
      BY <1>5 DEF OnFrame, JoystickReady
    <3>. QED BY <1>2, <1>3, <2>1, <2>3, <3>1, FlawedIsRejected
  <2>4. CASE ~(D <= PayloadLen + 1)
    <3>1. ASSUME NEW i \in Places PROVE i \in 1..Len(s) /\ rx[i] = s[i]
      <4>1. /\ i \in 1..Len(Stream) /\ Stream[i] = rx[i] /\ i \in Nat
            /\ i <= PayloadLen + 1 /\ 1 <= i
        BY <1>3, FrontOfStream
      <4>2. i \in 1..Len(s) /\ i < D
        BY <2>2, <2>4, <4>1
      <4>3. Stream[i] = s[i]
        BY <2>1, <4>1, <4>2 DEF Flawed, Damaged, Lost
      <4>. QED BY <4>1, <4>2, <4>3
    <3>. QED BY <1>1, <1>5, <3>1, WholeWindow
  <2>. QED BY <2>3, <2>4
<1>. QED BY <1>1, <1>4, <1>5 DEF Follows

LEMMA NextGhost ==
  ASSUME PayloadLen >= 2
  PROVE  TypeOK /\ TypeOK' /\ GhostInv /\ [Next]_vars => GhostInv'
<1> SUFFICES ASSUME TypeOK, TypeOK', GhostInv, [Next]_vars, SticksAtRest, AimsStandOut,
                    faults' <= 1, aimsSent' <= 1
             PROVE  /\ joystick1' \in forwarded' \union {AllZero}
                    /\ FramesInv'
  BY DEF GhostInv, SticksAtRest, AimsStandOut, AllZero
<1>1. /\ PayloadLen \in Nat \ {0} /\ Len(rx) \in Nat /\ faults \in Nat /\ aimsSent \in Nat
      /\ MaxAims \in Nat
  BY FrameAssumption, BoundAssumption DEF TypeOK
<1>2. faults <= 1 /\ aimsSent <= 1
  <2>1. /\ faults' = faults \/ faults' = faults + 1
        /\ aimsSent' = aimsSent \/ aimsSent' = aimsSent + 1
    BY DEF Next, msgReady, vars, SendState, SendAim, Arrive, LoseByte, DamageByte, Fault,
           ReadCommand, ReadJoystick, RejectJoystick, ReadAim
  <2>. QED BY <1>1, <2>1
<1>3. joystick1 \in forwarded \union {AllZero} /\ FramesInv
  BY <1>2 DEF GhostInv
<1>4. ASSUME NEW p \in States, SendState(p)
      PROVE  joystick1' \in forwarded' \union {AllZero} /\ FramesInv'
  <2>1. /\ line = << >> /\ rx' = rx /\ currentCommand' = currentCommand
        /\ faults' = faults /\ aimsSent' = aimsSent /\ line' = StateFrame(p)
        /\ forwarded' = forwarded \union {p} /\ joystick1' = joystick1
    BY <1>4 DEF SendState
  <2>2. ASSUME NEW u \in Seq(forwarded)
        PROVE  \E v \in Seq(forwarded') : Adds("C", line', u, v)
    <3> DEFINE v == Append(u, p)
    <3>1. u \in Seq(States) /\ Len(u) \in Nat
      BY SentStates
    <3>2. u \in Seq(forwarded') /\ p \in forwarded'
      <4>1. Len(u) \in Nat /\ \A i \in 1..Len(u) : u[i] \in forwarded'
        BY <2>1, ElementOfSeq
      <4>2. u = [i \in 1..Len(u) |-> u[i]]
        OBVIOUS
      <4>3. u \in [1..Len(u) -> forwarded']
        BY <4>1, <4>2
      <4>. QED BY <2>1, <4>1, <4>3, SeqDef
    <3>3. /\ v \in Seq(States) /\ v \in Seq(forwarded') /\ Len(v) = Len(u) + 1
          /\ \A i \in 1..Len(u) : v[i] = u[i]
          /\ v[Len(u) + 1] = p
      BY <3>1, <3>2, AppendProperties
    <3> HIDE DEF v
    <3>4. line' \in Seq(Byte) /\ Len(line') = PayloadLen + 2
      BY <2>1, StateFrameBytes
    <3>5. Adds("C", line', u, v)
      BY <2>1, <3>3, <3>4 DEF Adds, FrameLen, Carries
    <3>. QED BY <3>3, <3>5
  <2>3. FramesInv'
    BY <1>3, <2>1, <2>2, SendFrames
  <2>. QED BY <1>3, <2>1, <2>3
<1>5. ASSUME NEW a \in Aims, SendAim(a)
      PROVE  joystick1' \in forwarded' \union {AllZero} /\ FramesInv'
  <2>1. /\ line = << >> /\ rx' = rx /\ currentCommand' = currentCommand
        /\ faults' = faults /\ aimsSent = 0 /\ aimsSent' = 1 /\ line' = AimFrame(a)
        /\ forwarded' = forwarded /\ joystick1' = joystick1
    BY <1>1, <1>5 DEF SendAim
  <2>2. ASSUME NEW u \in Seq(forwarded)
        PROVE  \E v \in Seq(forwarded') : Adds("A", line', u, v)
    <3>1. u \in Seq(States) /\ Len(u) \in Nat
      BY SentStates
    <3>2. line' \in Seq(Byte) /\ Len(line') = 3
      BY <2>1, AimFrameBytes
    <3>3. Adds("A", line', u, u)
      BY <2>1, <3>1, <3>2 DEF Adds, FrameLen, Carries
    <3>. QED BY <2>1, <3>3
  <2>3. FramesInv'
    BY <1>3, <2>1, <2>2, SendFrames
  <2>. QED BY <1>3, <2>1, <2>3
<1>6. CASE Arrive
  <2>1. /\ Stream' = Stream /\ currentCommand' = currentCommand /\ faults' = faults
        /\ forwarded' = forwarded /\ aimsSent' = aimsSent /\ joystick1' = joystick1
    BY <1>6, StreamStays DEF Arrive
  <2>. QED BY <1>3, <2>1 DEF FramesInv, Framed, Follows, OnFrame, OneAim
<1>7. CASE LoseByte \/ DamageByte
  <2>1. joystick1' = joystick1 /\ forwarded' = forwarded
    BY <1>7 DEF LoseByte, DamageByte
  <2>. QED BY <1>3, <1>7, <2>1, FaultFrames
<1>8. CASE ReadCommand
  <2>1. /\ line' = line /\ faults' = faults /\ forwarded' = forwarded
        /\ aimsSent' = aimsSent /\ joystick1' = joystick1
        /\ 1 \in 0..Len(rx) /\ rx' = SubSeq(rx, 1 + 1, Len(rx))
    BY <1>1, <1>8, EmptySeq, TailIsSubSeq DEF ReadCommand, TypeOK
  <2>2. \A s, u, n, f :
           /\ Framed(s, u, n, f) /\ OnFrame(f, n)
           /\ \A i \in 1..1 : i \in 1..Len(s) /\ rx[i] = s[i]
           => OnFrame(Shifted(f, n, 1), n)'
    BY <1>8, CommandOnFrame
  <2>. QED BY <1>2, <1>3, <2>1, <2>2, TakeFrames
<1>9. CASE ReadAim
  <2>1. /\ line' = line /\ faults' = faults /\ forwarded' = forwarded
        /\ aimsSent' = aimsSent /\ joystick1' = joystick1 /\ currentCommand = "A"
        /\ currentCommand' = "none" /\ 2 \in 0..Len(rx) /\ rx' = SubSeq(rx, 2 + 1, Len(rx))
    BY <1>1, <1>9 DEF ReadAim
  <2>2. \A s, u, n, f :
           /\ Framed(s, u, n, f) /\ OnFrame(f, n)
           /\ \A i \in 1..2 : i \in 1..Len(s) /\ rx[i] = s[i]
           => OnFrame(Shifted(f, n, 2), n)'
    <3>1. 2 = FrameLen(currentCommand) - 1 /\ currentCommand # "none"
      BY <2>1 DEF FrameLen
    <3>. QED BY <2>1, <3>1, RestOnFrame
  <2>. QED BY <1>2, <1>3, <2>1, <2>2, TakeFrames
<1> DEFINE m == PayloadLen + 1
<1>10. JoystickReady => m \in 0..Len(rx) /\ m \in Nat /\ m = FrameLen("C") - 1 /\ Places = 1..m
  BY <1>1 DEF JoystickReady, FrameLen, Places
<1>11. CASE ReadJoystick
  <2>1. /\ line' = line /\ faults' = faults /\ forwarded' = forwarded
        /\ aimsSent' = aimsSent /\ joystick1' = Window /\ currentCommand = "C"
        /\ currentCommand' = "none" /\ rx' = SubSeq(rx, m + 1, Len(rx))
        /\ JoystickReady /\ WindowOK
    BY <1>1, <1>11 DEF ReadJoystick, JoystickReady
  <2>2. joystick1' \in forwarded'
    BY <1>3, <2>1, AcceptedWasSent
  <2> HIDE DEF m
  <2>3. \A s, u, n, f :
           /\ Framed(s, u, n, f) /\ OnFrame(f, n)
           /\ \A i \in 1..m : i \in 1..Len(s) /\ rx[i] = s[i]
           => OnFrame(Shifted(f, n, m), n)'
    BY <1>10, <2>1, RestOnFrame
  <2>4. FramesInv'
    BY <1>2, <1>3, <1>10, <2>1, <2>3, TakeFrames
  <2>. QED BY <2>2, <2>4
<1>12. CASE RejectJoystick
  <2>1. /\ line' = line /\ faults' = faults /\ forwarded' = forwarded
        /\ aimsSent' = aimsSent /\ joystick1' = joystick1
        /\ rx' = SubSeq(rx, m + 1, Len(rx))
        /\ JoystickReady /\ ~WindowOK
    BY <1>1, <1>12 DEF RejectJoystick
  <2> HIDE DEF m
  <2>2. \A s, u, n, f :
           /\ Framed(s, u, n, f) /\ OnFrame(f, n)
           /\ \A i \in 1..m : i \in 1..Len(s) /\ rx[i] = s[i]
           => OnFrame(Shifted(f, n, m), n)'
    BY <1>10, <2>1, WholeWindow
  <2>3. FramesInv'
    BY <1>2, <1>3, <1>10, <2>1, <2>2, TakeFrames
  <2>. QED BY <1>3, <2>1, <2>3
<1>13. CASE UNCHANGED vars
  <2>1. /\ Stream' = Stream /\ currentCommand' = currentCommand /\ faults' = faults
        /\ forwarded' = forwarded /\ aimsSent' = aimsSent /\ joystick1' = joystick1
    BY <1>13 DEF vars, Stream
  <2>. QED BY <1>3, <2>1 DEF FramesInv, Framed, Follows, OnFrame, OneAim
<1>. QED
  BY <1>4, <1>5, <1>6, <1>7, <1>8, <1>9, <1>11, <1>12, <1>13 DEF Next, msgReady

\* One lost or damaged byte never makes the robot act on a state the console did
\* not send, for any states, any length of the payload from two on and any noise,
\* while the sticks are at rest and one aim correction was sent whose bytes are
\* not taken for the bits of headers.
THEOREM NothingForged ==
  ASSUME PayloadLen >= 2
  PROVE  Spec => []NoGhostState
<1>1. Init => TypeOK /\ GhostInv
  <2>1. Init => joystick1 \in forwarded \union {AllZero}
    BY DEF Init
  <2>. QED BY <2>1, InitTyped, InitFrames DEF GhostInv
<1>2. (TypeOK /\ GhostInv) /\ [Next]_vars => (TypeOK /\ GhostInv)'
  BY NextTyped, NextGhost
<1>3. GhostInv => NoGhostState
  BY DEF GhostInv, NoGhostState
<1>. QED BY <1>1, <1>2, <1>3, PTL DEF Spec

=============================================================================
