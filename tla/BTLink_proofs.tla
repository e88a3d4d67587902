----------------------------- MODULE BTLink_proofs -----------------------------
(***************************************************************************)
(* The safety of the Bluetooth link: what the robot is told and what is    *)
(* read from it, for any status lines, log lines, commands and losses.     *)
(***************************************************************************)
EXTENDS BTLink, SequenceTheorems, TLAPS

\* The bytes the robot prints, and the one it prints after another.
Printable == {b \in (1..MaxLines) \X (1..Fields + 1) : b[2] <= Places(b[1]) + 1}

After(b) == IF Newline(b) THEN <<b[1] + 1, 1>> ELSE <<b[1], b[2] + 1>>

\* A byte that would continue what is in the read buffer.
Continues(b) ==
  IF readBuffer = << >> THEN b[2] = 1
                        ELSE b = <<readBuffer[1][1], Len(readBuffer) + 1>>

\* What can be read is what the robot printed, without gaps: as long as the
\* link is there it ends with the newest byte, and a new connection finds none.
AirInv ==
  /\ printed[1] \in Nat \ {0} /\ printed[2] \in Nat
  /\ printed = <<printed[1], printed[2]>>
  /\ printed[2] <= Places(printed[1]) + 1
  /\ air \in Seq(Printable)
  /\ \A i \in 1..Len(air) - 1 : air[i + 1] = After(air[i])
  /\ streams = "none" => air = << >>
  /\ streams = "open" /\ air # << >> => air[Len(air)] = printed
  /\ thread \in {"starting", "connecting"} => streams = "none"

\* After its first newline a connection reads lines from their beginning.
LineInv ==
  /\ readBuffer \in Seq(Printable)
  /\ streams # "none" /\ stage # 0 =>
       /\ \A i \in 1..Len(readBuffer) : readBuffer[i] = <<readBuffer[1][1], i>>
       /\ air # << >> => Continues(air[1])
       /\ streams = "open" /\ air = << >> => Continues(After(printed))

\* A connection that has delivered a line counts as connected until it is lost,
\* and what is connected has an alarm to give.
AlarmInv ==
  /\ alarms \in Nat /\ live \in Nat
  /\ alarms <= live
  /\ blueToothConnected = TRUE => alarms < live
  /\ streams # "none" /\ stage # 0 => blueToothConnected = TRUE

Inv == ReceptionRight /\ AirInv /\ LineInv /\ AlarmInv

-----------------------------------------------------------------------------
(* The commands.                                                           *)

\* What was written rises; the commands that wait rise too, are newer than all
\* that was written, and not newer than what was posted.
QueueInv ==
  /\ posted \in 0..MaxMsgs
  /\ written \in Seq(1..MaxMsgs) /\ queue \in Seq(Nat)
  /\ CommandsInOrder
  /\ \A i \in 1..Len(written) : written[i] <= posted
  /\ \A i \in 1..Len(queue) : queue[i] <= posted
  /\ \A i \in 1..Len(written), j \in 1..Len(queue) :
       queue[j] # 0 => written[i] < queue[j]
  /\ \A i, j \in 1..Len(queue) :
       i < j /\ queue[i] # 0 /\ queue[j] # 0 => queue[i] < queue[j]

LEMMA InitQueue == Init => QueueInv
  BY LinkAssumption, EmptySeq DEF Init, QueueInv, CommandsInOrder

\* A new command is newer than those that wait and those that were written.
LEMMA PostQueue == ASSUME QueueInv, Post PROVE QueueInv'
<1> USE LinkAssumption DEF QueueInv
<1> DEFINE new == IF posted < MaxMsgs THEN posted + 1 ELSE 0
<1>1. /\ posted' \in 0..MaxMsgs /\ posted <= posted'
      /\ new \in Nat /\ new <= posted' /\ (new # 0 => posted < new)
      /\ queue' = Append(queue, new) /\ written' = written
  BY DEF Post
<1> HIDE DEF new
<1>2. /\ queue' \in Seq(Nat) /\ Len(queue') = Len(queue) + 1
      /\ \A i \in 1..Len(queue) : queue'[i] = queue[i]
      /\ queue'[Len(queue) + 1] = new
  BY <1>1, AppendProperties
<1>3. /\ \A i \in 1..Len(queue) : queue[i] \in Nat
      /\ \A i \in 1..Len(written) : written[i] \in Nat
  BY ElementOfSeq
<1>4. ASSUME NEW i \in 1..Len(queue') PROVE queue'[i] <= posted'
  <2>1. CASE i \in 1..Len(queue)
    BY <1>1, <1>2, <1>3, <2>1
  <2>2. CASE i = Len(queue) + 1
    BY <1>1, <1>2, <2>2
  <2>. QED BY <1>2, <2>1, <2>2
<1>5. ASSUME NEW i \in 1..Len(written'), NEW j \in 1..Len(queue'), queue'[j] # 0
      PROVE  written'[i] < queue'[j]
  <2>1. CASE j \in 1..Len(queue)
    BY <1>1, <1>2, <1>5, <2>1
  <2>2. CASE j = Len(queue) + 1
    BY <1>1, <1>2, <1>3, <1>5, <2>2
  <2>. QED BY <1>2, <2>1, <2>2
<1>6. ASSUME NEW i \in 1..Len(queue'), NEW j \in 1..Len(queue'), i < j,
             queue'[i] # 0, queue'[j] # 0
      PROVE  queue'[i] < queue'[j]
  <2>1. i \in 1..Len(queue) /\ queue'[i] = queue[i] /\ queue[i] <= posted
    BY <1>2, <1>6
  <2>2. CASE j \in 1..Len(queue)
    BY <1>2, <1>6, <2>1, <2>2
  <2>3. CASE j = Len(queue) + 1
    BY <1>1, <1>2, <1>3, <1>6, <2>1, <2>3
  <2>. QED BY <1>2, <2>2, <2>3
<1>7. \A i \in 1..Len(written') : written'[i] <= posted'
  BY <1>1, <1>3
<1>8. CommandsInOrder'
  BY <1>1 DEF CommandsInOrder
<1>. QED BY <1>1, <1>2, <1>4, <1>5, <1>6, <1>7, <1>8

\* The first message leaves the queue, and nothing is written.
LEMMA TakeQueue ==
  ASSUME QueueInv, queue # << >>, queue' = Tail(queue), UNCHANGED <<posted, written>>
  PROVE  QueueInv'
<1> USE DEF QueueInv
<1>1. /\ queue' \in Seq(Nat) /\ Len(queue') = Len(queue) - 1
      /\ \A i \in 1..Len(queue') : queue'[i] = queue[i + 1]
  BY HeadTailProperties
<1>2. Len(queue) \in Nat
  OBVIOUS
<1>3. \A i \in 1..Len(queue') : i + 1 \in 1..Len(queue) /\ queue'[i] = queue[i + 1]
  BY <1>1, <1>2
<1>4. \A i, j \in 1..Len(queue') : i < j => i + 1 < j + 1
  BY <1>1, <1>2
<1>5. \A i, j \in 1..Len(queue') :
        i < j /\ queue'[i] # 0 /\ queue'[j] # 0 => queue'[i] < queue'[j]
  BY <1>3, <1>4
<1>6. \A i \in 1..Len(written'), j \in 1..Len(queue') :
        queue'[j] # 0 => written'[i] < queue'[j]
  BY <1>3
<1>7. CommandsInOrder'
  BY DEF CommandsInOrder
<1>. QED BY <1>1, <1>3, <1>5, <1>6, <1>7

\* The first message is written.
LEMMA WriteQueue ==
  ASSUME QueueInv, queue # << >>, queue' = Tail(queue), UNCHANGED posted,
         Written(Head(queue))
  PROVE  QueueInv'
<1>1. CASE Head(queue) = 0
  BY <1>1, TakeQueue DEF Written
<1>2. CASE Head(queue) # 0
  <2> USE DEF QueueInv
  <2> DEFINE command == queue[1]
  <2>1. /\ queue' \in Seq(Nat) /\ Len(queue') = Len(queue) - 1
        /\ \A i \in 1..Len(queue') : queue'[i] = queue[i + 1]
    BY HeadTailProperties
  <2>2. /\ Len(queue) \in Nat \ {0} /\ Head(queue) = command
        /\ command \in Nat \ {0} /\ command <= posted
    BY <1>2, ElementOfSeq, EmptySeq
  <2>3. written' = Append(written, command) /\ command \in 1..MaxMsgs
    BY <1>2, <2>2, LinkAssumption DEF Written
  <2>4. /\ written' \in Seq(1..MaxMsgs) /\ Len(written') = Len(written) + 1
        /\ \A i \in 1..Len(written) : written'[i] = written[i]
        /\ written'[Len(written) + 1] = command
    BY <2>3, AppendProperties
  <2>5. \A i \in 1..Len(written) : written[i] < command
    BY <1>2, <2>2
  <2>6. \A j \in 1..Len(queue') :
          /\ j + 1 \in 1..Len(queue) /\ 1 < j + 1 /\ queue'[j] = queue[j + 1]
          /\ queue'[j] # 0 => command < queue'[j]
    BY <2>1, <2>2
  <2>7. Len(written) \in Nat
    OBVIOUS
  <2>8. ASSUME NEW i \in 1..Len(written'), NEW j \in 1..Len(written'), i < j
        PROVE  written'[i] < written'[j]
    <3>1. i \in 1..Len(written) /\ written'[i] = written[i]
      BY <2>4, <2>7, <2>8
    <3>2. CASE j \in 1..Len(written)
      BY <2>4, <2>8, <3>1, <3>2 DEF CommandsInOrder
    <3>3. CASE j = Len(written) + 1
      BY <2>4, <2>5, <3>1, <3>3
    <3>. QED BY <2>4, <3>2, <3>3
  <2>9. ASSUME NEW i \in 1..Len(written'), NEW j \in 1..Len(queue'), queue'[j] # 0
        PROVE  written'[i] < queue'[j]
    <3>1. CASE i \in 1..Len(written)
      BY <2>4, <2>6, <2>9, <3>1
    <3>2. CASE i = Len(written) + 1
      BY <2>4, <2>6, <2>9, <3>2
    <3>. QED BY <2>4, <3>1, <3>2
  <2>10. ASSUME NEW i \in 1..Len(written') PROVE written'[i] <= posted'
    <3>1. CASE i \in 1..Len(written)
      BY <2>4, <3>1
    <3>2. CASE i = Len(written) + 1
      BY <2>2, <2>4, <3>2
    <3>. QED BY <2>4, <3>1, <3>2
  <2>11. \A i, j \in 1..Len(queue') :
           i < j /\ queue'[i] # 0 /\ queue'[j] # 0 => queue'[i] < queue'[j]
    <3>1. \A i, j \in 1..Len(queue') : i < j => i + 1 < j + 1
      BY <2>1, <2>2
    <3>. QED BY <2>6, <3>1
  <2>12. \A i \in 1..Len(queue') : queue'[i] <= posted'
    BY <2>6
  <2>13. CommandsInOrder'
    BY <2>8 DEF CommandsInOrder
  <2>. QED BY <2>1, <2>4, <2>9, <2>10, <2>11, <2>12, <2>13
<1>. QED BY <1>1, <1>2

LEMMA NextQueue == QueueInv /\ [Next]_vars => QueueInv'
<1> SUFFICES ASSUME QueueInv, [Next]_vars PROVE QueueInv'
  OBVIOUS
<1>1. CASE Post
  BY <1>1, PostQueue
<1>2. CASE DropAndConnect
  BY <1>2, TakeQueue DEF DropAndConnect
<1>3. CASE WriteMessage
  BY <1>3, TakeQueue, WriteQueue DEF WriteMessage
<1>4. CASE UNCHANGED threadVars
  BY <1>4 DEF QueueInv, CommandsInOrder, threadVars
<1>5. CASE LoseLink \/ FindLink \/ RobotPrints
  BY <1>4, <1>5 DEF LoseLink, FindLink, RobotPrints
<1>6. CASE ConnectReturns \/ ReadByte \/ ReadFails \/ ReadDone
  BY <1>4, <1>6 DEF ConnectReturns, ReadByte, ReadFails, ReadDone
<1>. QED
  BY <1>1, <1>2, <1>3, <1>4, <1>5, <1>6 DEF Next, BTThread, vars

\* All that is written to the robot is written in the order in which it was
\* posted, and none of it twice: a message that is dropped is not written
\* later, and one that was written is gone.
THEOREM CommandsKeepOrder == Spec => []CommandsInOrder
  BY InitQueue, NextQueue, PTL DEF Spec, QueueInv

-----------------------------------------------------------------------------
(* The bytes of a line.                                                    *)

LEMMA PlacesOfLine == \A line : Places(line) \in 1..Fields
  BY LinkAssumption DEF Places

LEMMA PrintableByte ==
  ASSUME NEW b \in Printable
  PROVE  /\ b[1] \in 1..MaxLines /\ b[2] \in 1..Fields + 1
         /\ b = <<b[1], b[2]>> /\ b \in Bytes
         /\ b[2] <= Places(b[1]) + 1
  BY LinkAssumption DEF Printable, Bytes

LEMMA NewlinePrintable ==
  ASSUME NEW b \in Printable
  PROVE  Newline(b) <=> b[2] = Places(b[1]) + 1
  BY PrintableByte, PlacesOfLine DEF Newline

\* What the robot prints next follows what it printed last.
LEMMA PrintsAfter ==
  ASSUME AirInv, RobotPrints
  PROVE  /\ printed' = After(printed) /\ printed' \in Printable
         /\ After(printed)[2] = (IF Newline(printed) THEN 1 ELSE printed[2] + 1)
<1>1. printed' = After(printed) /\ printed'[1] <= MaxLines
  BY DEF RobotPrints, After
<1>2. Places(printed[1]) \in 1..Fields /\ Places(printed[1] + 1) \in 1..Fields
  BY PlacesOfLine
<1>3. CASE Newline(printed)
  <2>1. printed' = <<printed[1] + 1, 1>>
    BY <1>1, <1>3 DEF After
  <2>2. printed[1] + 1 \in 1..MaxLines
    BY <1>1, <2>1, LinkAssumption DEF AirInv
  <2>. QED BY <1>1, <1>2, <1>3, <2>1, <2>2, LinkAssumption DEF Printable
<1>4. CASE ~Newline(printed)
  <2>1. printed' = <<printed[1], printed[2] + 1>>
    BY <1>1, <1>4 DEF After
  <2>2. printed[1] \in 1..MaxLines
    BY <1>1, <2>1, LinkAssumption DEF AirInv
  <2>3. printed[2] + 1 <= Places(printed[1]) + 1
    BY <1>2, <1>4 DEF Newline, AirInv
  <2>4. printed[2] + 1 \in 1..Fields + 1
    BY <1>2, <2>3, LinkAssumption DEF AirInv
  <2>. QED BY <1>1, <1>4, <2>1, <2>2, <2>3, <2>4 DEF Printable
<1>. QED BY <1>3, <1>4

-----------------------------------------------------------------------------
(* The steps, one lemma for each that the invariant has something to say    *)
(* about.                                                                  *)

LEMMA InitInv == Init => Inv
<1> SUFFICES ASSUME Init PROVE Inv
  OBVIOUS
<1>1. /\ queue = << >> /\ air = << >> /\ readBuffer = << >>
      /\ printed = <<1, 0>> /\ state = [f \in 1..Fields |-> <<0, f>>]
      /\ streams = "none" /\ stage = 0 /\ thread = "starting"
  BY DEF Init
<1>2. state \in [1..Fields -> Bytes]
  BY <1>1, LinkAssumption DEF Bytes
<1>3. up \in BOOLEAN /\ blueToothConnected \in BOOLEAN
  BY Zenon DEF Init
<1>4. Len(<< >>) = 0 /\ DOMAIN << >> = {}
  OBVIOUS
<1>5. TypeOK
  BY <1>1, <1>2, <1>3, <1>4, LinkAssumption DEF Init, TypeOK
<1>6. AirInv
  BY <1>1, EmptySeq, PlacesOfLine DEF AirInv
<1>7. LineInv
  BY <1>1, EmptySeq DEF LineInv
<1>8. AlarmInv
  BY DEF Init, AlarmInv
<1>. QED
  BY <1>1, <1>5, <1>6, <1>7, <1>8
  DEF Inv, ReceptionRight, OnlyFirstLineTorn, AlarmPerConnection, AlarmInv

\* The robot prints a byte, and while the link is there it can be read.
LEMMA PrintInv == ASSUME Inv, RobotPrints PROVE Inv'
<1> USE DEF Inv, ReceptionRight
<1>1. /\ printed' = After(printed) /\ printed' \in Printable
  BY PrintsAfter
<1>2. UNCHANGED <<up, losses, streams, thread, queue, posted, written, readBuffer,
                  state, stage, blueToothConnected, alarms, live>>
  BY DEF RobotPrints, linkVars, threadVars, dataVars
<1>3. CASE air' = air /\ streams # "open"
  <2>1. AirInv'
    BY <1>1, <1>2, <1>3, PrintableByte DEF AirInv
  <2>. QED
    BY <1>2, <1>3, <2>1 DEF TypeOK, OnlyFirstLineTorn, AlarmPerConnection,
       LineInv, AlarmInv, Continues
<1>4. CASE streams = "open" /\ air' = Append(air, printed')
  <2>1. air \in Seq(Printable) /\ Len(air) \in Nat
    BY DEF AirInv
  <2>2. /\ air' \in Seq(Printable) /\ air' # << >> /\ Len(air') = Len(air) + 1
        /\ \A i \in 1..Len(air) : air'[i] = air[i]
        /\ air'[Len(air) + 1] = printed'
    BY <1>1, <1>4, <2>1, AppendProperties
  <2>3. ASSUME NEW i \in 1..Len(air') - 1 PROVE air'[i + 1] = After(air'[i])
    <3>1. i \in 1..Len(air) /\ air'[i] = air[i]
      BY <2>1, <2>2
    <3>2. CASE i \in 1..Len(air) - 1
      <4>1. i + 1 \in 1..Len(air)
        BY <2>1, <3>2
      <4>. QED BY <2>2, <3>1, <3>2, <4>1 DEF AirInv
    <3>3. CASE i = Len(air)
      <4>1. air[i] = printed
        BY <1>4, <3>1, <3>3, <2>1 DEF AirInv
      <4>. QED BY <1>1, <2>2, <3>1, <3>3, <4>1
    <3>. QED BY <2>1, <3>1, <3>2, <3>3
  <2>4. AirInv'
    BY <1>1, <1>2, <1>4, <2>2, <2>3, PrintableByte DEF AirInv
  <2>5. stage # 0 => Continues(air'[1])
    <3>1. CASE air = << >>
      <4>1. air'[1] = printed'
        BY <2>2, <3>1
      <4>. QED BY <1>1, <1>4, <3>1, <4>1 DEF LineInv
    <3>2. CASE air # << >>
      <4>1. 1 \in 1..Len(air)
        BY <2>1, <3>2
      <4>. QED BY <1>4, <2>2, <3>2, <4>1 DEF LineInv
    <3>. QED BY <3>1, <3>2
  <2>6. LineInv'
    BY <1>2, <2>2, <2>5 DEF LineInv, Continues
  <2>7. \A n \in DOMAIN air' : air'[n] \in Bytes
    <3>1. DOMAIN air' = 1..Len(air')
      BY <2>2
    <3>. QED BY <2>2, <3>1, ElementOfSeq, PrintableByte
  <2>. QED
    BY <1>2, <2>4, <2>6, <2>7 DEF TypeOK, OnlyFirstLineTorn, AlarmPerConnection,
       AlarmInv
<1>. QED BY <1>3, <1>4 DEF RobotPrints, TypeOK

\* A byte is taken from the air: what follows it is there, or is still to be
\* printed.
LEMMA TakeByte ==
  ASSUME AirInv, air # << >>, air' = Tail(air), UNCHANGED <<printed, streams, thread>>
  PROVE  /\ AirInv'
         /\ Head(air) \in Printable /\ Head(air) = air[1]
         /\ air' # << >> => air'[1] = After(Head(air))
         /\ air' = << >> /\ streams = "open" => printed = Head(air)
         /\ \A n \in DOMAIN air' : air'[n] \in Bytes
<1> USE DEF AirInv
<1>1. Len(air) \in Nat \ {0} /\ Head(air) = air[1] /\ air[1] \in Printable
  BY ElementOfSeq, EmptySeq
<1>2. /\ air' \in Seq(Printable) /\ Len(air') = Len(air) - 1
      /\ \A i \in 1..Len(air') : air'[i] = air[i + 1]
  BY HeadTailProperties
<1>3. ASSUME NEW i \in 1..Len(air') - 1 PROVE air'[i + 1] = After(air'[i])
  <2>1. i \in 1..Len(air') /\ i + 1 \in 1..Len(air') /\ i + 1 \in 1..Len(air) - 1
    BY <1>1, <1>2
  <2>. QED BY <1>2, <2>1
<1>4. air' # << >> => air'[1] = After(air[1])
  <2> SUFFICES ASSUME air' # << >> PROVE air'[1] = After(air[1])
    OBVIOUS
  <2>1. 1 \in 1..Len(air') /\ 1 \in 1..Len(air) - 1
    BY <1>1, <1>2
  <2>. QED BY <1>2, <2>1
<1>5. streams = "open" /\ air' # << >> => air'[Len(air')] = printed
  <2> SUFFICES ASSUME streams = "open", air' # << >> PROVE air'[Len(air')] = printed
    OBVIOUS
  <2>1. Len(air') \in 1..Len(air') /\ Len(air') + 1 = Len(air)
    BY <1>1, <1>2
  <2>. QED BY <1>2, <2>1
<1>6. air' = << >> /\ streams = "open" => printed = air[1]
  BY <1>1, <1>2
<1>7. \A n \in DOMAIN air' : air'[n] \in Bytes
  <2>1. DOMAIN air' = 1..Len(air')
    BY <1>2
  <2>. QED BY <1>2, <2>1, ElementOfSeq, PrintableByte
<1>8. streams = "none" => air' = << >>
  OBVIOUS
<1>. QED BY <1>1, <1>2, <1>3, <1>4, <1>5, <1>6, <1>7, <1>8

\* A byte within a line goes into the read buffer.
LEMMA ReadInLine == ASSUME Inv, ReadByte, ~Newline(Head(air)) PROVE Inv'
<1> USE DEF Inv, ReceptionRight
<1> DEFINE b == Head(air)
<1>1. /\ air # << >> /\ air' = Tail(air) /\ readBuffer' = Append(readBuffer, b)
      /\ UNCHANGED <<up, losses, streams, thread, queue, posted, written, printed,
                     state, blueToothConnected, stage, live, alarms>>
  BY DEF ReadByte, linkVars, threadVars
<1>2. /\ AirInv' /\ b \in Printable /\ b = air[1]
      /\ air' # << >> => air'[1] = After(b)
      /\ air' = << >> /\ streams = "open" => printed = b
      /\ \A n \in DOMAIN air' : air'[n] \in Bytes
  BY <1>1, TakeByte
<1>3. readBuffer \in Seq(Printable) /\ Len(readBuffer) \in Nat
  BY DEF LineInv
<1>4. /\ readBuffer' \in Seq(Printable) /\ readBuffer' # << >>
      /\ Len(readBuffer') = Len(readBuffer) + 1
      /\ \A i \in 1..Len(readBuffer) : readBuffer'[i] = readBuffer[i]
      /\ readBuffer'[Len(readBuffer) + 1] = b
  BY <1>1, <1>2, <1>3, AppendProperties
<1>5. \A n \in DOMAIN readBuffer' : ~Newline(readBuffer'[n])
  <2>1. DOMAIN readBuffer' = 1..Len(readBuffer) + 1
        /\ DOMAIN readBuffer = 1..Len(readBuffer)
    BY <1>3, <1>4
  <2> SUFFICES ASSUME NEW n \in 1..Len(readBuffer) + 1
               PROVE  ~Newline(readBuffer'[n])
    BY <2>1
  <2>2. CASE n \in 1..Len(readBuffer)
    BY <1>4, <2>1, <2>2 DEF TypeOK
  <2>3. CASE n = Len(readBuffer) + 1
    BY <1>4, <2>3
  <2>. QED BY <1>3, <2>2, <2>3
<1>6. LineInv'
  <2> SUFFICES ASSUME streams # "none", stage # 0
               PROVE  /\ \A i \in 1..Len(readBuffer') :
                           readBuffer'[i] = <<readBuffer'[1][1], i>>
                      /\ air' # << >> => Continues(air[1])'
                      /\ streams = "open" /\ air' = << >> => Continues(After(printed))'
    BY <1>1, <1>4 DEF LineInv, Continues
  <2>1. Continues(b)
    BY <1>1, <1>2 DEF LineInv
  <2>2. b = <<readBuffer'[1][1], Len(readBuffer) + 1>>
    <3>1. CASE readBuffer = << >>
      <4>1. Len(readBuffer) = 0 /\ readBuffer'[1] = b /\ b[2] = 1
        BY <1>3, <1>4, <2>1, <3>1 DEF Continues
      <4>. QED BY <1>2, <4>1, PrintableByte
    <3>2. CASE readBuffer # << >>
      <4>1. readBuffer'[1] = readBuffer[1]
        BY <1>3, <1>4, <3>2
      <4>. QED BY <2>1, <3>2, <4>1 DEF Continues
    <3>. QED BY <3>1, <3>2
  <2>3. ASSUME NEW i \in 1..Len(readBuffer')
        PROVE  readBuffer'[i] = <<readBuffer'[1][1], i>>
    <3>1. CASE i \in 1..Len(readBuffer)
      <4>1. readBuffer[i] = <<readBuffer[1][1], i>> /\ 1 \in 1..Len(readBuffer)
        BY <1>3, <3>1 DEF LineInv
      <4>. QED BY <1>4, <3>1, <4>1
    <3>2. CASE i = Len(readBuffer) + 1
      BY <1>4, <2>2, <3>2
    <3>. QED BY <1>3, <1>4, <3>1, <3>2
  <2>4. After(b) = <<readBuffer'[1][1], Len(readBuffer') + 1>>
    <3>1. b[1] = readBuffer'[1][1] /\ b[2] = Len(readBuffer')
      BY <1>4, <2>2
    <3>. QED BY <3>1 DEF After
  <2>5. air' # << >> => Continues(air[1])'
    BY <1>2, <1>4, <2>4 DEF Continues
  <2>6. streams = "open" /\ air' = << >> => Continues(After(printed))'
    BY <1>1, <1>2, <1>4, <2>4 DEF Continues, After, Newline, Places
  <2>. QED BY <2>3, <2>5, <2>6
<1>. QED
  BY <1>1, <1>2, <1>5, <1>6
  DEF TypeOK, OnlyFirstLineTorn, AlarmPerConnection, AlarmInv

\* After the first newline of a connection the read buffer holds, when the next
\* one comes, all of the fields of its line and nothing else.
LEMMA WholeLine ==
  ASSUME LineInv, streams # "none", stage # 0, air # << >>, NEW b \in Printable,
         b = air[1], Newline(b)
  PROVE  /\ readBuffer # << >> /\ Len(readBuffer) = Places(b[1])
         /\ \A i \in 1..Len(readBuffer) : readBuffer[i] = <<b[1], i>>
<1>1. Continues(b)
  BY DEF LineInv
<1>2. b[2] = Places(b[1]) + 1 /\ Places(b[1]) \in 1..Fields
  BY NewlinePrintable, PlacesOfLine
<1>3. readBuffer # << >>
  BY <1>1, <1>2, LinkAssumption DEF Continues
<1>4. b[1] = readBuffer[1][1] /\ b[2] = Len(readBuffer) + 1
  BY <1>1, <1>3 DEF Continues
<1>5. Len(readBuffer) \in Nat
  BY DEF LineInv
<1>. QED BY <1>2, <1>3, <1>4, <1>5, LinkAssumption DEF LineInv

\* A newline hands the read buffer over.
LEMMA ReadNewline == ASSUME Inv, ReadByte, Newline(Head(air)) PROVE Inv'
<1> USE DEF Inv, ReceptionRight
<1> DEFINE b == Head(air)
<1>1. /\ air # << >> /\ streams # "none" /\ air' = Tail(air) /\ readBuffer' = << >>
      /\ blueToothConnected' = TRUE
      /\ state' = IF readBuffer # << >> /\ readBuffer[1][1] \in LogLines
                  THEN state ELSE Parsed(readBuffer)
      /\ stage' = IF stage = 0 THEN 1
                  ELSE IF b[1] \in LogLines THEN stage ELSE 2
      /\ live' = IF stage = 0 THEN live + 1 ELSE live
      /\ UNCHANGED <<up, losses, streams, thread, queue, posted, written, printed,
                     alarms>>
  BY DEF ReadByte, ReadLine, onBtDataRecive, linkVars, threadVars
<1>2. /\ AirInv' /\ b \in Printable /\ b = air[1]
      /\ air' # << >> => air'[1] = After(b)
      /\ air' = << >> /\ streams = "open" => printed = b
      /\ \A n \in DOMAIN air' : air'[n] \in Bytes
  BY <1>1, TakeByte
<1>3. After(b)[2] = 1
  BY DEF After
<1>4. LineInv'
  <2>1. Len(readBuffer') = 0 /\ readBuffer' \in Seq(Printable)
    BY <1>1, EmptySeq
  <2>2. air' # << >> => Continues(air[1])'
    BY <1>1, <1>2, <1>3 DEF Continues
  <2>3. streams' = "open" /\ air' = << >> => Continues(After(printed))'
    BY <1>1, <1>2, <1>3 DEF Continues, After, Newline, Places
  <2>. QED BY <1>1, <2>1, <2>2, <2>3 DEF LineInv
<1>5. AlarmInv' /\ AlarmPerConnection'
  BY <1>1 DEF AlarmInv, AlarmPerConnection
<1>6. state' \in [1..Fields -> Bytes]
  <2>1. ASSUME NEW f \in 1..Fields, f <= Len(readBuffer) PROVE readBuffer[f] \in Bytes
    <3>1. readBuffer \in Seq(Printable) /\ f \in 1..Len(readBuffer)
      BY <2>1 DEF LineInv
    <3>. QED BY <3>1, ElementOfSeq, PrintableByte
  <2>2. Parsed(readBuffer) \in [1..Fields -> Bytes]
    BY <2>1 DEF Parsed, TypeOK
  <2>. QED BY <1>1, <2>2 DEF TypeOK
<1>7. OnlyFirstLineTorn'
  <2> SUFFICES ASSUME stage # 0, stage' = 2
               PROVE  \E line \in 1..MaxLines : \A f \in 1..Fields :
                        state'[f] = <<line, f>>
    BY <1>1 DEF OnlyFirstLineTorn
  <2>1. /\ readBuffer # << >> /\ Len(readBuffer) = Places(b[1])
        /\ \A i \in 1..Len(readBuffer) : readBuffer[i] = <<b[1], i>>
    BY <1>1, <1>2, WholeLine
  <2>2. 1 \in 1..Len(readBuffer) /\ readBuffer[1][1] = b[1]
    BY <2>1, PlacesOfLine, LinkAssumption
  <2>3. CASE b[1] \in LogLines
    BY <1>1, <2>1, <2>2, <2>3 DEF OnlyFirstLineTorn
  <2>4. CASE b[1] \notin LogLines
    <3>1. Len(readBuffer) = Fields
      BY <2>1, <2>4 DEF Places
    <3>2. state' = Parsed(readBuffer)
      BY <1>1, <2>2, <2>4
    <3>3. ASSUME NEW f \in 1..Fields PROVE state'[f] = <<b[1], f>>
      <4>1. f <= Len(readBuffer) /\ \A g \in 1..f : readBuffer[g][1] \notin LogLines
        BY <2>1, <2>4, <3>1, LinkAssumption
      <4>2. state'[f] = readBuffer[f]
        BY <3>2, <4>1 DEF Parsed
      <4>. QED BY <2>1, <3>1, <4>2
    <3>4. b[1] \in 1..MaxLines
      BY <1>2, PrintableByte
    <3>. QED BY <3>3, <3>4
  <2>. QED BY <2>3, <2>4
<1>8. TypeOK'
  <2>1. DOMAIN readBuffer' = {} /\ stage' \in 0..2
    BY <1>1 DEF TypeOK
  <2>2. blueToothConnected' \in BOOLEAN
    BY <1>1, Zenon
  <2>. QED BY <1>1, <1>2, <1>6, <2>1, <2>2 DEF TypeOK
<1>. QED BY <1>2, <1>4, <1>5, <1>7, <1>8

\* A link that is found to be lost is given up, with one alarm if it had
\* delivered anything.
LEMMA DisconnectInv ==
  ASSUME Inv, streams = "broken", Disconnect, onBtDataError, Len(queue') <= QueueBound,
         thread' \in {"looping", "reading"},
         UNCHANGED <<up, losses, posted, written, printed, dataVars, live>>
  PROVE  Inv'
<1> USE DEF Inv, ReceptionRight, dataVars
<1>1. streams' = "none" /\ air' = << >>
  BY DEF Disconnect
<1>2. blueToothConnected' = FALSE /\ blueToothConnected' \in BOOLEAN
  BY Zenon DEF onBtDataError
<1>3. alarms' \in Nat /\ alarms' <= live
  BY DEF onBtDataError, AlarmInv, TypeOK
<1>4. AlarmInv' /\ AlarmPerConnection'
  BY <1>1, <1>2, <1>3 DEF AlarmInv, AlarmPerConnection
<1>5. AirInv'
  BY <1>1, EmptySeq, PlacesOfLine DEF AirInv, Newline, Places
<1>6. LineInv'
  BY <1>1 DEF LineInv
<1>7. TypeOK'
  <2>1. DOMAIN air' = {}
    BY <1>1
  <2>. QED BY <1>1, <1>2, <2>1 DEF TypeOK
<1>. QED BY <1>4, <1>5, <1>6, <1>7 DEF OnlyFirstLineTorn

\* What a message does to the queue leaves it within its bound.
LEMMA QueueBounded ==
  ASSUME QueueInv, Len(queue) <= QueueBound, queue # << >>, queue' = Tail(queue)
  PROVE  Len(queue') <= QueueBound
<1>1. Len(queue) \in Nat /\ Len(queue') = Len(queue) - 1
  BY HeadTailProperties DEF QueueInv
<1>. QED BY <1>1, LinkAssumption

LEMMA WriteMessageInv == ASSUME Inv, QueueInv, QueueInv', WriteMessage PROVE Inv'
<1>1. Len(queue') <= QueueBound
  BY QueueBounded DEF WriteMessage, Inv, ReceptionRight, TypeOK
<1>2. CASE streams = "open"
  <2>1. /\ written' \in Seq(1..MaxMsgs) /\ thread' = "reading"
        /\ UNCHANGED <<up, losses, streams, posted, air, printed, readBuffer, state,
                       stage, blueToothConnected, alarms, live>>
    BY <1>2 DEF WriteMessage, QueueInv, linkVars, dataVars
  <2>. QED
    BY <1>1, <1>2, <2>1 DEF Inv, ReceptionRight, TypeOK, OnlyFirstLineTorn,
       AlarmPerConnection, AirInv, LineInv, AlarmInv, Continues
<1>3. CASE streams = "broken"
  BY <1>1, <1>3, DisconnectInv DEF WriteMessage, linkVars
<1>. QED BY <1>2, <1>3 DEF WriteMessage

LEMMA NextInv == Inv /\ QueueInv /\ QueueInv' /\ [Next]_vars => Inv'
<1> SUFFICES ASSUME Inv, QueueInv, QueueInv', [Next]_vars PROVE Inv'
  OBVIOUS
<1>1. CASE RobotPrints
  BY <1>1, PrintInv
<1>2. CASE ReadByte
  BY <1>2, ReadInLine, ReadNewline
<1>3. CASE WriteMessage
  BY <1>3, WriteMessageInv
<1>4. CASE ReadFails
  <2>1. Len(queue') <= QueueBound
    BY <1>4 DEF ReadFails, threadVars, Inv, ReceptionRight, TypeOK
  <2>. QED
    BY <1>4, <2>1, DisconnectInv DEF ReadFails, linkVars, threadVars
<1> USE DEF Inv, ReceptionRight, TypeOK, OnlyFirstLineTorn, AlarmPerConnection,
        AirInv, LineInv, AlarmInv, Continues, linkVars, threadVars, dataVars
<1>5. CASE LoseLink
  <2>1. up' \in BOOLEAN
    BY <1>5, Zenon DEF LoseLink
  <2>3. losses' \in 0..MaxLosses
    BY <1>5, LinkAssumption DEF LoseLink
  <2>2. /\ streams' = IF streams = "open" THEN "broken" ELSE streams
        /\ UNCHANGED <<thread, queue, posted, written, air, printed, readBuffer,
                       state, stage, blueToothConnected, alarms, live>>
    BY <1>5 DEF LoseLink
  <2>. QED BY <2>1, <2>2, <2>3
<1>6. CASE FindLink
  <2>1. up' \in BOOLEAN /\ streams # "open"
    BY <1>6, Zenon DEF FindLink
  <2>. QED BY <1>6, <2>1 DEF FindLink
<1>7. CASE Post
  <2>1. Len(queue') <= QueueBound /\ posted' \in 0..MaxMsgs
    <3>1. Len(queue') = Len(queue) + 1
      BY <1>7 DEF Post, QueueInv
    <3>2. Len(queue) \in Nat
      BY DEF QueueInv
    <3>. QED BY <1>7, <3>1, <3>2, LinkAssumption DEF Post, QueueInv
  <2>. QED BY <1>7, <2>1 DEF Post
<1>8. CASE ConnectReturns
  BY <1>8 DEF ConnectReturns
<1>9. CASE DropAndConnect
  BY <1>9, QueueBounded DEF DropAndConnect
<1>10. CASE ReadDone
  BY <1>10 DEF ReadDone
<1>11. CASE UNCHANGED vars
  BY <1>11 DEF vars
<1>. QED
  BY <1>1, <1>2, <1>3, <1>4, <1>5, <1>6, <1>7, <1>8, <1>9, <1>10, <1>11
  DEF Next, BTThread

\* Only the first line of a connection can be torn, however often the link is
\* lost in the middle of a line and whatever the read buffer keeps; there is at
\* most one alarm for each connection that delivered anything; and no stream
\* counts as open that has lost its link.
THEOREM ReceivedRight == Spec => []ReceptionRight
<1>1. Spec => [](Inv /\ QueueInv)
  BY InitInv, InitQueue, NextInv, NextQueue, PTL DEF Spec
<1>. QED BY <1>1, PTL DEF Inv

=============================================================================
