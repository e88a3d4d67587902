---------------------------- MODULE Flows_proofs ----------------------------
(***************************************************************************)
(* What comes through comes once and whole: the safety properties of the   *)
(* parts of Links, for any sizes of datagrams and buffers, any commands, any *)
(* number of cells, texts and blobs, and pictures of any size.             *)
(***************************************************************************)
EXTENDS Links, Integers, SequenceTheorems, FiniteSetTheorems, WellFoundedInduction,
        TLAPS

(***************************************************************************)
(* Video: a picture shown is one frame, sent on a connected socket.        *)
(***************************************************************************)

\* The console's buffer is full once a datagram ran over it, and empty before.
VideoInv ==
  /\ Video!TypeOK /\ Video!SendsOnSocket
  /\ packetBuffPos \in {0, Capacity} /\ (packetBuffPos = 0 \/ overrun)
  /\ packetBuffPos = 0 => packetBuffer = << >>
  /\ Len(android) <= 1

LEMMA VideoInit == Video!VideoAssumption /\ Video!Init => VideoInv
<1> SUFFICES ASSUME Video!VideoAssumption, Video!Init PROVE VideoInv
  OBVIOUS
<1>1. Video!TypeOK
  <2>1. open \in 0..FdLimit /\ frame \in 0..MaxFrames /\ packetBuffPos \in 0..Capacity
    BY DEF Video!VideoAssumption, Video!Init
  <2>. QED BY <2>1 DEF Video!TypeOK, Video!Init
<1>2. Len(android) <= 1
  BY EmptySeq DEF Video!Init
<1>. QED BY <1>1, <1>2 DEF VideoInv, Video!SendsOnSocket, Video!Init

\* A datagram that comes to the console.
LEMMA DeliverRight ==
  ASSUME Video!VideoAssumption, VideoInv, Video!Deliver
  PROVE  VideoInv'
<1>1. PICK p \in net : net' = net \ {p} /\ Video!videoPacketHandler(p)
  BY DEF Video!Deliver
<1>2. /\ p.size \in Nat /\ p.size > 0 /\ Capacity \in Nat
  <2>1. p \in [frame : 1..MaxFrames, size : Sizes]
    BY DEF VideoInv, Video!TypeOK
  <2>2. p.size \in Sizes
    BY <2>1
  <2>3. Sizes \subseteq Nat \ {0} /\ Capacity \in Nat
    BY DEF Video!VideoAssumption
  <2>4. p.size \in Nat /\ p.size # 0
    BY <2>2, <2>3
  <2>. QED BY <2>3, <2>4
<1>3. CASE Video!Overrun(p)
  <2>1. /\ packetBuffPos' = Capacity /\ overrun' = TRUE /\ android' = android
        /\ packetBuffPos' = 0 => packetBuffer' = packetBuffer /\ packetBuffPos = 0
    BY <1>2, <1>3 DEF Video!Overrun, VideoInv
  <2>. QED BY <1>1, <1>2, <2>1 DEF Video!Deliver, VideoInv, Video!TypeOK, Video!SendsOnSocket,
                                   Video!phone, Video!world
<1>4. CASE /\ packetBuffPos + p.size <= Capacity
           /\ android' = Append(packetBuffer, p.frame)
           /\ packetBuffer' = << >> /\ packetBuffPos' = 0 /\ UNCHANGED overrun
  <2>1. packetBuffPos = 0 /\ packetBuffer = << >>
    BY <1>2, <1>4 DEF VideoInv
  <2>2. Len(android') = 1
    BY <1>4, <2>1, EmptySeq, AppendProperties
  <2>. QED BY <1>1, <1>2, <1>4, <2>2 DEF Video!Deliver, VideoInv, Video!TypeOK,
                                   Video!SendsOnSocket, Video!phone, Video!world
<1>. QED BY <1>1, <1>3, <1>4 DEF Video!videoPacketHandler

LEMMA VideoStep ==
  ASSUME Video!VideoAssumption, VideoInv, [Video!Next]_Video!vars
  PROVE  VideoInv'
<1> USE DEF VideoInv, Video!TypeOK, Video!SendsOnSocket, Video!phone, Video!world, Video!console
<1>1. CASE Video!ConsoleConnects
  BY <1>1 DEF Video!ConsoleConnects
<1>2. CASE Video!RouteChanges
  BY <1>2 DEF Video!RouteChanges
<1>3. CASE Video!SetUpVideo
  <2>1. open \in 0..FdLimit /\ FdLimit \in Nat
    BY DEF Video!VideoAssumption
  <2>2. /\ SocketFD' \in {"bad", "closed", "unconnected", "connected"}
        /\ open' \in 0..FdLimit /\ failed' \in BOOLEAN
        /\ sendVideo' \in BOOLEAN /\ (sendVideo' => SocketFD' = "connected")
    <3>1. CASE Video!NoSocket /\ UNCHANGED sendVideo
      BY <1>3, <2>1, <3>1 DEF Video!SetUpVideo, Video!NoSocket
    <3>2. CASE Video!BadAddress /\ UNCHANGED sendVideo
      BY <1>3, <2>1, <3>2 DEF Video!SetUpVideo, Video!BadAddress
    <3>3. CASE Video!NoRoute /\ UNCHANGED sendVideo
      BY <1>3, <2>1, <3>3 DEF Video!SetUpVideo, Video!NoRoute
    <3>4. CASE Video!Connected /\ sendVideo' = TRUE
      BY <1>3, <2>1, <3>4 DEF Video!SetUpVideo, Video!Connected
    <3>. QED BY <1>3, <3>1, <3>2, <3>3, <3>4 DEF Video!SetUpVideo
  <2>. QED BY <1>3, <2>2 DEF Video!SetUpVideo
<1>4. CASE Video!SendFrame
  <2>1. PICK s \in Sizes : Video!sendJPEG(s)
    BY <1>4 DEF Video!SendFrame
  <2>2. frame' \in 1..MaxFrames
    BY <2>1 DEF Video!sendJPEG, Video!VideoAssumption
  <2>3. net' \subseteq [frame : 1..MaxFrames, size : Sizes] /\ pinned' = 0
    BY <2>1, <2>2 DEF Video!sendJPEG
  <2>. QED BY <2>1, <2>2, <2>3 DEF Video!sendJPEG
<1>5. CASE Video!Lose
  BY <1>5 DEF Video!Lose
<1>6. CASE Video!Deliver
  BY <1>6, DeliverRight
<1>7. CASE UNCHANGED Video!vars
  BY <1>7 DEF Video!vars
<1>. QED BY <1>1, <1>2, <1>3, <1>4, <1>5, <1>6, <1>7 DEF Video!Next

LEMMA VideoRight ==
  Video!VideoAssumption /\ Video!Spec =>
    [](Video!TypeOK /\ Video!SendsOnSocket /\ Video!ShowsOneFrame)
<1>1. Video!VideoAssumption /\ Video!Init => VideoInv
  BY VideoInit
<1>2. VideoInv /\ Video!VideoAssumption /\ [Video!Next]_Video!vars => VideoInv'
  BY VideoStep
<1>3. Video!VideoAssumption => Video!VideoAssumption'
  BY DEF Video!VideoAssumption
<1>4. VideoInv => Video!TypeOK /\ Video!SendsOnSocket /\ Video!ShowsOneFrame
  BY DEF VideoInv, Video!ShowsOneFrame
<1>. QED BY <1>1, <1>2, <1>3, <1>4, PTL DEF Video!Spec

(***************************************************************************)
(* The console: texts and blobs come once and in order.                    *)
(***************************************************************************)

\* All of s are below b.
Below(s, b) == \A n \in 1..Len(s) : s[n] < b

\* From the clearing of a text to the sending of the next, the text to speak is
\* newer than what was spoken.
TextInv ==
  /\ spoken \in Seq(Nat) /\ Con!Rising(spoken) /\ Below(spoken, typed + 1)
  /\ loop \in {"get", "send", "sleep"} =>
       extraData = 0 \/ Below(spoken, extraData)

\* Blobs on their way come in order, after the one that is kept and the one that
\* is read, and these after what was drawn.
BlobInv ==
  /\ arriving \in Seq(Nat) /\ drawn \in Seq(Nat) /\ Con!Rising(drawn)
  /\ Below(drawn, blobs + 1) /\ Below(arriving, blobs + 1)
  /\ \A k \in 1..Len(arriving) :
       /\ _targetBlob < arriving[k] /\ tb < arriving[k] /\ Below(drawn, arriving[k])
       /\ \A j \in 1..k - 1 : arriving[j] < arriving[k]
  /\ drawing \in BOOLEAN
  /\ IF drawing THEN Below(drawn, tb) ELSE _targetBlob = 0 \/ Below(drawn, _targetBlob)

ConInv == Con!ConsoleAssumption /\ Con!TypeOK /\ TextInv /\ BlobInv

\* A larger number at the end of a rising sequence.
LEMMA StillRising ==
  ASSUME NEW s \in Seq(Nat), Con!Rising(s), NEW x \in Nat, Below(s, x)
  PROVE  /\ Append(s, x) \in Seq(Nat) /\ Con!Rising(Append(s, x))
         /\ \A b \in Nat : x < b => Below(Append(s, x), b)
<1>1. /\ Append(s, x) \in Seq(Nat) /\ Len(Append(s, x)) = Len(s) + 1 /\ Len(s) \in Nat
      /\ \A n \in 1..Len(s) : Append(s, x)[n] = s[n] /\ s[n] \in Nat
      /\ Append(s, x)[Len(s) + 1] = x
  BY AppendProperties, LenProperties, ElementOfSeq
<1>2. ASSUME NEW n \in 1..(Len(s) + 1) - 1 PROVE Append(s, x)[n] < Append(s, x)[n + 1]
  <2>1. n \in 1..Len(s)
    BY <1>1
  <2>2. CASE n = Len(s)
    BY <1>1, <2>1, <2>2 DEF Below
  <2>3. CASE n # Len(s)
    <3>1. n \in 1..Len(s) - 1 /\ n + 1 \in 1..Len(s)
      BY <1>1, <2>1, <2>3
    <3>. QED BY <1>1, <2>1, <3>1 DEF Con!Rising
  <2>. QED BY <2>2, <2>3
<1>3. ASSUME NEW b \in Nat, x < b PROVE Below(Append(s, x), b)
  <2> SUFFICES ASSUME NEW n \in 1..Len(s) + 1 PROVE Append(s, x)[n] < b
    BY <1>1 DEF Below
  <2>1. CASE n = Len(s) + 1
    BY <1>1, <1>3, <2>1
  <2>2. CASE n # Len(s) + 1
    <3>1. n \in 1..Len(s)
      BY <1>1, <2>2
    <3>. QED BY <1>1, <1>3, <3>1 DEF Below
  <2>. QED BY <2>1, <2>2
<1>. QED BY <1>1, <1>2, <1>3 DEF Con!Rising

LEMMA ConInit == Con!ConsoleAssumption /\ Con!Init => ConInv
<1> SUFFICES ASSUME Con!ConsoleAssumption, Con!Init PROVE ConInv
  OBVIOUS
<1>1. << >> \in Seq(Nat) /\ Len(<< >>) = 0
  BY EmptySeq
<1>2. Con!TypeOK
  <2>1. 0 \in 0..MaxTexts /\ 0 \in 0..MaxBlobs
    BY DEF Con!ConsoleAssumption
  <2>. QED BY <2>1 DEF Con!Init, Con!TypeOK
<1>3. TextInv
  BY <1>1 DEF Con!Init, TextInv, Below, Con!Rising
<1>4. BlobInv
  <2>1. arriving = << >> /\ drawn = << >> /\ drawing = FALSE /\ _targetBlob = 0
    BY DEF Con!Init
  <2>2. Below(drawn, blobs + 1) /\ Below(arriving, blobs + 1) /\ Con!Rising(drawn)
    BY <1>1, <2>1 DEF Below, Con!Rising
  <2>3. /\ arriving \in Seq(Nat) /\ drawn \in Seq(Nat)
        /\ \A k \in 1..Len(arriving) : FALSE
    BY <1>1, <2>1
  <2>. QED BY <2>1, <2>2, <2>3 DEF BlobInv
<1>. QED BY <1>2, <1>3, <1>4 DEF ConInv

Texts == {"get", "send", "sleep"}

\* The texts, in the loop and in the callback.
LEMMA TextStep ==
  ASSUME ConInv, [Con!Next]_Con!vars
  PROVE  TextInv'
<1> USE DEF Con!speechVars, Con!blobVars
<1>1. CASE UNCHANGED <<extraData, typed, spoken>> /\ (loop' \in Texts => loop \in Texts)
  BY <1>1 DEF ConInv, TextInv, Below, Con!Rising, Texts
<1>2. CASE Con!sendTCP
  <2>1. spoken \in Seq(Nat) /\ extraData \in Nat /\ typed \in Nat /\ extraData < typed + 1
    BY DEF ConInv, TextInv, Con!TypeOK, Con!ConsoleAssumption
  <2>2. extraData # 0 => Below(spoken, extraData)
    BY <1>2 DEF Con!sendTCP, ConInv, TextInv
  <2>3. /\ spoken' = IF extraData = 0 THEN spoken ELSE Append(spoken, extraData)
        /\ typed' = typed /\ loop' = "update"
    BY <1>2 DEF Con!sendTCP
  <2>4. /\ spoken' \in Seq(Nat) /\ Con!Rising(spoken') /\ Below(spoken', typed + 1)
    BY <2>1, <2>2, <2>3, StillRising DEF ConInv, TextInv
  <2>. QED BY <2>3, <2>4 DEF TextInv, Below, Con!Rising
<1>3. CASE Con!ClearText
  BY <1>3 DEF Con!ClearText, ConInv, TextInv, Below, Con!Rising
<1>4. CASE Con!speech
  <2>1. typed \in Nat /\ typed' = typed + 1 /\ extraData' = typed + 1 /\ spoken' = spoken
        /\ \A n \in 1..Len(spoken) : spoken[n] \in Nat /\ spoken[n] < typed + 1
    BY <1>4, ElementOfSeq DEF Con!speech, ConInv, TextInv, Below, Con!TypeOK
  <2>. QED BY <2>1 DEF ConInv, TextInv, Below, Con!Rising
<1>5. CASE Con!Next /\ ~(Con!sendTCP \/ Con!ClearText \/ Con!speech)
  BY <1>1, <1>5 DEF Con!Next, Con!ControlLoop, Con!GetState, Con!received,
       Con!UpdateReturns, Con!Sleep, Con!SendBlob, Con!ReadBlob, Con!TakeBlob, Texts
<1>6. CASE UNCHANGED Con!vars
  BY <1>1, <1>6 DEF Con!vars
<1>. QED BY <1>2, <1>3, <1>4, <1>5, <1>6

\* The blobs, from the phone to the drawing thread.
LEMMA BlobStep ==
  ASSUME ConInv, [Con!Next]_Con!vars
  PROVE  BlobInv' /\ {_targetBlob', tb'} \subseteq 0..blobs'
<1> USE DEF Con!speechVars, Con!blobVars
<1>1. /\ arriving \in Seq(Nat) /\ drawn \in Seq(Nat) /\ blobs \in Nat
      /\ _targetBlob \in Nat /\ tb \in Nat /\ _targetBlob <= blobs /\ tb <= blobs
      /\ Len(arriving) \in Nat /\ Len(drawn) \in Nat
      /\ \A n \in 1..Len(arriving) : arriving[n] \in Nat /\ arriving[n] < blobs + 1
      /\ \A n \in 1..Len(drawn) : drawn[n] \in Nat /\ drawn[n] < blobs + 1
  BY ElementOfSeq, LenProperties DEF ConInv, BlobInv, Below, Con!TypeOK
<1>2. CASE UNCHANGED Con!blobVars
  BY <1>1, <1>2 DEF ConInv, BlobInv, Below, Con!Rising
<1>3. CASE Con!SendBlob
  <2>1. /\ blobs' = blobs + 1 /\ arriving' = Append(arriving, blobs + 1)
        /\ UNCHANGED <<_targetBlob, drawing, tb, drawn>>
    BY <1>3 DEF Con!SendBlob
  <2>2. /\ arriving' \in Seq(Nat) /\ Len(arriving') = Len(arriving) + 1
        /\ \A n \in 1..Len(arriving) : arriving'[n] = arriving[n]
        /\ arriving'[Len(arriving) + 1] = blobs + 1
    BY <1>1, <2>1, AppendProperties
  <2>3. Below(drawn', blobs' + 1) /\ Below(arriving', blobs' + 1)
    BY <1>1, <2>1, <2>2 DEF Below
  <2>4. ASSUME NEW k \in 1..Len(arriving')
        PROVE  /\ _targetBlob' < arriving'[k] /\ tb' < arriving'[k]
               /\ Below(drawn', arriving'[k])
               /\ \A j \in 1..k - 1 : arriving'[j] < arriving'[k]
    <3>1. CASE k = Len(arriving) + 1
      BY <1>1, <2>1, <2>2, <3>1 DEF Below
    <3>2. CASE k # Len(arriving) + 1
      <4>1. k \in 1..Len(arriving) /\ \A j \in 1..k - 1 : j \in 1..Len(arriving)
        BY <1>1, <2>2, <3>2
      <4>. QED BY <2>1, <2>2, <4>1 DEF ConInv, BlobInv, Below
    <3>. QED BY <3>1, <3>2
  <2>5. /\ Con!Rising(drawn') /\ drawing' \in BOOLEAN /\ drawn' \in Seq(Nat)
        /\ IF drawing' THEN Below(drawn', tb') ELSE _targetBlob' = 0 \/ Below(drawn', _targetBlob')
    BY <2>1 DEF ConInv, BlobInv, Below, Con!Rising
  <2>6. {_targetBlob', tb'} \subseteq 0..blobs'
    BY <1>1, <2>1
  <2>. QED BY <2>2, <2>3, <2>4, <2>5, <2>6 DEF BlobInv, Below, Con!Rising
<1>4. CASE Con!received
  <2>1. /\ arriving # << >> /\ arriving' = Tail(arriving) /\ _targetBlob' = Head(arriving)
        /\ UNCHANGED <<blobs, drawing, tb, drawn>>
    BY <1>4 DEF Con!received
  <2>2. /\ arriving' \in Seq(Nat) /\ Len(arriving') = Len(arriving) - 1
        /\ \A n \in 1..Len(arriving') : arriving'[n] = arriving[n + 1]
        /\ _targetBlob' = arriving[1] /\ 1 \in 1..Len(arriving)
    BY <1>1, <2>1, HeadTailProperties, EmptySeq
  <2>3. \A n \in 1..Len(arriving') : n + 1 \in 1..Len(arriving)
    BY <1>1, <2>2
  <2>4. ASSUME NEW k \in 1..Len(arriving')
        PROVE  /\ _targetBlob' < arriving'[k] /\ tb' < arriving'[k]
               /\ Below(drawn', arriving'[k])
               /\ \A j \in 1..k - 1 : arriving'[j] < arriving'[k]
    <3>1. /\ k + 1 \in 1..Len(arriving) /\ 1 \in 1..(k + 1) - 1 /\ arriving'[k] = arriving[k + 1]
          /\ \A j \in 1..k - 1 : /\ j + 1 \in 1..(k + 1) - 1 /\ j \in 1..Len(arriving')
                                 /\ arriving'[j] = arriving[j + 1]
      BY <1>1, <2>2, <2>3
    <3>. QED BY <2>1, <2>2, <3>1 DEF ConInv, BlobInv, Below
  <2>5. /\ Con!Rising(drawn') /\ drawing' \in BOOLEAN /\ drawn' \in Seq(Nat)
        /\ IF drawing' THEN Below(drawn', tb') ELSE _targetBlob' = 0 \/ Below(drawn', _targetBlob')
    BY <2>1, <2>2 DEF ConInv, BlobInv, Below, Con!Rising
  <2>6. {_targetBlob', tb'} \subseteq 0..blobs' /\ Below(drawn', blobs' + 1)
    BY <1>1, <2>1, <2>2 DEF Below
  <2>7. Below(arriving', blobs' + 1)
    BY <1>1, <2>1, <2>2, <2>3 DEF Below
  <2>. QED BY <2>2, <2>4, <2>5, <2>6, <2>7 DEF BlobInv, Below, Con!Rising
<1>5. CASE Con!ReadBlob
  BY <1>1, <1>5 DEF Con!ReadBlob, ConInv, BlobInv, Below, Con!Rising
<1>6. CASE Con!TakeBlob
  <2>1. /\ drawing /\ drawing' = FALSE /\ _targetBlob' = 0 /\ drawn' = Append(drawn, tb)
        /\ UNCHANGED <<arriving, blobs, tb>>
    BY <1>6 DEF Con!TakeBlob
  <2>2. /\ Con!Rising(drawn') /\ drawn' \in Seq(Nat)
        /\ \A b \in Nat : tb < b => Below(drawn', b)
    BY <1>1, <2>1, StillRising DEF ConInv, BlobInv
  <2>3. /\ Below(drawn', blobs' + 1)
        /\ \A k \in 1..Len(arriving) : 0 < arriving[k] /\ Below(drawn', arriving[k])
    BY <1>1, <2>1, <2>2 DEF ConInv, BlobInv
  <2>4. BlobInv'
    <3>1. /\ Below(arriving', blobs' + 1) /\ arriving' \in Seq(Nat) /\ drawing' \in BOOLEAN
          /\ ~drawing' /\ _targetBlob' = 0
      BY <2>1 DEF ConInv, BlobInv, Below
    <3>2. \A k \in 1..Len(arriving') :
            /\ _targetBlob' < arriving'[k] /\ tb' < arriving'[k] /\ Below(drawn', arriving'[k])
            /\ \A j \in 1..k - 1 : arriving'[j] < arriving'[k]
      BY <2>1, <2>3 DEF ConInv, BlobInv
    <3>. QED BY <2>2, <2>3, <3>1, <3>2 DEF BlobInv, Below, Con!Rising
  <2>5. {_targetBlob', tb'} \subseteq 0..blobs'
    BY <1>1, <2>1
  <2>. QED BY <2>4, <2>5
<1>7. CASE Con!Next /\ ~(Con!SendBlob \/ Con!received \/ Con!ReadBlob \/ Con!TakeBlob)
  BY <1>2, <1>7 DEF Con!Next, Con!ControlLoop, Con!GetState, Con!sendTCP,
       Con!UpdateReturns, Con!ClearText, Con!Sleep, Con!speech
<1>8. CASE UNCHANGED Con!vars
  BY <1>2, <1>8 DEF Con!vars
<1>. QED BY <1>3, <1>4, <1>5, <1>6, <1>7, <1>8

LEMMA ConStep == ConInv /\ [Con!Next]_Con!vars => ConInv'
<1> SUFFICES ASSUME ConInv, [Con!Next]_Con!vars PROVE ConInv'
  OBVIOUS
<1>1. /\ MaxTexts \in Nat /\ MaxBlobs \in Nat
      /\ typed \in 0..MaxTexts /\ blobs \in 0..MaxBlobs
      /\ extraData \in 0..typed
      /\ loop \in {"get", "send", "update", "clear", "sleep", "ended"}
  BY DEF ConInv, Con!TypeOK, Con!ConsoleAssumption
<1>2. typed' \in 0..MaxTexts /\ extraData' \in 0..typed'
  BY <1>1 DEF Con!Next, Con!ControlLoop, Con!GetState, Con!sendTCP, Con!received,
       Con!UpdateReturns, Con!ClearText, Con!Sleep, Con!speech, Con!SendBlob, Con!ReadBlob,
       Con!TakeBlob, Con!vars, Con!speechVars
<1>3. blobs' \in 0..MaxBlobs
  BY <1>1 DEF Con!Next, Con!ControlLoop, Con!GetState, Con!sendTCP, Con!received,
       Con!UpdateReturns, Con!ClearText, Con!Sleep, Con!speech, Con!SendBlob, Con!ReadBlob,
       Con!TakeBlob, Con!vars, Con!blobVars
<1>4. loop' \in {"get", "send", "update", "clear", "sleep", "ended"}
  BY <1>1 DEF Con!Next, Con!ControlLoop, Con!GetState, Con!sendTCP, Con!received,
       Con!UpdateReturns, Con!ClearText, Con!Sleep, Con!speech, Con!SendBlob, Con!ReadBlob,
       Con!TakeBlob, Con!vars
<1>5. Con!ConsoleAssumption'
  BY DEF ConInv, Con!ConsoleAssumption
<1>. QED BY <1>2, <1>3, <1>4, <1>5, TextStep, BlobStep DEF ConInv, Con!TypeOK

LEMMA ConRight ==
  Con!ConsoleAssumption /\ Con!Spec => [](Con!TypeOK /\ Con!SpokenOnce /\ Con!DrawnOnce)
<1>1. ConInv => Con!TypeOK /\ Con!SpokenOnce /\ Con!DrawnOnce
  BY DEF ConInv, TextInv, BlobInv, Con!SpokenOnce, Con!DrawnOnce
<1>. QED BY <1>1, ConInit, ConStep, PTL DEF Con!Spec

(***************************************************************************)
(* The forklift: commands are performed as they were sent, and the buffer  *)
(* is not left, while no batch has gone on past the end of a command.      *)
(***************************************************************************)

Chars == STRING \cup {Fork!NUL, Fork!Terminator}

\* The byte p on the line is that at nth[p] of the command of[p]; its terminator
\* follows its letters, and the next command follows that.
FollowOn(of, nth) ==
  \A p \in 1..Len(rx) :
    /\ of[p] \in 1..Len(sent) /\ nth[p] \in 1..Len(sent[of[p]]) + 1
    /\ IF nth[p] = Len(sent[of[p]]) + 1
       THEN rx[p] = Fork!Terminator /\ of[p + 1] = of[p] + 1 /\ nth[p + 1] = 1
       ELSE rx[p] = sent[of[p]][nth[p]] /\ of[p + 1] = of[p] /\ nth[p + 1] = nth[p] + 1

\* The line begins where the reader is and ends with the last command sent.
OnTheLine(of, nth) ==
  /\ of \in [1..Len(rx) + 1 -> Nat] /\ nth \in [1..Len(rx) + 1 -> Nat]
  /\ of[1] = Len(performed) + 1 /\ nth[1] = serialIndex + 1
  /\ of[Len(rx) + 1] = Len(sent) + 1 /\ nth[Len(rx) + 1] = 1
  /\ FollowOn(of, nth)

\* What was read of the command at hand is in the buffer, and those before it
\* were performed.
InStep ==
  /\ performed \in Seq(Seq(Chars)) /\ Len(performed) <= Len(sent)
  /\ \A n \in 1..Len(performed) : performed[n] = sent[n]
  /\ \A j \in 0..serialIndex - 1 : inBytes[j] = sent[Len(performed) + 1][j + 1]
  /\ i < end => i = serialIndex
  /\ \E of, nth : OnTheLine(of, nth)

ForkInv ==
  /\ Fork!ForkliftAssumption /\ Fork!TypeOK
  /\ inBytes \in [0..BUFFERSIZE - 1 -> Chars] /\ rx \in Seq(Chars)
  /\ sent \in Seq(Commands) /\ end - i <= Len(rx)
  /\ ~overtaken => InStep

\* The string in the buffer is the command that was read into it.
LEMMA StringRead ==
  ASSUME NEW c \in Seq(Chars), NEW b, DOMAIN b = 0..BUFFERSIZE - 1,
         BUFFERSIZE \in Nat, Len(c) < BUFFERSIZE,
         \A j \in 0..Len(c) - 1 : b[j] = c[j + 1],
         \A k \in 1..Len(c) : c[k] # Fork!NUL, b[Len(c)] = Fork!NUL
  PROVE  Fork!CString(b) = c
<1> DEFINE P(k) == b[k] = Fork!NUL /\ \A j \in 0..k - 1 : b[j] # Fork!NUL
           n == CHOOSE k \in DOMAIN b : P(k)
<1>1. Len(c) \in Nat /\ \A j \in 0..Len(c) - 1 : j + 1 \in 1..Len(c)
  BY LenProperties
<1>2. Len(c) \in DOMAIN b /\ P(Len(c))
  BY <1>1
<1>3. ASSUME NEW k \in DOMAIN b, P(k) PROVE k = Len(c)
  <2>1. CASE k < Len(c)
    <3>1. k \in 0..Len(c) - 1 /\ k + 1 \in 1..Len(c)
      BY <1>1, <2>1
    <3>. QED BY <1>3, <3>1
  <2>2. CASE k > Len(c)
    <3>1. Len(c) \in 0..k - 1
      BY <1>1, <2>2
    <3>. QED BY <1>3, <3>1
  <2>. QED BY <1>1, <2>1, <2>2
<1>4. n = Len(c)
  <2> HIDE DEF P
  <2>. QED BY <1>2, <1>3, Zenon
<1>5. Fork!CString(b) = [k \in 1..n |-> b[k - 1]]
  BY DEF Fork!CString
<1>6. [k \in 1..n |-> b[k - 1]] = c
  <2> HIDE DEF n
  <2>1. \A k \in 1..Len(c) : k - 1 \in 0..Len(c) - 1 /\ b[k - 1] = c[k]
    BY <1>1
  <2>2. c = [k \in 1..Len(c) |-> c[k]]
    BY LenProperties
  <2>. QED BY <1>4, <2>1, <2>2
<1>. QED BY <1>5, <1>6

LEMMA PerformedType ==
  ASSUME Fork!TypeOK, NEW command
  PROVE  Fork!Performed(command) \in [Fork!Motors -> {"RELEASE", "FORWARD", "BACKWARD"}]
<1>1. motors \in [Fork!Motors -> {"RELEASE", "FORWARD", "BACKWARD"}]
  BY DEF Fork!TypeOK
<1>. QED BY <1>1 DEF Fork!Performed, Fork!Motors

LEMMA Letters ==
  /\ Fork!NUL \in Chars /\ Fork!Terminator \in Chars
  /\ Fork!ForkliftAssumption => Commands \subseteq Seq(Chars)
<1>1. Seq(STRING) \subseteq Seq(Chars)
  BY SeqMonotonic DEF Chars
<1>. QED BY <1>1 DEF Chars, Fork!ForkliftAssumption

LEMMA ForkConstant == Fork!ForkliftAssumption => Fork!ForkliftAssumption'
<1>1. Fork!NUL' = Fork!NUL
  BY DEF Fork!NUL
<1>2. Fork!Terminator' = Fork!Terminator
  BY Zenon DEF Fork!Terminator
<1>. QED BY <1>1, <1>2 DEF Fork!ForkliftAssumption

LEMMA ForkInit == Fork!ForkliftAssumption /\ Fork!Init => ForkInv
<1> SUFFICES ASSUME Fork!ForkliftAssumption, Fork!Init PROVE ForkInv
  OBVIOUS
<1>1. BUFFERSIZE \in Nat /\ BUFFERSIZE > 0
  BY DEF Fork!ForkliftAssumption
<1>2. Fork!TypeOK /\ inBytes \in [0..BUFFERSIZE - 1 -> Chars]
  <2>1. /\ DOMAIN inBytes = 0..BUFFERSIZE - 1
        /\ \A n \in 0..BUFFERSIZE - 1 : inBytes[n] = Fork!NUL
        /\ inBytes = [n \in 0..BUFFERSIZE - 1 |-> Fork!NUL]
    BY DEF Fork!Init
  <2>2. inBytes \in [0..BUFFERSIZE - 1 -> Chars]
    BY <2>1, Letters
  <2>3. motors \in [Fork!Motors -> {"RELEASE", "FORWARD", "BACKWARD"}]
    BY DEF Fork!Init
  <2>. QED BY <1>1, <2>1, <2>2, <2>3 DEF Fork!Init, Fork!TypeOK
<1>3. /\ rx = << >> /\ rx \in Seq(Chars) /\ sent \in Seq(Commands)
      /\ performed \in Seq(Seq(Chars)) /\ Len(rx) = 0 /\ Len(sent) = 0 /\ Len(performed) = 0
      /\ serialIndex = 0 /\ i = 0 /\ end = 0
  BY EmptySeq DEF Fork!Init
<1>4. OnTheLine([p \in {1} |-> 1], [p \in {1} |-> 1])
  <2>1. 1..0 + 1 = {1} /\ 1..0 = {} /\ 1 \in Nat
    OBVIOUS
  <2>. QED BY <1>3, <2>1 DEF OnTheLine, FollowOn
<1>5. InStep
  BY <1>3, <1>4 DEF InStep
<1>. QED BY <1>2, <1>3, <1>5 DEF ForkInv

\* The line with the command c appended: its bytes come behind those of before.
LEMMA SendLine ==
  ASSUME ForkInv, NEW of, NEW nth, OnTheLine(of, nth), performed \in Seq(Seq(Chars)),
         NEW c \in Commands, sent' = Append(sent, c),
         rx' = rx \o Append(c, Fork!Terminator), UNCHANGED <<serialIndex, performed>>
  PROVE  \E f, g : OnTheLine(f, g)'
<1> DEFINE L == Len(rx) + 1
           M == L + Len(c)
<1>0. PICK f, g :
        /\ f = [p \in 1..M + 1 |-> IF p <= L THEN of[p]
                                   ELSE IF p = M + 1 THEN Len(sent) + 2 ELSE Len(sent) + 1]
        /\ g = [p \in 1..M + 1 |-> IF p <= L THEN nth[p]
                                   ELSE IF p = M + 1 THEN 1 ELSE p - Len(rx)]
  OBVIOUS
<1>1. /\ c \in Seq(Chars) /\ Len(c) \in Nat /\ Fork!Terminator \in Chars
      /\ rx \in Seq(Chars) /\ Len(rx) \in Nat /\ sent \in Seq(Commands) /\ Len(sent) \in Nat
      /\ Len(performed) \in Nat
  BY Letters, LenProperties DEF ForkInv
<1>2. /\ Len(sent') = Len(sent) + 1 /\ sent'[Len(sent) + 1] = c
      /\ \A n \in 1..Len(sent) : sent'[n] = sent[n]
  BY <1>1, AppendProperties
<1>3. /\ Len(rx') = M /\ \A p \in 1..Len(rx) : rx'[p] = rx[p]
      /\ \A p \in 1..Len(c) : rx'[Len(rx) + p] = c[p]
      /\ rx'[M] = Fork!Terminator
  <2> DEFINE t == Append(c, Fork!Terminator)
  <2>1. /\ t \in Seq(Chars) /\ Len(t) = Len(c) + 1
        /\ \A n \in 1..Len(c) : t[n] = c[n]
        /\ t[Len(c) + 1] = Fork!Terminator
    BY <1>1, AppendProperties
  <2> HIDE DEF t
  <2>2. /\ Len(rx \o t) = Len(rx) + Len(t)
        /\ \A p \in 1..Len(rx) + Len(t) :
             (rx \o t)[p] = IF p <= Len(rx) THEN rx[p] ELSE t[p - Len(rx)]
    BY <1>1, <2>1, ConcatProperties
  <2>3. rx' = rx \o t
    BY DEF t
  <2>4. \A p \in 1..Len(c) : Len(rx) + p \in 1..Len(rx) + Len(t) /\ (Len(rx) + p) - Len(rx) = p
                             /\ ~(Len(rx) + p <= Len(rx))
    BY <1>1, <2>1
  <2>5. M \in 1..Len(rx) + Len(t) /\ M - Len(rx) = Len(c) + 1 /\ ~(M <= Len(rx))
    BY <1>1, <2>1
  <2>6. \A p \in 1..Len(rx) : p \in 1..Len(rx) + Len(t) /\ p <= Len(rx)
    BY <1>1, <2>1
  <2>. QED BY <1>1, <2>1, <2>2, <2>3, <2>4, <2>5, <2>6
<1>4. /\ of \in [1..L -> Nat] /\ nth \in [1..L -> Nat] /\ of[L] = Len(sent) + 1 /\ nth[L] = 1
      /\ of[1] = Len(performed) + 1 /\ nth[1] = serialIndex + 1
  BY DEF OnTheLine
<1>5. /\ f \in [1..M + 1 -> Nat] /\ g \in [1..M + 1 -> Nat]
      /\ \A p \in 1..L : f[p] = of[p] /\ g[p] = nth[p]
      /\ \A p \in L..M : f[p] = Len(sent) + 1 /\ g[p] = p - Len(rx)
      /\ f[M + 1] = Len(sent) + 2 /\ g[M + 1] = 1
  <2>1. \A p \in 1..M + 1 : p <= L => p \in 1..L
    BY <1>1
  <2>2. \A p \in 1..M + 1 : p > L => p - Len(rx) \in Nat
    BY <1>1
  <2>3. /\ \A p \in 1..L : p \in 1..M + 1 /\ p <= L
        /\ \A p \in L..M : p \in 1..M + 1 /\ p # M + 1 /\ (p <= L => p = L /\ p - Len(rx) = 1)
        /\ M + 1 \in 1..M + 1 /\ ~(M + 1 <= L)
    BY <1>1
  <2>4. f \in [1..M + 1 -> Nat]
    BY <1>0, <1>1, <1>4, <2>1
  <2>5. g \in [1..M + 1 -> Nat]
    BY <1>0, <1>1, <1>4, <2>1, <2>2
  <2>6. \A p \in 1..L : f[p] = of[p] /\ g[p] = nth[p]
    BY <1>0, <2>3
  <2>7. \A p \in L..M : f[p] = Len(sent) + 1 /\ g[p] = p - Len(rx)
    BY <1>0, <1>4, <2>3
  <2>8. f[M + 1] = Len(sent) + 2 /\ g[M + 1] = 1
    BY <1>0, <2>3
  <2>. QED BY <2>4, <2>5, <2>6, <2>7, <2>8
<1>6. ASSUME NEW p \in 1..Len(rx')
      PROVE  /\ f[p] \in 1..Len(sent') /\ g[p] \in 1..Len(sent'[f[p]]) + 1
             /\ IF g[p] = Len(sent'[f[p]]) + 1
                THEN rx'[p] = Fork!Terminator /\ f[p + 1] = f[p] + 1 /\ g[p + 1] = 1
                ELSE rx'[p] = sent'[f[p]][g[p]] /\ f[p + 1] = f[p] /\ g[p + 1] = g[p] + 1
  <2>1. CASE p <= Len(rx)
    <3>1. p \in 1..Len(rx) /\ p \in 1..L /\ p + 1 \in 1..L
      BY <1>1, <1>3, <2>1
    <3>2. /\ of[p] \in 1..Len(sent) /\ nth[p] \in 1..Len(sent[of[p]]) + 1
          /\ IF nth[p] = Len(sent[of[p]]) + 1
             THEN rx[p] = Fork!Terminator /\ of[p + 1] = of[p] + 1 /\ nth[p + 1] = 1
             ELSE rx[p] = sent[of[p]][nth[p]] /\ of[p + 1] = of[p] /\ nth[p + 1] = nth[p] + 1
      BY <3>1 DEF OnTheLine, FollowOn
    <3>3. f[p] = of[p] /\ g[p] = nth[p] /\ f[p + 1] = of[p + 1] /\ g[p + 1] = nth[p + 1]
      BY <1>5, <3>1
    <3>4. sent'[of[p]] = sent[of[p]] /\ rx'[p] = rx[p] /\ of[p] \in 1..Len(sent')
      BY <1>1, <1>2, <1>3, <3>1, <3>2
    <3>. QED BY <3>2, <3>3, <3>4
  <2>2. CASE p > Len(rx)
    <3>1. p \in L..M
      BY <1>1, <1>3, <2>2
    <3>2. f[p] = Len(sent) + 1 /\ g[p] = p - Len(rx) /\ sent'[f[p]] = c
      BY <1>2, <1>5, <3>1
    <3>3. f[p] \in 1..Len(sent') /\ g[p] \in 1..Len(sent'[f[p]]) + 1
      BY <1>1, <1>2, <3>1, <3>2
    <3>4. CASE p = M
      <4>1. rx'[p] = Fork!Terminator /\ f[p + 1] = f[p] + 1 /\ g[p + 1] = 1
        BY <1>1, <1>3, <1>5, <3>2, <3>4
      <4>2. g[p] = Len(sent'[f[p]]) + 1
        BY <1>1, <3>2, <3>4
      <4>. QED BY <3>3, <4>1, <4>2
    <3>5. CASE p < M
      <4>1. p \in Nat /\ p - Len(rx) \in 1..Len(c) /\ Len(rx) + (p - Len(rx)) = p
            /\ p + 1 \in L..M /\ (p + 1) - Len(rx) = (p - Len(rx)) + 1 /\ p - Len(rx) # Len(c) + 1
        <5>1. p \in Int /\ p >= L /\ p < M /\ Len(rx) \in Nat /\ Len(c) \in Nat
          BY <1>1, <3>1, <3>5
        <5>. QED BY <5>1
      <4>2. rx'[p] = c[p - Len(rx)]
        BY <1>3, <4>1
      <4>3. f[p + 1] = f[p] /\ g[p + 1] = g[p] + 1
        BY <1>5, <3>2, <4>1
      <4>. QED BY <3>2, <3>3, <4>1, <4>2, <4>3
    <3>6. p = M \/ p < M
      <4>1. p \in Int /\ M \in Int /\ p <= M
        BY <1>1, <3>1
      <4>2. \A a, b \in Int : a <= b => a = b \/ a < b
        OBVIOUS
      <4> HIDE DEF M
      <4>. QED BY <4>1, <4>2
    <3>. QED BY <3>4, <3>5, <3>6
  <2>3. p <= Len(rx) \/ p > Len(rx)
    BY <1>1
  <2>. QED BY <2>1, <2>2, <2>3, Zenon
<1>7. FollowOn(f, g)'
  BY <1>6 DEF FollowOn
<1>8. /\ f[1] = Len(performed') + 1 /\ g[1] = serialIndex' + 1
      /\ f[Len(rx') + 1] = Len(sent') + 1 /\ g[Len(rx') + 1] = 1
  <2>1. 1 \in 1..L
    BY <1>1
  <2>. QED BY <1>1, <1>2, <1>3, <1>4, <1>5, <2>1
<1>9. OnTheLine(f, g)'
  BY <1>3, <1>5, <1>7, <1>8 DEF OnTheLine
<1>. QED BY <1>9

LEMMA SendStep == ForkInv /\ Fork!Send => ForkInv'
<1> SUFFICES ASSUME ForkInv, Fork!Send PROVE ForkInv'
  OBVIOUS
<1>1. PICK c \in Commands : /\ sent' = Append(sent, c)
                            /\ rx' = rx \o Append(c, Fork!Terminator)
  BY DEF Fork!Send
<1>2. UNCHANGED <<inBytes, serialIndex, i, end, motors, performed, overtaken>>
  BY DEF Fork!Send
<1>3. /\ sent \in Seq(Commands) /\ sent' \in Seq(Commands) /\ Len(sent') = Len(sent) + 1
      /\ \A n \in 1..Len(sent) : sent'[n] = sent[n]
      /\ Len(sent) \in Nat
  BY <1>1, AppendProperties, LenProperties DEF ForkInv
<1>4. rx \in Seq(Chars) /\ rx' \in Seq(Chars) /\ Len(rx) \in Nat /\ Len(rx') \in Nat
      /\ Len(rx') >= Len(rx)
  <2>1. /\ c \in Seq(Chars) /\ Fork!Terminator \in Chars /\ rx \in Seq(Chars)
    BY Letters DEF ForkInv
  <2>2. Append(c, Fork!Terminator) \in Seq(Chars)
    BY <2>1, AppendProperties
  <2>. QED BY <1>1, <2>1, <2>2, ConcatProperties, LenProperties
<1>5. Fork!TypeOK' /\ Fork!ForkliftAssumption'
  BY <1>2, ForkConstant DEF ForkInv, Fork!TypeOK
<1>6. ASSUME InStep PROVE InStep'
  <2>1. PICK of, nth : OnTheLine(of, nth)
    BY <1>6 DEF InStep
  <2>2. \E f, g : OnTheLine(f, g)'
    BY <1>1, <1>2, <1>6, <2>1, SendLine DEF InStep
  <2>3. /\ performed' \in Seq(Seq(Chars)) /\ Len(performed) \in Nat
        /\ Len(performed') <= Len(sent') /\ Len(performed) <= Len(sent)
    BY <1>2, <1>3, <1>6, LenProperties DEF InStep
  <2>4. \A n \in 1..Len(performed') : performed'[n] = sent'[n]
    BY <1>2, <1>3, <1>6, <2>3 DEF InStep
  <2>5. \A j \in 0..serialIndex' - 1 : inBytes'[j] = sent'[Len(performed') + 1][j + 1]
    <3>1. CASE Len(performed) + 1 \in 1..Len(sent)
      BY <1>2, <1>3, <1>6, <3>1 DEF InStep
    <3>2. CASE Len(performed) = Len(sent)
      <4>1. serialIndex = 0
        <5>1. Len(rx) = 0 \/ 1 \in 1..Len(rx)
          BY <1>4
        <5>2. Len(rx) = 0
          BY <3>2, <1>3, <2>1, <5>1 DEF OnTheLine, FollowOn
        <5>. QED BY <2>1, <5>2 DEF OnTheLine, ForkInv, Fork!TypeOK
      <4>. QED BY <1>2, <4>1
    <3>. QED BY <1>3, <2>3, <3>1, <3>2
  <2>6. i' < end' => i' = serialIndex'
    BY <1>2, <1>6 DEF InStep
  <2>. QED BY <2>2, <2>3, <2>4, <2>5, <2>6 DEF InStep
<1>7. end' - i' <= Len(rx')
  BY <1>2, <1>4 DEF ForkInv, Fork!TypeOK
<1>. QED BY <1>2, <1>3, <1>4, <1>5, <1>6, <1>7 DEF ForkInv

LEMMA BatchStep == ForkInv /\ Fork!BeginBatch => ForkInv'
<1> SUFFICES ASSUME ForkInv, Fork!BeginBatch PROVE ForkInv'
  OBVIOUS
<1>1. PICK serialAvail \in 1..Len(rx) : end' = serialIndex + serialAvail
  BY DEF Fork!BeginBatch
<1>2. i' = serialIndex /\ UNCHANGED <<rx, inBytes, serialIndex, motors, sent, performed, overtaken>>
  BY DEF Fork!BeginBatch
<1>3. Len(rx) \in Nat /\ BUFFERSIZE \in Nat /\ serialIndex \in 0..i /\ i \in 0..BUFFERSIZE
  BY LenProperties DEF ForkInv, Fork!TypeOK, Fork!ForkliftAssumption
<1>4. /\ i' \in 0..BUFFERSIZE /\ end' \in Nat /\ i' <= end' /\ end' - i' <= Len(rx')
      /\ serialIndex' \in 0..i'
  BY <1>1, <1>2, <1>3
<1>5. ASSUME InStep PROVE InStep'
  <2>1. PICK of, nth : OnTheLine(of, nth)
    BY <1>5 DEF InStep
  <2>2. OnTheLine(of, nth)'
    BY <1>2, <2>1 DEF OnTheLine, FollowOn
  <2>. QED BY <1>2, <1>5, <2>2 DEF InStep
<1>6. Fork!TypeOK' /\ Fork!ForkliftAssumption'
  BY <1>2, <1>4, ForkConstant DEF ForkInv, Fork!TypeOK
<1>. QED BY <1>2, <1>4, <1>5, <1>6 DEF ForkInv

\* The line without its first byte, which was that of the command at hand.
LEMMA ReadLine ==
  ASSUME rx \in Seq(Chars), rx # << >>, rx' = Tail(rx), UNCHANGED sent,
         NEW of, NEW nth, OnTheLine(of, nth),
         of[2] = Len(performed') + 1, nth[2] = serialIndex' + 1
  PROVE  \E f, g : OnTheLine(f, g)'
<1>0. PICK f, g : /\ f = [p \in 1..Len(rx) |-> of[p + 1]]
                  /\ g = [p \in 1..Len(rx) |-> nth[p + 1]]
  OBVIOUS
<1>1. /\ Len(rx) \in Nat /\ Len(rx) > 0 /\ Len(rx') = Len(rx) - 1
      /\ \A p \in 1..Len(rx') : rx'[p] = rx[p + 1]
  BY HeadTailProperties, EmptySeq, LenProperties
<1>2. /\ of \in [1..Len(rx) + 1 -> Nat] /\ nth \in [1..Len(rx) + 1 -> Nat]
      /\ of[Len(rx) + 1] = Len(sent) + 1 /\ nth[Len(rx) + 1] = 1
  BY DEF OnTheLine
<1>3. /\ f \in [1..Len(rx') + 1 -> Nat] /\ g \in [1..Len(rx') + 1 -> Nat]
      /\ \A p \in 1..Len(rx) : f[p] = of[p + 1] /\ g[p] = nth[p + 1]
  <2>1. \A p \in 1..Len(rx) : p + 1 \in 1..Len(rx) + 1
    BY <1>1
  <2>2. 1..Len(rx') + 1 = 1..Len(rx)
    BY <1>1
  <2>. QED BY <1>0, <1>2, <2>1, <2>2
<1>4. FollowOn(f, g)'
  <2> SUFFICES ASSUME NEW p \in 1..Len(rx')
      PROVE  /\ f[p] \in 1..Len(sent') /\ g[p] \in 1..Len(sent'[f[p]]) + 1
             /\ IF g[p] = Len(sent'[f[p]]) + 1
                THEN rx'[p] = Fork!Terminator /\ f[p + 1] = f[p] + 1 /\ g[p + 1] = 1
                ELSE rx'[p] = sent'[f[p]][g[p]] /\ f[p + 1] = f[p] /\ g[p + 1] = g[p] + 1
    BY DEF FollowOn
  <2>1. p \in 1..Len(rx) /\ p + 1 \in 1..Len(rx)
    BY <1>1
  <2>2. /\ of[p + 1] \in 1..Len(sent) /\ nth[p + 1] \in 1..Len(sent[of[p + 1]]) + 1
        /\ IF nth[p + 1] = Len(sent[of[p + 1]]) + 1
           THEN rx[p + 1] = Fork!Terminator /\ of[(p + 1) + 1] = of[p + 1] + 1
                /\ nth[(p + 1) + 1] = 1
           ELSE rx[p + 1] = sent[of[p + 1]][nth[p + 1]] /\ of[(p + 1) + 1] = of[p + 1]
                /\ nth[(p + 1) + 1] = nth[p + 1] + 1
    BY <2>1 DEF OnTheLine, FollowOn
  <2>3. /\ f[p] = of[p + 1] /\ g[p] = nth[p + 1]
        /\ f[p + 1] = of[(p + 1) + 1] /\ g[p + 1] = nth[(p + 1) + 1]
    BY <1>3, <2>1
  <2>4. rx'[p] = rx[p + 1]
    BY <1>1
  <2>. QED BY <2>2, <2>3, <2>4
<1>5. /\ f[1] = Len(performed') + 1 /\ g[1] = serialIndex' + 1
      /\ f[Len(rx') + 1] = Len(sent') + 1 /\ g[Len(rx') + 1] = 1
  <2>1. 1 \in 1..Len(rx) /\ 1 + 1 = 2 /\ Len(rx) \in 1..Len(rx) /\ Len(rx') + 1 = Len(rx)
    BY <1>1
  <2>. QED BY <1>2, <1>3, <2>1
<1>6. OnTheLine(f, g)'
  BY <1>3, <1>4, <1>5 DEF OnTheLine
<1>. QED BY <1>6

LEMMA ReadTypes ==
  ForkInv /\ Fork!ReadByte =>
    /\ Fork!ForkliftAssumption' /\ Fork!TypeOK'
    /\ inBytes' \in [0..BUFFERSIZE - 1 -> Chars] /\ rx' \in Seq(Chars)
    /\ sent' \in Seq(Commands) /\ end' - i' <= Len(rx')
    /\ rx \in Seq(Chars) /\ rx # << >> /\ i \in 0..BUFFERSIZE - 1
<1> SUFFICES ASSUME ForkInv, Fork!ReadByte
             PROVE  /\ Fork!ForkliftAssumption' /\ Fork!TypeOK'
                    /\ inBytes' \in [0..BUFFERSIZE - 1 -> Chars] /\ rx' \in Seq(Chars)
                    /\ sent' \in Seq(Commands) /\ end' - i' <= Len(rx')
                    /\ rx \in Seq(Chars) /\ rx # << >> /\ i \in 0..BUFFERSIZE - 1
  OBVIOUS
<1>1. /\ i < end /\ i < BUFFERSIZE /\ i' = i + 1 /\ rx' = Tail(rx) /\ UNCHANGED <<end, sent>>
      /\ overtaken' = (overtaken \/ (Head(rx) = Fork!Terminator /\ i' < end))
  BY DEF Fork!ReadByte
<1>2. /\ BUFFERSIZE \in Nat /\ i \in 0..BUFFERSIZE /\ end \in Nat /\ serialIndex \in 0..i
      /\ end - i <= Len(rx) /\ rx \in Seq(Chars) /\ Len(rx) \in Nat
      /\ inBytes \in [0..BUFFERSIZE - 1 -> Chars]
      /\ motors \in [Fork!Motors -> {"RELEASE", "FORWARD", "BACKWARD"}]
      /\ overtaken \in BOOLEAN
  BY LenProperties DEF ForkInv, Fork!TypeOK, Fork!ForkliftAssumption
<1>3. Len(rx) > 0 /\ rx # << >> /\ i \in 0..BUFFERSIZE - 1
  <2>1. Len(rx) > 0 /\ i \in 0..BUFFERSIZE - 1
    BY <1>1, <1>2
  <2>. QED BY <2>1, EmptySeq
<1>4. rx' \in Seq(Chars) /\ Len(rx') = Len(rx) - 1 /\ Head(rx) \in Chars
  BY <1>1, <1>2, <1>3, HeadTailProperties
<1>5. Fork!ForkliftAssumption' /\ sent' \in Seq(Commands) /\ end' - i' <= Len(rx')
  <2>1. Fork!ForkliftAssumption'
    BY ForkConstant DEF ForkInv
  <2>2. end' - i' <= Len(rx')
    BY <1>1, <1>2, <1>4
  <2>. QED BY <1>1, <2>1, <2>2 DEF ForkInv
<1>6. /\ inBytes' \in [0..BUFFERSIZE - 1 -> Chars] /\ serialIndex' \in 0..i'
      /\ motors' \in [Fork!Motors -> {"RELEASE", "FORWARD", "BACKWARD"}]
  <2>1. CASE Head(rx) = Fork!Terminator
    <3>1. inBytes' = [inBytes EXCEPT ![i] = Fork!NUL] /\ serialIndex' = 0
      BY <2>1 DEF Fork!ReadByte
    <3>2. motors' \in [Fork!Motors -> {"RELEASE", "FORWARD", "BACKWARD"}]
      <4>1. \/ motors' = motors
            \/ motors' = Fork!Performed(Fork!CString(inBytes'))
        BY <2>1 DEF Fork!ReadByte, Fork!performCommand
      <4>2. Fork!TypeOK
        BY DEF ForkInv
      <4>. QED BY <1>2, <4>1, <4>2, PerformedType
    <3>. QED BY <1>1, <1>2, <1>3, <3>1, <3>2, Letters
  <2>2. CASE Head(rx) # Fork!Terminator
    <3>1. inBytes' = [inBytes EXCEPT ![i] = Head(rx)] /\ serialIndex' = serialIndex + 1
          /\ motors' = motors
      BY <2>2 DEF Fork!ReadByte
    <3>. QED BY <1>1, <1>2, <1>3, <1>4, <3>1
  <2>. QED BY <2>1, <2>2
<1>7. Fork!TypeOK'
  <2>1. /\ i' \in 0..BUFFERSIZE /\ end' \in Nat /\ i' <= end' /\ overtaken' \in BOOLEAN
    BY <1>1, <1>2
  <2>. QED BY <1>6, <2>1 DEF Fork!TypeOK
<1>. QED BY <1>2, <1>3, <1>4, <1>5, <1>6, <1>7

LEMMA ReadInStep ==
  ASSUME ForkInv, InStep, Fork!ReadByte, ~overtaken'
  PROVE  InStep'
<1>1. /\ i < end /\ i < BUFFERSIZE /\ i' = i + 1 /\ rx' = Tail(rx) /\ UNCHANGED <<end, sent>>
      /\ ~(Head(rx) = Fork!Terminator /\ i' < end)
  BY DEF Fork!ReadByte
<1>2. /\ rx \in Seq(Chars) /\ rx # << >> /\ i \in 0..BUFFERSIZE - 1 /\ BUFFERSIZE \in Nat
      /\ inBytes' \in [0..BUFFERSIZE - 1 -> Chars] /\ inBytes \in [0..BUFFERSIZE - 1 -> Chars]
      /\ sent \in Seq(Commands) /\ i = serialIndex /\ i \in Nat /\ end \in Nat
      /\ performed \in Seq(Seq(Chars)) /\ Len(performed) \in Nat /\ Len(sent) \in Nat
  <2>1. /\ rx \in Seq(Chars) /\ rx # << >> /\ i \in 0..BUFFERSIZE - 1
        /\ inBytes' \in [0..BUFFERSIZE - 1 -> Chars]
    BY ReadTypes
  <2>2. /\ BUFFERSIZE \in Nat /\ end \in Nat /\ i \in 0..BUFFERSIZE
        /\ inBytes \in [0..BUFFERSIZE - 1 -> Chars] /\ sent \in Seq(Commands)
    BY DEF ForkInv, Fork!TypeOK, Fork!ForkliftAssumption
  <2>3. i = serialIndex /\ performed \in Seq(Seq(Chars))
    BY <1>1 DEF InStep
  <2>. QED BY <2>1, <2>2, <2>3, LenProperties
<1>3. PICK of, nth : OnTheLine(of, nth)
  BY DEF InStep
<1> DEFINE m == Len(performed) + 1
<1>0. PICK c : c = sent[m]
  OBVIOUS
<1>4. Len(rx) > 0 /\ 1 \in 1..Len(rx) /\ Head(rx) = rx[1] /\ 1 + 1 = 2
  <2>1. Len(rx) \in Nat /\ Len(rx) # 0
    BY <1>2, EmptySeq, LenProperties
  <2>. QED BY <1>2, <2>1, HeadTailProperties
<1>5. /\ m \in 1..Len(sent) /\ serialIndex + 1 \in 1..Len(c) + 1
      /\ IF serialIndex + 1 = Len(c) + 1
         THEN Head(rx) = Fork!Terminator /\ of[2] = m + 1 /\ nth[2] = 1
         ELSE Head(rx) = c[serialIndex + 1] /\ of[2] = m /\ nth[2] = (serialIndex + 1) + 1
  BY <1>0, <1>3, <1>4 DEF OnTheLine, FollowOn
<1>6. /\ c \in Commands /\ c \in Seq(Chars) /\ Len(c) \in Nat /\ Len(c) > 0
      /\ \A k \in 1..Len(c) : c[k] \notin {Fork!NUL, Fork!Terminator}
  <2>1. c \in Commands
    BY <1>0, <1>2, <1>5
  <2>2. c \in Seq(Chars) /\ Len(c) \in Nat /\ c # << >>
        /\ \A k \in 1..Len(c) : c[k] \notin {Fork!NUL, Fork!Terminator}
    BY <2>1, Letters, LenProperties DEF ForkInv, Fork!ForkliftAssumption
  <2>3. Len(c) # 0
    BY <2>2, EmptySeq
  <2>. QED BY <2>1, <2>2, <2>3
<1>7. \A j \in 0..serialIndex - 1 : inBytes[j] = c[j + 1]
  BY <1>0 DEF InStep
<1>8. CASE serialIndex = Len(c)
  <2>1. Head(rx) = Fork!Terminator /\ of[2] = m + 1 /\ nth[2] = 1
    BY <1>5, <1>8
  <2>2. /\ inBytes' = [inBytes EXCEPT ![i] = Fork!NUL] /\ serialIndex' = 0
        /\ Fork!performCommand(Fork!CString(inBytes'))
    BY <1>2, <1>6, <1>8, <2>1 DEF Fork!ReadByte
  <2>3. Fork!CString(inBytes') = c
    <3>1. inBytes'[Len(c)] = Fork!NUL /\ Len(c) < BUFFERSIZE
      BY <1>2, <1>8, <2>2
    <3>2. \A j \in 0..Len(c) - 1 : inBytes'[j] = c[j + 1]
      <4>1. \A j \in 0..Len(c) - 1 : j \in 0..BUFFERSIZE - 1 /\ j # i
        BY <1>2, <1>6, <1>8
      <4>. QED BY <1>2, <1>7, <1>8, <2>2, <4>1
    <3>3. DOMAIN inBytes' = 0..BUFFERSIZE - 1
      BY <1>2
    <3>. QED BY <1>2, <1>6, <3>1, <3>2, <3>3, StringRead
  <2>4. performed' = Append(performed, c)
    BY <2>2, <2>3 DEF Fork!performCommand
  <2>5. /\ performed' \in Seq(Seq(Chars)) /\ Len(performed') = Len(performed) + 1
        /\ \A n \in 1..Len(performed) : performed'[n] = performed[n]
        /\ performed'[Len(performed) + 1] = c
    BY <1>2, <1>6, <2>4, AppendProperties
  <2>6. \A n \in 1..Len(performed') : performed'[n] = sent'[n]
    <3> SUFFICES ASSUME NEW n \in 1..Len(performed') PROVE performed'[n] = sent[n]
      BY <1>1
    <3>1. CASE n = m
      BY <1>0, <2>5, <3>1 
    <3>2. CASE n # m
      <4>1. n \in 1..Len(performed)
        BY <1>2, <2>5, <3>2
      <4>. QED BY <2>5, <4>1 DEF InStep
    <3>. QED BY <3>1, <3>2
  <2>7. \E f, g : OnTheLine(f, g)'
    <3>1. of[2] = Len(performed') + 1 /\ nth[2] = serialIndex' + 1
      BY <1>2, <2>1, <2>2, <2>5
    <3>. QED BY <1>1, <1>2, <1>3, <3>1, ReadLine
  <2>8. Len(performed') <= Len(sent') /\ ~(i' < end')
    BY <1>1, <1>2, <1>5, <2>1, <2>5
  <2>9. 0..serialIndex' - 1 = {}
    BY <2>2
  <2>. QED BY <2>5, <2>6, <2>7, <2>8, <2>9 DEF InStep
<1>9. CASE serialIndex # Len(c)
  <2>1. serialIndex + 1 \in 1..Len(c) /\ serialIndex + 1 # Len(c) + 1
    BY <1>2, <1>5, <1>6, <1>9
  <2>2. /\ Head(rx) = c[serialIndex + 1] /\ Head(rx) # Fork!Terminator
        /\ of[2] = m /\ nth[2] = (serialIndex + 1) + 1
    BY <1>5, <1>6, <2>1
  <2>3. /\ inBytes' = [inBytes EXCEPT ![i] = Head(rx)] /\ serialIndex' = serialIndex + 1
        /\ UNCHANGED <<motors, performed>>
    BY <2>2 DEF Fork!ReadByte
  <2>4. \A j \in 0..serialIndex' - 1 : inBytes'[j] = c[j + 1]
    <3> SUFFICES ASSUME NEW j \in 0..serialIndex' - 1 PROVE inBytes'[j] = c[j + 1]
      OBVIOUS
    <3>1. j \in 0..BUFFERSIZE - 1
      BY <1>2, <2>3
    <3>2. CASE j = i
      BY <1>2, <2>2, <2>3, <3>2
    <3>3. CASE j # i
      <4>1. j \in 0..serialIndex - 1
        BY <1>2, <2>3, <3>3
      <4>. QED BY <1>2, <1>7, <2>3, <3>1, <3>3, <4>1
    <3>. QED BY <3>2, <3>3
  <2>5. \E f, g : OnTheLine(f, g)'
    <3>1. of[2] = Len(performed') + 1 /\ nth[2] = serialIndex' + 1
      BY <2>2, <2>3
    <3>. QED BY <1>1, <1>2, <1>3, <3>1, ReadLine
  <2>6. i' = serialIndex'
    BY <1>1, <1>2, <2>3
  <2>7. sent'[Len(performed') + 1] = c
    BY <1>0, <1>1, <2>3
  <2>. QED BY <1>1, <2>3, <2>4, <2>5, <2>6, <2>7 DEF InStep
<1>. QED BY <1>8, <1>9

LEMMA ReadStep == ForkInv /\ Fork!ReadByte => ForkInv'
<1> SUFFICES ASSUME ForkInv, Fork!ReadByte PROVE ForkInv'
  OBVIOUS
<1>1. ~overtaken' => ~overtaken
  BY DEF Fork!ReadByte
<1>2. ~overtaken' => InStep'
  BY <1>1, ReadInStep DEF ForkInv
<1>. QED BY <1>2, ReadTypes DEF ForkInv

LEMMA ForkObeys == ForkInv => Fork!CommandsObeyed
<1> SUFFICES ASSUME ForkInv, ~overtaken
             PROVE  /\ Len(performed) <= Len(sent)
                    /\ SubSeq(performed, 1, Len(performed)) = SubSeq(sent, 1, Len(performed))
  BY DEF Fork!CommandsObeyed, Fork!IsPrefix
<1>1. /\ Commands \subseteq Seq(Chars) /\ sent \in Seq(Commands)
  BY Letters DEF ForkInv
<1>2. /\ sent \in Seq(Seq(Chars)) /\ performed \in Seq(Seq(Chars))
      /\ Len(sent) \in Nat /\ Len(performed) \in Nat
      /\ Len(performed) <= Len(sent)
      /\ \A n \in 1..Len(performed) : performed[n] = sent[n]
  BY <1>1, SeqMonotonic, LenProperties DEF ForkInv, InStep
<1> DEFINE p == SubSeq(performed, 1, Len(performed))
           q == SubSeq(sent, 1, Len(performed))
<1>3. /\ p \in Seq(Seq(Chars)) /\ Len(p) = Len(performed)
      /\ \A n \in 1..Len(performed) : p[n] = performed[n]
  BY <1>2, SubSeqFull
<1>4. /\ q \in Seq(Seq(Chars)) /\ Len(q) = Len(performed)
      /\ \A n \in 1..Len(performed) : q[n] = sent[n]
  BY <1>2, SubSeqProperties
<1> HIDE DEF p, q
<1>5. p = q
  BY <1>2, <1>3, <1>4, SeqEqual
<1>. QED BY <1>2, <1>5 DEF p, q

\* In step, the buffer is left for a command that does not fit.
LEMMA ForkStays == ForkInv => Fork!StaysInBuffer
<1> SUFFICES ASSUME ForkInv, ~overtaken, i < end, i = BUFFERSIZE
             PROVE  \E n \in 1..Len(sent) : Len(sent[n]) >= BUFFERSIZE
  BY DEF Fork!StaysInBuffer, Fork!Overrun
<1>1. /\ serialIndex = BUFFERSIZE /\ BUFFERSIZE \in Nat /\ Len(rx) \in Nat /\ Len(rx) > 0
  <2>1. InStep /\ end \in Nat /\ BUFFERSIZE \in Nat /\ end - i <= Len(rx) /\ Len(rx) \in Nat
    BY LenProperties DEF ForkInv, Fork!TypeOK, Fork!ForkliftAssumption
  <2>. QED BY <2>1 DEF InStep
<1>2. PICK of, nth : OnTheLine(of, nth)
  BY DEF ForkInv, InStep
<1>3. 1 \in 1..Len(rx) /\ nth[1] = BUFFERSIZE + 1
  BY <1>1, <1>2 DEF OnTheLine
<1>4. of[1] \in 1..Len(sent) /\ nth[1] \in 1..Len(sent[of[1]]) + 1
  BY <1>2, <1>3 DEF OnTheLine, FollowOn
<1>5. Len(sent[of[1]]) \in Nat
  <2>1. sent[of[1]] \in Seq(Chars)
    BY <1>4, Letters DEF ForkInv
  <2>. QED BY <2>1, LenProperties
<1>. QED BY <1>1, <1>3, <1>4, <1>5

LEMMA ForkRight ==
  Fork!ForkliftAssumption /\ Fork!Spec =>
    [](Fork!TypeOK /\ Fork!CommandsObeyed /\ Fork!StaysInBuffer)
<1>1. ForkInv /\ [Fork!Next]_Fork!vars => ForkInv'
  <2>1. ForkInv /\ UNCHANGED Fork!vars => ForkInv'
    <3> SUFFICES ASSUME ForkInv, UNCHANGED Fork!vars PROVE ForkInv'
      OBVIOUS
    <3>1. UNCHANGED <<rx, inBytes, serialIndex, i, end, motors, sent, performed, overtaken>>
      BY DEF Fork!vars
    <3>2. Fork!TypeOK' /\ \A of, nth : OnTheLine(of, nth) => OnTheLine(of, nth)'
      BY <3>1 DEF ForkInv, Fork!TypeOK, OnTheLine, FollowOn
    <3>3. InStep => InStep'
      BY <3>1, <3>2 DEF InStep
    <3>4. Fork!ForkliftAssumption'
      BY ForkConstant DEF ForkInv
    <3>. QED BY <3>1, <3>2, <3>3, <3>4 DEF ForkInv
  <2>. QED BY <2>1, SendStep, BatchStep, ReadStep DEF Fork!Next, Fork!readSerialInput
<1>2. ForkInv => Fork!TypeOK /\ Fork!CommandsObeyed /\ Fork!StaysInBuffer
  BY ForkObeys, ForkStays DEF ForkInv
<1>. QED BY <1>1, <1>2, ForkInit, PTL DEF Fork!Spec

(***************************************************************************)
(* The servo pulse generator: a pause repairs a setting that was lost.     *)
(***************************************************************************)

Doings  == [do : {"set", "pause", "unpause"}, servo : Audio!Servos, percent : Int]
Samples == (0..100) \X {0, 1}
Sounds  == (Samples \cup {<< >>}) \X (Samples \cup {<< >>})
Runs    == [caller : Audio!Callers, servo : Audio!Servos, cell : 0..Cells]

\* The cell n of the audio buffer is that of the channel buffers.
Current(n) == audioBuffer[n] = Audio!Image(channelBuffer, n)

\* Whoever generates is in the middle of a call of setServo().
CallersInv ==
  /\ todo \in [Audio!Callers -> Seq(Doings)] /\ \A c \in Audio!Callers : Len(todo[c]) <= 3
  /\ generating = << >> \/ \E g \in Runs : generating = <<g>>
  /\ generating # << >> =>
       LET c == generating[1].caller IN todo[c] # << >> /\ Head(todo[c]).do = "set"

SoundInv ==
  /\ channelBuffer \in [{0, 1} -> [Audio!Indices -> Samples]]
  /\ audioBuffer \in [Audio!Indices -> Sounds]

\* What was copied is current unless somebody generates or has set the flag
\* since the copy began, and from then on unless the flag says otherwise.
CopyInv ==
  /\ noise = "copy" => copied < Cells
  /\ noise = "clear" => copied = Cells
  /\ noise \in {"copy", "clear"} /\ generating = << >> /\ ~setAgain =>
       \A n \in 0..copied - 1 : Current(n)
  /\ noise \in {"top", "write"} /\ ~bufferChanged /\ generating = << >> /\ ~lost =>
       \A n \in Audio!Indices : Current(n)

AudioInv ==
  Audio!AudioAssumption /\ Audio!TypeOK /\ CallersInv /\ SoundInv /\ CopyInv

LEMMA ImageIsSound ==
  ASSUME Audio!AudioAssumption, SoundInv, NEW n \in Audio!Indices
  PROVE  Audio!Image(channelBuffer, n) \in Samples \X Samples
<1>1. n \in Int /\ Cells \in Nat /\ Cells > 0
  BY DEF Audio!AudioAssumption, Audio!Indices
<1>2. (n + 1) % Cells \in Audio!Indices
  BY <1>1 DEF Audio!Indices
<1>. QED BY <1>2 DEF Audio!Image, SoundInv

LEMMA AudioInit == Audio!AudioAssumption /\ Audio!Init => AudioInv
<1> SUFFICES ASSUME Audio!AudioAssumption, Audio!Init PROVE AudioInv
  OBVIOUS
<1>1. Cells \in Nat /\ Cells > 1 /\ MaxMoves \in Nat
  BY DEF Audio!AudioAssumption
<1>2. << >> \in Seq(Doings) /\ Len(<< >>) = 0
  BY EmptySeq
<1>3. CallersInv
  BY <1>2 DEF Audio!Init, CallersInv
<1>4. SoundInv
  BY DEF Audio!Init, SoundInv, Samples, Sounds, Audio!Silence, Audio!Centre
<1>5. CopyInv
  BY DEF Audio!Init, CopyInv
<1>6. Audio!TypeOK
  <2>1. pulseWidthArray \in [Audio!Servos -> 0..100]
    BY DEF Audio!Init, Audio!Centre
  <2>2. moves \in 0..MaxMoves /\ copied \in 0..Cells
    BY <1>1 DEF Audio!Init
  <2>. QED BY <1>3, <2>1, <2>2 DEF Audio!Init, Audio!TypeOK, CallersInv
<1>. QED BY <1>3, <1>4, <1>5, <1>6 DEF AudioInv

-----------------------------------------------------------------------------
(* The callers.                                                            *)

LEMMA MovementIsDoings ==
  ASSUME Audio!AudioAssumption, Audio!TypeOK, NEW m \in Audio!Movements
  PROVE  m \in Seq(Doings) /\ Len(m) = 3 /\ m # << >>
<1>1. driveSpeed \in Int /\ -driveSpeed \in Int
  <2>1. driveSpeed \in DriveSpeeds \cup {20} /\ DriveSpeeds \subseteq Int
    BY DEF Audio!AudioAssumption, Audio!TypeOK
  <2>2. driveSpeed \in Int
    BY <2>1
  <2>. QED BY <2>2
<1>2. ASSUME NEW a \in Int, NEW b \in Int
      PROVE  Audio!Drive(a, b) \in Seq(Doings) /\ Len(Audio!Drive(a, b)) = 3
  BY DEF Audio!Drive, Audio!Set, Audio!Unpause, Audio!Centre, Audio!Servos, Doings
<1>3. Audio!Stop \in Seq(Doings) /\ Len(Audio!Stop) = 3
  BY DEF Audio!Stop, Audio!Set, Audio!Pause, Audio!Centre, Audio!Servos, Doings
<1>4. m \in Seq(Doings) /\ Len(m) = 3
  BY <1>1, <1>2, <1>3 DEF Audio!Movements
<1>. QED BY <1>4, EmptySeq

\* The end of a call of setServo(), pause() or unpause().
LEMMA Shortened ==
  ASSUME CallersInv, NEW c \in Audio!Callers, todo[c] # << >>,
         todo' = [todo EXCEPT ![c] = Tail(@)]
  PROVE  /\ todo' \in [Audio!Callers -> Seq(Doings)]
         /\ \A d \in Audio!Callers : Len(todo'[d]) <= 3
         /\ \A d \in Audio!Callers : d # c => todo'[d] = todo[d]
<1>1. /\ todo[c] \in Seq(Doings) /\ Len(todo[c]) \in Nat /\ Len(todo[c]) <= 3
      /\ Tail(todo[c]) \in Seq(Doings) /\ Len(Tail(todo[c])) = Len(todo[c]) - 1
  BY HeadTailProperties, LenProperties DEF CallersInv
<1>2. todo' = [todo EXCEPT ![c] = Tail(todo[c])] /\ todo \in [Audio!Callers -> Seq(Doings)]
  BY DEF CallersInv
<1>. QED BY <1>1, <1>2 DEF CallersInv

\* What is played does not change with the callers' own state.
LEMMA SameSound ==
  ASSUME AudioInv, channelBuffer' = channelBuffer, audioBuffer' = audioBuffer
  PROVE  SoundInv' /\ Audio!AudioAssumption' /\ \A n : Current(n)' <=> Current(n)
BY DEF AudioInv, SoundInv, Current, Audio!Image, Audio!AudioAssumption, Audio!Indices

LEMMA CallStep == ASSUME AudioInv, NEW c \in Audio!Callers, Audio!Call(c) PROVE AudioInv'
<1> USE DEF Audio!bufferVars, Audio!noiseVars
<1>1. /\ todo[c] = << >> /\ moves' = moves + 1 /\ moves < MaxMoves /\ MaxMoves \in Nat
      /\ UNCHANGED <<pulseWidthArray, generating, channelBuffer, bufferChanged, paused,
                     playing, noise, copied, audioBuffer, sound, setAgain, lost>>
  BY DEF Audio!Call, AudioInv, Audio!AudioAssumption
<1>2. SoundInv' /\ CopyInv' /\ Audio!AudioAssumption'
  BY <1>1, SameSound DEF AudioInv, CopyInv
<1>3. /\ todo' \in [Audio!Callers -> Seq(Doings)]
      /\ \A d \in Audio!Callers : Len(todo'[d]) <= 3 /\ (d # c => todo'[d] = todo[d])
  <2>1. CASE todo' = todo
    BY <2>1 DEF AudioInv, CallersInv
  <2>2. ASSUME NEW m \in Audio!Movements, todo' = [todo EXCEPT ![c] = m]
        PROVE  /\ todo' \in [Audio!Callers -> Seq(Doings)]
               /\ \A d \in Audio!Callers : Len(todo'[d]) <= 3 /\ (d # c => todo'[d] = todo[d])
    <3>1. m \in Seq(Doings) /\ Len(m) = 3
      BY MovementIsDoings DEF AudioInv
    <3>2. /\ todo \in [Audio!Callers -> Seq(Doings)]
          /\ \A d \in Audio!Callers : Len(todo[d]) <= 3
      BY DEF AudioInv, CallersInv
    <3>3. todo' \in [Audio!Callers -> Seq(Doings)]
      BY <2>2, <3>1, <3>2
    <3>4. todo'[c] = m /\ \A d \in Audio!Callers : d # c => todo'[d] = todo[d]
      BY <2>2, <3>2
    <3>5. Len(todo'[c]) <= 3
      BY <3>1, <3>4
    <3>6. ASSUME NEW d \in Audio!Callers
          PROVE  Len(todo'[d]) <= 3 /\ (d # c => todo'[d] = todo[d])
      <4>1. CASE d = c
        BY <3>5, <4>1
      <4>2. CASE d # c
        BY <3>2, <3>4, <4>2
      <4>. QED BY <4>1, <4>2
    <3>. QED BY <3>3, <3>6
  <2>. QED BY <2>1, <2>2 DEF Audio!Call
<1>4. CallersInv'
  <2>1. generating # << >> =>
          /\ generating[1].caller \in Audio!Callers
          /\ todo[generating[1].caller] # << >>
          /\ Head(todo[generating[1].caller]).do = "set"
    BY DEF AudioInv, CallersInv, Runs
  <2>2. generating # << >> => todo'[generating[1].caller] = todo[generating[1].caller]
    BY <1>1, <1>3, <2>1
  <2>3. generating' = << >> \/ \E g \in Runs : generating' = <<g>>
    BY <1>1 DEF AudioInv, CallersInv, Runs
  <2>. QED BY <1>1, <1>3, <2>1, <2>2, <2>3 DEF CallersInv
<1>5. Audio!TypeOK'
  <2>1. driveSpeed' \in DriveSpeeds \cup {20}
    BY DEF Audio!Call, AudioInv, Audio!TypeOK
  <2>2. moves' \in 0..MaxMoves
    BY <1>1 DEF AudioInv, Audio!TypeOK
  <2>. QED BY <1>1, <1>3, <2>1, <2>2 DEF AudioInv, Audio!TypeOK
<1>. QED BY <1>2, <1>4, <1>5 DEF AudioInv

LEMMA SetServoStep ==
  ASSUME AudioInv, NEW c \in Audio!Callers, Audio!setServo(c) PROVE AudioInv'
<1> USE DEF Audio!bufferVars, Audio!noiseVars
<1>1. /\ todo[c] # << >> /\ Head(todo[c]).do = "set" /\ generating = << >>
      /\ UNCHANGED <<driveSpeed, moves, bufferChanged, paused, playing, noise, copied,
                     audioBuffer, sound, setAgain, lost>>
  BY DEF Audio!setServo
<1>2. Head(todo[c]) \in Doings
  BY <1>1, HeadTailProperties DEF AudioInv, CallersInv
<1> DEFINE s == Head(todo[c]).servo
           percent == Head(todo[c]).percent
<1>3. s \in Audio!Servos
  BY <1>2 DEF Doings
<1>4. CASE percent \in 0..100
  <2>1. /\ pulseWidthArray' = [pulseWidthArray EXCEPT ![s] = percent]
        /\ generating' = <<[caller |-> c, servo |-> s, cell |-> 0]>>
        /\ UNCHANGED <<todo, channelBuffer>>
    BY <1>4 DEF Audio!setServo
  <2>2. pulseWidthArray' \in [Audio!Servos -> 0..100]
    BY <1>3, <1>4, <2>1 DEF AudioInv, Audio!TypeOK
  <2>3. [caller |-> c, servo |-> s, cell |-> 0] \in Runs
    BY <1>3 DEF Runs, AudioInv, Audio!AudioAssumption
  <2>4. CallersInv'
    BY <1>1, <2>1, <2>3 DEF AudioInv, CallersInv
  <2>5. SoundInv' /\ CopyInv' /\ Audio!AudioAssumption'
    BY <1>1, <2>1, SameSound DEF AudioInv, CopyInv
  <2>6. Audio!TypeOK'
    BY <1>1, <2>1, <2>2, <2>3 DEF AudioInv, Audio!TypeOK, Runs
  <2>. QED BY <2>4, <2>5, <2>6 DEF AudioInv
<1>5. CASE percent \notin 0..100
  <2>1. /\ todo' = [todo EXCEPT ![c] = Tail(@)]
        /\ UNCHANGED <<pulseWidthArray, generating, channelBuffer>>
    BY <1>5 DEF Audio!setServo, Audio!CallDone
  <2>2. CallersInv'
    BY <1>1, <2>1, Shortened DEF AudioInv, CallersInv
  <2>3. SoundInv' /\ CopyInv' /\ Audio!AudioAssumption'
    BY <1>1, <2>1, SameSound DEF AudioInv, CopyInv
  <2>4. Audio!TypeOK'
    BY <1>1, <2>1, <2>2 DEF AudioInv, Audio!TypeOK, CallersInv
  <2>. QED BY <2>2, <2>3, <2>4 DEF AudioInv
<1>. QED BY <1>4, <1>5

LEMMA SetPausedStep ==
  ASSUME AudioInv, NEW c \in Audio!Callers, Audio!SetPaused(c) PROVE AudioInv'
<1> USE DEF Audio!bufferVars, Audio!noiseVars
<1>1. /\ todo[c] # << >> /\ Head(todo[c]).do # "set"
      /\ todo' = [todo EXCEPT ![c] = Tail(@)] /\ paused' \in BOOLEAN
      /\ UNCHANGED <<driveSpeed, moves, pulseWidthArray, generating, channelBuffer,
                     bufferChanged, playing, noise, copied, audioBuffer, sound,
                     setAgain, lost>>
  BY DEF Audio!SetPaused, Audio!CallDone
<1>2. /\ todo' \in [Audio!Callers -> Seq(Doings)]
      /\ \A d \in Audio!Callers : Len(todo'[d]) <= 3 /\ (d # c => todo'[d] = todo[d])
  BY <1>1, Shortened DEF AudioInv
<1>3. CallersInv'
  <2>1. generating # << >> => generating[1].caller # c /\ generating[1].caller \in Audio!Callers
    BY <1>1 DEF AudioInv, CallersInv, Runs
  <2>. QED BY <1>1, <1>2, <2>1 DEF AudioInv, CallersInv
<1>4. SoundInv' /\ CopyInv' /\ Audio!AudioAssumption'
  BY <1>1, SameSound DEF AudioInv, CopyInv
<1>5. Audio!TypeOK'
  BY <1>1, <1>2 DEF AudioInv, Audio!TypeOK
<1>. QED BY <1>3, <1>4, <1>5 DEF AudioInv

LEMMA WriteCellStep == AudioInv /\ Audio!WriteCell => AudioInv'
<1> SUFFICES ASSUME AudioInv, Audio!WriteCell PROVE AudioInv'
  OBVIOUS
<1> USE DEF Audio!callVars, Audio!noiseVars
<1>1. PICK g \in Runs : generating = <<g>>
  BY DEF Audio!WriteCell, AudioInv, CallersInv
<1>2. /\ g.cell < Cells /\ g.cell \in 0..Cells /\ Cells \in Nat /\ g.servo \in Audio!Servos
      /\ g.caller \in Audio!Callers
      /\ channelBuffer' = [channelBuffer EXCEPT ![g.servo \div 2][g.cell] =
                                                  Audio!Written(g.servo)]
      /\ generating' = <<[g EXCEPT !.cell = @ + 1]>>
      /\ UNCHANGED <<driveSpeed, todo, moves, pulseWidthArray, bufferChanged, paused, playing,
                     noise, copied, audioBuffer, sound, setAgain, lost>>
  BY <1>1 DEF Audio!WriteCell, Runs, AudioInv, Audio!AudioAssumption
<1>3. /\ g.servo \div 2 \in {0, 1} /\ 2 * (g.servo \div 2) \in Audio!Servos
      /\ g.servo % 2 \in {0, 1}
  BY <1>2 DEF Audio!Servos
<1>4. Audio!Written(g.servo) \in Samples
  BY <1>3 DEF Audio!Written, Samples, AudioInv, Audio!TypeOK
<1>5. channelBuffer' \in [{0, 1} -> [Audio!Indices -> Samples]]
  <2>1. g.cell \in Audio!Indices
    BY <1>2 DEF Audio!Indices
  <2>. QED BY <1>2, <1>3, <1>4, <2>1 DEF AudioInv, SoundInv
<1> DEFINE h == [g EXCEPT !.cell = @ + 1]
<1>6. h \in Runs /\ h.caller = g.caller /\ h.cell \in 0..Cells
  <2>1. g.cell + 1 \in 0..Cells
    BY <1>2
  <2>. QED BY <1>2, <2>1 DEF Runs
<1>7. generating' = <<h>> /\ generating' # << >> /\ generating'[1] = h /\ generating # << >>
      /\ generating[1] = g
  BY <1>1, <1>2
<1> HIDE DEF h
<1>8. CallersInv'
  BY <1>2, <1>6, <1>7 DEF AudioInv, CallersInv
<1>9. CopyInv'
  BY <1>2, <1>7 DEF AudioInv, CopyInv
<1>10. SoundInv' /\ Audio!AudioAssumption'
  BY <1>2, <1>5 DEF AudioInv, SoundInv, Audio!AudioAssumption, Audio!Indices
<1>11. Audio!TypeOK'
  BY <1>2, <1>6, <1>7 DEF AudioInv, Audio!TypeOK
<1>. QED BY <1>8, <1>9, <1>10, <1>11 DEF AudioInv

LEMMA SetChangedStep == AudioInv /\ Audio!SetChanged => AudioInv'
<1> SUFFICES ASSUME AudioInv, Audio!SetChanged PROVE AudioInv'
  OBVIOUS
<1> USE DEF Audio!noiseVars
<1>1. PICK g \in Runs : generating = <<g>>
  BY DEF Audio!SetChanged, AudioInv, CallersInv
<1>2. /\ g.caller \in Audio!Callers /\ todo[g.caller] # << >>
      /\ generating[1] = g /\ generating # << >>
  BY <1>1 DEF Runs, AudioInv, CallersInv
<1>3. /\ bufferChanged' = TRUE /\ setAgain' = (noise \in {"copy", "clear"})
      /\ generating' = << >> /\ todo' = [todo EXCEPT ![g.caller] = Tail(@)]
      /\ UNCHANGED <<driveSpeed, moves, pulseWidthArray, channelBuffer, paused, playing,
                     noise, copied, audioBuffer, sound, lost>>
  BY <1>2 DEF Audio!SetChanged, Audio!CallDone
<1>4. CallersInv'
  BY <1>2, <1>3, Shortened DEF AudioInv, CallersInv
<1>5. CopyInv'
  BY <1>3, SameSound DEF AudioInv, CopyInv
<1>6. SoundInv' /\ Audio!AudioAssumption'
  BY <1>3, SameSound
<1>7. Audio!TypeOK'
  BY <1>3, <1>4 DEF AudioInv, Audio!TypeOK, CallersInv
<1>. QED BY <1>4, <1>5, <1>6, <1>7 DEF AudioInv

-----------------------------------------------------------------------------
(* The noise thread.                                                       *)

LEMMA NoiseStep == AudioInv /\ Audio!NoiseThread => AudioInv'
<1> SUFFICES ASSUME AudioInv, Audio!NoiseThread PROVE AudioInv'
  OBVIOUS
<1> USE DEF Audio!calling, Audio!callVars, Audio!bufferVars
<1>1. UNCHANGED <<driveSpeed, todo, moves, pulseWidthArray, generating, channelBuffer,
                  paused, playing>>
  BY DEF Audio!NoiseThread, Audio!End, Audio!PausedPass, Audio!TestChanged, Audio!CopyCell,
         Audio!ClearChanged, Audio!WriteSound
<1>2. CallersInv' /\ Audio!AudioAssumption'
  BY <1>1 DEF AudioInv, CallersInv, Audio!AudioAssumption
<1>3. Audio!Silence \in [Audio!Indices -> Sounds]
  BY DEF Audio!Silence, Sounds
<1>4. Cells \in Nat /\ Cells > 1 /\ copied \in 0..Cells
  BY DEF AudioInv, Audio!AudioAssumption, Audio!TypeOK
<1>5. CASE Audio!End
  <2>1. SoundInv' /\ CopyInv'
    BY <1>1, <1>3, <1>5 DEF Audio!End, AudioInv, SoundInv, CopyInv
  <2>2. Audio!TypeOK'
    BY <1>1, <1>5 DEF Audio!End, AudioInv, Audio!TypeOK
  <2>. QED BY <1>2, <2>1, <2>2 DEF AudioInv
<1>6. CASE Audio!PausedPass
  <2>1. SoundInv' /\ CopyInv'
    BY <1>1, <1>3, <1>6 DEF Audio!PausedPass, AudioInv, SoundInv, CopyInv
  <2>2. Audio!TypeOK'
    BY <1>1, <1>6 DEF Audio!PausedPass, AudioInv, Audio!TypeOK
  <2>. QED BY <1>2, <2>1, <2>2 DEF AudioInv
<1>7. CASE Audio!TestChanged
  <2>1. /\ noise = "top" /\ noise' = (IF bufferChanged THEN "copy" ELSE "write")
        /\ copied' = 0 /\ setAgain' = FALSE
        /\ UNCHANGED <<bufferChanged, audioBuffer, sound, lost>>
    BY <1>7 DEF Audio!TestChanged
  <2>2. SoundInv' /\ CopyInv'
    BY <1>1, <1>4, <2>1, SameSound DEF AudioInv, CopyInv
  <2>3. Audio!TypeOK'
    <3>1. noise' \in {"copy", "write"} /\ copied' \in 0..Cells
      BY <1>4, <2>1
    <3>. QED BY <1>1, <2>1, <3>1 DEF AudioInv, Audio!TypeOK
  <2>. QED BY <1>2, <2>2, <2>3 DEF AudioInv
<1>8. CASE Audio!CopyCell
  <2>1. /\ noise = "copy" /\ copied' = copied + 1
        /\ audioBuffer' = [audioBuffer EXCEPT ![copied] = Audio!Image(channelBuffer, copied)]
        /\ noise' = (IF copied' = Cells THEN "clear" ELSE "copy")
        /\ UNCHANGED <<bufferChanged, sound, setAgain, lost>>
    BY <1>8 DEF Audio!CopyCell
  <2>2. copied \in Audio!Indices /\ copied' \in 0..Cells
    BY <1>4, <2>1 DEF AudioInv, CopyInv, Audio!Indices
  <2>3. Audio!Image(channelBuffer, copied) \in Sounds
    BY <2>2, ImageIsSound DEF AudioInv, Sounds
  <2>4. SoundInv'
    BY <1>1, <2>1, <2>2, <2>3 DEF AudioInv, SoundInv
  <2>5. ASSUME generating = << >>, ~setAgain, NEW n \in 0..copied' - 1
        PROVE  Current(n)'
    <3>1. Audio!Image(channelBuffer, n)' = Audio!Image(channelBuffer, n)
      BY <1>1 DEF Audio!Image
    <3>2. n \in Audio!Indices /\ audioBuffer \in [Audio!Indices -> Sounds]
      BY <2>2, <1>4, <2>1 DEF Audio!Indices, AudioInv, SoundInv
    <3>3. CASE n = copied
      BY <2>1, <3>1, <3>2, <3>3 DEF Current
    <3>4. CASE n # copied
      <4>1. Current(n)
        BY <1>4, <2>1, <2>5, <3>4 DEF AudioInv, CopyInv
      <4>. QED BY <2>1, <3>1, <3>2, <3>4, <4>1 DEF Current
    <3>. QED BY <3>3, <3>4
  <2>6. CopyInv'
    BY <1>1, <1>4, <2>1, <2>2, <2>5 DEF AudioInv, CopyInv
  <2>7. Audio!TypeOK'
    BY <1>1, <2>1, <2>2 DEF AudioInv, Audio!TypeOK
  <2>. QED BY <1>2, <2>4, <2>6, <2>7 DEF AudioInv
<1>9. CASE Audio!ClearChanged
  <2>1. /\ noise = "clear" /\ noise' = "write" /\ bufferChanged' = FALSE /\ lost' = setAgain
        /\ UNCHANGED <<copied, audioBuffer, sound, setAgain>>
    BY <1>9 DEF Audio!ClearChanged
  <2>2. SoundInv' /\ CopyInv'
    BY <1>1, <2>1, SameSound DEF AudioInv, CopyInv, Audio!Indices
  <2>3. Audio!TypeOK'
    BY <1>1, <2>1 DEF AudioInv, Audio!TypeOK
  <2>. QED BY <1>2, <2>2, <2>3 DEF AudioInv
<1>10. CASE Audio!WriteSound
  <2>1. /\ noise = "write" /\ noise' = "top"
        /\ UNCHANGED <<bufferChanged, copied, audioBuffer, setAgain, lost>>
    BY <1>10 DEF Audio!WriteSound
  <2>2. SoundInv' /\ CopyInv'
    BY <1>1, <2>1, SameSound DEF AudioInv, CopyInv
  <2>3. Audio!TypeOK'
    BY <1>1, <2>1 DEF AudioInv, Audio!TypeOK
  <2>. QED BY <1>2, <2>2, <2>3 DEF AudioInv
<1>. QED BY <1>5, <1>6, <1>7, <1>8, <1>9, <1>10 DEF Audio!NoiseThread

LEMMA AudioStep == AudioInv /\ [Audio!Next]_Audio!vars => AudioInv'
<1> SUFFICES ASSUME AudioInv, [Audio!Next]_Audio!vars PROVE AudioInv'
  OBVIOUS
<1>1. CASE Audio!Quit \/ UNCHANGED Audio!vars
  <2>1. /\ playing' \in BOOLEAN
        /\ UNCHANGED <<driveSpeed, todo, moves, pulseWidthArray, generating, channelBuffer,
                       bufferChanged, paused, noise, copied, audioBuffer, sound, setAgain, lost>>
    BY <1>1 DEF Audio!Quit, Audio!vars, Audio!callVars, Audio!bufferVars, Audio!noiseVars,
                AudioInv, Audio!TypeOK
  <2>2. CallersInv' /\ CopyInv' /\ SoundInv' /\ Audio!AudioAssumption'
    BY <2>1, SameSound DEF AudioInv, CallersInv, CopyInv
  <2>3. Audio!TypeOK'
    BY <2>1 DEF AudioInv, Audio!TypeOK
  <2>. QED BY <2>2, <2>3 DEF AudioInv
<1>2. ASSUME NEW c \in Audio!Callers, Audio!Call(c) \/ Audio!Caller(c) PROVE AudioInv'
  BY <1>2, CallStep, SetServoStep, SetPausedStep DEF Audio!Caller
<1>. QED BY <1>1, <1>2, WriteCellStep, SetChangedStep, NoiseStep DEF Audio!Next

LEMMA AudioRight ==
  Audio!AudioAssumption /\ Audio!Spec => [](Audio!TypeOK /\ Audio!PauseRepairs)
<1>1. AudioInv => Audio!TypeOK /\ Audio!PauseRepairs
  <2> SUFFICES ASSUME AudioInv,
                      noise \in {"top", "write"}, ~bufferChanged, generating = << >>, ~lost
               PROVE  audioBuffer = [n \in Audio!Indices |-> Audio!Image(channelBuffer, n)]
    BY DEF AudioInv, Audio!PauseRepairs
  <2>. QED BY DEF AudioInv, CopyInv, SoundInv, Current
<1>. QED BY <1>1, AudioInit, AudioStep, PTL DEF Audio!Spec

(***************************************************************************)
(* The JPEG library: a picture that is returned is whole.  First sums over *)
(* finite sets, then the picture and its parts, then the calls.            *)
(***************************************************************************)

LEMMA Least ==
  ASSUME NEW T, T \subseteq Nat, T # {}
  PROVE  \E n \in T : \A k \in T : n <= k
<1>1. IsWellFoundedOn(OpToRel(<, Nat), Nat)
  BY NatLessThanWellFounded
<1>2. PICK n \in T : \A k \in T : ~(<<k, n>> \in OpToRel(<, Nat))
  BY <1>1, WFMin
<1>3. \A k \in T : ~(k < n)
  BY <1>2, Zenon DEF OpToRel
<1>. QED BY <1>3

LEMMA SetInduction ==
  ASSUME NEW S, 0 \in S, \A n \in Nat : n \in S => n + 1 \in S
  PROVE  \A n \in Nat : n \in S
<1> SUFFICES ASSUME NEW x \in Nat, x \notin S PROVE FALSE
  OBVIOUS
<1> DEFINE T == {n \in Nat : n \notin S}
<1>1. PICK n \in T : \A k \in T : n <= k
  BY Least
<1>2. n # 0 /\ n - 1 \in Nat
  BY <1>1
<1>3. n - 1 \in S
  BY <1>1, <1>2
<1>. QED BY <1>1, <1>2, <1>3

SumOf(g, S) == Jpeg!MapThenSumSet(LAMBDA x : g[x], S)
Any(T) == CHOOSE x \in T : TRUE
Small(S, n) == {T \in SUBSET S : Cardinality(T) <= n}
AddsUp(f, g, D) ==
  /\ f \in [D -> Int]
  /\ \A T \in D : f[T] = IF T = {} THEN 0 ELSE g[Any(T)] + f[T \ {Any(T)}]

AnyOrder(f, g, S) ==
  \A T \in SUBSET S : \A x \in T : f[T] = g[x] + f[T \ {x}]

\* A set without one of its elements.
LEMMA Smaller ==
  ASSUME NEW S, IsFiniteSet(S), NEW T \in SUBSET S, NEW x \in T
  PROVE  /\ T \ {x} \in SUBSET S /\ Cardinality(T \ {x}) = Cardinality(T) - 1
         /\ Cardinality(T) \in Nat /\ Cardinality(T) # 0 /\ IsFiniteSet(T)
<1>1. IsFiniteSet(T) /\ Cardinality(T) \in Nat
  BY FS_Subset, FS_CardinalityType
<1>2. Cardinality(T) # 0
  BY <1>1, FS_EmptySet
<1>3. Cardinality(T \ {x}) = Cardinality(T) - 1
  BY <1>1, FS_RemoveElement
<1>. QED BY <1>1, <1>2, <1>3

LEMMA AnyIn == \A T : T # {} => Any(T) \in T
BY DEF Any

LEMMA Smallest ==
  ASSUME NEW S, IsFiniteSet(S), NEW T \in Small(S, 0)
  PROVE  T = {}
<1> SUFFICES ASSUME T # {} PROVE FALSE
  OBVIOUS
<1>1. T \in SUBSET S /\ Cardinality(T) <= 0 /\ Any(T) \in T
  BY AnyIn DEF Small
<1>2. Cardinality(T) \in Nat /\ Cardinality(T) # 0
  BY <1>1, Smaller
<1>. QED BY <1>1, <1>2

\* The sum over the subsets of a finite set exists,
LEMMA SumExists ==
  ASSUME NEW S, IsFiniteSet(S), NEW g \in [S -> Int]
  PROVE  \E f : AddsUp(f, g, SUBSET S)
<1> DEFINE N == {n \in Nat : \E f : AddsUp(f, g, Small(S, n))}
<1>1. 0 \in N
  <2> DEFINE f == [T \in Small(S, 0) |-> 0]
  <2>1. \A T \in Small(S, 0) : T = {}
    BY Smallest
  <2>2. AddsUp(f, g, Small(S, 0))
    BY <2>1 DEF AddsUp
  <2>. QED BY <2>2
<1>2. ASSUME NEW n \in Nat, n \in N PROVE n + 1 \in N
  <2>1. PICK f : AddsUp(f, g, Small(S, n))
    BY <1>2
  <2> DEFINE h == [T \in Small(S, n + 1) |->
                     IF T \in Small(S, n) THEN f[T] ELSE g[Any(T)] + f[T \ {Any(T)}]]
  <2>2. ASSUME NEW T \in Small(S, n + 1), T # {}
        PROVE  /\ Any(T) \in T /\ Any(T) \in S /\ T \ {Any(T)} \in Small(S, n)
               /\ T \ {Any(T)} \in Small(S, n + 1)
    <3>1. Any(T) \in T /\ T \in SUBSET S /\ Cardinality(T) <= n + 1
      BY <2>2, AnyIn DEF Small
    <3>2. /\ T \ {Any(T)} \in SUBSET S /\ Cardinality(T) \in Nat
          /\ Cardinality(T \ {Any(T)}) = Cardinality(T) - 1
      BY <3>1, Smaller
    <3>. QED BY <3>1, <3>2 DEF Small
  <2>3. \A T \in Small(S, n + 1) : T \notin Small(S, n) => T # {}
    <3>1. {} \in Small(S, n)
      BY FS_EmptySet DEF Small
    <3>. QED BY <3>1
  <2>4. \A T \in Small(S, n) : T \in Small(S, n + 1) /\ f[T] \in Int
    <3>1. \A T \in Small(S, n) : Cardinality(T) \in Nat
      BY FS_Subset, FS_CardinalityType DEF Small
    <3>2. \A T \in Small(S, n) : f[T] \in Int
      BY <2>1 DEF AddsUp
    <3>. QED BY <3>1, <3>2 DEF Small
  <2>5. h \in [Small(S, n + 1) -> Int]
    <3> SUFFICES ASSUME NEW T \in Small(S, n + 1) PROVE h[T] \in Int
      OBVIOUS
    <3>1. CASE T \in Small(S, n)
      BY <2>4, <3>1
    <3>2. CASE T \notin Small(S, n)
      <4>1. g[Any(T)] \in Int /\ f[T \ {Any(T)}] \in Int
        BY <2>2, <2>3, <2>4, <3>2
      <4>. QED BY <3>2, <4>1
    <3>. QED BY <3>1, <3>2
  <2>6. ASSUME NEW T \in Small(S, n + 1), T # {}
        PROVE  h[T] = g[Any(T)] + h[T \ {Any(T)}]
    <3>1. h[T \ {Any(T)}] = f[T \ {Any(T)}]
      BY <2>2, <2>6
    <3>2. CASE T \in Small(S, n)
      <4>1. f[T] = g[Any(T)] + f[T \ {Any(T)}]
        BY <2>1, <2>6, <3>2 DEF AddsUp
      <4>. QED BY <3>1, <3>2, <4>1
    <3>3. CASE T \notin Small(S, n)
      BY <3>1, <3>3
    <3>. QED BY <3>2, <3>3
  <2>7. {} \in Small(S, n + 1) => h[{}] = 0
    <3>1. {} \in Small(S, n)
      BY FS_EmptySet DEF Small
    <3>. QED BY <2>1, <3>1 DEF AddsUp
  <2> HIDE DEF h
  <2>8. AddsUp(h, g, Small(S, n + 1))
    BY <2>5, <2>6, <2>7 DEF AddsUp
  <2>9. n + 1 \in Nat
    OBVIOUS
  <2>. QED BY <2>8, <2>9
<1>3. Cardinality(S) \in N
  <2>1. Cardinality(S) \in Nat
    BY FS_CardinalityType
  <2> HIDE DEF N
  <2>. QED BY <1>1, <1>2, <2>1, SetInduction
<1>4. Small(S, Cardinality(S)) = SUBSET S
  BY FS_Subset DEF Small
<1>. QED BY <1>3, <1>4

\* does not depend on the order of adding,
LEMMA SumAnyOrder ==
  ASSUME NEW S, IsFiniteSet(S), NEW g \in [S -> Int]
  PROVE  \A f : AddsUp(f, g, SUBSET S) => AnyOrder(f, g, S)
<1> SUFFICES ASSUME NEW f, AddsUp(f, g, SUBSET S)
             PROVE  \A T \in SUBSET S : \A x \in T : f[T] = g[x] + f[T \ {x}]
  BY DEF AnyOrder
<1> DEFINE N == {n \in Nat : \A T \in Small(S, n) : \A x \in T : f[T] = g[x] + f[T \ {x}]}
<1>1. 0 \in N
  <2>1. \A T \in Small(S, 0) : \A x \in T : FALSE
    BY Smallest
  <2>. QED BY <2>1
<1>2. ASSUME NEW n \in Nat, n \in N PROVE n + 1 \in N
  <2>1. ASSUME NEW T \in Small(S, n + 1), NEW x \in T
        PROVE  f[T] = g[x] + f[T \ {x}]
    <3> DEFINE c == Any(T)
    <3>1. c \in T /\ T \in SUBSET S /\ f[T] = g[c] + f[T \ {c}]
      BY AnyIn DEF Small, AddsUp
    <3> HIDE DEF c
    <3>2. CASE c = x
      BY <3>1, <3>2
    <3>3. CASE c # x
      <4>1. T \ {c} \in Small(S, n) /\ T \ {x} \in Small(S, n)
        BY <3>1, Smaller DEF Small
      <4>2. f[T \ {c}] = g[x] + f[(T \ {c}) \ {x}]
        BY <1>2, <3>3, <4>1
      <4>3. f[T \ {x}] = g[c] + f[(T \ {x}) \ {c}]
        BY <1>2, <3>1, <3>3, <4>1
      <4>4. (T \ {c}) \ {x} = (T \ {x}) \ {c}
        OBVIOUS
      <4>5. /\ g[c] \in Int /\ g[x] \in Int /\ f[(T \ {x}) \ {c}] \in Int
        BY <3>1 DEF AddsUp
      <4>6. \A a, b, z \in Int : a + (b + z) = b + (a + z)
        OBVIOUS
      <4>7. g[c] + (g[x] + f[(T \ {x}) \ {c}]) = g[x] + (g[c] + f[(T \ {x}) \ {c}])
        BY <4>5, <4>6, Zenon
      <4>8. f[T \ {c}] = g[x] + f[(T \ {x}) \ {c}]
        BY <4>2, <4>4, Zenon
      <4>9. g[c] + f[T \ {c}] = g[x] + f[T \ {x}]
        BY <4>3, <4>7, <4>8, Zenon
      <4>. QED BY <3>1, <4>9, Zenon
    <3>. QED BY <3>2, <3>3
  <2>. QED BY <2>1
<1>3. Cardinality(S) \in N
  <2>1. Cardinality(S) \in Nat
    BY FS_CardinalityType
  <2> HIDE DEF N
  <2>. QED BY <1>1, <1>2, <2>1, SetInduction
<1>4. Small(S, Cardinality(S)) = SUBSET S
  BY FS_Subset DEF Small
<1>. QED BY <1>3, <1>4

\* and is what the library's operator adds up.
LEMMA SumOverSet ==
  ASSUME NEW S, IsFiniteSet(S), NEW g \in [S -> Int]
  PROVE  \E f \in [SUBSET S -> Int] :
           f[{}] = 0 /\ f[S] = SumOf(g, S) /\ AnyOrder(f, g, S)
<1> DEFINE Step(f) == [T \in SUBSET S |-> IF T = {} THEN 0 ELSE g[Any(T)] + f[T \ {Any(T)}]]
           sum == CHOOSE f : f = Step(f)
<1>1. PICK f : AddsUp(f, g, SUBSET S)
  BY SumExists
<1>2. f = Step(f)
  <2>1. f = [T \in SUBSET S |-> f[T]]
    BY <1>1 DEF AddsUp
  <2>. QED BY <1>1, <2>1 DEF AddsUp
<1>3. sum = Step(sum)
  <2> HIDE DEF Step
  <2>. QED BY <1>2, Zenon
<1>4. SumOf(g, S) = sum[S]
  BY Zenon DEF SumOf, Jpeg!MapThenSumSet, Jpeg!MapThenFoldSet, Any
<1> HIDE DEF sum
<1>5. ASSUME NEW T \in SUBSET S PROVE sum[T] = f[T]
  <2> DEFINE N == {n \in Nat : \A U \in Small(S, n) : sum[U] = f[U]}
  <2>1. ASSUME NEW U \in SUBSET S, U # {}
        PROVE  /\ sum[U] = g[Any(U)] + sum[U \ {Any(U)}]
               /\ f[U] = g[Any(U)] + f[U \ {Any(U)}]
    BY <1>2, <1>3, <2>1
  <2>2. sum[{}] = f[{}]
    BY <1>2, <1>3
  <2> HIDE DEF Step
  <2>3. 0 \in N
    <3>1. \A U \in Small(S, 0) : U = {}
      BY Smallest
    <3>. QED BY <2>2, <3>1
  <2>4. ASSUME NEW n \in Nat, n \in N PROVE n + 1 \in N
    <3>1. ASSUME NEW U \in Small(S, n + 1), U # {} PROVE sum[U] = f[U]
      <4>1. U \in SUBSET S /\ Any(U) \in U
        BY <3>1, AnyIn DEF Small
      <4>2. U \ {Any(U)} \in Small(S, n)
        BY <4>1, Smaller DEF Small
      <4>3. sum[U \ {Any(U)}] = f[U \ {Any(U)}]
        BY <2>4, <4>2
      <4>. QED BY <2>1, <3>1, <4>1, <4>3
    <3>2. \A U \in Small(S, n + 1) : sum[U] = f[U]
      BY <2>2, <3>1
    <3>. QED BY <3>2
  <2>5. Cardinality(S) \in N
    <3>1. Cardinality(S) \in Nat
      BY FS_CardinalityType
    <3> HIDE DEF N
    <3>. QED BY <2>3, <2>4, <3>1, SetInduction
  <2>6. T \in Small(S, Cardinality(S))
    BY FS_Subset DEF Small
  <2>. QED BY <2>5, <2>6
<1>6. f[{}] = 0 /\ f \in [SUBSET S -> Int]
  BY <1>1 DEF AddsUp
<1>7. AnyOrder(f, g, S)
  BY <1>1, SumAnyOrder
<1>8. f[S] = SumOf(g, S)
  <2>1. sum[S] = f[S]
    BY <1>5
  <2>. QED BY <1>4, <2>1, Zenon
<1>. QED BY <1>6, <1>7, <1>8, Zenon

LEMMA Division ==
  ASSUME NEW a \in Int, NEW b \in Int, b > 0
  PROVE  /\ a \div b \in Int /\ a % b \in Int
         /\ a = b * (a \div b) + (a % b) /\ 0 <= a % b /\ a % b < b
<1>1. a = b * (a \div b) + (a % b)
  OBVIOUS
<1>2. a \div b \in Int /\ a % b \in Int /\ 0 <= a % b /\ a % b < b
  OBVIOUS
<1>. QED BY <1>1, <1>2

LEMMA Quotient ==
  ASSUME NEW a \in Int, NEW b \in Int, b > 0, NEW q \in Int, NEW r \in Int,
         a = b * q + r, 0 <= r, r < b
  PROVE  a \div b = q /\ a % b = r
OBVIOUS

LEMMA Monotone ==
  ASSUME NEW a \in Int, NEW b \in Int, NEW c \in Int, a <= b, 0 <= c
  PROVE  a * c <= b * c /\ c * a <= c * b /\ a * c \in Int /\ b * c \in Int
OBVIOUS

-----------------------------------------------------------------------------
(* The picture.                                                            *)

\* The iMCU rows are just enough for the rows of the picture.
LEMMA EnoughRows ==
  ASSUME Jpeg!CompressAssumption
  PROVE  /\ Jpeg!total_iMCU_rows \in Nat \ {0}
         /\ image_height <= Jpeg!total_iMCU_rows * DCTSIZE
         /\ (Jpeg!total_iMCU_rows - 1) * DCTSIZE < image_height
<1> DEFINE a == (image_height + DCTSIZE) - 1
           q == a \div DCTSIZE
<1>1. /\ image_height \in Nat \ {0} /\ DCTSIZE \in Nat \ {0}
      /\ DCTSIZE \in Int /\ DCTSIZE > 0 /\ a \in Int
  BY DEF Jpeg!CompressAssumption
<1>2. q \in Int /\ a = DCTSIZE * q + (a % DCTSIZE) /\ 0 <= a % DCTSIZE /\ a % DCTSIZE < DCTSIZE
      /\ a % DCTSIZE \in Int
  <2> HIDE DEF a
  <2>. QED BY <1>1, Division
<1>3. Jpeg!total_iMCU_rows = q
  BY <1>1 DEF Jpeg!total_iMCU_rows
<1> HIDE DEF q
<1>4. q >= 1
  <2> SUFFICES ASSUME q <= 0 PROVE FALSE
    BY <1>2
  <2>1. DCTSIZE * q <= DCTSIZE * 0
    BY <1>1, <1>2, Monotone
  <2>. QED BY <1>1, <1>2, <2>1
<1>5. q * DCTSIZE = DCTSIZE * q /\ q * DCTSIZE \in Int /\ (q - 1) * DCTSIZE = (q * DCTSIZE) - DCTSIZE
  BY <1>1, <1>2
<1>. QED BY <1>1, <1>2, <1>3, <1>4, <1>5

Total(g) ==
  CHOOSE f \in [SUBSET Jpeg!MCUs -> Int] :
    /\ f[{}] = 0 /\ f[Jpeg!MCUs] = SumOf(g, Jpeg!MCUs)
    /\ AnyOrder(f, g, Jpeg!MCUs)

LEMMA FiniteMCUs ==
  ASSUME Jpeg!CompressAssumption PROVE IsFiniteSet(Jpeg!MCUs)
<1>1. Jpeg!total_iMCU_rows - 1 \in Int /\ MCUs_per_row - 1 \in Int
  BY EnoughRows DEF Jpeg!CompressAssumption
<1>2. /\ IsFiniteSet(0..Jpeg!total_iMCU_rows - 1) /\ IsFiniteSet(0..MCUs_per_row - 1)
  BY <1>1, FS_Interval
<1>3. \A S, T : IsFiniteSet(S) /\ IsFiniteSet(T) => IsFiniteSet(S \X T)
  BY FS_Product
<1>. QED BY <1>2, <1>3, Zenon DEF Jpeg!MCUs

LEMMA TotalAdds ==
  ASSUME Jpeg!CompressAssumption, NEW g \in [Jpeg!MCUs -> Nat]
  PROVE  /\ Total(g) \in [SUBSET Jpeg!MCUs -> Int] /\ Total(g)[{}] = 0
         /\ Total(g)[Jpeg!MCUs] = SumOf(g, Jpeg!MCUs)
         /\ AnyOrder(Total(g), g, Jpeg!MCUs)
<1>1. g \in [Jpeg!MCUs -> Int] /\ IsFiniteSet(Jpeg!MCUs)
  BY FiniteMCUs
<1>2. \E f \in [SUBSET Jpeg!MCUs -> Int] :
        /\ f[{}] = 0 /\ f[Jpeg!MCUs] = SumOf(g, Jpeg!MCUs)
        /\ AnyOrder(f, g, Jpeg!MCUs)
  BY <1>1, SumOverSet
<1>. QED BY <1>2, Zenon DEF Total

LEMMA TotalGrows ==
  ASSUME Jpeg!CompressAssumption, NEW g \in [Jpeg!MCUs -> Nat]
  PROVE  \A U \in SUBSET Jpeg!MCUs : \A T \in SUBSET U : Total(g)[T] <= Total(g)[U]
<1> DEFINE t == Total(g)
           N == {n \in Nat : \A U \in Small(Jpeg!MCUs, n) : \A T \in SUBSET U : t[T] <= t[U]}
<1>1. IsFiniteSet(Jpeg!MCUs) /\ t \in [SUBSET Jpeg!MCUs -> Int] /\ AnyOrder(t, g, Jpeg!MCUs)
  BY FiniteMCUs, TotalAdds
<1> HIDE DEF t
<1>2. 0 \in N
  <2>1. ASSUME NEW U \in Small(Jpeg!MCUs, 0), NEW T \in SUBSET U PROVE t[T] <= t[U]
    <3>1. U = {} /\ T = {} /\ t[{}] \in Int
      BY <1>1, <2>1, Smallest
    <3>. QED BY <3>1
  <2>. QED BY <2>1
<1>3. ASSUME NEW n \in Nat, n \in N PROVE n + 1 \in N
  <2>1. ASSUME NEW U \in Small(Jpeg!MCUs, n + 1), NEW T \in SUBSET U PROVE t[T] <= t[U]
    <3>1. U \in SUBSET Jpeg!MCUs /\ Cardinality(U) <= n + 1 /\ t[T] \in Int /\ t[U] \in Int
      BY <1>1, <2>1 DEF Small
    <3>2. CASE T = U
      BY <3>1, <3>2
    <3>3. CASE T # U
      <4>1. PICK x \in U : x \notin T
        BY <3>3
      <4>2. U \ {x} \in Small(Jpeg!MCUs, n) /\ T \in SUBSET (U \ {x})
        BY <1>1, <3>1, <4>1, Smaller DEF Small
      <4>3. t[T] <= t[U \ {x}]
        BY <1>3, <4>2
      <4>4. t[U] = g[x] + t[U \ {x}]
        BY <1>1, <3>1, <4>1 DEF AnyOrder
      <4>5. g[x] \in Nat /\ t[U \ {x}] \in Int
        BY <1>1, <3>1, <4>1
      <4>. QED BY <3>1, <4>3, <4>4, <4>5
    <3>. QED BY <3>2, <3>3
  <2>. QED BY <2>1
<1>4. Cardinality(Jpeg!MCUs) \in N
  <2>1. Cardinality(Jpeg!MCUs) \in Nat
    BY <1>1, FS_CardinalityType
  <2> HIDE DEF N
  <2>. QED BY <1>2, <1>3, <2>1, SetInduction
<1>5. Small(Jpeg!MCUs, Cardinality(Jpeg!MCUs)) = SUBSET Jpeg!MCUs
  BY <1>1, FS_Subset DEF Small
<1>. QED BY <1>4, <1>5 DEF t

Before(r, c) == {b \in Jpeg!MCUs : b[1] < r \/ (b[1] = r /\ b[2] < c)}

\* The MCUs one after the other, row by row.
LEMMA BeforeMCU ==
  ASSUME Jpeg!CompressAssumption
  PROVE  /\ Before(0, 0) = {} /\ Before(Jpeg!total_iMCU_rows, 0) = Jpeg!MCUs
         /\ \A r, c \in Nat : Before(r, c) \in SUBSET Jpeg!MCUs
         /\ \A r \in Nat : Before(r, MCUs_per_row) = Before(r + 1, 0)
         /\ \A r \in 0..Jpeg!total_iMCU_rows - 1, c \in 0..MCUs_per_row - 1 :
              /\ <<r, c>> \in Jpeg!MCUs /\ <<r, c>> \in Before(r, c + 1)
              /\ Before(r, c + 1) \ {<<r, c>>} = Before(r, c)
<1> DEFINE N == Jpeg!total_iMCU_rows
<1>1. N \in Nat /\ MCUs_per_row \in Nat
  BY EnoughRows DEF Jpeg!CompressAssumption
<1>2. Jpeg!MCUs = (0..N - 1) \X (0..MCUs_per_row - 1)
  BY DEF Jpeg!MCUs
<1> HIDE DEF N
<1>3. \A b \in Jpeg!MCUs : b = <<b[1], b[2]>> /\ b[1] \in 0..N - 1 /\ b[2] \in 0..MCUs_per_row - 1
  BY <1>2
<1>4. Before(0, 0) = {} /\ Before(N, 0) = Jpeg!MCUs
  BY <1>1, <1>3 DEF Before
<1>5. \A r \in Nat : Before(r, MCUs_per_row) = Before(r + 1, 0)
  BY <1>1, <1>3 DEF Before
<1>6. ASSUME NEW r \in 0..N - 1, NEW c \in 0..MCUs_per_row - 1
      PROVE  /\ <<r, c>> \in Jpeg!MCUs /\ <<r, c>> \in Before(r, c + 1)
             /\ Before(r, c + 1) \ {<<r, c>>} = Before(r, c)
  <2>1. <<r, c>> \in Jpeg!MCUs
    BY <1>2
  <2>2. <<r, c>> \in Before(r, c + 1)
    BY <1>1, <2>1 DEF Before
  <2>3. ASSUME NEW b \in Jpeg!MCUs
        PROVE  b \in Before(r, c + 1) /\ b # <<r, c>> <=> b \in Before(r, c)
    <3>1. b = <<b[1], b[2]>> /\ b[1] \in Nat /\ b[2] \in Nat
      BY <1>1, <1>3, <2>3
    <3>2. b # <<r, c>> <=> b[1] # r \/ b[2] # c
      BY <3>1
    <3>3. b[2] < c + 1 /\ b[2] # c <=> b[2] < c
      BY <1>1, <3>1
    <3>4. b[1] < r => b[1] # r
      BY <3>1
    <3>5. /\ b \in Before(r, c + 1) <=> b[1] < r \/ (b[1] = r /\ b[2] < c + 1)
          /\ b \in Before(r, c) <=> b[1] < r \/ (b[1] = r /\ b[2] < c)
      BY <2>3 DEF Before
    <3>6. b[2] < c => b[2] < c + 1
      BY <1>1, <3>1
    <3>. QED BY <3>2, <3>3, <3>4, <3>5, <3>6, Zenon
  <2>4. Before(r, c + 1) \subseteq Jpeg!MCUs /\ Before(r, c) \subseteq Jpeg!MCUs
    BY DEF Before
  <2>. QED BY <2>1, <2>2, <2>3, <2>4
<1>7. \A r, c \in Nat : Before(r, c) \in SUBSET Jpeg!MCUs
  BY DEF Before
<1>. QED BY <1>4, <1>5, <1>6, <1>7 DEF N

Length == (4 + Jpeg!total_iMCU_rows * MCUs_per_row)
Parts == {Jpeg!Picture[n] : n \in 1..Length}

\* The parts of a picture are the headers, the blocks row by row, and the end.
LEMMA PicturesParts ==
  ASSUME Jpeg!CompressAssumption
  PROVE  /\ Length \in Nat /\ Length >= 4 /\ Jpeg!Picture \in Seq(Parts) /\ Len(Jpeg!Picture) = Length
         /\ Jpeg!Picture[1] = "file_header" /\ Jpeg!Picture[2] = "frame_header"
         /\ \A r \in 0..Jpeg!total_iMCU_rows - 1, c \in 0..MCUs_per_row - 1 :
              /\ (2 + r * MCUs_per_row) + c \in 2..Length - 3
              /\ Jpeg!Picture[(2 + r * MCUs_per_row) + c + 1]
                   = [mcu |-> <<r, c>>, rows |-> Jpeg!RowsOf(r)]
         /\ Jpeg!Picture[Length - 1] = "flush" /\ Jpeg!Picture[Length] = "EOI"
<1> DEFINE N == Jpeg!total_iMCU_rows
           M == N * MCUs_per_row
           P(n) == [mcu |-> <<(n - 1) \div MCUs_per_row, (n - 1) % MCUs_per_row>>,
                    rows |-> Jpeg!RowsOf((n - 1) \div MCUs_per_row)]
           A == <<"file_header", "frame_header">>
           B == [n \in 1..M |-> P(n)]
           C == <<"flush", "EOI">>
           S == {"file_header", "frame_header", "flush", "EOI"} \cup {P(n) : n \in 1..M}
<1>1. /\ N \in Nat \ {0} /\ MCUs_per_row \in Nat \ {0} /\ MCUs_per_row \in Int
      /\ MCUs_per_row > 0 /\ M \in Nat
  <2>1. N \in Nat \ {0} /\ MCUs_per_row \in Nat \ {0}
    BY EnoughRows DEF Jpeg!CompressAssumption
  <2> HIDE DEF N
  <2>. QED BY <2>1
<1>2. Jpeg!Picture = (A \o B) \o C
  BY DEF Jpeg!Picture
<1> HIDE DEF N
<1>3. A \in Seq(S) /\ Len(A) = 2 /\ C \in Seq(S) /\ Len(C) = 2
  <2> HIDE DEF P, M
  <2>. QED OBVIOUS
<1>4. B \in Seq(S) /\ Len(B) = M /\ \A n \in 1..M : B[n] = P(n)
  <2>1. \A n \in 1..M : P(n) \in S
    OBVIOUS
  <2> HIDE DEF P, M, S
  <2>2. B \in [1..M -> S]
    BY <2>1
  <2>. QED BY <1>1, <2>2, SeqDef
<1> HIDE DEF A, B, C, S, P, M
<1>5. /\ A \o B \in Seq(S) /\ Len(A \o B) = 2 + M
      /\ \A n \in 1..2 + M : (A \o B)[n] = IF n <= 2 THEN A[n] ELSE B[n - 2]
  <2>1. /\ A \o B \in Seq(S) /\ Len(A \o B) = Len(A) + Len(B)
        /\ \A n \in 1..Len(A) + Len(B) :
             (A \o B)[n] = IF n <= Len(A) THEN A[n] ELSE B[n - Len(A)]
    BY <1>3, <1>4, ConcatProperties
  <2>. QED BY <1>3, <1>4, <2>1
<1>6. /\ Jpeg!Picture \in Seq(S) /\ Len(Jpeg!Picture) = 4 + M
      /\ \A n \in 1..4 + M :
           Jpeg!Picture[n] = IF n <= 2 + M THEN (A \o B)[n] ELSE C[(n - 2) - M]
  <2> DEFINE AB == A \o B
  <2>1. AB \in Seq(S) /\ Len(AB) = 2 + M
    BY <1>5
  <2> HIDE DEF AB
  <2>2. /\ AB \o C \in Seq(S) /\ Len(AB \o C) = Len(AB) + Len(C)
        /\ \A n \in 1..Len(AB) + Len(C) :
             (AB \o C)[n] = IF n <= Len(AB) THEN AB[n] ELSE C[n - Len(AB)]
    BY <1>3, <2>1, ConcatProperties
  <2>3. (2 + M) + 2 = 4 + M /\ \A n \in 1..4 + M : n - (2 + M) = (n - 2) - M
    BY <1>1
  <2>4. Jpeg!Picture = AB \o C
    BY <1>2 DEF AB
  <2>5. /\ Jpeg!Picture \in Seq(S) /\ Len(Jpeg!Picture) = 4 + M
        /\ \A n \in 1..4 + M :
             Jpeg!Picture[n] = IF n <= 2 + M THEN AB[n] ELSE C[(n - 2) - M]
    BY <1>3, <2>1, <2>2, <2>3, <2>4
  <2>. QED BY <2>5 DEF AB
<1>7. Length = 4 + M
  BY DEF Length, M, N
<1>8. Jpeg!Picture \in Seq(Parts)
  <2>1. Jpeg!Picture \in [1..Length -> S]
    BY <1>6, <1>7, LenProperties
  <2>2. Jpeg!Picture \in [1..Length -> Parts]
    BY <2>1 DEF Parts
  <2>3. Length \in Nat
    BY <1>1, <1>7
  <2>. QED BY <2>2, <2>3, SeqDef
<1>9. Jpeg!Picture[1] = "file_header" /\ Jpeg!Picture[2] = "frame_header"
  <2>1. 1 \in 1..4 + M /\ 2 \in 1..4 + M /\ 1 \in 1..2 + M /\ 2 \in 1..2 + M
    BY <1>1
  <2>2. Jpeg!Picture[1] = A[1] /\ Jpeg!Picture[2] = A[2]
    BY <1>1, <1>5, <1>6, <2>1
  <2>. QED BY <2>2 DEF A
<1>10. Jpeg!Picture[Length - 1] = "flush" /\ Jpeg!Picture[Length] = "EOI"
  BY <1>1, <1>6, <1>7 DEF C
<1>11. ASSUME NEW r \in 0..N - 1, NEW c \in 0..MCUs_per_row - 1
       PROVE  /\ (2 + r * MCUs_per_row) + c \in 2..Length - 3
              /\ Jpeg!Picture[(2 + r * MCUs_per_row) + c + 1]
                   = [mcu |-> <<r, c>>, rows |-> Jpeg!RowsOf(r)]
  <2> DEFINE q == r * MCUs_per_row
  <2>1. /\ r \in Nat /\ r + 1 <= N /\ c \in Nat /\ c < MCUs_per_row /\ c \in Int
    BY <1>1
  <2>2. (r + 1) * MCUs_per_row <= M
    BY <1>1, <2>1, Monotone DEF M
  <2>3. q \in Nat /\ (r + 1) * MCUs_per_row = q + MCUs_per_row
    BY <1>1, <2>1
  <2>4. q + c = MCUs_per_row * r + c
    BY <1>1, <2>1
  <2>5. (q + c) \div MCUs_per_row = r /\ (q + c) % MCUs_per_row = c
    <3>1. q + c \in Int /\ r \in Int /\ c \in Int
      BY <2>1, <2>3
    <3> DEFINE x == q + c
    <3>2. x = MCUs_per_row * r + c /\ x \in Int
      BY <2>4, <3>1
    <3> HIDE DEF x
    <3>3. x \div MCUs_per_row = r /\ x % MCUs_per_row = c
      BY <1>1, <2>1, <3>1, <3>2, Quotient
    <3>. QED BY <3>3 DEF x
  <2> HIDE DEF q
  <2>6. q + c + 1 \in 1..M /\ (q + c + 1) - 1 = q + c
    BY <1>1, <2>1, <2>2, <2>3
  <2>7. P(q + c + 1) = [mcu |-> <<r, c>>, rows |-> Jpeg!RowsOf(r)]
    BY <2>5, <2>6 DEF P
  <2>8. Jpeg!Picture[(2 + q) + c + 1] = B[q + c + 1]
    <3>1. /\ (2 + q) + c + 1 \in 1..2 + M /\ (2 + q) + c + 1 \in 1..4 + M
          /\ ((2 + q) + c + 1) - 2 = q + c + 1 /\ ~((2 + q) + c + 1 <= 2)
      BY <1>1, <2>1, <2>3, <2>6
    <3>. QED BY <1>1, <1>5, <1>6, <3>1
  <2>9. (2 + q) + c \in 2..Length - 3
    BY <1>1, <1>7, <2>1, <2>2, <2>3
  <2>10. Jpeg!Picture[(2 + q) + c + 1] = [mcu |-> <<r, c>>, rows |-> Jpeg!RowsOf(r)]
    BY <1>4, <2>6, <2>7, <2>8
  <2>. QED BY <2>9, <2>10 DEF q
<1>12. Length \in Nat /\ Length >= 4
  BY <1>1, <1>7
<1>. QED BY <1>6, <1>7, <1>8, <1>9, <1>10, <1>11, <1>12 DEF N

\* The stream is the first k parts of the picture.
Starts(s, k) ==
  s \in Seq(Parts) /\ Len(s) = k /\ \A n \in 1..k : s[n] = Jpeg!Picture[n]

LEMMA StreamGrows ==
  ASSUME Jpeg!CompressAssumption, NEW s, NEW k \in Nat, NEW n, n = k + 1, n <= Length,
         Starts(s, k), NEW e, e = Jpeg!Picture[n]
  PROVE  Starts(Append(s, e), n)
<1>1. n \in 1..Length
  <2>1. Length \in Nat
    BY PicturesParts
  <2>. QED BY <2>1
<1>2. e \in Parts
  BY <1>1 DEF Parts
<1>. QED BY <1>2 DEF Starts

LEMMA StreamWhole ==
  ASSUME Jpeg!CompressAssumption, NEW s, Starts(s, Length)
  PROVE  s = Jpeg!Picture
BY PicturesParts, SeqEqual DEF Starts

\* What the parts of a picture take.
SizeOf(s) ==
  s.file + s.frame + Total(s.mcu)[Jpeg!MCUs] + s.flush + Jpeg!EOISize

JpegTypes ==
  /\ Jpeg!CompressAssumption /\ Jpeg!TypeOK /\ buffer \in Seq(Nat)
  /\ size \in [file : Nat, frame : Nat, mcu : [Jpeg!MCUs -> Nat], flush : Nat]
  /\ bufsize \in Nat \ {0}

\* The row that is being passed is counted as soon as it is taken.
Counted == IF at = "main" THEN in_row_ctr ELSE 0
Fed == image_height - rows_to_go

\* Where the call is, the rows that are left and the row that is being passed.
JpegControl ==
  /\ at \in {"start", "write", "main"} =>
       y < image_height /\ rows_to_go >= image_height - (y + Counted)
  /\ at \in {"finish", "trailer", "returned"} => y = image_height
  /\ at \in {"trailer", "returned"} => next_scanline = y
  /\ at = "start" => call_pass_startup
  /\ call_pass_startup /\ at # "exited" =>
       at \in {"start", "write"} /\ cur_iMCU_row = 0 /\ mcu_ctr = 0 /\ buffer = << >>
  /\ suspended => /\ Len(buffer) = DCTSIZE /\ cur_iMCU_row < Jpeg!total_iMCU_rows
                  /\ next_scanline < y /\ (at = "main" => in_row_ctr = 0)
  /\ at = "write" /\ ~suspended /\ cur_iMCU_row < Jpeg!total_iMCU_rows =>
       Len(buffer) < DCTSIZE
  /\ at = "main" /\ ~suspended /\ cur_iMCU_row < Jpeg!total_iMCU_rows
     /\ Len(buffer) = DCTSIZE => in_row_ctr = 1
  /\ mcu_ctr # 0 => Len(buffer) = DCTSIZE /\ cur_iMCU_row < Jpeg!total_iMCU_rows

\* The rows in the main buffer are those that were fed last.
RowsRight ==
  /\ Fed = y + Counted
  /\ \A n \in 1..Len(buffer) : buffer[n] = Jpeg!RowsOf(cur_iMCU_row)[n]
  /\ Fed < image_height => cur_iMCU_row * DCTSIZE + Len(buffer) = Fed
  /\ Fed = image_height =>
       \/ cur_iMCU_row = Jpeg!total_iMCU_rows - 1 /\ Len(buffer) = DCTSIZE
       \/ cur_iMCU_row = Jpeg!total_iMCU_rows /\ Len(buffer) = 0
  /\ at \in {"finish", "trailer", "returned"} => cur_iMCU_row = Jpeg!total_iMCU_rows

\* The stream is the beginning of the picture and takes what its parts take.
Written(k, n) == Starts(stream, k) /\ bufsize - free_in_buffer = n
Coded == Total(size.mcu)[Before(cur_iMCU_row, mcu_ctr)]

StreamRight ==
  \/ at = "start" /\ Written(0, 0)
  \/ at = "write" /\ call_pass_startup /\ Written(1, size.file)
  \/ /\ at \in {"write", "main", "finish"} /\ ~call_pass_startup
     /\ Written((2 + cur_iMCU_row * MCUs_per_row) + mcu_ctr,
                (size.file + size.frame) + Coded)
  \/ /\ at = "trailer"
     /\ Written(Length - 1, (((size.file + size.frame) + Total(size.mcu)[Jpeg!MCUs])
                            + size.flush))
  \/ at = "returned" /\ Written(Length, SizeOf(size)) /\ jpegsize = SizeOf(size)

JpegInv ==
  /\ JpegTypes /\ JpegControl
  /\ at = "exited" \/ next_scanline < y => SizeOf(size) >= bufsize
  /\ at # "exited" /\ next_scanline = y => RowsRight /\ StreamRight

LEMMA JpegFacts ==
  ASSUME JpegTypes
  PROVE  /\ size.file \in Nat /\ size.frame \in Nat /\ size.flush \in Nat
         /\ size.mcu \in [Jpeg!MCUs -> Nat] /\ Jpeg!EOISize = 2
         /\ image_height \in Nat \ {0} /\ MCUs_per_row \in Nat \ {0}
         /\ DCTSIZE \in Nat \ {0} /\ Jpeg!total_iMCU_rows \in Nat \ {0}
         /\ y \in Nat /\ next_scanline \in Nat /\ cur_iMCU_row \in Nat /\ mcu_ctr \in Nat
         /\ rows_to_go \in Nat /\ free_in_buffer \in Nat /\ bufsize \in Nat
         /\ Len(buffer) \in Nat /\ in_row_ctr \in Nat
<1>1. Jpeg!CompressAssumption
  BY DEF JpegTypes
<1>2. /\ size.file \in Nat /\ size.frame \in Nat /\ size.flush \in Nat
      /\ size.mcu \in [Jpeg!MCUs -> Nat] /\ Jpeg!EOISize = 2
  BY DEF JpegTypes, Jpeg!EOISize
<1>3. /\ image_height \in Nat \ {0} /\ MCUs_per_row \in Nat \ {0}
      /\ DCTSIZE \in Nat \ {0} /\ Jpeg!total_iMCU_rows \in Nat \ {0}
  BY <1>1, EnoughRows DEF Jpeg!CompressAssumption
<1>4. /\ y \in Nat /\ next_scanline \in Nat /\ cur_iMCU_row \in Nat /\ mcu_ctr \in Nat
      /\ rows_to_go \in Nat /\ free_in_buffer \in Nat /\ bufsize \in Nat
      /\ Len(buffer) \in Nat /\ in_row_ctr \in Nat
  BY <1>3 DEF JpegTypes, Jpeg!TypeOK
<1>. QED BY <1>2, <1>3, <1>4

\* What is coded up to an MCU, and with the MCU, is no more than the whole.
LEMMA CodedAdds ==
  ASSUME JpegTypes
  PROVE  LET t == Total(size.mcu) IN
         /\ t[Jpeg!MCUs] \in Nat /\ t[Before(0, 0)] = 0
         /\ Before(Jpeg!total_iMCU_rows, 0) = Jpeg!MCUs
         /\ \A r, c \in Nat : t[Before(r, c)] \in Nat /\ t[Before(r, c)] <= t[Jpeg!MCUs]
         /\ \A r \in Nat : t[Before(r, MCUs_per_row)] = t[Before(r + 1, 0)]
         /\ \A r \in 0..Jpeg!total_iMCU_rows - 1, c \in 0..MCUs_per_row - 1 :
              /\ <<r, c>> \in Jpeg!MCUs /\ size.mcu[<<r, c>>] \in Nat
              /\ t[Before(r, c + 1)] = size.mcu[<<r, c>>] + t[Before(r, c)]
<1> DEFINE t == Total(size.mcu)
           g == size.mcu
<1>1. Jpeg!CompressAssumption /\ g \in [Jpeg!MCUs -> Nat]
  BY JpegFacts DEF JpegTypes
<1>2. t \in [SUBSET Jpeg!MCUs -> Int] /\ t[{}] = 0 /\ AnyOrder(t, g, Jpeg!MCUs)
  <2> HIDE DEF g
  <2>1. Total(g) \in [SUBSET Jpeg!MCUs -> Int] /\ Total(g)[{}] = 0
        /\ AnyOrder(Total(g), g, Jpeg!MCUs)
    BY <1>1, TotalAdds
  <2>. QED BY <2>1 DEF g
<1>3. \A U \in SUBSET Jpeg!MCUs : \A T \in SUBSET U : t[T] <= t[U]
  <2> HIDE DEF g
  <2>1. \A U \in SUBSET Jpeg!MCUs : \A T \in SUBSET U : Total(g)[T] <= Total(g)[U]
    BY <1>1, TotalGrows
  <2>. QED BY <2>1 DEF g
<1> HIDE DEF t, g
<1>4. /\ Before(0, 0) = {} /\ Before(Jpeg!total_iMCU_rows, 0) = Jpeg!MCUs
      /\ \A r, c \in Nat : Before(r, c) \in SUBSET Jpeg!MCUs
      /\ \A r \in Nat : Before(r, MCUs_per_row) = Before(r + 1, 0)
  BY <1>1, BeforeMCU
<1>5. t[Before(0, 0)] = 0
  BY <1>2, <1>4
<1>6. ASSUME NEW U \in SUBSET Jpeg!MCUs PROVE t[U] \in Nat /\ t[U] <= t[Jpeg!MCUs]
  <2>1. t[{}] <= t[U] /\ t[U] <= t[Jpeg!MCUs] /\ t[U] \in Int
    BY <1>2, <1>3
  <2>. QED BY <1>2, <2>1
<1>7. ASSUME NEW r \in 0..Jpeg!total_iMCU_rows - 1, NEW c \in 0..MCUs_per_row - 1
      PROVE  /\ <<r, c>> \in Jpeg!MCUs /\ g[<<r, c>>] \in Nat
             /\ t[Before(r, c + 1)] = g[<<r, c>>] + t[Before(r, c)]
  <2>1. /\ <<r, c>> \in Jpeg!MCUs /\ <<r, c>> \in Before(r, c + 1)
        /\ Before(r, c + 1) \ {<<r, c>>} = Before(r, c)
    BY <1>1, <1>7, BeforeMCU
  <2>2. Before(r, c + 1) \in SUBSET Jpeg!MCUs
    BY DEF Before
  <2> DEFINE b == <<r, c>>
             U == Before(r, c + 1)
  <2>3. b \in U /\ U \in SUBSET Jpeg!MCUs /\ b \in Jpeg!MCUs /\ U \ {b} = Before(r, c)
    BY <2>1, <2>2
  <2> HIDE DEF b, U
  <2>4. t[U] = g[b] + t[U \ {b}]
    BY <1>2, <2>3 DEF AnyOrder
  <2>5. g[b] \in Nat
    BY <1>1, <2>3
  <2>6. t[U] = g[b] + t[Before(r, c)] /\ b \in Jpeg!MCUs
    BY <2>3, <2>4
  <2>. QED BY <2>5, <2>6 DEF b, U
<1>8. \A r, c \in Nat : t[Before(r, c)] \in Nat /\ t[Before(r, c)] <= t[Jpeg!MCUs]
  BY <1>4, <1>6
<1>9. \A r \in Nat : t[Before(r, MCUs_per_row)] = t[Before(r + 1, 0)]
  BY <1>4
<1>10. t[Jpeg!MCUs] \in Nat
  BY <1>6
<1>. QED BY <1>4, <1>5, <1>7, <1>8, <1>9, <1>10 DEF t, g

\* The rows of the picture, and the last one repeated.
LEMMA NextRow ==
  ASSUME Jpeg!CompressAssumption, NEW c \in Nat, NEW l \in 0..DCTSIZE - 1,
         c * DCTSIZE + l < image_height, c <= Jpeg!total_iMCU_rows
  PROVE  /\ c < Jpeg!total_iMCU_rows /\ Jpeg!RowsOf(c)[l + 1] = c * DCTSIZE + l
         /\ c * DCTSIZE + l = image_height - 1 =>
              /\ c = Jpeg!total_iMCU_rows - 1
              /\ \A n \in l + 1..DCTSIZE : Jpeg!RowsOf(c)[n] = image_height - 1
<1> DEFINE N == Jpeg!total_iMCU_rows
           p == c * DCTSIZE
<1>1. /\ N \in Nat \ {0} /\ image_height \in Nat \ {0} /\ DCTSIZE \in Nat \ {0}
      /\ image_height <= N * DCTSIZE /\ (N - 1) * DCTSIZE < image_height
  BY EnoughRows DEF Jpeg!CompressAssumption
<1> HIDE DEF N
<1>2. p \in Nat /\ (c + 1) * DCTSIZE = p + DCTSIZE
  BY <1>1
<1>3. c < N
  <2>1. c # N
    BY <1>1, <1>2
  <2>. QED BY <1>1, <2>1 DEF N
<1>4. \A n \in 1..DCTSIZE :
        Jpeg!RowsOf(c)[n] = IF (p + n) - 1 < image_height THEN (p + n) - 1
                            ELSE image_height - 1
  <2>1. \A n \in 1..DCTSIZE :
          Jpeg!RowsOf(c)[n] = IF p + (n - 1) < image_height THEN p + (n - 1)
                              ELSE image_height - 1
    BY DEF Jpeg!RowsOf
  <2> HIDE DEF p
  <2>2. \A n \in 1..DCTSIZE : p + (n - 1) = (p + n) - 1
    BY <1>1, <1>2
  <2>. QED BY <2>1, <2>2
<1> HIDE DEF p
<1>5. l + 1 \in 1..DCTSIZE /\ (p + (l + 1)) - 1 = p + l /\ p + l < image_height
  BY <1>1, <1>2 DEF p
<1>6. Jpeg!RowsOf(c)[l + 1] = p + l
  BY <1>4, <1>5
<1>7. ASSUME p + l = image_height - 1
      PROVE  c = N - 1 /\ \A n \in l + 1..DCTSIZE : Jpeg!RowsOf(c)[n] = image_height - 1
  <2>1. \A n \in l + 1..DCTSIZE :
          n \in 1..DCTSIZE /\ ((p + n) - 1 < image_height => (p + n) - 1 = image_height - 1)
    BY <1>1, <1>2, <1>7
  <2>2. \A n \in l + 1..DCTSIZE : Jpeg!RowsOf(c)[n] = image_height - 1
    BY <1>4, <2>1
  <2>3. (N - 1) * DCTSIZE < (c + 1) * DCTSIZE
    <3>1. (N - 1) * DCTSIZE \in Int /\ l < DCTSIZE
      BY <1>1
    <3>. QED BY <1>1, <1>2, <1>7, <3>1
  <2>4. ~(c + 1 <= N - 1)
    <3> SUFFICES ASSUME c + 1 <= N - 1 PROVE FALSE
      OBVIOUS
    <3>1. (c + 1) * DCTSIZE <= (N - 1) * DCTSIZE /\ (c + 1) * DCTSIZE \in Int
          /\ (N - 1) * DCTSIZE \in Int
      BY <1>1, Monotone
    <3>. QED BY <2>3, <3>1
  <2>. QED BY <1>1, <1>3, <2>2, <2>4
<1>. QED BY <1>3, <1>5, <1>6, <1>7 DEF N, p

LEMMA JpegInit == Jpeg!CompressAssumption /\ Jpeg!Init => JpegInv
<1> SUFFICES ASSUME Jpeg!CompressAssumption, Jpeg!Init PROVE JpegInv
  OBVIOUS
<1>1. /\ at = "start" /\ y = 0 /\ next_scanline = 0 /\ in_row_ctr = 0
      /\ call_pass_startup = TRUE /\ buffer = << >> /\ rows_to_go = image_height
      /\ cur_iMCU_row = 0 /\ mcu_ctr = 0 /\ suspended = FALSE /\ jpegsize = 0
      /\ stream = << >> /\ free_in_buffer = bufsize /\ bufsize \in BufSizes
  BY DEF Jpeg!Init
<1>2. /\ image_height \in Nat \ {0} /\ MCUs_per_row \in Nat \ {0}
      /\ DCTSIZE \in Nat \ {0} /\ Jpeg!total_iMCU_rows \in Nat \ {0}
      /\ bufsize \in Nat \ {0}
  BY <1>1, EnoughRows DEF Jpeg!CompressAssumption
<1>3. size \in [file : Nat, frame : Nat, mcu : [Jpeg!MCUs -> Nat], flush : Nat]
  <2>1. size \in [file : HeaderSizes, frame : HeaderSizes,
                  mcu : [Jpeg!MCUs -> MCUSizes], flush : {0, 1}]
    BY DEF Jpeg!Init
  <2>2. HeaderSizes \subseteq Nat /\ MCUSizes \subseteq Nat /\ {0, 1} \subseteq Nat
    BY DEF Jpeg!CompressAssumption
  <2>. QED BY <2>1, <2>2
<1>4. JpegTypes
  <2>1. Jpeg!TypeOK
    <3>1. {suspended, call_pass_startup} \subseteq BOOLEAN
      BY <1>1, Zenon
    <3>2. /\ Len(buffer) <= DCTSIZE /\ mcu_ctr \in 0..MCUs_per_row - 1
          /\ y \in 0..image_height /\ next_scanline \in 0..y
          /\ rows_to_go \in 0..image_height /\ free_in_buffer \in 1..bufsize
          /\ cur_iMCU_row \in 0..Jpeg!total_iMCU_rows /\ jpegsize \in 0..bufsize
      BY <1>1, <1>2
    <3>. QED BY <1>1, <3>1, <3>2 DEF Jpeg!TypeOK
  <2>. QED BY <1>1, <1>2, <1>3, <2>1 DEF JpegTypes
<1>5. JpegControl
  BY <1>1, <1>2 DEF JpegControl, Counted
<1>6. RowsRight
  BY <1>1, <1>2 DEF RowsRight, Fed, Counted
<1>7. StreamRight
  BY <1>1, <1>2 DEF StreamRight, Written, Starts
<1>. QED BY <1>1, <1>2, <1>4, <1>5, <1>6, <1>7 DEF JpegInv

LEMMA JpegStutter == JpegInv /\ UNCHANGED Jpeg!vars => JpegInv'
<1> SUFFICES ASSUME JpegInv, UNCHANGED Jpeg!vars PROVE JpegInv'
  OBVIOUS
<1>1. UNCHANGED jpegVars
  BY DEF Jpeg!vars, Jpeg!inputVars, Jpeg!destVars, Jpeg!rowVars, Jpeg!mainVars, jpegVars
<1>2. Jpeg!CompressAssumption'
  BY DEF JpegInv, JpegTypes, Jpeg!CompressAssumption
<1>3. JpegTypes'
  BY <1>1, <1>2 DEF JpegInv, JpegTypes, Jpeg!TypeOK, jpegVars
<1>4. JpegControl'
  BY <1>1 DEF JpegInv, JpegControl, Counted, jpegVars
<1>5. RowsRight => RowsRight'
  BY <1>1 DEF RowsRight, Counted, Fed, jpegVars
<1>6. StreamRight => StreamRight'
  BY <1>1 DEF StreamRight, Written, Coded, jpegVars
<1>. QED BY <1>1, <1>3, <1>4, <1>5, <1>6 DEF JpegInv, jpegVars

LEMMA StartStep == ASSUME JpegInv, Jpeg!jpeg_start_compress PROVE JpegInv'
<1>1. /\ JpegTypes /\ JpegControl /\ Jpeg!CompressAssumption /\ Jpeg!CompressAssumption'
  BY DEF JpegInv, JpegTypes, Jpeg!CompressAssumption
<1>2. /\ UNCHANGED <<size, bufsize, jpegsize, y, next_scanline, in_row_ctr,
                     call_pass_startup, buffer, rows_to_go, cur_iMCU_row, mcu_ctr, suspended>>
      /\ at = "start"
  BY DEF Jpeg!jpeg_start_compress, Jpeg!inputVars, Jpeg!rowVars, Jpeg!mainVars
<1>3. /\ call_pass_startup = TRUE /\ cur_iMCU_row = 0 /\ mcu_ctr = 0 /\ buffer = << >>
      /\ y < image_height /\ rows_to_go >= image_height - y /\ Len(buffer) = 0
      /\ suspended = FALSE
  <2>1. call_pass_startup \in BOOLEAN /\ suspended \in BOOLEAN /\ y \in Nat /\ image_height \in Nat
    BY <1>1, JpegFacts DEF JpegTypes, Jpeg!TypeOK
  <2>2. y + 0 = y /\ DCTSIZE # 0
    BY <1>1, <2>1, JpegFacts
  <2>. QED BY <1>1, <1>2, <2>1, <2>2 DEF JpegControl, Counted
<1>4. StreamRight /\ next_scanline = y => Starts(stream, 0) /\ free_in_buffer = bufsize
  BY <1>1, <1>2, JpegFacts DEF StreamRight, Written
<1>5. /\ size.file \in Nat /\ size.frame \in Nat /\ size.flush \in Nat
      /\ free_in_buffer \in Nat /\ bufsize \in Nat /\ y \in Nat /\ image_height \in Nat
      /\ rows_to_go \in Nat /\ DCTSIZE \in Nat \ {0} /\ next_scanline \in 0..y
      /\ free_in_buffer \in 1..bufsize
  BY <1>1, JpegFacts DEF JpegTypes, Jpeg!TypeOK
<1>6. CASE /\ Jpeg!Fits(size.file) /\ Jpeg!Emit("file_header", size.file) /\ at' = "write"
  <2>1. /\ stream' = Append(stream, "file_header") /\ free_in_buffer' = free_in_buffer - size.file
        /\ free_in_buffer' \in 1..bufsize
    BY <1>5, <1>6 DEF Jpeg!Fits, Jpeg!Emit
  <2>2. JpegTypes'
    BY <1>1, <1>2, <1>6, <2>1 DEF JpegTypes, Jpeg!TypeOK
  <2>3. JpegControl'
    BY <1>2, <1>3, <1>5, <1>6 DEF JpegControl, Counted
  <2>4. RowsRight => RowsRight'
    BY <1>2, <1>6 DEF RowsRight, Counted, Fed
  <2>5. StreamRight /\ next_scanline = y => StreamRight'
    <3> SUFFICES ASSUME StreamRight, next_scanline = y PROVE StreamRight'
      OBVIOUS
    <3>1. Length \in Nat /\ Length >= 4 /\ Jpeg!Picture[1] = "file_header"
      BY <1>1, PicturesParts
    <3>2. 1 = 0 + 1 /\ 1 <= Length
      BY <3>1
    <3>3. Starts(Append(stream, "file_header"), 1)
      BY <1>1, <1>4, <3>1, <3>2, StreamGrows
    <3>4. bufsize - free_in_buffer' = size.file
      BY <1>4, <1>5, <2>1
    <3>. QED BY <1>2, <1>3, <1>6, <2>1, <3>3, <3>4 DEF StreamRight, Written
  <2>. QED BY <1>2, <1>6, <2>2, <2>3, <2>4, <2>5 DEF JpegInv
<1>7. CASE ~Jpeg!Fits(size.file) /\ Jpeg!empty_output_buffer /\ at' = "exited"
  <2>1. free_in_buffer' \in 1..bufsize
    BY <1>7, <1>1 DEF Jpeg!empty_output_buffer, JpegTypes
  <2>2. JpegTypes'
    BY <1>1, <1>2, <1>7, <2>1 DEF JpegTypes, Jpeg!TypeOK
  <2>3. JpegControl'
    BY <1>1, <1>2, <1>3, <1>7 DEF JpegControl, Counted
  <2>4. SizeOf(size) >= bufsize
    <3>1. Total(size.mcu)[Jpeg!MCUs] \in Nat
      BY <1>1, CodedAdds
    <3>2. CASE next_scanline < y
      BY <3>2 DEF JpegInv
    <3>3. CASE next_scanline = y
      <4>1. size.file >= free_in_buffer /\ free_in_buffer = bufsize
        BY <1>2, <1>4, <1>5, <1>7, <3>3 DEF JpegInv, Jpeg!Fits
      <4>. QED BY <1>5, <3>1, <4>1 DEF SizeOf, Jpeg!EOISize
    <3>. QED BY <1>5, <3>2, <3>3
  <2>. QED BY <1>2, <1>7, <2>2, <2>3, <2>4 DEF JpegInv
<1>. QED BY <1>6, <1>7 DEF Jpeg!jpeg_start_compress, Jpeg!EmitMarker

LEMMA WriteStep == ASSUME JpegInv, Jpeg!jpeg_write_scanlines PROVE JpegInv'
<1>1. /\ JpegTypes /\ JpegControl /\ Jpeg!CompressAssumption /\ Jpeg!CompressAssumption'
  BY DEF JpegInv, JpegTypes, Jpeg!CompressAssumption
<1>2. /\ UNCHANGED <<size, bufsize, jpegsize, y, next_scanline, buffer, rows_to_go,
                     cur_iMCU_row, mcu_ctr, suspended>>
      /\ at = "write" /\ in_row_ctr' = 0 /\ call_pass_startup' = FALSE
  BY DEF Jpeg!jpeg_write_scanlines, Jpeg!inputVars, Jpeg!mainVars
<1>3. /\ size.file \in Nat /\ size.frame \in Nat /\ size.flush \in Nat
      /\ free_in_buffer \in Nat /\ bufsize \in Nat /\ y \in Nat /\ image_height \in Nat
      /\ rows_to_go \in Nat /\ next_scanline \in 0..y /\ MCUs_per_row \in Nat
      /\ free_in_buffer \in 1..bufsize /\ cur_iMCU_row \in Nat /\ mcu_ctr \in Nat
  BY <1>1, JpegFacts DEF JpegTypes, Jpeg!TypeOK
<1>4. /\ y < image_height /\ rows_to_go >= image_height - y
      /\ call_pass_startup => cur_iMCU_row = 0 /\ mcu_ctr = 0
      /\ ~suspended /\ cur_iMCU_row < Jpeg!total_iMCU_rows => Len(buffer) < DCTSIZE
      /\ suspended => /\ Len(buffer) = DCTSIZE /\ cur_iMCU_row < Jpeg!total_iMCU_rows
                      /\ next_scanline < y
  <2>1. y + 0 = y
    BY <1>3
  <2>. QED BY <1>1, <1>2, <2>1 DEF JpegControl, Counted
<1>5. free_in_buffer' \in 1..bufsize /\ at' \in {"main", "exited"} => JpegTypes'
  <2> SUFFICES ASSUME free_in_buffer' \in 1..bufsize, at' \in {"main", "exited"}
               PROVE  JpegTypes'
    OBVIOUS
  <2>1. {suspended, call_pass_startup}' \subseteq BOOLEAN
    <3>1. suspended' \in BOOLEAN
      BY <1>1, <1>2 DEF JpegTypes, Jpeg!TypeOK
    <3>. QED BY <1>2, <3>1, Zenon
  <2>2. Jpeg!TypeOK'
    BY <1>1, <1>2, <2>1 DEF JpegTypes, Jpeg!TypeOK
  <2>. QED BY <1>1, <1>2, <2>2 DEF JpegTypes
<1>6. at' \in {"main", "exited"} => JpegControl'
  <2>1. y + 0 = y /\ Len(buffer) \in Nat /\ DCTSIZE \in Nat
    BY <1>1, <1>3, JpegFacts
  <2>2. mcu_ctr # 0 => Len(buffer) = DCTSIZE /\ cur_iMCU_row < Jpeg!total_iMCU_rows
    BY <1>1 DEF JpegControl
  <2>3. ~suspended /\ cur_iMCU_row < Jpeg!total_iMCU_rows => Len(buffer) # DCTSIZE
    BY <1>4, <2>1
  <2>. QED BY <1>2, <1>4, <2>1, <2>2, <2>3 DEF JpegControl, Counted
<1>7. RowsRight /\ at' = "main" => RowsRight'
  BY <1>2 DEF RowsRight, Counted, Fed
<1>8. CASE call_pass_startup /\ Jpeg!EmitMarker("frame_header", size.frame, "main")
  <2>1. next_scanline = y /\ StreamRight => Starts(stream, 1) /\ bufsize - free_in_buffer = size.file
    BY <1>2, <1>8 DEF StreamRight, Written
  <2>2. CASE Jpeg!Fits(size.frame) /\ Jpeg!Emit("frame_header", size.frame) /\ at' = "main"
    <3>1. /\ stream' = Append(stream, "frame_header")
          /\ free_in_buffer' = free_in_buffer - size.frame /\ free_in_buffer' \in 1..bufsize
      BY <1>3, <2>2 DEF Jpeg!Fits, Jpeg!Emit
    <3>2. StreamRight /\ next_scanline = y => StreamRight'
      <4> SUFFICES ASSUME StreamRight, next_scanline = y PROVE StreamRight'
        OBVIOUS
      <4>1. Length \in Nat /\ Length >= 4 /\ Jpeg!Picture[2] = "frame_header"
        BY <1>1, PicturesParts
      <4>2. 2 = 1 + 1 /\ 2 <= Length /\ 1 \in Nat
        BY <4>1
      <4>3. Starts(stream', 2)
        BY <1>1, <2>1, <3>1, <4>1, <4>2, StreamGrows
      <4>4. /\ (2 + cur_iMCU_row * MCUs_per_row) + mcu_ctr = 2
            /\ Total(size.mcu)[Before(cur_iMCU_row, mcu_ctr)] = 0
        <5>1. cur_iMCU_row = 0 /\ mcu_ctr = 0
          BY <1>4, <1>8
        <5>. QED BY <1>1, <1>3, <5>1, CodedAdds
      <4>5. bufsize - free_in_buffer' = (size.file + size.frame) + 0
        BY <1>3, <2>1, <3>1
      <4>6. /\ ~call_pass_startup' /\ Written((2 + cur_iMCU_row * MCUs_per_row) + mcu_ctr,
                                    (size.file + size.frame) + Coded)'
        BY <1>2, <4>3, <4>4, <4>5 DEF Written, Coded
      <4>. QED BY <2>2, <4>6 DEF StreamRight
    <3>. QED BY <1>2, <1>5, <1>6, <1>7, <2>2, <3>1, <3>2 DEF JpegInv
  <2>3. CASE ~Jpeg!Fits(size.frame) /\ Jpeg!empty_output_buffer /\ at' = "exited"
    <3>1. free_in_buffer' \in 1..bufsize
      BY <1>1, <2>3 DEF Jpeg!empty_output_buffer, JpegTypes
    <3>2. SizeOf(size) >= bufsize
      <4>1. Total(size.mcu)[Jpeg!MCUs] \in Nat
        BY <1>1, CodedAdds
      <4>2. CASE next_scanline < y
        BY <4>2 DEF JpegInv
      <4>3. CASE next_scanline = y
        <5>1. size.frame >= free_in_buffer /\ bufsize - free_in_buffer = size.file
          BY <1>2, <1>3, <2>1, <2>3, <4>3 DEF JpegInv, Jpeg!Fits
        <5>. QED BY <1>3, <4>1, <5>1 DEF SizeOf, Jpeg!EOISize
      <4>. QED BY <1>3, <4>2, <4>3
    <3>. QED BY <1>2, <1>5, <1>6, <2>3, <3>1, <3>2 DEF JpegInv
  <2>. QED BY <1>8, <2>2, <2>3 DEF Jpeg!EmitMarker
<1>9. CASE ~call_pass_startup /\ at' = "main" /\ UNCHANGED Jpeg!destVars
  <2>1. stream' = stream /\ free_in_buffer' = free_in_buffer
    BY <1>9 DEF Jpeg!destVars
  <2>2. StreamRight => StreamRight'
    BY <1>2, <1>9, <2>1 DEF StreamRight, Written, Coded
  <2>. QED BY <1>2, <1>3, <1>5, <1>6, <1>7, <1>9, <2>1, <2>2 DEF JpegInv
<1>. QED BY <1>8, <1>9 DEF Jpeg!jpeg_write_scanlines

LEMMA PreStep == ASSUME JpegInv, Jpeg!pre_process_data PROVE JpegInv'
<1>1. /\ JpegTypes /\ JpegControl /\ Jpeg!CompressAssumption /\ Jpeg!CompressAssumption'
  BY DEF JpegInv, JpegTypes, Jpeg!CompressAssumption
<1>2. /\ UNCHANGED <<size, bufsize, stream, free_in_buffer, jpegsize, at, y, next_scanline,
                     call_pass_startup, cur_iMCU_row, mcu_ctr, suspended>>
      /\ at = "main" /\ in_row_ctr = 0 /\ in_row_ctr' = 1 /\ rows_to_go' = rows_to_go - 1
      /\ cur_iMCU_row < Jpeg!total_iMCU_rows /\ Len(buffer) < DCTSIZE
      /\ buffer' = IF rows_to_go' = 0
                   THEN [n \in 1..DCTSIZE |-> IF n <= Len(buffer) THEN buffer[n] ELSE y]
                   ELSE Append(buffer, y)
  BY DEF Jpeg!pre_process_data, Jpeg!inputVars, Jpeg!destVars
<1>3. /\ y \in Nat /\ image_height \in Nat /\ rows_to_go \in Nat /\ next_scanline \in 0..y
      /\ rows_to_go <= image_height
      /\ cur_iMCU_row \in Nat /\ mcu_ctr \in Nat /\ DCTSIZE \in Nat \ {0}
      /\ Jpeg!total_iMCU_rows \in Nat \ {0} /\ Len(buffer) \in Nat /\ buffer \in Seq(Nat)
  BY <1>1, JpegFacts DEF JpegTypes, Jpeg!TypeOK
<1>4. /\ y < image_height /\ rows_to_go >= image_height - y /\ ~call_pass_startup
      /\ mcu_ctr = 0 /\ ~suspended
  <2>1. y + 0 = y /\ Len(buffer) # DCTSIZE
    BY <1>2, <1>3
  <2>. QED BY <1>1, <1>2, <2>1 DEF JpegControl, Counted
<1>5. /\ rows_to_go' \in 0..image_height
      /\ rows_to_go' >= image_height - (y + 1)
  BY <1>2, <1>3, <1>4
<1>6. CASE rows_to_go' = 0
  <2> DEFINE s == [n \in 1..DCTSIZE |-> IF n <= Len(buffer) THEN buffer[n] ELSE y]
  <2>1. buffer' = s
    BY <1>2, <1>6
  <2>2. s \in [1..DCTSIZE -> Nat]
    BY <1>3
  <2>3. s \in Seq(Nat) /\ Len(s) = DCTSIZE
    <3> HIDE DEF s
    <3>1. s \in Seq(Nat)
      BY <1>3, <2>2, SeqDef
    <3>. QED BY <1>3, <2>2, <3>1, LenProperties
  <2>4. RowsRight => RowsRight'
    <3> SUFFICES ASSUME RowsRight PROVE RowsRight'
      OBVIOUS
    <3>1. Fed = y /\ Fed < image_height /\ cur_iMCU_row * DCTSIZE + Len(buffer) = y
      BY <1>2, <1>3, <1>4 DEF RowsRight, Counted
    <3>2. Fed' = image_height /\ y = image_height - 1
      BY <1>2, <1>3, <1>4, <1>6, <3>1 DEF Fed
    <3> DEFINE c == cur_iMCU_row
               l == Len(buffer)
    <3>3. c \in Nat /\ l \in 0..DCTSIZE - 1 /\ c * DCTSIZE + l = y /\ c <= Jpeg!total_iMCU_rows
      BY <1>2, <1>3, <3>1
    <3> HIDE DEF c, l
    <3>4. /\ c = Jpeg!total_iMCU_rows - 1
          /\ \A n \in l + 1..DCTSIZE : Jpeg!RowsOf(c)[n] = image_height - 1
      BY <1>1, <1>4, <3>2, <3>3, NextRow
    <3>5. ASSUME NEW n \in 1..DCTSIZE PROVE s[n] = Jpeg!RowsOf(c)[n]
      <4>1. CASE n <= l
        <5>1. n \in 1..Len(buffer) /\ s[n] = buffer[n]
          BY <1>3, <4>1 DEF l
        <5>. QED BY <5>1 DEF RowsRight, c
      <4>2. CASE ~(n <= l)
        <5>1. n \in l + 1..DCTSIZE /\ s[n] = y
          BY <1>3, <4>2 DEF l
        <5>. QED BY <3>2, <3>4, <5>1
      <4>. QED BY <4>1, <4>2
    <3> HIDE DEF s
    <3>6. Fed' = (y + Counted)'
      BY <1>2, <1>3, <3>2 DEF Counted
    <3>7. \A n \in 1..Len(buffer') : buffer'[n] = Jpeg!RowsOf(cur_iMCU_row)'[n]
      <4>1. Jpeg!RowsOf(cur_iMCU_row)' = Jpeg!RowsOf(cur_iMCU_row)
        BY <1>2 DEF Jpeg!RowsOf
      <4>. QED BY <2>1, <2>3, <3>5, <4>1 DEF c
    <3>8. cur_iMCU_row' = Jpeg!total_iMCU_rows - 1 /\ Len(buffer') = DCTSIZE
      BY <1>2, <2>1, <2>3, <3>4 DEF c
    <3>9. ~(Fed' < image_height)
      BY <1>3, <3>2
    <3>. QED BY <1>2, <3>6, <3>7, <3>8, <3>9 DEF RowsRight, Jpeg!total_iMCU_rows
  <2> HIDE DEF s
  <2>5. JpegTypes'
    BY <1>1, <1>2, <1>3, <1>5, <2>1, <2>3 DEF JpegTypes, Jpeg!TypeOK
  <2>6. JpegControl'
    BY <1>1, <1>2, <1>3, <1>4, <1>5, <2>1, <2>3 DEF JpegControl, Counted
  <2>7. StreamRight => StreamRight'
    BY <1>2 DEF StreamRight, Written, Coded
  <2>. QED BY <1>2, <2>4, <2>5, <2>6, <2>7 DEF JpegInv
<1>7. CASE rows_to_go' # 0
  <2>1. buffer' = Append(buffer, y)
    BY <1>2, <1>7
  <2>2. /\ buffer' \in Seq(Nat) /\ Len(buffer') = Len(buffer) + 1 /\ buffer'[Len(buffer) + 1] = y
        /\ \A n \in 1..Len(buffer) : buffer'[n] = buffer[n]
    BY <1>3, <2>1
  <2>3. RowsRight => RowsRight'
    <3> SUFFICES ASSUME RowsRight PROVE RowsRight'
      OBVIOUS
    <3>1. Fed = y /\ Fed < image_height /\ cur_iMCU_row * DCTSIZE + Len(buffer) = y
      BY <1>2, <1>3, <1>4 DEF RowsRight, Counted
    <3>2. Fed' = y + 1 /\ Fed' < image_height
      BY <1>2, <1>3, <1>4, <1>5, <1>7, <3>1 DEF Fed
    <3> DEFINE c == cur_iMCU_row
               l == Len(buffer)
    <3>3. c \in Nat /\ l \in 0..DCTSIZE - 1 /\ c * DCTSIZE + l = y /\ c <= Jpeg!total_iMCU_rows
      BY <1>2, <1>3, <3>1
    <3> HIDE DEF c, l
    <3>4. Jpeg!RowsOf(c)[l + 1] = y
      BY <1>1, <1>4, <3>2, <3>3, NextRow
    <3>5. \A n \in 1..Len(buffer') : buffer'[n] = Jpeg!RowsOf(cur_iMCU_row)'[n]
      <4>1. Jpeg!RowsOf(cur_iMCU_row)' = Jpeg!RowsOf(cur_iMCU_row)
        BY <1>2 DEF Jpeg!RowsOf
      <4>2. \A n \in 1..Len(buffer') : n \in 1..Len(buffer) \/ n = Len(buffer) + 1
        BY <1>3, <2>2
      <4>3. \A n \in 1..Len(buffer) : buffer[n] = Jpeg!RowsOf(cur_iMCU_row)[n]
        BY DEF RowsRight
      <4>. QED BY <2>2, <3>4, <4>1, <4>2, <4>3 DEF c, l
    <3>6. Fed' = (y + Counted)'
      BY <1>2, <1>3, <3>2 DEF Counted
    <3>7. cur_iMCU_row' * DCTSIZE + Len(buffer') = Fed'
      <4> DEFINE p == c * DCTSIZE
      <4>1. p \in Nat /\ p + l = y /\ l \in Nat
        BY <1>3, <3>3
      <4>2. cur_iMCU_row' * DCTSIZE = p /\ Len(buffer') = l + 1
        BY <1>2, <2>2 DEF c, l
      <4> HIDE DEF p
      <4>3. p + (l + 1) = y + 1
        BY <1>3, <4>1
      <4>. QED BY <3>2, <4>2, <4>3
    <3>8. Fed' # image_height
      BY <1>3, <3>2
    <3>. QED BY <1>2, <3>5, <3>6, <3>7, <3>8 DEF RowsRight
  <2>4. JpegTypes'
    BY <1>1, <1>2, <1>3, <1>5, <2>2 DEF JpegTypes, Jpeg!TypeOK
  <2>5. JpegControl'
    BY <1>1, <1>2, <1>3, <1>4, <1>5, <2>2 DEF JpegControl, Counted
  <2>6. StreamRight => StreamRight'
    BY <1>2 DEF StreamRight, Written, Coded
  <2>. QED BY <1>2, <2>3, <2>4, <2>5, <2>6 DEF JpegInv
<1>. QED BY <1>6, <1>7

LEMMA NeedsStep == ASSUME JpegInv, Jpeg!NeedsInput PROVE JpegInv'
<1>1. /\ JpegTypes /\ JpegControl /\ Jpeg!CompressAssumption /\ Jpeg!CompressAssumption'
  BY DEF JpegInv, JpegTypes, Jpeg!CompressAssumption
<1>2. /\ UNCHANGED <<size, bufsize, stream, free_in_buffer, jpegsize, in_row_ctr,
                     call_pass_startup, buffer, rows_to_go, cur_iMCU_row, mcu_ctr, suspended>>
      /\ at = "main" /\ next_scanline' = next_scanline + in_row_ctr /\ y' = y + 1
      /\ at' = IF y' < image_height THEN "write" ELSE "finish"
      /\ \/ cur_iMCU_row = Jpeg!total_iMCU_rows
         \/ Len(buffer) < DCTSIZE /\ in_row_ctr = 1
  BY DEF Jpeg!NeedsInput, Jpeg!ReturnRows, Jpeg!inputVars, Jpeg!destVars, Jpeg!mainVars
<1>3. /\ y \in Nat /\ image_height \in Nat /\ rows_to_go \in Nat /\ next_scanline \in 0..y
      /\ rows_to_go <= image_height /\ in_row_ctr \in {0, 1}
      /\ cur_iMCU_row \in Nat /\ mcu_ctr \in Nat /\ DCTSIZE \in Nat \ {0}
      /\ Jpeg!total_iMCU_rows \in Nat \ {0} /\ Len(buffer) \in Nat
  BY <1>1, JpegFacts DEF JpegTypes, Jpeg!TypeOK
<1>4. /\ y < image_height /\ rows_to_go >= image_height - (y + in_row_ctr)
      /\ ~call_pass_startup /\ ~suspended
      /\ mcu_ctr # 0 => Len(buffer) = DCTSIZE /\ cur_iMCU_row < Jpeg!total_iMCU_rows
  <2>1. Len(buffer) < DCTSIZE => Len(buffer) # DCTSIZE
    BY <1>3
  <2>2. cur_iMCU_row = Jpeg!total_iMCU_rows => ~(cur_iMCU_row < Jpeg!total_iMCU_rows)
    BY <1>3
  <2>. QED BY <1>1, <1>2, <2>1, <2>2 DEF JpegControl, Counted
<1>5. /\ y' \in 0..image_height /\ next_scanline' \in 0..y'
      /\ rows_to_go >= image_height - (y' + 0)
      /\ at' = "write" => y' < image_height
      /\ at' = "finish" => y' = image_height
      /\ at' \in {"write", "finish"}
  BY <1>2, <1>3, <1>4
<1>6. JpegTypes'
  BY <1>1, <1>2, <1>5 DEF JpegTypes, Jpeg!TypeOK
<1>7. JpegControl'
  <2>1. cur_iMCU_row < Jpeg!total_iMCU_rows => Len(buffer) < DCTSIZE
    BY <1>2, <1>3
  <2>. QED BY <1>1, <1>2, <1>4, <1>5, <2>1 DEF JpegControl, Counted
<1>8. ASSUME next_scanline = y
      PROVE  RowsRight /\ StreamRight /\ in_row_ctr = 1
  <2>1. RowsRight /\ StreamRight
    BY <1>2, <1>8 DEF JpegInv
  <2>2. ASSUME in_row_ctr = 0 PROVE FALSE
    <3>1. Fed = y /\ cur_iMCU_row = Jpeg!total_iMCU_rows
          /\ cur_iMCU_row * DCTSIZE + Len(buffer) = y
      <4>1. cur_iMCU_row = Jpeg!total_iMCU_rows
        BY <1>2, <2>2
      <4>2. Fed = y
        BY <1>2, <1>3, <2>1, <2>2 DEF RowsRight, Counted
      <4>. QED BY <1>4, <2>1, <4>1, <4>2 DEF RowsRight
    <3> DEFINE p == Jpeg!total_iMCU_rows * DCTSIZE
    <3>2. p \in Nat /\ p + Len(buffer) = y
      BY <1>3, <3>1
    <3>3. image_height <= p
      BY <1>1, EnoughRows
    <3> HIDE DEF p
    <3>. QED BY <1>3, <1>4, <3>2, <3>3
  <2>. QED BY <1>3, <2>1, <2>2
<1>9. next_scanline' = y' => next_scanline = y
  BY <1>2, <1>3
<1>10. next_scanline' < y' => SizeOf(size) >= bufsize
  <2> SUFFICES ASSUME next_scanline' < y' PROVE SizeOf(size) >= bufsize
    OBVIOUS
  <2>1. next_scanline < y
    BY <1>2, <1>3, <1>8
  <2>. QED BY <2>1 DEF JpegInv
<1>11. ASSUME next_scanline = y PROVE RowsRight'
  <2>1. Fed = y + 1 /\ RowsRight
    BY <1>2, <1>8, <1>11 DEF RowsRight, Counted
  <2>2. Fed' = Fed /\ Fed' = (y + Counted)'
    BY <1>2, <1>3, <2>1, <1>5 DEF Fed, Counted
  <2>3. at' \in {"finish", "trailer", "returned"} => cur_iMCU_row = Jpeg!total_iMCU_rows
    <3> SUFFICES ASSUME at' = "finish" PROVE cur_iMCU_row = Jpeg!total_iMCU_rows
      BY <1>5
    <3>1. Fed = image_height
      BY <1>2, <1>5, <2>1
    <3>2. Len(buffer) < DCTSIZE => Len(buffer) # DCTSIZE
      BY <1>3
    <3>. QED BY <1>2, <2>1, <3>1, <3>2 DEF RowsRight
  <2>4. Jpeg!RowsOf(cur_iMCU_row)' = Jpeg!RowsOf(cur_iMCU_row)
    BY <1>2 DEF Jpeg!RowsOf
  <2>. QED BY <1>2, <2>1, <2>2, <2>3, <2>4 DEF RowsRight, Jpeg!total_iMCU_rows
<1>12. StreamRight => StreamRight'
  BY <1>2, <1>4, <1>5 DEF StreamRight, Written, Coded
<1>. QED BY <1>2, <1>5, <1>6, <1>7, <1>8, <1>9, <1>10, <1>11, <1>12 DEF JpegInv

LEMMA SuspendStep == ASSUME JpegInv, Jpeg!Suspend PROVE JpegInv'
<1>1. /\ JpegTypes /\ JpegControl /\ Jpeg!CompressAssumption /\ Jpeg!CompressAssumption'
  BY DEF JpegInv, JpegTypes, Jpeg!CompressAssumption
<1>2. /\ UNCHANGED <<size, bufsize, jpegsize,
                     call_pass_startup, buffer, rows_to_go, cur_iMCU_row, mcu_ctr>>
      /\ at = "main" /\ cur_iMCU_row < Jpeg!total_iMCU_rows /\ Len(buffer) = DCTSIZE
      /\ next_scanline' = next_scanline + in_row_ctr' /\ y' = y + 1
      /\ at' = IF y' < image_height THEN "write" ELSE "finish"
      /\ in_row_ctr' = IF suspended THEN in_row_ctr ELSE in_row_ctr - 1
      /\ suspended' = TRUE /\ free_in_buffer' = bufsize
      /\ ~Jpeg!Fits(size.mcu[<<cur_iMCU_row, mcu_ctr>>])
  BY DEF Jpeg!Suspend, Jpeg!Encoding, Jpeg!ReturnRows, Jpeg!inputVars, Jpeg!mcu,
         Jpeg!empty_output_buffer
<1>3. /\ y \in Nat /\ image_height \in Nat /\ rows_to_go \in Nat /\ next_scanline \in 0..y
      /\ rows_to_go <= image_height /\ in_row_ctr \in {0, 1} /\ bufsize \in Nat \ {0}
      /\ cur_iMCU_row \in Nat /\ mcu_ctr \in 0..MCUs_per_row - 1 /\ DCTSIZE \in Nat \ {0}
      /\ Jpeg!total_iMCU_rows \in Nat \ {0} /\ Len(buffer) \in Nat /\ free_in_buffer \in Nat
      /\ size.file \in Nat /\ size.frame \in Nat /\ size.flush \in Nat /\ MCUs_per_row \in Nat
  BY <1>1, JpegFacts DEF JpegTypes, Jpeg!TypeOK
<1>4. /\ y < image_height /\ rows_to_go >= image_height - (y + in_row_ctr)
      /\ ~call_pass_startup /\ in_row_ctr' = 0
  <2>1. suspended => in_row_ctr = 0
    BY <1>1, <1>2 DEF JpegControl
  <2>2. ~suspended => in_row_ctr = 1
    BY <1>1, <1>2 DEF JpegControl
  <2>3. in_row_ctr' = 0
    BY <1>2, <2>1, <2>2
  <2>. QED BY <1>1, <1>2, <2>3 DEF JpegControl, Counted
<1>5. /\ y' \in 0..image_height /\ next_scanline' \in 0..y' /\ next_scanline' < y'
      /\ rows_to_go >= image_height - (y' + 0)
      /\ at' = "write" => y' < image_height
      /\ at' = "finish" => y' = image_height
      /\ at' \in {"write", "finish"}
  BY <1>2, <1>3, <1>4
<1>6. JpegTypes'
  <2>1. {suspended, call_pass_startup}' \subseteq BOOLEAN
    <3>1. call_pass_startup' \in BOOLEAN
      BY <1>1, <1>2 DEF JpegTypes, Jpeg!TypeOK
    <3>. QED BY <1>2, <3>1, Zenon
  <2>2. free_in_buffer' \in 1..bufsize
    BY <1>2, <1>3
  <2>. QED BY <1>1, <1>2, <1>4, <1>5, <2>1, <2>2 DEF JpegTypes, Jpeg!TypeOK
<1>7. JpegControl'
  BY <1>2, <1>4, <1>5 DEF JpegControl, Counted
<1>8. SizeOf(size) >= bufsize
  <2>1. CASE next_scanline < y
    BY <2>1 DEF JpegInv
  <2>2. CASE next_scanline = y
    <3> DEFINE t == Total(size.mcu)
               b == <<cur_iMCU_row, mcu_ctr>>
    <3>1. StreamRight
      BY <1>2, <2>2 DEF JpegInv
    <3>2. bufsize - free_in_buffer = (size.file + size.frame) + t[Before(cur_iMCU_row, mcu_ctr)]
      BY <1>2, <3>1 DEF StreamRight, Written, Coded
    <3>3. /\ t[Jpeg!MCUs] \in Nat /\ t[Before(cur_iMCU_row, mcu_ctr)] \in Nat
          /\ t[Before(cur_iMCU_row, mcu_ctr + 1)] \in Nat
          /\ t[Before(cur_iMCU_row, mcu_ctr + 1)] <= t[Jpeg!MCUs]
          /\ size.mcu[b] \in Nat
          /\ t[Before(cur_iMCU_row, mcu_ctr + 1)]
               = size.mcu[b] + t[Before(cur_iMCU_row, mcu_ctr)]
      <4>1. /\ cur_iMCU_row \in 0..Jpeg!total_iMCU_rows - 1 /\ mcu_ctr \in Nat /\ mcu_ctr + 1 \in Nat
        BY <1>2, <1>3
      <4>. QED BY <1>1, <1>3, <4>1, CodedAdds
    <3>4. size.mcu[b] >= free_in_buffer
      BY <1>2, <1>3, <3>3 DEF Jpeg!Fits
    <3> HIDE DEF t, b
    <3>5. ((size.file + size.frame) + t[Jpeg!MCUs]) + size.flush + 2 >= bufsize
      <4> DEFINE a == size.file + size.frame
                 c == t[Before(cur_iMCU_row, mcu_ctr)]
                 e == t[Before(cur_iMCU_row, mcu_ctr + 1)]
                 m == size.mcu[b]
                 all == t[Jpeg!MCUs]
                 f == size.flush
      <4>1. /\ a \in Nat /\ c \in Nat /\ e \in Nat /\ m \in Nat /\ all \in Nat /\ f \in Nat
            /\ bufsize \in Nat /\ free_in_buffer \in Nat
            /\ bufsize - free_in_buffer = a + c /\ e = m + c /\ e <= all /\ m >= free_in_buffer
        BY <1>3, <3>2, <3>3, <3>4
      <4> HIDE DEF a, c, e, m, all, f
      <4>2. (a + all) + f + 2 >= bufsize
        BY <4>1
      <4>. QED BY <4>2 DEF a, all, f
    <3>. QED BY <3>5 DEF SizeOf, Jpeg!EOISize, t
  <2>. QED BY <1>3, <2>1, <2>2
<1>9. next_scanline' # y'
  BY <1>3, <1>5
<1>. QED BY <1>2, <1>6, <1>7, <1>8, <1>9 DEF JpegInv

LEMMA EncodeStep == ASSUME JpegInv, Jpeg!EncodeMCU PROVE JpegInv'
<1> DEFINE W == MCUs_per_row
           N == Jpeg!total_iMCU_rows
           b == <<cur_iMCU_row, mcu_ctr>>
           part == [mcu |-> b, rows |-> buffer]
           LastOfRow == /\ mcu_ctr' = 0 /\ cur_iMCU_row' = cur_iMCU_row + 1
                        /\ buffer' = << >> /\ suspended' = FALSE
                        /\ in_row_ctr' = IF suspended THEN in_row_ctr + 1 ELSE in_row_ctr
           NotLast == /\ mcu_ctr' = mcu_ctr + 1
                      /\ UNCHANGED <<buffer, cur_iMCU_row, suspended, in_row_ctr>>
<1>1. /\ JpegTypes /\ JpegControl /\ Jpeg!CompressAssumption /\ Jpeg!CompressAssumption'
  BY DEF JpegInv, JpegTypes, Jpeg!CompressAssumption
<1>2. /\ UNCHANGED <<size, bufsize, jpegsize, at, y, next_scanline, call_pass_startup,
                     rows_to_go>>
      /\ at = "main" /\ cur_iMCU_row < N /\ Len(buffer) = DCTSIZE
      /\ Jpeg!Fits(size.mcu[b]) /\ stream' = Append(stream, part)
      /\ free_in_buffer' = free_in_buffer - size.mcu[b]
      /\ IF mcu_ctr + 1 < W THEN NotLast ELSE LastOfRow
  BY DEF Jpeg!EncodeMCU, Jpeg!Encoding, Jpeg!Emit, Jpeg!inputVars, Jpeg!mcu
<1>3. /\ y \in Nat /\ image_height \in Nat /\ rows_to_go \in Nat /\ next_scanline \in 0..y
      /\ rows_to_go <= image_height /\ in_row_ctr \in {0, 1} /\ bufsize \in Nat \ {0}
      /\ cur_iMCU_row \in Nat /\ mcu_ctr \in 0..W - 1 /\ DCTSIZE \in Nat \ {0}
      /\ mcu_ctr \in Nat /\ W \in Nat \ {0} /\ free_in_buffer \in 1..bufsize
      /\ N \in Nat \ {0} /\ buffer \in Seq(Nat) /\ free_in_buffer \in Nat
      /\ size.file \in Nat /\ size.frame \in Nat /\ size.flush \in Nat
  BY <1>1, JpegFacts DEF JpegTypes, Jpeg!TypeOK
<1>4. /\ y < image_height /\ rows_to_go >= image_height - (y + in_row_ctr)
      /\ ~call_pass_startup /\ (suspended => in_row_ctr = 0 /\ next_scanline < y)
      /\ (~suspended => in_row_ctr = 1)
  BY <1>1, <1>2 DEF JpegControl, Counted
<1>5. /\ cur_iMCU_row \in 0..N - 1 /\ b \in Jpeg!MCUs /\ size.mcu[b] \in Nat
      /\ Total(size.mcu)[Before(cur_iMCU_row, mcu_ctr)] \in Nat
      /\ Total(size.mcu)[Before(cur_iMCU_row, mcu_ctr + 1)]
           = size.mcu[b] + Total(size.mcu)[Before(cur_iMCU_row, mcu_ctr)]
      /\ Total(size.mcu)[Before(cur_iMCU_row, W)] = Total(size.mcu)[Before(cur_iMCU_row + 1, 0)]
  <2>1. cur_iMCU_row \in 0..N - 1
    BY <1>2, <1>3
  <2>. QED BY <1>1, <1>3, <2>1, CodedAdds
<1>6. free_in_buffer' \in 1..bufsize
  <2> DEFINE m == size.mcu[b]
  <2>1. m \in Nat /\ free_in_buffer' = free_in_buffer - m /\ (m = 0 \/ m < free_in_buffer)
    BY <1>2, <1>5 DEF Jpeg!Fits
  <2> HIDE DEF m
  <2>. QED BY <1>3, <2>1
\* What is written is the next part of the picture.
<1>7. ASSUME RowsRight, StreamRight
      PROVE  /\ Starts(stream', (2 + cur_iMCU_row * W) + mcu_ctr + 1)
             /\ bufsize - free_in_buffer'
                  = (size.file + size.frame) + Total(size.mcu)[Before(cur_iMCU_row, mcu_ctr + 1)]
  <2>1. /\ Starts(stream, (2 + cur_iMCU_row * W) + mcu_ctr)
        /\ bufsize - free_in_buffer
             = (size.file + size.frame) + Total(size.mcu)[Before(cur_iMCU_row, mcu_ctr)]
    BY <1>2, <1>7 DEF StreamRight, Written, Coded
  <2>2. buffer = Jpeg!RowsOf(cur_iMCU_row)
    <3>1. buffer = [n \in 1..DCTSIZE |-> buffer[n]]
      BY <1>2, <1>3, LenProperties
    <3>2. \A n \in 1..DCTSIZE : buffer[n] = Jpeg!RowsOf(cur_iMCU_row)[n]
      BY <1>2, <1>7 DEF RowsRight
    <3>3. Jpeg!RowsOf(cur_iMCU_row) = [n \in 1..DCTSIZE |-> Jpeg!RowsOf(cur_iMCU_row)[n]]
      BY DEF Jpeg!RowsOf
    <3>. QED BY <3>1, <3>2, <3>3
  <2> DEFINE k == (2 + cur_iMCU_row * W) + mcu_ctr
  <2>3. /\ k \in 2..Length - 3 /\ Length \in Nat /\ k + 1 = (2 + cur_iMCU_row * W) + mcu_ctr + 1
        /\ Jpeg!Picture[(2 + cur_iMCU_row * W) + mcu_ctr + 1]
             = [mcu |-> b, rows |-> Jpeg!RowsOf(cur_iMCU_row)]
    <3>1. cur_iMCU_row * W \in Nat
      BY <1>3
    <3>2. k + 1 = (2 + cur_iMCU_row * W) + mcu_ctr + 1
      BY <1>3, <3>1
    <3>. QED BY <1>1, <1>3, <1>5, <3>2, PicturesParts
  <2>4. Starts(stream, k)
    BY <2>1
  <2>5. k \in Nat /\ k + 1 <= Length /\ part = Jpeg!Picture[k + 1]
    <3>1. part = [mcu |-> b, rows |-> Jpeg!RowsOf(cur_iMCU_row)]
      BY <2>2
    <3>2. part = Jpeg!Picture[k + 1]
      BY <2>3, <3>1, Zenon
    <3> HIDE DEF k
    <3>3. k \in Nat /\ k + 1 <= Length
      BY <2>3
    <3>. QED BY <3>2, <3>3 DEF k
  <2> DEFINE n == k + 1
  <2>6. k \in Nat /\ n = k + 1 /\ n <= Length /\ part = Jpeg!Picture[n]
    BY <2>5
  <2>7. Starts(Append(stream, part), n)
    <3> HIDE DEF k, n, part
    <3>. QED BY <1>1, <2>4, <2>6, StreamGrows
  <2>8. Starts(stream', (2 + cur_iMCU_row * W) + mcu_ctr + 1)
    BY <1>2, <2>3, <2>7
  <2>9. bufsize - free_in_buffer'
          = (size.file + size.frame) + Total(size.mcu)[Before(cur_iMCU_row, mcu_ctr + 1)]
    <3> DEFINE a == size.file + size.frame
               c == Total(size.mcu)[Before(cur_iMCU_row, mcu_ctr)]
               e == Total(size.mcu)[Before(cur_iMCU_row, mcu_ctr + 1)]
               m == size.mcu[b]
    <3>1. /\ a \in Nat /\ c \in Nat /\ m \in Nat /\ e = m + c
          /\ bufsize - free_in_buffer = a + c /\ free_in_buffer' = free_in_buffer - m
      <4>1. a \in Nat
        BY <1>3
      <4>2. c \in Nat /\ m \in Nat /\ e = m + c
        BY <1>5
      <4>3. bufsize - free_in_buffer = a + c
        BY <2>1
      <4>4. free_in_buffer' = free_in_buffer - m
        BY <1>2
      <4> HIDE DEF a, c, e, m
      <4>. QED BY <4>1, <4>2, <4>3, <4>4
    <3> HIDE DEF a, c, e, m
    <3>2. bufsize - free_in_buffer' = a + e
      BY <1>3, <3>1
    <3>. QED BY <3>2 DEF a, e
  <2>. QED BY <2>8, <2>9
<1>8. next_scanline = y => ~suspended /\ RowsRight /\ StreamRight
  <2>1. next_scanline = y => ~(next_scanline < y)
    BY <1>3
  <2>. QED BY <1>2, <1>4, <2>1 DEF JpegInv
<1>9. CASE mcu_ctr + 1 < W
  <2>1. NotLast /\ mcu_ctr' \in 0..W - 1
    BY <1>2, <1>3, <1>9
  <2>2. JpegTypes'
    BY <1>1, <1>2, <1>6, <2>1 DEF JpegTypes, Jpeg!TypeOK
  <2>3. JpegControl'
    BY <1>1, <1>2, <1>4, <2>1 DEF JpegControl, Counted
  <2>4. RowsRight => RowsRight'
    BY <1>2, <2>1 DEF RowsRight, Counted, Fed
  <2>5. RowsRight /\ StreamRight => StreamRight'
    <3> SUFFICES ASSUME RowsRight, StreamRight PROVE StreamRight'
      OBVIOUS
    <3>1. (2 + cur_iMCU_row * W) + mcu_ctr + 1 = (2 + cur_iMCU_row * W) + (mcu_ctr + 1)
      <4> DEFINE p == cur_iMCU_row * W
      <4>1. p \in Nat
        BY <1>3
      <4> HIDE DEF p
      <4>2. (2 + p) + mcu_ctr + 1 = (2 + p) + (mcu_ctr + 1)
        BY <1>3, <4>1
      <4>. QED BY <4>2 DEF p
    <3>2. Starts(stream', (2 + cur_iMCU_row * W) + (mcu_ctr + 1))
      BY <1>7, <3>1
    <3>3. Written((2 + cur_iMCU_row * W) + mcu_ctr, (size.file + size.frame) + Coded)'
      BY <1>2, <1>7, <2>1, <3>2 DEF Written, Coded
    <3>. QED BY <1>2, <1>4, <3>3 DEF StreamRight
  <2>. QED BY <1>2, <1>8, <2>2, <2>3, <2>4, <2>5 DEF JpegInv
<1>10. CASE ~(mcu_ctr + 1 < W)
  <2>1. LastOfRow /\ mcu_ctr + 1 = W /\ Len(buffer') = 0 /\ buffer' \in Seq(Nat)
    BY <1>2, <1>3, <1>10
  <2>2. in_row_ctr' = 1 /\ cur_iMCU_row' \in 0..N /\ 0 \in 0..W - 1
    BY <1>2, <1>3, <1>4, <2>1
  <2>3. JpegTypes'
    <3>1. {suspended, call_pass_startup}' \subseteq BOOLEAN
      <4>1. call_pass_startup' \in BOOLEAN
        BY <1>1, <1>2 DEF JpegTypes, Jpeg!TypeOK
      <4>. QED BY <2>1, <4>1, Zenon
    <3>2. Len(buffer') <= DCTSIZE /\ at' \in {"start", "write", "main", "finish", "trailer", "returned", "exited"}
          /\ jpegsize' \in 0..bufsize' /\ free_in_buffer' \in 1..bufsize'
          /\ y' \in 0..image_height /\ next_scanline' \in 0..y' /\ rows_to_go' \in 0..image_height
          /\ cur_iMCU_row' \in 0..Jpeg!total_iMCU_rows
          /\ mcu_ctr' \in 0..MCUs_per_row - 1 /\ in_row_ctr' \in {0, 1}
      BY <1>1, <1>2, <1>3, <1>6, <2>1, <2>2 DEF JpegTypes, Jpeg!TypeOK
    <3>3. Jpeg!TypeOK'
      BY <3>1, <3>2 DEF Jpeg!TypeOK, Jpeg!total_iMCU_rows
    <3>4. size' = size /\ bufsize' = bufsize /\ buffer' \in Seq(Nat)
      BY <1>2, <2>1
    <3>5. Jpeg!MCUs' = Jpeg!MCUs
      BY DEF Jpeg!MCUs, Jpeg!total_iMCU_rows
    <3>. QED BY <1>1, <3>3, <3>4, <3>5 DEF JpegTypes
  <2>4. JpegControl'
    <3>1. y' < image_height /\ rows_to_go' >= image_height - (y' + in_row_ctr') /\ Len(buffer') # DCTSIZE
      BY <1>2, <1>3, <1>4, <2>1, <2>2
    <3>. QED BY <1>2, <1>4, <2>1, <2>2, <3>1 DEF JpegControl, Counted
  <2>5. RowsRight /\ ~suspended => RowsRight'
    <3> SUFFICES ASSUME RowsRight, ~suspended PROVE RowsRight'
      OBVIOUS
    <3>1. Fed' = Fed /\ Counted' = Counted /\ Fed = y + Counted
      BY <1>2, <2>1 DEF RowsRight, Fed, Counted
    <3>2. Fed < image_height => cur_iMCU_row' * DCTSIZE + Len(buffer') = Fed
      <4> DEFINE p == cur_iMCU_row * DCTSIZE
                 q == cur_iMCU_row' * DCTSIZE
      <4>1. p \in Nat /\ q = p + DCTSIZE
        BY <1>3, <2>1
      <4>2. Fed < image_height => p + DCTSIZE = Fed
        BY <1>2 DEF RowsRight
      <4> HIDE DEF p, q
      <4>3. Fed < image_height => q + Len(buffer') = Fed
        BY <1>3, <2>1, <4>1, <4>2
      <4>. QED BY <4>3 DEF q
    <3>3. Fed = image_height => cur_iMCU_row' = N /\ Len(buffer') = 0
      BY <1>2, <1>3, <2>1 DEF RowsRight
    <3>4. \A n \in 1..Len(buffer') : FALSE
      BY <2>1
    <3>5. at' = "main" /\ y' = y
      BY <1>2
    <3>. QED BY <3>1, <3>2, <3>3, <3>4, <3>5 DEF RowsRight, Jpeg!total_iMCU_rows
  <2>6. RowsRight /\ StreamRight => StreamRight'
    <3> SUFFICES ASSUME RowsRight, StreamRight PROVE StreamRight'
      OBVIOUS
    <3>1. (2 + cur_iMCU_row * W) + mcu_ctr + 1 = (2 + (cur_iMCU_row + 1) * W) + 0
      <4> DEFINE p == cur_iMCU_row * W
      <4>1. p \in Nat /\ (cur_iMCU_row + 1) * W = p + W
        BY <1>3
      <4>2. (2 + p) + mcu_ctr + 1 = (2 + (p + W)) + 0
        <5> HIDE DEF p
        <5>. QED BY <1>3, <2>1, <4>1
      <4>. QED BY <4>1, <4>2
    <3>2. Starts(stream', (2 + cur_iMCU_row' * W) + mcu_ctr')
      BY <1>7, <2>1, <3>1
    <3>3. bufsize' - free_in_buffer' = (size.file + size.frame)
                                         + Total(size.mcu)[Before(cur_iMCU_row', mcu_ctr')]
      BY <1>2, <1>5, <1>7, <2>1
    <3>4. Written((2 + cur_iMCU_row * W) + mcu_ctr, (size.file + size.frame) + Coded)'
      BY <1>2, <3>2, <3>3 DEF Written, Coded
    <3>. QED BY <1>2, <1>4, <3>4 DEF StreamRight
  <2>. QED BY <1>2, <1>8, <2>3, <2>4, <2>5, <2>6 DEF JpegInv
<1>. QED BY <1>9, <1>10

LEMMA FinishStep == ASSUME JpegInv, Jpeg!jpeg_finish_compress PROVE JpegInv'
<1>1. /\ JpegTypes /\ JpegControl /\ Jpeg!CompressAssumption /\ Jpeg!CompressAssumption'
  BY DEF JpegInv, JpegTypes, Jpeg!CompressAssumption
<1>2. /\ UNCHANGED <<size, bufsize, jpegsize, y, next_scanline, in_row_ctr,
                     call_pass_startup, buffer, rows_to_go, cur_iMCU_row, mcu_ctr, suspended>>
      /\ at = "finish"
  BY DEF Jpeg!jpeg_finish_compress, Jpeg!inputVars, Jpeg!rowVars, Jpeg!mainVars
<1>3. /\ size.file \in Nat /\ size.frame \in Nat /\ size.flush \in Nat
      /\ free_in_buffer \in 1..bufsize /\ bufsize \in Nat \ {0} /\ y \in Nat
      /\ image_height \in Nat /\ next_scanline \in 0..y /\ mcu_ctr \in Nat
      /\ MCUs_per_row \in Nat /\ Jpeg!total_iMCU_rows \in Nat \ {0} /\ cur_iMCU_row \in Nat
      /\ Total(size.mcu)[Jpeg!MCUs] \in Nat
      /\ Before(Jpeg!total_iMCU_rows, 0) = Jpeg!MCUs /\ free_in_buffer \in Nat
  BY <1>1, JpegFacts, CodedAdds DEF JpegTypes, Jpeg!TypeOK
<1>4. /\ y = image_height /\ ~call_pass_startup
      /\ cur_iMCU_row = Jpeg!total_iMCU_rows => mcu_ctr = 0 /\ ~suspended
  <2>1. cur_iMCU_row = Jpeg!total_iMCU_rows => ~(cur_iMCU_row < Jpeg!total_iMCU_rows)
    BY <1>3
  <2>. QED BY <1>1, <1>2, <2>1 DEF JpegControl
<1>5. ASSUME next_scanline = y
      PROVE  /\ RowsRight /\ cur_iMCU_row = Jpeg!total_iMCU_rows
             /\ Starts(stream, Length - 2)
             /\ bufsize - free_in_buffer = (size.file + size.frame) + Total(size.mcu)[Jpeg!MCUs]
  <2>1. RowsRight /\ StreamRight /\ cur_iMCU_row = Jpeg!total_iMCU_rows /\ mcu_ctr = 0
    <3>1. RowsRight /\ StreamRight
      BY <1>2, <1>5 DEF JpegInv
    <3>2. cur_iMCU_row = Jpeg!total_iMCU_rows
      BY <1>2, <3>1 DEF RowsRight
    <3>. QED BY <1>4, <3>1, <3>2
  <2>2. (2 + cur_iMCU_row * MCUs_per_row) + mcu_ctr = Length - 2
    <3> DEFINE p == Jpeg!total_iMCU_rows * MCUs_per_row
    <3>1. p \in Nat /\ Length = 4 + p
      BY <1>3 DEF Length
    <3> HIDE DEF p
    <3>2. (2 + p) + 0 = Length - 2
      BY <3>1
    <3>. QED BY <2>1, <3>2 DEF p
  <2>3. Written((2 + cur_iMCU_row * MCUs_per_row) + mcu_ctr, (size.file + size.frame) + Coded)
    BY <1>2, <2>1 DEF StreamRight
  <2>. QED BY <1>3, <2>1, <2>2, <2>3 DEF Written, Coded
<1>6. free_in_buffer' \in 1..bufsize /\ at' \in {"trailer", "exited"} => JpegTypes'
  <2> SUFFICES ASSUME free_in_buffer' \in 1..bufsize, at' \in {"trailer", "exited"}
               PROVE  JpegTypes'
    OBVIOUS
  <2>1. Jpeg!TypeOK'
    BY <1>1, <1>2 DEF JpegTypes, Jpeg!TypeOK
  <2>. QED BY <1>1, <1>2, <2>1 DEF JpegTypes
<1>7. at' = "exited" \/ (at' = "trailer" /\ next_scanline = y) => JpegControl'
  BY <1>1, <1>2, <1>4 DEF JpegControl, Counted
<1>8. CASE next_scanline < image_height /\ at' = "exited" /\ UNCHANGED Jpeg!destVars
  <2>1. SizeOf(size) >= bufsize
    BY <1>4, <1>8 DEF JpegInv
  <2>2. free_in_buffer' \in 1..bufsize
    BY <1>3, <1>8 DEF Jpeg!destVars
  <2>. QED BY <1>2, <1>6, <1>7, <1>8, <2>1, <2>2 DEF JpegInv
<1>9. CASE next_scanline >= image_height /\ Jpeg!EmitMarker("flush", size.flush, "trailer")
  <2>1. next_scanline = y
    BY <1>3, <1>4, <1>9
  <2>2. CASE Jpeg!Fits(size.flush) /\ Jpeg!Emit("flush", size.flush) /\ at' = "trailer"
    <3>1. /\ stream' = Append(stream, "flush")
          /\ free_in_buffer' = free_in_buffer - size.flush /\ free_in_buffer' \in 1..bufsize
      BY <1>3, <2>2 DEF Jpeg!Fits, Jpeg!Emit
    <3>2. Starts(stream', Length - 1)
      <4>1. Length \in Nat /\ Length >= 4 /\ Jpeg!Picture[Length - 1] = "flush"
        BY <1>1, PicturesParts
      <4> DEFINE k == Length - 2
                 n == Length - 1
      <4>2. k \in Nat /\ n = k + 1 /\ n <= Length /\ Jpeg!Picture[n] = "flush"
        BY <4>1
      <4>3. Starts(stream, k)
        BY <1>5, <2>1
      <4> HIDE DEF k, n
      <4>4. Starts(Append(stream, "flush"), n)
        BY <1>1, <4>2, <4>3, StreamGrows
      <4>. QED BY <3>1, <4>4 DEF n
    <3>3. bufsize - free_in_buffer'
            = ((size.file + size.frame) + Total(size.mcu)[Jpeg!MCUs]) + size.flush
      <4> DEFINE a == (size.file + size.frame) + Total(size.mcu)[Jpeg!MCUs]
                 f == size.flush
      <4>1. a \in Nat /\ f \in Nat /\ bufsize - free_in_buffer = a /\ free_in_buffer' = free_in_buffer - f
        BY <1>3, <1>5, <2>1, <3>1
      <4> HIDE DEF a, f
      <4>2. bufsize - free_in_buffer' = a + f
        BY <1>3, <4>1
      <4>. QED BY <4>2 DEF a, f
    <3>4. StreamRight'
      <4>1. Written(Length - 1, ((size.file + size.frame) + Total(size.mcu)[Jpeg!MCUs])
                                  + size.flush)'
        <5>1. Length' = Length /\ Jpeg!MCUs' = Jpeg!MCUs
          BY DEF Length, Jpeg!MCUs, Jpeg!total_iMCU_rows
        <5>. QED BY <1>2, <3>2, <3>3, <5>1 DEF Written
      <4>. QED BY <2>2, <4>1 DEF StreamRight
    <3>5. RowsRight'
      BY <1>2, <1>5, <2>1, <2>2 DEF RowsRight, Counted, Fed
    <3>. QED BY <1>2, <1>3, <1>6, <1>7, <2>1, <2>2, <3>1, <3>4, <3>5 DEF JpegInv
  <2>3. CASE ~Jpeg!Fits(size.flush) /\ Jpeg!empty_output_buffer /\ at' = "exited"
    <3>1. free_in_buffer' \in 1..bufsize
      BY <1>3, <2>3 DEF Jpeg!empty_output_buffer
    <3>2. SizeOf(size) >= bufsize
      <4> DEFINE a == (size.file + size.frame) + Total(size.mcu)[Jpeg!MCUs]
                 f == size.flush
      <4>1. f >= free_in_buffer
        BY <1>3, <2>3 DEF Jpeg!Fits
      <4>2. a \in Nat /\ f \in Nat /\ bufsize - free_in_buffer = a
        BY <1>3, <1>5, <2>1
      <4> HIDE DEF a, f
      <4>3. a + f + 2 >= bufsize
        BY <1>3, <4>1, <4>2
      <4>. QED BY <4>3 DEF a, f, SizeOf, Jpeg!EOISize
    <3>. QED BY <1>2, <1>6, <1>7, <2>3, <3>1, <3>2 DEF JpegInv
  <2>. QED BY <1>9, <2>2, <2>3 DEF Jpeg!EmitMarker
<1>. QED BY <1>8, <1>9 DEF Jpeg!jpeg_finish_compress

LEMMA TrailerStep == ASSUME JpegInv, Jpeg!write_file_trailer PROVE JpegInv'
<1>1. /\ JpegTypes /\ JpegControl /\ Jpeg!CompressAssumption /\ Jpeg!CompressAssumption'
  BY DEF JpegInv, JpegTypes, Jpeg!CompressAssumption
<1>2. /\ UNCHANGED <<size, bufsize, y, next_scanline, in_row_ctr,
                     call_pass_startup, buffer, rows_to_go, cur_iMCU_row, mcu_ctr, suspended>>
      /\ at = "trailer"
      /\ jpegsize' = IF at' = "returned" THEN bufsize - free_in_buffer' ELSE jpegsize
  BY DEF Jpeg!write_file_trailer, Jpeg!inputVars, Jpeg!rowVars, Jpeg!mainVars
<1>3. /\ size.file \in Nat /\ size.frame \in Nat /\ size.flush \in Nat
      /\ free_in_buffer \in 1..bufsize /\ bufsize \in Nat \ {0} /\ y \in Nat
      /\ next_scanline \in 0..y /\ Total(size.mcu)[Jpeg!MCUs] \in Nat
      /\ free_in_buffer \in Nat /\ jpegsize \in 0..bufsize
  BY <1>1, JpegFacts, CodedAdds DEF JpegTypes, Jpeg!TypeOK
<1>4. y = image_height /\ ~call_pass_startup /\ next_scanline = y
  BY <1>1, <1>2 DEF JpegControl
<1>5. RowsRight /\ StreamRight
  BY <1>2, <1>4 DEF JpegInv
<1> DEFINE a == ((size.file + size.frame) + Total(size.mcu)[Jpeg!MCUs]) + size.flush
<1>6. Starts(stream, Length - 1) /\ bufsize - free_in_buffer = a /\ a \in Nat
  BY <1>2, <1>3, <1>5 DEF StreamRight, Written
<1>7. SizeOf(size) = a + 2
  BY DEF SizeOf, Jpeg!EOISize
<1> HIDE DEF a
<1>8. free_in_buffer' \in 1..bufsize /\ at' \in {"returned", "exited"} => JpegTypes'
  <2> SUFFICES ASSUME free_in_buffer' \in 1..bufsize, at' \in {"returned", "exited"}
               PROVE  JpegTypes'
    OBVIOUS
  <2>1. jpegsize' \in 0..bufsize
    <3>1. bufsize - free_in_buffer' \in 0..bufsize
      <4>1. \A b \in Nat : \A f \in 1..b : b - f \in 0..b
        OBVIOUS
      <4>. QED BY <1>3, <4>1
    <3>. QED BY <1>2, <1>3, <3>1
  <2>2. Jpeg!TypeOK'
    BY <1>1, <1>2, <2>1 DEF JpegTypes, Jpeg!TypeOK
  <2>. QED BY <1>1, <1>2, <2>2 DEF JpegTypes
<1>9. at' \in {"returned", "exited"} => JpegControl'
  BY <1>1, <1>2, <1>4 DEF JpegControl, Counted
<1>10. CASE Jpeg!Fits(2) /\ Jpeg!Emit("EOI", 2) /\ at' = "returned"
  <2>1. /\ stream' = Append(stream, "EOI")
        /\ free_in_buffer' = free_in_buffer - 2 /\ free_in_buffer' \in 1..bufsize
    BY <1>3, <1>10 DEF Jpeg!Fits, Jpeg!Emit
  <2>2. Starts(stream', Length)
    <3>1. Length \in Nat /\ Length >= 4 /\ Jpeg!Picture[Length] = "EOI"
      BY <1>1, PicturesParts
    <3> DEFINE k == Length - 1
    <3>2. k \in Nat /\ Length = k + 1 /\ Length <= Length
      BY <3>1
    <3>3. Starts(stream, k)
      BY <1>6
    <3> HIDE DEF k
    <3>4. Starts(Append(stream, "EOI"), Length)
      BY <1>1, <3>1, <3>2, <3>3, StreamGrows
    <3>. QED BY <2>1, <3>4
  <2>3. bufsize - free_in_buffer' = SizeOf(size) /\ jpegsize' = SizeOf(size)
    BY <1>2, <1>3, <1>6, <1>7, <1>10, <2>1
  <2>4. StreamRight'
    <3>1. Written(Length, SizeOf(size))' /\ jpegsize' = SizeOf(size)'
      <4>1. Length' = Length /\ SizeOf(size)' = SizeOf(size)
        BY <1>2 DEF Length, Jpeg!total_iMCU_rows
      <4>. QED BY <1>2, <2>2, <2>3, <4>1 DEF Written
    <3>. QED BY <1>10, <3>1 DEF StreamRight
  <2>5. RowsRight'
    BY <1>2, <1>5, <1>10 DEF RowsRight, Counted, Fed
  <2>. QED BY <1>2, <1>3, <1>4, <1>8, <1>9, <1>10, <2>1, <2>4, <2>5 DEF JpegInv
<1>11. CASE ~Jpeg!Fits(2) /\ Jpeg!empty_output_buffer /\ at' = "exited"
  <2>1. free_in_buffer' \in 1..bufsize
    BY <1>3, <1>11 DEF Jpeg!empty_output_buffer
  <2>2. SizeOf(size) >= bufsize
    BY <1>3, <1>6, <1>7, <1>11 DEF Jpeg!Fits
  <2>. QED BY <1>2, <1>8, <1>9, <1>11, <2>1, <2>2 DEF JpegInv
<1>. QED BY <1>10, <1>11 DEF Jpeg!write_file_trailer, Jpeg!EmitMarker, Jpeg!EOISize

LEMMA JpegWhole == JpegInv => Jpeg!ReturnedWhole /\ Jpeg!ExitsOnlyWhenFull
<1> SUFFICES ASSUME JpegInv PROVE Jpeg!ReturnedWhole /\ Jpeg!ExitsOnlyWhenFull
  OBVIOUS
<1>1. /\ JpegTypes /\ JpegControl /\ Jpeg!CompressAssumption
      /\ size.mcu \in [Jpeg!MCUs -> Nat]
  BY JpegFacts DEF JpegInv, JpegTypes
<1>2. Jpeg!PictureSize = SizeOf(size)
  <2> DEFINE g == size.mcu
  <2>1. g \in [Jpeg!MCUs -> Nat]
    BY <1>1
  <2> HIDE DEF g
  <2>2. Total(g)[Jpeg!MCUs] = SumOf(g, Jpeg!MCUs)
    BY <1>1, <2>1, TotalAdds
  <2>3. SumOf(g, Jpeg!MCUs) = Jpeg!MapThenSumSet(LAMBDA b : size.mcu[b], Jpeg!MCUs)
    BY Zenon DEF SumOf, g
  <2>4. Total(size.mcu)[Jpeg!MCUs] = Jpeg!MapThenSumSet(LAMBDA b : size.mcu[b], Jpeg!MCUs)
    BY <2>2, <2>3, Zenon DEF g
  <2>. QED BY <2>4, Zenon DEF Jpeg!PictureSize, SizeOf
<1>3. ASSUME at = "returned" PROVE stream = Jpeg!Picture /\ jpegsize = SizeOf(size)
  <2>1. next_scanline = y
    BY <1>1, <1>3 DEF JpegControl
  <2>2. StreamRight
    BY <1>3, <2>1 DEF JpegInv
  <2>3. Starts(stream, Length) /\ jpegsize = SizeOf(size)
    BY <1>3, <2>2 DEF StreamRight, Written
  <2>. QED BY <1>1, <2>3, StreamWhole
<1>4. at = "exited" => SizeOf(size) >= bufsize
  BY DEF JpegInv
<1>. QED BY <1>2, <1>3, <1>4 DEF Jpeg!ReturnedWhole, Jpeg!ExitsOnlyWhenFull

LEMMA JpegRight ==
  Jpeg!CompressAssumption /\ Jpeg!Spec =>
    [](Jpeg!TypeOK /\ Jpeg!ReturnedWhole /\ Jpeg!ExitsOnlyWhenFull)
<1>1. JpegInv /\ [Jpeg!Next]_Jpeg!vars => JpegInv'
  BY JpegStutter, StartStep, WriteStep, PreStep, NeedsStep, EncodeStep, SuspendStep,
     FinishStep, TrailerStep DEF Jpeg!Next
<1>2. JpegInv => Jpeg!TypeOK /\ Jpeg!ReturnedWhole /\ Jpeg!ExitsOnlyWhenFull
  BY JpegWhole DEF JpegInv, JpegTypes
<1>. QED BY <1>1, <1>2, JpegInit, PTL DEF Jpeg!Spec

-----------------------------------------------------------------------------
(* All of them.                                                            *)

\* The parts in which something has to get through let it through once and
\* whole (videoPacketHandler, readSerialInput, PulseGenerator.run,
\* DataThread.run, put_jpeg_grey_memory).
THEOREM FlowsAreRight ==
  /\ Video!VideoAssumption /\ Fork!ForkliftAssumption /\ Audio!AudioAssumption
  /\ Con!ConsoleAssumption /\ Jpeg!CompressAssumption
  /\ Video!Spec /\ Fork!Spec /\ Audio!Spec /\ Con!Spec /\ Jpeg!Spec
  => []OnceAndWhole
<1>1. /\ Video!TypeOK /\ Video!SendsOnSocket /\ Video!ShowsOneFrame
      /\ Fork!TypeOK /\ Fork!CommandsObeyed /\ Fork!StaysInBuffer
      /\ Audio!TypeOK /\ Audio!PauseRepairs
      /\ Con!TypeOK /\ Con!SpokenOnce /\ Con!DrawnOnce
      /\ Jpeg!TypeOK /\ Jpeg!ReturnedWhole /\ Jpeg!ExitsOnlyWhenFull
      => OnceAndWhole
  BY Zenon DEF OnceAndWhole
<1>. QED BY <1>1, VideoRight, ForkRight, AudioRight, ConRight, JpegRight, PTL

=============================================================================
