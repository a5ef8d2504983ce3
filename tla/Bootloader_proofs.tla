-------------------------- MODULE Bootloader_proofs --------------------------
(***************************************************************************)
(* Proofs about Bootloader, for every value of the constants: between      *)
(* resets the composition implements BootMain, and it keeps FullCountdown; *)
(* with uploads one at a time it jumps to whole files, but for aborted     *)
(* ones and those under which it jumps.                                    *)
(***************************************************************************)
EXTENDS Bootloader, TftpServer_proofs, FiniteSetTheorems

(* What a step of the board does to TftpServer: one of its own steps, the  *)
(* loss of its RAM, a client that gives up, or nothing.                    *)
LEMMA TypeStep == TypeInv /\ [BoardNext]_boardVars => TypeInv'
<1> SUFFICES ASSUME TypeInv, [BoardNext]_boardVars PROVE TypeInv'
  OBVIOUS
<1>1. CASE UNCHANGED vars
  BY <1>1, StepType
<1>2. CASE LoopFrame
  <2>1. Frame \/ UNCHANGED vars
    BY <1>2 DEF LoopFrame, BoardFrame, TftpFrame, ConsoleFrame, NoFrame
  <2> QED BY <2>1, <1>1, StepType DEF Next
<1>3. CASE LoopStep
  <2>1. upload_flag' \in 0 .. 2
    BY <1>3 DEF LoopStep, TypeInv, TypeOK, Main!Top, Main!Flag, Main!Finish,
       Main!Check, Main!iap_load_app, Main!Finished
  <2> QED BY <1>3, <2>1 DEF LoopStep, TypeInv, TypeOK, ClientInv, netVars, clientVars
<1>4. CASE Outside
  BY <1>4, StepType DEF Outside, Next
<1>5. CASE Reset
  BY <1>5, EmptySeq, TftpAssumption
     DEF Reset, Restarted, TypeInv, TypeOK, ClientInv, netVars, clientVars
<1>6. ASSUME NEW c \in Client, ClientGone(c) PROVE TypeInv'
  BY <1>6 DEF ClientGone, TypeInv, TypeOK, ClientInv, netVars, serverVars
<1> QED BY <1>1, <1>2, <1>3, <1>4, <1>5, <1>6 DEF BoardNext, boardVars

(* Sessions are finitely many, and the next local port is none of them.    *)
LEMMA SessionsFinite ==
  ASSUME TypeInv
  PROVE  /\ IsFiniteSet(DOMAIN session)
         /\ Cardinality(DOMAIN session) \in Nat
         /\ ports \in Nat /\ ports + 1 \notin DOMAIN session
<1>1. ports \in Nat /\ DOMAIN session \subseteq 1 .. ports
  BY TftpAssumption DEF TypeInv, TypeOK
<1>2. IsFiniteSet(1 .. ports)
  BY <1>1, FS_Interval
<1>3. IsFiniteSet(DOMAIN session)
  BY <1>1, <1>2, FS_Subset
<1>4. Cardinality(DOMAIN session) \in Nat
  BY <1>3, FS_CardinalityType
<1> QED BY <1>1, <1>3, <1>4

-----------------------------------------------------------------------------
(* The board keeps what TftpServer keeps with clients that take turns. *)
Turns == OneAtATime => TakeTurns

LEMMA TurnsStep == TypeInv /\ Turns /\ [BoardNext]_boardVars => Turns'
<1> SUFFICES ASSUME TypeInv, TakeTurns, OneAtATime, [BoardNext]_boardVars
             PROVE  TakeTurns'
  BY DEF Turns
<1>1. CASE UNCHANGED vars
  BY <1>1 DEF vars, serverVars, netVars, clientVars, TakeTurns, Active
<1>2. CASE LoopFrame
  <2>1. Frame \/ UNCHANGED vars
    BY <1>2 DEF LoopFrame, BoardFrame, TftpFrame, ConsoleFrame, NoFrame
  <2> QED BY <2>1, <1>1, TurnsFrame
<1>3. CASE LoopStep
  BY <1>3 DEF LoopStep, netVars, clientVars, TakeTurns, Active
<1>4. CASE Outside
  BY <1>4, TurnsOutside DEF Outside
<1>5. CASE Reset
  BY <1>5 DEF Reset, Restarted, netVars, clientVars, TakeTurns, Active
<1>6. ASSUME NEW c \in Client, ClientGone(c) PROVE TakeTurns'
  <2>1. UNCHANGED <<session, requests, toClient>> /\ c \notin requests
    BY <1>6 DEF ClientGone, OneAtATime, serverVars, netVars
  <2>2. \A d \in Client : cst'[d] = IF d = c THEN "failed" ELSE cst[d]
    BY <1>6 DEF ClientGone, TypeInv, TypeOK
  <2>3. /\ requests \subseteq Client
        /\ \A s \in DOMAIN session : session[s].remote \in Client
    BY DEF TypeInv, TypeOK, Session
  <2> QED BY <2>1, <2>2, <2>3 DEF TakeTurns, Active
<1> QED BY <1>1, <1>2, <1>3, <1>4, <1>5, <1>6 DEF BoardNext, boardVars

-----------------------------------------------------------------------------
(* The steps of the composition are steps of BootMain. *)

(* What a frame of TftpServer is to the main loop. *)
LEMMA FrameRefines ==
  ASSUME TypeInv, TypeInv', Turns, TftpFrame
  PROVE  Main!Frame
<1> DEFINE up == Cardinality(DOMAIN session)
           bound == IF OneAtATime THEN 1 ELSE MaxArgs
<1>1. /\ IsFiniteSet(DOMAIN session) /\ up \in Nat
      /\ ports \in Nat /\ ports + 1 \notin DOMAIN session
  BY SessionsFinite
<1>2. Frame /\ Store /\ UNCHANGED connected
  BY DEF TftpFrame
<1>3. ASSUME UNCHANGED image PROVE vector' = vector
  BY <1>2, <1>3 DEF Store, vector
<1>4. ASSUME NEW c \in requests, process_tftp_request(c) PROVE Main!Frame
  <2>1. UNCHANGED <<image, connected, vector>>
    BY <1>2, <1>3, <1>4
    DEF process_tftp_request, NoPcb, NoArgs, OpenSession, serverVars
  <2>2. CASE NoPcb(c)
    BY <2>1, <2>2 DEF NoPcb, serverVars, Main!Frame, Main!NoFrame, Main!netVars
  <2>3. CASE NoArgs(c)
    BY <2>1, <2>3
    DEF TftpFrame, NoArgs, Hold, udp_new_port, Main!Frame, Main!RefusedRequest
  <2>4. CASE OpenSession(c)
    <3>1. DOMAIN session' = DOMAIN session \cup {ports + 1} /\ up < MaxArgs
      BY <2>4 DEF OpenSession
    <3>2. Cardinality(DOMAIN session') = up + 1
      BY <1>1, <3>1, FS_AddElement
    <3>3. up < bound
      <4>1. CASE OneAtATime
        <5>1. session = << >>
          BY <1>4, <4>1 DEF Turns, TakeTurns
        <5>2. DOMAIN session = {}
          BY <5>1
        <5> QED BY <4>1, <5>2, FS_EmptySet
      <4> QED BY <3>1, <4>1
    <3> QED BY <2>1, <2>4, <3>2, <3>3
        DEF TftpFrame, OpenSession, Hold, udp_new_port, Main!Frame, Main!WriteRequest
  <2> QED BY <1>4, <2>2, <2>3, <2>4 DEF process_tftp_request
<1>5. ASSUME NEW p \in toServer, wrq_recv_callback(p) PROVE Main!Frame
  <2>1. p.to \in DOMAIN session /\ UNCHANGED <<ports, connected>>
    BY <1>2, <1>5 DEF wrq_recv_callback, FromPeer
  <2>2. up > 0
    BY <1>1, <2>1, FS_EmptySet
  <2>3. vector' \in {VectorsOf[c] : c \in Client} \cup {vector}
    <3>1. CASE UNCHANGED image
      BY <1>3, <3>1
    <3>2. CASE image' # image
      <4>1. PICK x : image' = Append(image, x)
        BY <1>5, <3>2 DEF wrq_recv_callback
      <4>2. stored' = image'
        BY <1>2, <3>2 DEF Store
      <4>3. image \in Seq(Stored) /\ image' \in Seq(Stored)
        BY DEF TypeInv, TypeOK
      <4>4. Len(image') > 0
        BY <3>2, <4>1, <4>3
      <4>5. image' # << >> /\ image'[1] \in Stored
        BY <4>3, <4>4
      <4> QED BY <4>2, <4>5 DEF vector, Stored
    <3> QED BY <3>1, <3>2
  <2>4. CASE LastPacket(p)
    <3>1. DOMAIN session' = DOMAIN session \ {p.to} /\ upload_flag' = 2
      BY <1>5, <2>4 DEF wrq_recv_callback, Finish
    <3>2. Cardinality(DOMAIN session') = up - 1
      BY <1>1, <2>1, <3>1, FS_RemoveElement
    <3> QED BY <2>1, <2>2, <2>3, <3>1, <3>2 DEF Main!Frame, Main!LastBlock
  <2>5. CASE ~LastPacket(p)
    <3>1. DOMAIN session' = DOMAIN session /\ UNCHANGED upload_flag
      BY <1>5, <2>5 DEF wrq_recv_callback
    <3> QED BY <2>1, <2>2, <2>3, <3>1 DEF Main!Frame, Main!BlockFrame
  <2> QED BY <2>4, <2>5
<1>6. ASSUME NEW p \in toServer, udp_input_no_pcb(p) PROVE Main!Frame
  BY <1>2, <1>3, <1>6
  DEF udp_input_no_pcb, serverVars, Main!Frame, Main!NoFrame, Main!netVars
<1>7. ASSUME NEW c \in Client, UnknownRequest(c) PROVE Main!Frame
  <2>1. UNCHANGED <<image, connected, vector, session, upload_flag>>
    BY <1>2, <1>3, <1>7 DEF UnknownRequest
  <2> QED BY <1>7, <2>1 DEF UnknownRequest, udp_new_port, Main!Frame, Main!OtherRequest
<1> QED BY <1>2, <1>4, <1>5, <1>6, <1>7 DEF Frame

LEMMA BoardFrameRefines ==
  ASSUME TypeInv, TypeInv', Turns, BoardFrame
  PROVE  Main!FrameHandled
<1>1. CASE TftpFrame
  BY <1>1, FrameRefines DEF BoardFrame, Main!FrameHandled
<1>2. CASE ConsoleFrame
  BY <1>2 DEF ConsoleFrame, BoardFrame, vars, serverVars, flashVars, vector,
     Main!FrameHandled, Main!Frame, Main!ConnectFrame
<1>3. CASE NoFrame
  BY <1>3 DEF NoFrame, BoardFrame, vars, serverVars, flashVars, vector,
     Main!FrameHandled, Main!Frame, Main!NoFrame, Main!netVars
<1> QED BY <1>1, <1>2, <1>3 DEF BoardFrame

LEMMA StepRefines ==
  ASSUME TypeInv, TypeInv', Turns, [BoardNext]_boardVars
  PROVE  [Main!Next \/ Restarted]_(Main!vars)
<1>1. ASSUME UNCHANGED <<serverVars, loopVars, connected, flashVars>>
      PROVE  UNCHANGED Main!vars
  BY <1>1 DEF serverVars, loopVars, flashVars, vector, Main!vars, Main!loopVars,
     Main!netVars
<1>2. CASE LoopFrame
  <2>1. Main!FrameHandled
    BY <1>2, BoardFrameRefines DEF LoopFrame
  <2> QED BY <1>2, <2>1
      DEF LoopFrame, Main!Next, Main!InWait, Main!InStart, Main!InFinish,
          Main!InIllegal, Main!MX_LWIP_Process
<1>3. CASE LoopStep
  <2>1. Main!Top \/ Main!Flag \/ Main!Finish \/ Main!Check \/ Main!iap_load_app
    BY <1>3 DEF LoopStep
  <2> QED BY <2>1 DEF Main!Next
<1>4. CASE Outside
  <2>1. UNCHANGED serverVars
    BY <1>4 DEF Outside, Environment, ClientRequest, ClientRetryRequest,
       ClientSend, ClientAbort, ClientReceive, Lose
  <2> QED BY <1>1, <1>4, <2>1 DEF Outside
<1>5. CASE Reset
  BY <1>5 DEF Reset
<1>6. ASSUME NEW c \in Client, ClientGone(c) PROVE UNCHANGED Main!vars
  BY <1>1, <1>6 DEF ClientGone
<1>7. CASE UNCHANGED boardVars
  BY <1>1, <1>7 DEF boardVars, vars
<1> QED BY <1>2, <1>3, <1>4, <1>5, <1>6, <1>7 DEF BoardNext

(* Types and turns hold always. *)
LEMMA BoardInv == BoardSpec => [](TypeInv /\ Turns)
<1>1. BoardInit => TypeInv /\ Turns
  <2> SUFFICES ASSUME BoardInit PROVE TypeInv /\ Turns
    OBVIOUS
  <2>1. TypeInv
    BY InitType DEF BoardInit
  <2>2. Turns
    BY DEF BoardInit, Init, Turns, TakeTurns, Active
  <2> QED BY <2>1, <2>2
<1>2. (TypeInv /\ Turns) /\ [BoardNext]_boardVars => (TypeInv /\ Turns)'
  BY TypeStep, TurnsStep
<1> QED BY <1>1, <1>2, PTL DEF BoardSpec

(* Between resets the main loop with the real TFTP server, clients and     *)
(* network behaves as BootMain says: the frames that BootMain leaves open  *)
(* are all there are (main.c:146-220 with tftpserver.c:397-592).           *)
THEOREM RefinesMain == BoardSpec => ImplementsMain
<1>1. BoardInit => Main!Init
  BY DEF BoardInit
<1>2. /\ TypeInv /\ Turns
      /\ (TypeInv /\ Turns)'
      /\ [BoardNext]_boardVars
      => [Main!Next \/ Restarted]_(Main!vars)
  BY StepRefines
<1> QED BY <1>1, <1>2, BoardInv, PTL DEF BoardSpec, ImplementsMain

-----------------------------------------------------------------------------
(* The invariant of BootMain holds in the composition, also across resets. *)
MP == INSTANCE BootMain_proofs WITH
        uploads     <- Cardinality(DOMAIN session),
        requests    <- ports,
        NewVectors  <- {VectorsOf[c] : c \in Client},
        MaxSessions <- IF OneAtATime THEN 1 ELSE MaxArgs,
        Refusals    <- TRUE

LEMMA MainAssumption == MP!BootAssumption
BY BootloaderAssumption, TftpAssumption
   DEF MP!BootAssumption, MP!Vectors, Main!Vectors, OneAtATime

LEMMA MainInvSame ==
  /\ MP!IInv <=> Main!IInv
  /\ MP!IInv' <=> Main!IInv'
BY DEF MP!IInv, MP!TypeOK, MP!HeldForUpload, MP!Vectors, MP!Shown, MP!Counted,
       Main!IInv, Main!TypeOK, Main!HeldForUpload, Main!Vectors, Main!Shown,
       Main!Counted

LEMMA MainNextSame == [Main!Next]_(Main!vars) => [MP!Next]_(MP!vars)
BY DEF Main!Next, Main!vars, Main!loopVars, Main!netVars, Main!Top, Main!InWait,
       Main!Flag, Main!InStart, Main!InFinish, Main!Finish, Main!Check,
       Main!InIllegal, Main!iap_load_app, Main!MX_LWIP_Process, Main!TellWait,
       Main!TellStart, Main!TellFinish, Main!TellIllegal, Main!Poll,
       Main!Restart, Main!Finished, Main!CountDown, Main!Seconds,
       Main!FrameHandled, Main!Observe, Main!Frame, Main!NoFrame,
       Main!ConnectFrame, Main!WriteRequest, Main!RefusedRequest,
       Main!OtherRequest, Main!BlockFrame, Main!LastBlock,
       MP!Next, MP!vars, MP!loopVars, MP!netVars, MP!Top, MP!InWait,
       MP!Flag, MP!InStart, MP!InFinish, MP!Finish, MP!Check,
       MP!InIllegal, MP!iap_load_app, MP!MX_LWIP_Process, MP!TellWait,
       MP!TellStart, MP!TellFinish, MP!TellIllegal, MP!Poll,
       MP!Restart, MP!Finished, MP!CountDown, MP!Seconds,
       MP!FrameHandled, MP!Observe, MP!Frame, MP!NoFrame,
       MP!ConnectFrame, MP!WriteRequest, MP!RefusedRequest,
       MP!OtherRequest, MP!BlockFrame, MP!LastBlock

LEMMA MainInvStep ==
  ASSUME Main!IInv, [Main!Next]_(Main!vars)
  PROVE  Main!IInv'
<1>1. MP!IInv /\ [MP!Next]_(MP!vars)
  BY MainInvSame, MainNextSame
<1>2. MP!TypeOK /\ MP!HeldForUpload
  BY <1>1 DEF MP!IInv
<1>3. MP!TypeOK' /\ MP!HeldForUpload' /\ MP!Shown' /\ MP!Counted'
  BY <1>1, <1>2, MP!NextType, MP!NextHeld, MP!NextShown, MainAssumption
<1>4. MP!IInv'
  BY <1>3 DEF MP!IInv
<1> QED BY <1>4, MainInvSame

(* A reset puts the loop back to its start. *)
LEMMA MainInvReset ==
  ASSUME Restarted, vector' \in Main!Vectors
  PROVE  Main!TypeOK' /\ Main!IInv'
<1> USE BootloaderAssumption, TftpAssumption DEF Restarted
<1>1. DOMAIN session' = {} /\ Cardinality(DOMAIN session') = 0
  BY FS_EmptySet
<1>2. Main!Seconds \in 0 .. U32 - 1
  <2>1. MP!Seconds \in 0 .. U32 - 1
    BY MP!SecondsType, MainAssumption
  <2> QED BY <2>1 DEF Main!Seconds, MP!Seconds
<1>3. Cardinality(DOMAIN session') \in 0 .. IF OneAtATime THEN 1 ELSE MaxArgs
  BY <1>1
<1>4. t' \in 0 .. U32 - 1 /\ ports' \in 0 .. MaxRequests /\ quiet' \in 0 .. WAIT_FREQUENCY
  OBVIOUS
<1>5. connected' \in BOOLEAN /\ unheld' \in BOOLEAN
  BY Zenon
<1>6. Main!TypeOK'
  BY <1>2, <1>3, <1>4, <1>5 DEF Main!TypeOK
<1>7. Main!HeldForUpload'
  BY DEF Main!HeldForUpload
<1>8. Main!Shown' /\ Main!Counted'
  BY <1>1 DEF Main!Shown, Main!Counted
<1> QED BY <1>6, <1>7, <1>8 DEF Main!IInv

(* The flash holds blocks, or vectors that were there before. *)
FlashType ==
  /\ stored \in Seq(Stored)
  /\ old \in Main!Vectors
  /\ cut \in BOOLEAN
  /\ resets \in 0 .. MaxResets

LEMMA VectorType == FlashType => vector \in Main!Vectors
<1> SUFFICES ASSUME FlashType, stored # << >> PROVE vector \in Main!Vectors
  BY DEF FlashType, vector
<1>1. stored[1] \in Stored
  BY DEF FlashType
<1> QED BY <1>1, BootloaderAssumption DEF vector, Stored

LEMMA FlashTypeStep ==
  ASSUME TypeInv, TypeInv', FlashType, [BoardNext]_boardVars
  PROVE  FlashType' /\ vector' \in Main!Vectors
<1>1. CASE UNCHANGED <<flashVars, resets>>
  <2>1. FlashType'
    BY <1>1 DEF FlashType, flashVars
  <2>2. vector' = vector
    BY <1>1 DEF flashVars, vector
  <2> QED BY <2>1, <2>2, VectorType
<1>2. CASE LoopFrame
  <2>1. CASE TftpFrame
    <3>1. /\ stored' = IF image' = image THEN stored ELSE image'
          /\ cut' \in BOOLEAN /\ UNCHANGED <<old, resets>>
      BY <1>2, <2>1, Zenon DEF LoopFrame, TftpFrame, Store, FlashType
    <3>2. FlashType'
      BY <3>1 DEF FlashType, TypeInv, TypeOK
    <3>3. CASE stored' = << >>
      <4>1. vector' = old'
        BY <3>3 DEF vector
      <4> QED BY <3>2, <4>1 DEF FlashType
    <3>4. CASE stored' # << >>
      <4>1. stored'[1] \in Stored
        BY <3>2, <3>4 DEF FlashType
      <4>2. stored'[1].from \in Client
        BY <4>1 DEF Stored
      <4>3. vector' = VectorsOf[stored'[1].from]
        BY <3>4 DEF vector
      <4>4. VectorsOf \in [Client -> Main!Vectors]
        BY BootloaderAssumption
      <4>5. vector' \in Main!Vectors
        BY <4>2, <4>3, <4>4
      <4> QED BY <3>2, <4>5
    <3> QED BY <3>2, <3>3, <3>4
  <2> QED BY <1>1, <1>2, <2>1 DEF LoopFrame, BoardFrame, ConsoleFrame, NoFrame
<1>3. CASE Reset
  <2>1. /\ stored' = stored \/ stored' = << >>
        /\ old' = old \/ old' = "none"
        /\ stored' = << >> \/ UNCHANGED <<stored, old>>
    BY <1>3 DEF Reset, FlashAtReset
  <2>2. stored' \in Seq(Stored) /\ old' \in Main!Vectors
    BY <2>1, EmptySeq DEF FlashType, Main!Vectors
  <2>3. cut' \in BOOLEAN
    BY <1>3, Zenon DEF Reset, FlashType
  <2>4. resets' \in 0 .. MaxResets
    BY <1>3, BootloaderAssumption DEF Reset, FlashType
  <2>5. vector' \in Main!Vectors
    BY <2>1, <2>2, VectorType DEF vector
  <2> QED BY <2>2, <2>3, <2>4, <2>5 DEF FlashType
<1> QED BY <1>1, <1>2, <1>3
    DEF BoardNext, boardVars, LoopStep, Outside, ClientGone

-----------------------------------------------------------------------------
LEMMA MainTypeSame ==
  /\ MP!TypeOK <=> Main!TypeOK
  /\ MP!TypeOK' <=> Main!TypeOK'
BY DEF MP!TypeOK, MP!Vectors, Main!TypeOK, Main!Vectors

LEMMA MainTypeStep ==
  ASSUME TypeInv, TypeInv', Turns, FlashType, Main!TypeOK, [BoardNext]_boardVars
  PROVE  Main!TypeOK'
<1>1. [Main!Next \/ Restarted]_(Main!vars)
  BY StepRefines
<1>2. CASE Restarted
  BY <1>2, FlashTypeStep, MainInvReset
<1>3. CASE [Main!Next]_(Main!vars)
  <2>1. MP!TypeOK /\ [MP!Next]_(MP!vars)
    BY <1>3, MainNextSame, MainTypeSame
  <2>2. MP!TypeOK'
    BY <2>1, MP!NextType, MainAssumption
  <2> QED BY <2>2, MainTypeSame
<1> QED BY <1>1, <1>2, <1>3

LEMMA InitMain == BoardInit => Main!TypeOK /\ FlashType
<1> SUFFICES ASSUME BoardInit PROVE Main!TypeOK /\ FlashType
  OBVIOUS
<1>1. MP!Init
  BY DEF BoardInit, MP!Init, Main!Init, MP!Seconds, Main!Seconds
<1>2. Main!TypeOK
  BY <1>1, MP!InitType, MainAssumption, MainTypeSame
<1>3. FlashType
  <2>1. /\ stored = << >> /\ old \in OldVectors
        /\ cut = FALSE /\ resets = 0
    BY DEF BoardInit
  <2>2. OldVectors \subseteq Main!Vectors /\ MaxResets \in Nat
    BY BootloaderAssumption
  <2>3. stored \in Seq(Stored) /\ old \in Main!Vectors /\ resets \in 0 .. MaxResets
    BY <2>1, <2>2, EmptySeq
  <2>4. cut \in BOOLEAN
    BY <2>1, Zenon
  <2> QED BY <2>3, <2>4 DEF FlashType
<1> QED BY <1>2, <1>3

(* The board, its clients and the network keep their types, whatever       *)
(* frames arrive and whenever the board is reset.                          *)
THEOREM BoardTypeCorrect == BoardSpec => []BoardTypeOK
<1>1. BoardInit => Main!TypeOK /\ FlashType
  BY InitMain
<1>2. /\ TypeInv /\ Turns /\ Main!TypeOK /\ FlashType
      /\ (TypeInv /\ Turns)'
      /\ [BoardNext]_boardVars
      => (Main!TypeOK /\ FlashType)'
  BY MainTypeStep, FlashTypeStep
<1>3. TypeInv /\ Main!TypeOK /\ FlashType => BoardTypeOK
  BY DEF BoardTypeOK, FlashType, TypeInv
<1> QED BY <1>1, <1>2, <1>3, BoardInv, PTL DEF BoardSpec

(* The board starts the application only after a whole countdown without   *)
(* an upload, or under an upload that was open when main.c:191 reset       *)
(* upload_flag, whatever the network, the clients and resets do            *)
(* (main.c:182-205).                                                       *)
THEOREM BoardFullCountdown == BoardSpec => []FullCountdown
<1>1. BoardInit => Main!IInv
  <2> SUFFICES ASSUME BoardInit PROVE Main!IInv
    OBVIOUS
  <2>1. MP!Init
    BY DEF BoardInit, MP!Init, Main!Init, MP!Seconds, Main!Seconds
  <2>2. MP!TypeOK /\ MP!Shown /\ MP!Counted
    BY <2>1, MP!InitType, MP!InitShown, MainAssumption
  <2>3. MP!HeldForUpload
    BY <2>1 DEF MP!Init, MP!HeldForUpload
  <2> QED BY <2>2, <2>3, MainInvSame DEF MP!IInv
<1>2. /\ TypeInv /\ Turns /\ FlashType /\ Main!IInv
      /\ (TypeInv /\ Turns)'
      /\ [BoardNext]_boardVars
      => Main!IInv'
  <2> SUFFICES ASSUME TypeInv, Turns, FlashType, Main!IInv, TypeInv',
                      [BoardNext]_boardVars
               PROVE  Main!IInv'
    OBVIOUS
  <2>1. [Main!Next]_(Main!vars) \/ Restarted
    BY StepRefines
  <2>2. CASE Restarted
    BY <2>2, FlashTypeStep, MainInvReset
  <2>3. CASE [Main!Next]_(Main!vars)
    BY <2>3, MainInvStep
  <2> QED BY <2>1, <2>2, <2>3
<1>3. /\ TypeInv /\ FlashType
      /\ TypeInv'
      /\ [BoardNext]_boardVars
      => FlashType'
  BY FlashTypeStep
<1>4. BoardInit => FlashType
  BY InitMain
<1>5. Main!IInv => FullCountdown
  BY BootloaderAssumption, TftpAssumption
  DEF Main!IInv, Main!TypeOK, Main!Shown, Main!Counted, FullCountdown,
      Main!FullCountdown, Main!QuietCountdown
<1> QED BY <1>1, <1>2, <1>3, <1>4, <1>5, BoardInv, PTL DEF BoardSpec

-----------------------------------------------------------------------------
(* Sessions and what they have stored. *)
Owned == ImageInv /\ SessionsOwnBlocks

LEMMA OwnedFrame ==
  ASSUME TypeInv, Owned, Frame
  PROVE  Owned'
<1> USE DEF Owned, ImageInv, SessionsOwnBlocks
<1>1. ports \in Nat /\ image \in Seq(Stored) /\ \A s \in DOMAIN session : s \in 1 .. ports
  BY TftpAssumption DEF TypeInv, TypeOK
<1>2. \A i \in DOMAIN image : image[i].session \in Nat /\ image[i].session <= ports
  <2>1. \A i \in DOMAIN image : image[i] \in Stored
    BY <1>1
  <2> QED BY <2>1, TftpAssumption DEF Stored, Port
<1>3. ASSUME NEW c \in requests, process_tftp_request(c) PROVE Owned'
  <2>1. image' = image /\ ports' \in {ports, ports + 1}
    BY <1>3 DEF process_tftp_request, NoPcb, NoArgs, OpenSession, serverVars, udp_new_port
  <2>2. \A s \in DOMAIN session' : \/ s \in DOMAIN session /\ session'[s] = session[s]
                                   \/ s = ports + 1
    BY <1>3 DEF process_tftp_request, NoPcb, NoArgs, OpenSession, serverVars
  <2>3. \A i \in DOMAIN image : image[i].session <= ports' /\ image[i].session # ports + 1
    BY <1>1, <1>2, <2>1
  <2> QED BY <2>1, <2>2, <2>3
<1>4. ASSUME NEW p \in toServer, wrq_recv_callback(p) PROVE Owned'
  <2>1. /\ p \in Packet /\ ports' = ports
        /\ p.to \in DOMAIN session /\ session[p.to].remote = p.from
    BY <1>4 DEF wrq_recv_callback, FromPeer, TypeInv, TypeOK
  <2>2. \A s \in DOMAIN session' : s \in DOMAIN session /\ session'[s].remote = session[s].remote
    <3>1. session[p.to] \in Session
      BY <2>1 DEF TypeInv, TypeOK
    <3>2. CASE LastPacket(p)
      BY <1>4, <3>2 DEF wrq_recv_callback
    <3>3. CASE ~LastPacket(p)
      <4>1. PICK n : session' = [session EXCEPT ![p.to].block = n]
        BY <1>4, <3>3 DEF wrq_recv_callback
      <4> QED BY <4>1, <3>1 DEF Session
    <3> QED BY <3>2, <3>3
  <2>3. CASE image' = image
    BY <2>1, <2>2, <2>3
  <2>4. CASE image' # image
    <3> DEFINE x == [session |-> p.to, from |-> p.from, op |-> p.op, block |-> p.block]
    <3>1. image' = Append(image, x)
      BY <1>4, <2>4 DEF wrq_recv_callback
    <3>2. x \in Stored /\ x.session = p.to /\ x.from = p.from
      BY <2>1 DEF Packet, Stored
    <3> HIDE DEF x
    <3>3. \A i \in DOMAIN image' : (i \in DOMAIN image /\ image'[i] = image[i]) \/ image'[i] = x
      BY <1>1, <3>1, <3>2, Appended
    <3>4. p.to <= ports
      BY <1>1, <2>1
    <3> QED BY <2>1, <2>2, <3>2, <3>3, <3>4
  <2> QED BY <2>3, <2>4
<1>5. ASSUME NEW p \in toServer, udp_input_no_pcb(p) PROVE Owned'
  BY <1>5 DEF udp_input_no_pcb, serverVars
<1>6. ASSUME NEW c \in Client, UnknownRequest(c) PROVE Owned'
  BY <1>1, <1>2, <1>6 DEF UnknownRequest, udp_new_port
<1> QED BY <1>3, <1>4, <1>5, <1>6 DEF Frame

LEMMA OwnedStep == TypeInv /\ Owned /\ [BoardNext]_boardVars => Owned'
<1> SUFFICES ASSUME TypeInv, Owned, [BoardNext]_boardVars PROVE Owned'
  OBVIOUS
<1>1. CASE UNCHANGED <<session, ports, image>>
  BY <1>1 DEF Owned, ImageInv, SessionsOwnBlocks
<1>2. CASE LoopFrame
  <2>1. Frame \/ UNCHANGED vars
    BY <1>2 DEF LoopFrame, BoardFrame, TftpFrame, ConsoleFrame, NoFrame
  <2> QED BY <1>1, <2>1, OwnedFrame DEF vars, serverVars
<1>3. CASE LoopStep
  BY <1>1, <1>3 DEF LoopStep
<1>4. CASE Outside
  BY <1>1, <1>4 DEF Outside, Environment, ClientRequest, ClientRetryRequest, ClientSend,
     ClientAbort, ClientReceive, Lose, serverVars
<1>5. CASE Reset
  BY <1>5 DEF Reset, Restarted, Owned, ImageInv, SessionsOwnBlocks
<1>6. ASSUME NEW c \in Client, ClientGone(c) PROVE Owned'
  BY <1>1, <1>6 DEF ClientGone, serverVars
<1> QED BY <1>1, <1>2, <1>3, <1>4, <1>5, <1>6 DEF BoardNext, boardVars, vars, serverVars

(* Although the ports are the same again after every reset (udp.c:77,      *)
(* 94-120), no session stores what another client sends to its port.       *)
THEOREM SessionsOwnBlocksCorrect == BoardSpec => []SessionsOwnBlocks
<1>1. BoardInit => Owned
  BY DEF BoardInit, Init, Owned, ImageInv, SessionsOwnBlocks
<1>2. Owned => SessionsOwnBlocks
  BY DEF Owned
<1> QED BY <1>1, <1>2, OwnedStep, BoardInv, PTL DEF BoardSpec

-----------------------------------------------------------------------------
(* Why the board jumps to whole images only: with clients that upload one  *)
(* at a time, whose packets outlive the sessions that a reset ends.        *)

(* A client is answered by one session, in all power-ons together, and     *)
(* sends it nothing but the blocks of its file and, at last, an ERROR.     *)
AnsweredOnce ==
  /\ \A c \in requests : cst[c] = "wrq"
  /\ \A m \in toClient : cst[m.to] # "idle" /\ m.to \notin requests
  /\ \A m, n \in toClient : m.to = n.to => m.from = n.from
  /\ \A m \in toClient : tid[m.to] \in {0, m.from}

Sent ==
  \A p \in toServer :
     /\ cst[p.from] \in {"send", "done", "failed"} /\ p.to = tid[p.from]
     /\ \/ p.op = "DATA" /\ p.block \in 1 .. FileBlocks /\ p = Data(p.from, p.to, p.block)
        \/ p.op = "ERROR" /\ p.size = "short" /\ Aborted(p.from)

Answers ==
  /\ AnsweredOnce /\ Sent
  /\ \A c \in Client : tid[c] = 0 => acked[c] = 0

(* An open session is the one its client was answered by, and neither what *)
(* the client acknowledged nor what it sends is ahead of the session.      *)
InStep ==
  \A s \in DOMAIN session :
     LET c == session[s].remote
     IN  /\ session[s].block < FileBlocks
         /\ c \notin requests /\ cst[c] # "idle"
         /\ \A m \in toClient : m.to = c => /\ m.from = s
                                            /\ m.op = "ACK" => m.block <= session[s].block
         /\ tid[c] \in {0, s} /\ acked[c] <= session[s].block
         /\ \A p \in toServer : p.from = c =>
               p.to = s /\ (p.op = "DATA" => p.block <= session[s].block + 1)

LEMMA MessageTypes ==
  ASSUME TypeInv
  PROVE  /\ \A s \in DOMAIN session : /\ session[s].remote \in Client /\ session[s].block \in Nat
                                      /\ s \in Nat \ {0} /\ s <= ports
         /\ \A m \in toClient : m.to \in Client /\ m.from \in Nat \ {0} /\ m.block \in Nat
         /\ \A p \in toServer : p.from \in Client /\ p.block \in Nat /\ p.to \in Nat \ {0}
         /\ ports \in Nat /\ FileBlocks \in Nat \ {0} /\ requests \subseteq Client
         /\ \A c \in Client : acked[c] \in Nat /\ tid[c] \in Nat
BY TftpAssumption DEF TypeInv, TypeOK, Session, Answer, Packet, Port

(* Every packet of a client is a block of its file, or the client has      *)
(* abandoned it.                                                           *)
LEMMA FilePacket ==
  ASSUME TypeInv, Answers, NEW p \in toServer
  PROVE  /\ p.to = tid[p.from] /\ cst[p.from] \in {"send", "done", "failed"}
         /\ p.op = "DATA" => /\ p.block \in 1 .. FileBlocks
                             /\ p = Data(p.from, p.to, p.block)
         /\ p.op # "DATA" => /\ p.op = "ERROR" /\ p.size = "short"
                             /\ Aborted(p.from)
BY DEF Answers, Sent

(* A write request: it is the first of its client to be handled, so nobody *)
(* has answered that client yet and nothing it sent is under way.          *)
LEMMA RequestAnswers ==
  ASSUME TypeInv, Turns, OneAtATime, Answers, InStep,
         NEW c \in requests, process_tftp_request(c)
  PROVE  Answers' /\ InStep'
<1>1. /\ UNCHANGED <<toServer, cst, tid, acked>> /\ requests' = requests \ {c}
      /\ c \in Client
  BY DEF process_tftp_request, Deliver, OneAtATime, clientVars, TypeInv, TypeOK
<1>2. /\ cst[c] = "wrq" /\ tid[c] = 0 /\ acked[c] = 0 /\ session = << >>
      /\ \A m \in toClient : m.to # c
      /\ \A p \in toServer : p.from # c
  BY <1>1, FilePacket DEF Answers, AnsweredOnce, TypeInv, ClientInv, Turns, TakeTurns
<1>3. PICK a : /\ toClient' \subseteq toClient \cup {a}
               /\ a.to = c /\ a.from = ports + 1 /\ a.block = 0
               /\ \/ session' = session
                  \/ /\ DOMAIN session' = {ports + 1}
                     /\ session'[ports + 1].remote = c /\ session'[ports + 1].block = 0
  <2>1. DOMAIN session = {}
    BY <1>2
  <2>2. CASE NoPcb(c)
    <3>1. session' = session /\ toClient' = toClient
      BY <2>2 DEF NoPcb, serverVars
    <3>2. Ack(ports + 1, c, 0).to = c /\ Ack(ports + 1, c, 0).from = ports + 1
          /\ Ack(ports + 1, c, 0).block = 0
      BY DEF Ack
    <3> QED BY <3>1, <3>2
  <2>3. CASE NoArgs(c)
    <3>1. session' = session /\ toClient' = toClient \cup {Error(ports + 1, c, 0)}
      BY <2>3 DEF NoArgs
    <3>2. Error(ports + 1, c, 0).to = c /\ Error(ports + 1, c, 0).from = ports + 1
          /\ Error(ports + 1, c, 0).block = 0
      BY DEF Error
    <3> QED BY <3>1, <3>2
  <2>4. CASE OpenSession(c)
    <3>1. /\ toClient' = toClient \cup {Ack(ports + 1, c, 0)}
          /\ DOMAIN session' = {ports + 1} /\ session'[ports + 1] = Opened(c)
      BY <2>1, <2>4 DEF OpenSession
    <3>2. /\ Ack(ports + 1, c, 0).to = c /\ Ack(ports + 1, c, 0).from = ports + 1
          /\ Ack(ports + 1, c, 0).block = 0
          /\ Opened(c).remote = c /\ Opened(c).block = 0
      BY DEF Ack, Opened
    <3> QED BY <3>1, <3>2
  <2> QED BY <2>2, <2>3, <2>4 DEF process_tftp_request
<1>4. AnsweredOnce'
  BY <1>1, <1>2, <1>3, MessageTypes DEF Answers, AnsweredOnce
<1>5. Answers'
  BY <1>1, <1>4 DEF Answers, Sent, Aborted
<1>6. InStep'
  <2>1. SUFFICES ASSUME DOMAIN session' = {ports + 1},
                        session'[ports + 1].remote = c, session'[ports + 1].block = 0
                 PROVE  InStep'
    BY <1>2, <1>3 DEF InStep
  <2>2. \A m \in toClient' : m.to = c => m.from = ports + 1 /\ m.block = 0
    BY <1>2, <1>3
  <2> QED BY <1>1, <1>2, <2>1, <2>2, MessageTypes DEF InStep
<1> QED BY <1>5, <1>6

(* A packet of an open session is the next block or one it has. *)
LEMMA BlockAnswers ==
  ASSUME TypeInv, Turns, OneAtATime, Answers, InStep,
         NEW p \in toServer, wrq_recv_callback(p)
  PROVE  Answers' /\ InStep'
<1> DEFINE s == p.to
           c == p.from
           n == IF Expected(p) THEN p.block ELSE session[s].block
           a == Ack(s, c, n)
<1>1. /\ s \in DOMAIN session /\ session[s].remote = c
      /\ UNCHANGED <<ports, requests, cst, tid, acked>>
      /\ toServer' \subseteq toServer /\ toClient' = toClient \cup {a}
  BY DeliverSubset DEF wrq_recv_callback, FromPeer, clientVars
<1>2. a.to = c /\ a.from = s /\ a.op = "ACK" /\ a.block = n
  BY DEF Ack
<1>3. /\ n \in Nat /\ session[s].block <= n /\ session[s].block \in Nat
      /\ c \in Client /\ s \in Nat
  BY <1>1, MessageTypes DEF Expected
<1>4. /\ c \notin requests /\ cst[c] # "idle" /\ tid[c] \in {0, s}
      /\ \A m \in toClient : m.to = c => m.from = s
      /\ acked[c] <= session[s].block
      /\ \A q \in toServer : q.from = c =>
            q.to = s /\ (q.op = "DATA" => q.block <= session[s].block + 1)
  BY <1>1 DEF InStep
<1> HIDE DEF a, n
<1>5. AnsweredOnce'
  BY <1>1, <1>2, <1>4 DEF Answers, AnsweredOnce
<1>6. Answers'
  BY <1>1, <1>5 DEF Answers, Sent, Aborted
<1>7. InStep'
  <2>1. \/ DOMAIN session' = {}
        \/ /\ DOMAIN session' = {s} /\ session'[s].remote = c /\ session'[s].block = n
           /\ ~LastPacket(p)
    <3>1. DOMAIN session = {s}
      BY <1>1 DEF Turns, TakeTurns
    <3>2. CASE LastPacket(p)
      BY <3>1, <3>2 DEF wrq_recv_callback
    <3>3. CASE ~LastPacket(p)
      <4>1. session' = [session EXCEPT ![s].block = n]
        BY <3>3 DEF wrq_recv_callback, n
      <4>2. session[s] \in Session
        BY <1>1 DEF TypeInv, TypeOK
      <4>3. DOMAIN session' = {s} /\ session'[s] = [session[s] EXCEPT !.block = n]
        BY <1>1, <3>1, <4>1
      <4>4. session'[s].block = n /\ session'[s].remote = session[s].remote
        BY <4>2, <4>3 DEF Session
      <4> QED BY <1>1, <3>3, <4>3, <4>4
    <3> QED BY <3>2, <3>3
  <2>2. SUFFICES ASSUME DOMAIN session' = {s}, session'[s].remote = c, session'[s].block = n,
                        ~LastPacket(p)
                 PROVE  InStep'
    BY <2>1 DEF InStep
  <2>3. n < FileBlocks
    <3>1. p.block < FileBlocks
      <4>1. p.size = "full" /\ p = Data(c, s, p.block)
        <5>1. p.size = "full"
          BY <2>2 DEF LastPacket
        <5> QED BY <5>1, FilePacket
      <4> QED BY <4>1 DEF Data
    <3> QED BY <1>1, <3>1 DEF InStep, n
  <2>4. \A m \in toClient' : m.to = c => m.from = s /\ (m.op = "ACK" => m.block <= n)
    <3>1. \A m \in toClient : m.to = c /\ m.op = "ACK" => m.block <= session[s].block
      BY <1>1 DEF InStep
    <3> QED BY <1>1, <1>2, <1>3, <1>4, <3>1, MessageTypes
  <2>5. /\ acked[c] <= n
        /\ \A q \in toServer : q.from = c =>
              q.to = s /\ (q.op = "DATA" => q.block <= n + 1)
    BY <1>3, <1>4, MessageTypes
  <2> QED BY <1>1, <1>4, <2>2, <2>3, <2>4, <2>5 DEF InStep
<1> QED BY <1>6, <1>7

(* What clients send. *)
LEMMA ClientAnswers ==
  ASSUME TypeInv, OneAtATime, Answers, InStep, NEW c \in Client,
         ClientRequest(c) \/ ClientRetryRequest(c) \/ ClientSend(c) \/ ClientAbort(c)
  PROVE  Answers' /\ InStep'
<1>1. UNCHANGED <<session, toClient, tid, acked>>
  BY DEF ClientRequest, ClientRetryRequest, ClientSend, ClientAbort, serverVars, clientVars
<1>2. ClientRequest(c) \/ ClientSend(c) \/ ClientAbort(c)
  BY DEF ClientRetryRequest, OneAtATime
<1>3. CASE ClientRequest(c)
  <2>1. /\ cst[c] = "idle" /\ requests' = requests \cup {c} /\ toServer' = toServer
        /\ \A d \in Client : cst'[d] = IF d = c THEN "wrq" ELSE cst[d]
    BY <1>3 DEF ClientRequest, TypeInv, TypeOK
  <2>2. \A p \in toServer : p.from # c
    BY <2>1, FilePacket
  <2>3. \A m \in toClient : m.to # c
    BY <2>1 DEF Answers, AnsweredOnce
  <2>4. AnsweredOnce'
    BY <1>1, <2>1, <2>3, MessageTypes DEF Answers, AnsweredOnce
  <2>5. Answers'
    BY <1>1, <2>1, <2>2, <2>4, MessageTypes DEF Answers, Sent, Aborted
  <2>6. InStep'
    BY <1>1, <2>1, MessageTypes DEF InStep
  <2> QED BY <2>5, <2>6
<1>4. CASE ClientSend(c)
  <2> DEFINE x == Data(c, tid[c], acked[c] + 1)
  <2>1. cst[c] = "send" /\ cst' = cst /\ requests' = requests /\ toServer' = toServer \cup {x}
    BY <1>4 DEF ClientSend, clientVars
  <2>2. /\ x.from = c /\ x.op = "DATA" /\ x.to = tid[c] /\ x.block = acked[c] + 1
        /\ x = Data(x.from, x.to, x.block)
    BY DEF Data
  <2>3. x.block \in 1 .. FileBlocks /\ tid[c] # 0
    <3>1. acked[c] \in 0 .. FileBlocks /\ acked[c] < FileBlocks /\ tid[c] # 0
      BY <2>1 DEF TypeInv, TypeOK, ClientInv
    <3> QED BY <2>2, <3>1, TftpAssumption
  <2> HIDE DEF x
  <2>4. AnsweredOnce'
    BY <1>1, <2>1, <2>2 DEF Answers, AnsweredOnce
  <2>5. Answers'
    BY <1>1, <2>1, <2>2, <2>3, <2>4 DEF Answers, Sent, Aborted
  <2>6. InStep'
    <3>1. ASSUME NEW s \in DOMAIN session, session[s].remote = c
          PROVE  x.to = s /\ x.block <= session[s].block + 1
      BY <2>2, <2>3, <3>1, MessageTypes DEF InStep
    <3> QED BY <1>1, <2>1, <2>2, <3>1 DEF InStep
  <2> QED BY <2>5, <2>6
<1>5. CASE ClientAbort(c)
  <2>1. PICK code \in AbortCodes :
           toServer' = toServer \cup {ClientError(c, tid[c], code)}
    BY <1>5 DEF ClientAbort
  <2> DEFINE x == ClientError(c, tid[c], code)
  <2>2. /\ cst[c] = "send" /\ tid[c] # 0 /\ requests' = requests
        /\ \A d \in Client : cst'[d] = IF d = c THEN "failed" ELSE cst[d]
    BY <1>5 DEF ClientAbort, TypeInv, TypeOK, ClientInv
  <2>3. x.from = c /\ x.op = "ERROR" /\ x.to = tid[c] /\ x.size = "short"
    BY DEF ClientError
  <2>4. Aborted(c)'
    BY <2>1, <2>2 DEF Aborted
  <2> HIDE DEF x
  <2>5. AnsweredOnce'
    BY <1>1, <2>2, MessageTypes DEF Answers, AnsweredOnce
  <2>6. Sent'
    BY <1>1, <2>1, <2>2, <2>3, <2>4, MessageTypes DEF x, Answers, Sent, Aborted
  <2>7. Answers'
    BY <1>1, <2>5, <2>6 DEF Answers
  <2>8. InStep'
    <3>1. ASSUME NEW s \in DOMAIN session, session[s].remote = c
          PROVE  x.to = s
      BY <2>2, <2>3, <3>1 DEF InStep
    <3>2. toServer' = toServer \cup {x}
      BY <2>1 DEF x
    <3> QED BY <1>1, <2>2, <2>3, <3>1, <3>2, MessageTypes DEF InStep
  <2> QED BY <2>7, <2>8
<1> QED BY <1>2, <1>3, <1>4, <1>5

(* What clients make of an answer; none is of another session than theirs. *)
LEMMA ReceiveAnswers ==
  ASSUME TypeInv, Answers, InStep, NEW m \in toClient, ClientReceive(m)
  PROVE  Answers' /\ InStep'
<1> DEFINE c == m.to
<1>1. /\ UNCHANGED <<session, requests>> /\ toClient' \subseteq toClient
      /\ c \in Client /\ c \notin requests /\ cst[c] # "idle" /\ tid[c] \in {0, m.from}
      /\ m.from # 0
  BY DeliverSubset, MessageTypes DEF ClientReceive, serverVars, Answers, AnsweredOnce
<1>2. ~Reject(c, m)
  BY <1>1 DEF Reject, TypeInv, ClientInv
<1>3. /\ toServer' = toServer
      /\ Adopt(c, m) \/ Advance(c, m) \/ (UNCHANGED <<tid, acked>> /\ ~Adopt(c, m))
      /\ \A d \in Client : d # c => /\ cst'[d] = cst[d] /\ tid'[d] = tid[d]
                                    /\ acked'[d] = acked[d]
      /\ cst'[c] \in {"send", "done", "failed"} \/ cst'[c] = cst[c]
      /\ cst[c] = "failed" => cst'[c] = "failed"
  BY <1>1, <1>2
  DEF ClientReceive, Adopt, Advance, GiveUp, Ignore, clientVars, TypeInv, TypeOK
<1>4. /\ tid'[c] \in {0, m.from}
      /\ tid'[c] = tid[c] \/ (cst[c] = "wrq" /\ tid[c] = 0)
      /\ acked'[c] = acked[c] \/ (m.op = "ACK" /\ acked'[c] = m.block)
      /\ tid'[c] = 0 => acked'[c] = 0
  <2>1. CASE Adopt(c, m)
    BY <1>1, <2>1 DEF Adopt, Answers, TypeInv, TypeOK, ClientInv
  <2>2. CASE Advance(c, m)
    BY <1>1, <2>2 DEF Advance, Answers, TypeInv, TypeOK, ClientInv
  <2>3. CASE UNCHANGED <<tid, acked>>
    BY <1>1, <2>3 DEF Answers
  <2> QED BY <1>3, <2>1, <2>2, <2>3
<1>5. AnsweredOnce'
  <2>1. \A n \in toClient : n.to = c => n.from = m.from
    BY DEF Answers, AnsweredOnce
  <2>2. \A n \in toClient' : n \in toClient /\ n.to \in Client
    BY <1>1, MessageTypes
  <2>3. \A n \in toClient' : tid'[n.to] \in {0, n.from}
    BY <1>3, <1>4, <2>1, <2>2 DEF Answers, AnsweredOnce
  <2>4. \A n \in toClient' : cst'[n.to] # "idle" /\ n.to \notin requests'
    BY <1>1, <1>3, <2>2 DEF Answers, AnsweredOnce
  <2>5. \A d \in requests' : cst'[d] = "wrq"
    BY <1>1, <1>3, MessageTypes DEF Answers, AnsweredOnce
  <2> QED BY <1>3, <2>2, <2>3, <2>4, <2>5 DEF Answers, AnsweredOnce
<1>6. Sent'
  <2>1. ASSUME NEW p \in toServer
        PROVE  /\ cst'[p.from] \in {"send", "done", "failed"} /\ tid'[p.from] = tid[p.from]
               /\ Aborted(p.from) => Aborted(p.from)'
    <3>1. cst[p.from] \in {"send", "done", "failed"} /\ p.from \in Client
      BY FilePacket, MessageTypes
    <3>2. cst[p.from] = "failed" => cst'[p.from] = "failed"
      BY <1>3, <3>1
    <3>3. Aborted(p.from) => Aborted(p.from)'
      BY <1>3, <3>2 DEF Aborted
    <3> QED BY <1>3, <1>4, <3>1, <3>3
  <2> QED BY <1>3, <2>1 DEF Answers, Sent
<1>7. \A d \in Client : tid'[d] = 0 => acked'[d] = 0
  BY <1>3, <1>4 DEF Answers
<1>8. InStep'
  <2>1. SUFFICES ASSUME NEW s \in DOMAIN session, session[s].remote = c
                 PROVE  /\ cst'[c] # "idle" /\ tid'[c] \in {0, s}
                        /\ acked'[c] <= session[s].block
    BY <1>1, <1>3, MessageTypes DEF InStep
  <2>2. m.from = s /\ (m.op = "ACK" => m.block <= session[s].block)
        /\ acked[c] <= session[s].block
    BY <2>1 DEF InStep
  <2> QED BY <1>1, <1>3, <1>4, <2>2
<1> QED BY <1>5, <1>6, <1>7, <1>8 DEF Answers

LEMMA AnswersStep ==
  ASSUME TypeInv, Turns, OneAtATime, Answers, InStep, [BoardNext]_boardVars
  PROVE  Answers' /\ InStep'
<1>1. ASSUME UNCHANGED <<session, clientVars>>, requests' \subseteq requests,
             toServer' \subseteq toServer, toClient' \subseteq toClient
      PROVE  Answers' /\ InStep'
  <2>1. Answers'
    BY <1>1 DEF clientVars, Answers, AnsweredOnce, Sent, Aborted
  <2>2. InStep'
    BY <1>1 DEF clientVars, InStep
  <2> QED BY <2>1, <2>2
<1>2. CASE Frame
  <2>1. ASSUME NEW p \in toServer, udp_input_no_pcb(p) PROVE Answers' /\ InStep'
    BY <1>1, <2>1, DeliverSubset DEF udp_input_no_pcb, serverVars
  <2> QED BY <1>2, <2>1, RequestAnswers, BlockAnswers DEF Frame, UnknownRequest, OneAtATime
<1>3. CASE Environment
  <2>1. CASE Lose
    BY <1>1, <2>1 DEF Lose, serverVars, clientVars
  <2> QED BY <1>3, <2>1, ClientAnswers, ReceiveAnswers DEF Environment
<1>4. CASE Reset
  <2>1. session' = << >> /\ UNCHANGED <<netVars, clientVars>>
    BY <1>4 DEF Reset, Restarted
  <2>2. Answers'
    BY <2>1 DEF netVars, clientVars, Answers, AnsweredOnce, Sent, Aborted
  <2>3. DOMAIN session' = {}
    BY <2>1
  <2>4. InStep'
    BY <2>3 DEF InStep
  <2> QED BY <2>2, <2>4
<1>5. ASSUME NEW c \in Client, ClientGone(c) PROVE Answers' /\ InStep'
  <2>1. /\ UNCHANGED <<session, requests, toServer, toClient, tid, acked>> /\ c \notin requests
        /\ \A d \in Client : cst'[d] = IF d = c THEN "failed" ELSE cst[d]
    BY <1>5 DEF ClientGone, OneAtATime, serverVars, netVars, TypeInv, TypeOK
  <2>2. Answers'
    BY <2>1, MessageTypes DEF Answers, AnsweredOnce, Sent, Aborted
  <2>3. InStep'
    BY <2>1, MessageTypes DEF InStep
  <2> QED BY <2>2, <2>3
<1>6. CASE UNCHANGED <<session, netVars, clientVars>>
  BY <1>1, <1>6 DEF netVars
<1>7. CASE LoopFrame
  BY <1>2, <1>6, <1>7
  DEF LoopFrame, BoardFrame, TftpFrame, ConsoleFrame, NoFrame, vars, serverVars
<1> QED BY <1>3, <1>4, <1>5, <1>6, <1>7
    DEF BoardNext, LoopStep, Outside, boardVars, vars, serverVars

(* Blocks that begin with the whole file of the client that sent the first *)
(* one, in one session.                                                    *)
Begins(f) ==
  \A n \in DataBlocks(f[1].from) :
     /\ n \in DOMAIN f
     /\ f[n] = [session |-> f[1].session, from |-> f[1].from, op |-> "DATA", block |-> n]

Fine(f) == Begins(f) \/ Aborted(f[1].from)

(* The image begins with what its first session has stored.  While that is *)
(* open nothing else is in the image.                                      *)
FirstRun ==
  LET s == image[1].session
  IN  IF s \in DOMAIN session
      THEN /\ Len(image) = session[s].block
           /\ \A n \in DOMAIN image :
                image[n] = [session |-> s, from |-> session[s].remote,
                            op |-> "DATA", block |-> n]
      ELSE Fine(image)

(* The flash holds the image once that has begun, and before that what an  *)
(* earlier power-on left there.                                            *)
FlashInv ==
  /\ image # << >> => stored = image /\ FirstRun
  /\ image = << >> => \A s \in DOMAIN session : session[s].block = 0
  /\ image = << >> /\ ~cut /\ stored # << >> => Fine(stored)

LEMMA FirstOfAppend ==
  ASSUME NEW S, NEW f \in Seq(S), NEW x \in S
  PROVE  /\ Append(f, x) # << >> /\ Len(Append(f, x)) = Len(f) + 1
         /\ DOMAIN Append(f, x) = DOMAIN f \cup {Len(f) + 1}
         /\ Append(f, x)[Len(f) + 1] = x
         /\ \A i \in DOMAIN f : Append(f, x)[i] = f[i]
         /\ f # << >> => Append(f, x)[1] = f[1]
         /\ f = << >> => Append(f, x)[1] = x
<1>1. /\ Append(f, x) \in Seq(S) /\ Len(Append(f, x)) = Len(f) + 1
      /\ \A i \in 1 .. Len(f) : Append(f, x)[i] = f[i]
      /\ Append(f, x)[Len(f) + 1] = x
  BY AppendProperties
<1>2. Len(f) \in Nat /\ DOMAIN f = 1 .. Len(f)
  OBVIOUS
<1>3. DOMAIN Append(f, x) = 1 .. Len(f) + 1
  BY <1>1
<1>4. Append(f, x) # << >>
  BY AppendProperties
<1>5. f # << >> => Len(f) >= 1
  BY <1>2, EmptySeq
<1>6. f = << >> => Len(f) = 0
  OBVIOUS
<1>7. f # << >> => Append(f, x)[1] = f[1]
  BY <1>1, <1>2, <1>5
<1>8. f = << >> => Append(f, x)[1] = x
  BY <1>1, <1>6
<1> QED BY <1>1, <1>2, <1>3, <1>4, <1>7, <1>8

LEMMA FineStays ==
  ASSUME NEW f \in Seq(Stored), f # << >>, NEW x \in Stored, Fine(f)
  PROVE  Fine(Append(f, x))
<1> DEFINE g == Append(f, x)
<1>1. /\ g[1] = f[1] /\ DOMAIN f \subseteq DOMAIN g
      /\ \A i \in DOMAIN f : g[i] = f[i]
  BY FirstOfAppend
<1> HIDE DEF g
<1>2. Fine(g)
  BY <1>1 DEF Fine, Begins
<1> QED BY <1>2 DEF g

(* Who has abandoned an upload never takes it up again. *)
LEMMA AbortedStays ==
  ASSUME TypeInv, [BoardNext]_boardVars
  PROVE  \A c \in Client : cst[c] = "failed" => cst'[c] = "failed"
<1>1. CASE UNCHANGED cst
  BY <1>1
<1>2. ASSUME NEW c \in Client,
             \/ ClientRequest(c) \/ ClientRetryRequest(c)
             \/ ClientSend(c) \/ ClientAbort(c) \/ ClientGone(c)
      PROVE  \A d \in Client : cst[d] = "failed" => cst'[d] = "failed"
  BY <1>2 DEF ClientRequest, ClientRetryRequest, ClientSend, ClientAbort, ClientGone,
     clientVars, TypeInv, TypeOK
<1>3. ASSUME NEW m \in toClient, ClientReceive(m)
      PROVE  \A d \in Client : cst[d] = "failed" => cst'[d] = "failed"
  BY <1>3 DEF ClientReceive, Adopt, Advance, Reject, GiveUp, Ignore, clientVars,
     TypeInv, TypeOK
<1>4. CASE LoopFrame
  BY <1>1, <1>4
  DEF LoopFrame, BoardFrame, TftpFrame, ConsoleFrame, NoFrame, Frame, process_tftp_request,
      UnknownRequest, wrq_recv_callback, udp_input_no_pcb, vars, clientVars
<1> QED BY <1>1, <1>2, <1>3, <1>4
    DEF BoardNext, LoopStep, Outside, Environment, Lose, Reset, boardVars, vars, clientVars

(* A write request opens a session that has stored nothing. *)
LEMMA RequestFlash ==
  ASSUME TypeInv, Owned, Turns, OneAtATime, FlashInv,
         NEW c \in requests, process_tftp_request(c),
         stored' = stored, cut' <=> cut
  PROVE  FlashInv'
<1>1. image' = image /\ DOMAIN session = {}
  <2>1. session = << >>
    BY DEF Turns, TakeTurns
  <2> QED BY <2>1 DEF process_tftp_request, NoPcb, NoArgs, OpenSession, serverVars
<1>2. \/ session' = session
      \/ DOMAIN session' = {ports + 1} /\ session'[ports + 1] = Opened(c)
  BY <1>1 DEF process_tftp_request, NoPcb, NoArgs, OpenSession, serverVars
<1>3. \A s \in DOMAIN session' : session'[s].block = 0
  BY <1>1, <1>2 DEF Opened
<1>5. cst' = cst
  BY DEF process_tftp_request, clientVars
<1>4. ASSUME image # << >> PROVE FirstRun'
  <2>1. image[1] \in Stored /\ 1 \in DOMAIN image
    BY <1>4 DEF TypeInv, TypeOK
  <2>2. image[1].session \in Nat /\ image[1].session <= ports /\ ports \in Nat
    BY <2>1, TftpAssumption DEF Owned, ImageInv, TypeInv, TypeOK, Stored, Port
  <2>3. image[1].session \notin DOMAIN session'
    BY <1>1, <1>2, <2>2
  <2>4. Fine(image)
    BY <1>1, <1>4 DEF FlashInv, FirstRun
  <2> QED BY <1>1, <1>5, <2>3, <2>4 DEF FirstRun, Fine, Begins, Aborted
<1> QED BY <1>1, <1>3, <1>4, <1>5 DEF FlashInv, Fine, Begins, Aborted

(* An ERROR ends the session of the client that sent it. *)
LEMMA ErrorFlash ==
  ASSUME TypeInv, Turns, OneAtATime, Answers, FlashInv, NEW p \in toServer,
         p.op # "DATA", wrq_recv_callback(p), Store
  PROVE  FlashInv'
<1> DEFINE x == [session |-> p.to, from |-> p.from, op |-> p.op, block |-> p.block]
<1>1. /\ DOMAIN session = {p.to} /\ session[p.to].remote = p.from
      /\ x \in Stored /\ image \in Seq(Stored) /\ x.from = p.from
  <2>1. p.to \in DOMAIN session /\ session[p.to].remote = p.from
    BY DEF wrq_recv_callback, FromPeer
  <2>2. DOMAIN session = {p.to}
    BY <2>1 DEF Turns, TakeTurns
  <2>3. p \in Packet /\ x \in Stored /\ image \in Seq(Stored)
    BY DEF TypeInv, TypeOK, Packet, Stored
  <2> QED BY <2>1, <2>2, <2>3
<1>2. Aborted(p.from) /\ LastPacket(p)
  BY FilePacket DEF LastPacket
<1>3. DOMAIN session' = {} /\ cst' = cst
  BY <1>1, <1>2 DEF wrq_recv_callback, clientVars
<1>4. image # << >> => Fine(image)
  <2> SUFFICES ASSUME image # << >> PROVE Fine(image)
    OBVIOUS
  <2>1. 1 \in DOMAIN image /\ FirstRun
    BY <1>1 DEF FlashInv
  <2> QED BY <1>1, <1>2, <2>1 DEF FirstRun, Fine
<1>5. image' = image \/ image' = Append(image, x)
  BY DEF wrq_recv_callback
<1> HIDE DEF x
<1>6. CASE image' = image
  BY <1>3, <1>4, <1>6 DEF Store, FlashInv, FirstRun, Fine, Begins, Aborted
<1>7. CASE image' # image
  <2>1. image' = Append(image, x) /\ image' # << >> /\ stored' = image'
    BY <1>1, <1>5, <1>7, FirstOfAppend DEF Store
  <2>2. Fine(image')
    <3>1. CASE image = << >>
      <4>1. image'[1] = x
        BY <1>1, <2>1, <3>1, FirstOfAppend
      <4> QED BY <1>1, <1>2, <4>1 DEF Fine
    <3>2. CASE image # << >>
      BY <1>1, <1>4, <2>1, <3>2, FineStays
    <3> QED BY <3>1, <3>2
  <2>3. FirstRun'
    BY <1>3, <2>2 DEF FirstRun, Fine, Begins, Aborted
  <2> QED BY <1>3, <2>1, <2>3 DEF FlashInv
<1> QED BY <1>6, <1>7

(* A block: the next one of the first session, its last one, with which    *)
(* the file is whole, or one of a later session, behind what counts.       *)
LEMMA BlockFlash ==
  ASSUME TypeInv, Owned, Turns, OneAtATime, Answers, InStep, FlashInv,
         TypeInv', NEW p \in toServer, p.op = "DATA", wrq_recv_callback(p), Store
  PROVE  FlashInv'
<1> DEFINE s == p.to
           b == session[s].block
           x == [session |-> s, from |-> p.from, op |-> p.op, block |-> p.block]
<1>1. /\ DOMAIN session = {s} /\ session[s].remote = p.from /\ session[s] \in Session
      /\ b \in Nat /\ b < FileBlocks /\ p.block \in 1 .. FileBlocks /\ p.block <= b + 1
      /\ p.op = "DATA" /\ p = Data(p.from, s, p.block) /\ FileBlocks \in Nat
      /\ p.from \in Client /\ x \in Stored /\ image \in Seq(Stored)
      /\ cst' = cst
  <2>1. s \in DOMAIN session /\ session[s].remote = p.from
    BY DEF wrq_recv_callback, FromPeer
  <2>2. DOMAIN session = {s}
    BY <2>1 DEF Turns, TakeTurns
  <2>3. b < FileBlocks /\ p.block <= b + 1
    BY <2>1 DEF InStep
  <2>4. p \in Packet /\ x \in Stored /\ image \in Seq(Stored) /\ session[s] \in Session
    BY <2>1 DEF TypeInv, TypeOK, Packet, Stored
  <2>5. cst' = cst
    BY DEF wrq_recv_callback, clientVars
  <2> QED BY <2>1, <2>2, <2>3, <2>4, <2>5, FilePacket, MessageTypes
<1>2. image' = IF Expected(p) /\ CarriesData(p) THEN Append(image, x) ELSE image
  BY DEF wrq_recv_callback, FromPeer
<1>3. /\ LastPacket(p) => p.block = FileBlocks
      /\ ~LastPacket(p) => CarriesData(p) /\ p.block < FileBlocks
      /\ ~CarriesData(p) => p.from \in EmptyLast
      /\ LastPacket(p) /\ CarriesData(p) => p.from \notin EmptyLast
  BY <1>1 DEF LastPacket, CarriesData, Data
<1>4. /\ LastPacket(p) => DOMAIN session' = {}
      /\ ~LastPacket(p) => /\ DOMAIN session' = {s} /\ session'[s].remote = p.from
                           /\ session'[s].block = IF Expected(p) THEN p.block ELSE b
  <2>1. CASE LastPacket(p)
    BY <1>1, <2>1 DEF wrq_recv_callback, FromPeer
  <2>2. CASE ~LastPacket(p)
    <3> DEFINE n == IF Expected(p) THEN p.block ELSE b
    <3>1. session' = [session EXCEPT ![s].block = n]
      BY <2>2 DEF wrq_recv_callback, FromPeer
    <3>2. DOMAIN session' = {s} /\ session'[s] = [session[s] EXCEPT !.block = n]
      BY <1>1, <3>1
    <3>3. session'[s].block = n /\ session'[s].remote = session[s].remote
      BY <1>1, <3>2 DEF Session
    <3> QED BY <1>1, <2>2, <3>2, <3>3
  <2> QED BY <2>1, <2>2
<1>5. Expected(p) <=> p.block = b + 1
  BY DEF Expected
<1> HIDE DEF x
<1>6. x = [session |-> s, from |-> p.from, op |-> "DATA", block |-> p.block]
  BY <1>1 DEF x
<1>7. LastPacket(p) => Expected(p)
  BY <1>1, <1>3, <1>5
<1>8. stored' = IF image' = image THEN stored ELSE image'
  BY DEF Store
<1>9. image' = image => (cut' <=> cut)
  BY DEF Store
<1>10. ASSUME image' = image, ~LastPacket(p) PROVE FlashInv'
  <2>1. ~Expected(p)
    <3>1. SUFFICES ASSUME Expected(p) PROVE FALSE
      OBVIOUS
    <3>2. image' = Append(image, x)
      BY <1>2, <1>3, <1>10, <3>1
    <3>3. Len(image') = Len(image) + 1 /\ Len(image) \in Nat
      BY <1>1, <3>2, FirstOfAppend
    <3> QED BY <1>10, <3>3
  <2>2. DOMAIN session' = DOMAIN session /\ session'[s].block = b /\ session'[s].remote = p.from
    BY <1>1, <1>4, <1>10, <2>1
  <2>3. image # << >> => FirstRun'
    BY <1>1, <1>10, <2>2 DEF FlashInv, FirstRun, Fine, Begins, Aborted
  <2> QED BY <1>1, <1>8, <1>9, <1>10, <2>2, <2>3 DEF FlashInv, Fine, Begins, Aborted
<1> DEFINE f == image[1].session
<1>11. image # << >> => /\ 1 \in DOMAIN image
                        /\ f = s => Len(image) = b
                        /\ f = s => \A n \in DOMAIN image :
                              image[n] = [session |-> s, from |-> p.from, op |-> "DATA", block |-> n]
                        /\ f # s => Fine(image)
  BY <1>1 DEF FlashInv, FirstRun
<1>12. image = << >> => b = 0 /\ Len(image) = 0 /\ DOMAIN image = {}
  BY <1>1 DEF FlashInv
<1>13. ASSUME image' = image, LastPacket(p) PROVE FlashInv'
  <2>1. ~CarriesData(p)
    <3>1. SUFFICES ASSUME CarriesData(p) PROVE FALSE
      OBVIOUS
    <3>2. image' = Append(image, x)
      BY <1>2, <1>7, <1>13, <3>1
    <3>3. Len(image') = Len(image) + 1 /\ Len(image) \in Nat
      BY <1>1, <3>2, FirstOfAppend
    <3> QED BY <1>13, <3>3
  <2>2. b = FileBlocks - 1 /\ p.from \in EmptyLast
    BY <1>1, <1>3, <1>5, <1>7, <1>13, <2>1
  <2>3. image # << >> => Fine(image)
    <3>1. CASE image # << >> /\ f = s
      <4>1. DOMAIN image = 1 .. FileBlocks - 1
        BY <1>1, <1>11, <2>2, <3>1
      <4>2. image[1] = [session |-> s, from |-> p.from, op |-> "DATA", block |-> 1]
        BY <1>11, <3>1
      <4>3. DataBlocks(image[1].from) = 1 .. FileBlocks - 1
        BY <2>2, <4>2 DEF DataBlocks
      <4>4. ASSUME NEW n \in DOMAIN image
            PROVE  image[n] = [session |-> image[1].session, from |-> image[1].from,
                               op |-> "DATA", block |-> n]
        BY <1>11, <3>1, <4>2, <4>4
      <4> QED BY <4>1, <4>3, <4>4 DEF Fine, Begins
    <3> QED BY <1>11, <3>1
  <2>4. DOMAIN session' = {}
    BY <1>4, <1>13
  <2>5. image # << >> => FirstRun'
    BY <1>1, <1>13, <2>3, <2>4 DEF FirstRun, Fine, Begins, Aborted
  <2> QED BY <1>1, <1>8, <1>9, <1>13, <2>4, <2>5 DEF FlashInv, Fine, Begins, Aborted
<1>14. ASSUME image' # image PROVE FlashInv'
  <2>1. /\ image' = Append(image, x) /\ Expected(p) /\ CarriesData(p)
        /\ p.block = b + 1
    BY <1>2, <1>5, <1>14
  <2>2. /\ image' # << >> /\ Len(image') = Len(image) + 1
        /\ DOMAIN image' = DOMAIN image \cup {Len(image) + 1}
        /\ image'[Len(image) + 1] = x
        /\ \A i \in DOMAIN image : image'[i] = image[i]
        /\ image # << >> => image'[1] = image[1]
        /\ image = << >> => image'[1] = x
    BY <1>1, <2>1, FirstOfAppend
  <2>3. FirstRun'
    <3>1. CASE image # << >> /\ f # s
      <4>1. Fine(image')
        BY <1>1, <1>11, <2>1, <3>1, FineStays
      <4>2. f \notin DOMAIN session' /\ image'[1].session = f
        BY <1>4, <2>2, <3>1
      <4> QED BY <1>1, <4>1, <4>2 DEF FirstRun, Fine, Begins, Aborted
    <3>2. CASE image = << >> \/ f = s
      <4>1. Len(image) = b /\ DOMAIN image = 1 .. b
        BY <1>1, <1>11, <1>12, <3>2
      <4>2. /\ Len(image') = p.block /\ DOMAIN image' = 1 .. p.block
            /\ \A n \in DOMAIN image' :
                  image'[n] = [session |-> s, from |-> p.from, op |-> "DATA", block |-> n]
        <5>1. Len(image') = b + 1 /\ DOMAIN image' = 1 .. b + 1
          BY <1>1, <2>2, <4>1
        <5>2. ASSUME NEW n \in 1 .. b + 1
              PROVE  image'[n] = [session |-> s, from |-> p.from, op |-> "DATA", block |-> n]
          <6>1. CASE n = b + 1
            BY <1>6, <2>1, <2>2, <4>1, <6>1
          <6>2. CASE n # b + 1
            <7>1. n \in DOMAIN image /\ image # << >>
              BY <1>1, <1>12, <4>1, <6>2
            <7> QED BY <1>11, <2>2, <3>2, <7>1
          <6> QED BY <6>1, <6>2
        <5> QED BY <2>1, <5>1, <5>2
      <4>3. /\ image'[1] = [session |-> s, from |-> p.from, op |-> "DATA", block |-> 1]
            /\ image'[1].session = s /\ image'[1].from = p.from
        BY <1>1, <4>2
      <4>4. CASE LastPacket(p)
        <5>1. DataBlocks(p.from) = 1 .. FileBlocks /\ p.block = FileBlocks
          BY <1>3, <2>1, <4>4 DEF DataBlocks
        <5>2. Begins(image')
          BY <4>2, <4>3, <5>1 DEF Begins
        <5>3. image'[1].session \notin DOMAIN session'
          BY <1>4, <4>4
        <5> QED BY <5>2, <5>3 DEF FirstRun, Fine, Begins
      <4>5. CASE ~LastPacket(p)
        <5>1. s \in DOMAIN session' /\ session'[s].block = p.block /\ session'[s].remote = p.from
          BY <1>4, <2>1, <4>5
        <5> QED BY <4>2, <4>3, <5>1 DEF FirstRun
      <4> QED BY <4>4, <4>5
    <3> QED BY <3>1, <3>2
  <2> QED BY <1>8, <1>14, <2>2, <2>3 DEF FlashInv
<1> QED BY <1>10, <1>13, <1>14

(* A reset: what was whole stays so, and what was being uploaded is cut. *)
LEMMA ResetFlash ==
  ASSUME TypeInv, FlashInv, Reset
  PROVE  FlashInv'
<1>1. image' = << >> /\ session' = << >> /\ DOMAIN session' = {} /\ cst' = cst
  BY DEF Reset, Restarted, clientVars
<1>2. SUFFICES ASSUME ~cut', stored' # << >> PROVE Fine(stored)'
  BY <1>1 DEF FlashInv
<1>3. ~cut /\ DOMAIN session = {} /\ stored' = stored
  <2>1. ~cut /\ session = << >>
    BY <1>2, Zenon DEF Reset
  <2> QED BY <1>2, <2>1 DEF Reset, FlashAtReset
<1>4. Fine(stored)
  <2>1. CASE image = << >>
    BY <1>2, <1>3, <2>1 DEF FlashInv
  <2>2. CASE image # << >>
    <3>1. stored = image /\ FirstRun /\ image[1].session \notin DOMAIN session
      BY <1>3, <2>2 DEF FlashInv
    <3> QED BY <3>1 DEF FirstRun
  <2> QED BY <2>1, <2>2
<1> QED BY <1>1, <1>3, <1>4 DEF Fine, Begins, Aborted

LEMMA FlashStep ==
  ASSUME TypeInv, TypeInv', FlashType, Owned, Turns, OneAtATime, Answers, InStep,
         FlashInv, [BoardNext]_boardVars
  PROVE  FlashInv'
<1>1. CASE UNCHANGED <<session, image, stored, cut>>
  <2>1. \A f \in {image, stored} : f # << >> => f[1].from \in Client
    <3>1. ASSUME NEW f \in Seq(Stored), f # << >> PROVE f[1].from \in Client
      <4>1. 1 \in DOMAIN f
        BY <3>1, EmptySeq
      <4>2. f[1] \in Stored
        BY <4>1
      <4> QED BY <4>2 DEF Stored
    <3>2. image \in Seq(Stored) /\ stored \in Seq(Stored)
      BY DEF TypeInv, TypeOK, FlashType
    <3> QED BY <3>1, <3>2
  <2>2. Fine(image) /\ image # << >> => Fine(image)'
    BY <1>1, <2>1, AbortedStays DEF Fine, Begins, Aborted
  <2>3. Fine(stored) /\ stored # << >> => Fine(stored)'
    BY <1>1, <2>1, AbortedStays DEF Fine, Begins, Aborted
  <2>4. FirstRun /\ image # << >> => FirstRun'
    BY <1>1, <2>2 DEF FirstRun
  <2> QED BY <1>1, <2>3, <2>4 DEF FlashInv
<1>2. CASE TftpFrame
  <2>1. Frame /\ Store
    BY <1>2 DEF TftpFrame
  <2>2. ASSUME NEW c \in requests, process_tftp_request(c) PROVE FlashInv'
    <3>1. image' = image
      BY <2>2 DEF process_tftp_request, NoPcb, NoArgs, OpenSession, serverVars
    <3>2. stored' = stored /\ (cut' <=> cut)
      BY <2>1, <3>1 DEF Store
    <3> QED BY <2>2, <3>2, RequestFlash
  <2>3. ASSUME NEW p \in toServer, udp_input_no_pcb(p) PROVE FlashInv'
    <3>1. UNCHANGED <<session, image>> /\ stored' = stored /\ (cut' <=> cut)
      BY <2>1, <2>3 DEF udp_input_no_pcb, serverVars, Store
    <3> QED BY <1>1, <3>1
  <2> QED BY <2>1, <2>2, <2>3, BlockFlash, ErrorFlash DEF Frame, UnknownRequest, OneAtATime
<1>3. CASE LoopFrame
  BY <1>1, <1>2, <1>3
  DEF LoopFrame, BoardFrame, ConsoleFrame, NoFrame, vars, serverVars, flashVars
<1>4. CASE Outside
  BY <1>1, <1>4 DEF Outside, Environment, ClientRequest, ClientRetryRequest, ClientSend,
     ClientAbort, ClientReceive, Lose, serverVars, flashVars
<1> QED BY <1>1, <1>3, <1>4, ResetFlash
    DEF BoardNext, LoopStep, ClientGone, boardVars, vars, serverVars, flashVars

(* With clients that upload one at a time and neither repeat requests nor  *)
(* send others, the flash begins, whenever no session is open, with what   *)
(* the board was delivered with or with one client's whole file            *)
(* (tftpserver.c:461-468), whatever the network does, whoever vanishes,    *)
(* whenever the board is reset, and wherever in the loop a request comes,  *)
(* unless that client ended its upload with an ERROR or the reset cut an   *)
(* upload off and none was begun since.                                    *)
THEOREM WholeUnlessAbortedCorrect ==
  ASSUME OneAtATime
  PROVE  BoardSpec => []WholeUnlessAborted
<1> DEFINE Why == FlashType /\ Owned /\ Answers /\ InStep /\ FlashInv
<1>1. BoardInit => Why
  <2> SUFFICES ASSUME BoardInit PROVE Why
    OBVIOUS
  <2>1. /\ session = << >> /\ DOMAIN session = {} /\ image = << >> /\ stored = << >>
        /\ requests = {} /\ toServer = {} /\ toClient = {}
        /\ \A c \in Client : acked[c] = 0
    BY DEF BoardInit, Init
  <2>2. Owned /\ Answers /\ InStep /\ FlashInv
    BY <2>1 DEF Owned, ImageInv, SessionsOwnBlocks, Answers, AnsweredOnce, Sent, InStep,
       FlashInv
  <2> QED BY <2>2, InitMain
<1>2. /\ TypeInv /\ Turns /\ Why
      /\ (TypeInv /\ Turns)'
      /\ [BoardNext]_boardVars
      => Why'
  BY FlashTypeStep, OwnedStep, AnswersStep, FlashStep
<1>3. TypeInv /\ FlashInv => WholeUnlessAborted
  <2> SUFFICES ASSUME TypeInv, FlashInv, DOMAIN session = {}, ~cut, stored # << >>
               PROVE  BeginsWithFile \/ Aborted(stored[1].from)
    BY DEF WholeUnlessAborted
  <2>1. Fine(stored)
    <3>1. CASE image = << >>
      BY <3>1 DEF FlashInv
    <3>2. CASE image # << >>
      <4>1. stored = image /\ FirstRun /\ image[1].session \notin DOMAIN session
        BY <3>2 DEF FlashInv
      <4> QED BY <4>1 DEF FirstRun
    <3> QED BY <3>1, <3>2
  <2> QED BY <2>1 DEF Fine, Begins, BeginsWithFile
<1> HIDE DEF Why
<1>4. BoardSpec => []Why
  BY <1>1, <1>2, BoardInv, PTL DEF BoardSpec
<1>5. Why => FlashInv
  BY DEF Why
<1> QED BY <1>3, <1>4, <1>5, BoardInv, PTL

(* And so, when no client ends its upload with an ERROR, the board jumps   *)
(* to whole files only (main.c:195-205), unless a reset cut an upload off  *)
(* or an upload is open whose flag main.c:191 has reset.                   *)
THEOREM JumpsToWholeImageCorrect ==
  ASSUME OneAtATime, Steady
  PROVE  BoardSpec => []JumpsToWholeImage
<1>1. TypeInv /\ FullCountdown /\ WholeUnlessAborted => JumpsToWholeImage
  <2> SUFFICES ASSUME TypeInv, FullCountdown, WholeUnlessAborted,
                      pc = "jump", ~unheld, ~cut, stored # << >>
               PROVE  BeginsWithFile
    BY DEF JumpsToWholeImage
  <2>1. Cardinality(DOMAIN session) = 0
    BY DEF FullCountdown, Main!FullCountdown, Main!QuietCountdown
  <2>2. DOMAIN session = {}
    BY <2>1, SessionsFinite, FS_EmptySet
  <2> QED BY <2>2 DEF WholeUnlessAborted, Steady, Aborted
<1> QED BY <1>1, WholeUnlessAbortedCorrect, BoardFullCountdown, BoardInv, PTL
=============================================================================
