----------------------------- MODULE Bootloader -----------------------------
(***************************************************************************)
(* The TFTP server of Src/tftpserver.c inside the main loop of Src/main.c, *)
(* over the network, with resets of the board.                             *)
(*                                                                         *)
(* The loop is that of BootMain and each of its calls of ethernetif_input  *)
(* handles one of the frames of TftpServer; both modules share             *)
(* upload_flag.  A reset initialises the RAM again: sessions and the       *)
(* address variables are gone, local ports are handed out from the first   *)
(* one on.  Clients, packets and the flash outlive it.                     *)
(***************************************************************************)
EXTENDS TftpServer

CONSTANTS
  PER_SECOND_FREQUENVY, WAIT_FREQUENCY, U32, OldVectors,
                 \* as in BootMain
  VectorsOf,     \* the vectors a client's file begins with
  MaxResets      \* bound: resets

VARIABLES
  pc, t, wait_time, wait_flag, is_oneshot, connected, quiet, unheld,
                 \* as in BootMain
  stored,        \* blocks the flash holds from where the application begins
  old,           \* vectors it holds there while stored is empty
  cut,           \* history: a reset came while stored was being uploaded
  resets         \* history: resets so far

loopVars  == <<pc, t, wait_time, wait_flag, is_oneshot, quiet, unheld>>
flashVars == <<stored, old, cut>>
boardVars == <<vars, loopVars, connected, flashVars, resets>>

(* What line 197 and iap.c:16 find at FLASH_APP1_ADDR_0. *)
vector == IF stored = << >> THEN old ELSE VectorsOf[stored[1].from]

Main == INSTANCE BootMain WITH
          uploads     <- Cardinality(DOMAIN session),
          requests    <- ports,
          NewVectors  <- {VectorsOf[c] : c \in Client},
          MaxSessions <- IF OneAtATime THEN 1 ELSE MaxArgs,
          Refusals    <- TRUE

ASSUME BootloaderAssumption ==
  /\ PER_SECOND_FREQUENVY \in Nat \ {0}
  /\ WAIT_FREQUENCY \in Nat /\ WAIT_FREQUENCY % PER_SECOND_FREQUENVY = 0
  /\ WAIT_FREQUENCY > 0
  /\ U32 \in Nat /\ WAIT_FREQUENCY < U32
  /\ OldVectors \subseteq Main!Vectors
  /\ VectorsOf \in [Client -> Main!Vectors]
  /\ MaxResets \in Nat

BoardInit ==
  /\ stored = << >> /\ old \in OldVectors
  /\ Init
  /\ Main!Init
  /\ cut = FALSE /\ resets = 0

-----------------------------------------------------------------------------
(* One frame.  The first block of an image goes to FLASH_APP1_ADDR_0 and   *)
(* erases what an earlier power-on has stored there.                       *)

Store ==
  /\ stored' = IF image' = image THEN stored ELSE image'
  /\ cut' = (cut /\ (image' = image \/ image # << >>))
  /\ UNCHANGED old

(* What line 191 overwrites is overwritten by Main!Finish here.            *)
TftpFrame == Frame /\ ~Overwritten /\ Store /\ UNCHANGED connected

ConsoleFrame ==
  /\ connected' = TRUE
  /\ UNCHANGED <<vars, flashVars>>

NoFrame == UNCHANGED <<vars, flashVars, connected>>

BoardFrame == (TftpFrame \/ ConsoleFrame \/ NoFrame) /\ Main!Observe

(* The calls of ethernetif_input in main.c:163, 175, 185, 210 and 218. *)
LoopFrame ==
  /\ BoardFrame
  /\ \/ Main!TellWait
     \/ Main!TellStart
     \/ Main!TellFinish
     \/ Main!TellIllegal
     \/ Main!Poll
  /\ UNCHANGED resets

(* The loop between two of them; Finish is FinishSeen of TftpServer. *)
LoopStep ==
  /\ UNCHANGED <<session, ports, image, netVars, clientVars, flashVars, resets>>
  /\ Main!Top \/ Main!Flag \/ Main!Finish \/ Main!Check \/ Main!iap_load_app

(* Clients and network, while the loop is anywhere. *)
Outside ==
  /\ Environment
  /\ UNCHANGED <<loopVars, connected, flashVars, resets>>

(* A client gives up when nothing answers and sends nothing any more.      *)
(* Unless uploads overlap its request is not under way any more either.    *)
ClientGone(c) ==
  /\ cst[c] \in {"wrq", "send"}
  /\ Overlap \/ c \notin requests
  /\ cst' = [cst EXCEPT ![c] = "failed"]
  /\ UNCHANGED <<serverVars, netVars, tid, acked, loopVars, connected,
                 flashVars, resets>>

(* RAM after a reset: the initial values of the variables of the program   *)
(* (lwIP's udp_port among them, udp.c:77).                                 *)
Restarted ==
  /\ upload_flag' = 0 /\ session' = << >> /\ ports' = 0 /\ image' = << >>
  /\ pc' = "top" /\ t' = 0 /\ wait_time' = Main!Seconds
  /\ wait_flag' = 1 /\ is_oneshot' = 0 /\ connected' = FALSE
  /\ quiet' = 0 /\ unheld' = FALSE

InCall == {"in_wait", "in_start", "in_finish", "in_illegal", "lwip"}

(* The flash when the reset strikes: as it is, or, in the write of an      *)
(* image's first block, erased.                                            *)
FlashAtReset ==
  \/ UNCHANGED <<stored, old>>
  \/ /\ image = << >> /\ pc \in InCall
     /\ \E p \in toServer :
           FromPeer(p) /\ Expected(p) /\ CarriesData(p)
     /\ stored' = << >> /\ old' = "none"

Reset ==
  /\ resets < MaxResets
  /\ Restarted
  /\ FlashAtReset
  /\ cut' = (cut \/ session # << >>)
  /\ resets' = resets + 1
  /\ UNCHANGED <<netVars, clientVars>>

BoardNext ==
  \/ LoopFrame \/ LoopStep \/ Outside \/ Reset
  \/ \E c \in Client : ClientGone(c)

BoardSpec == BoardInit /\ [][BoardNext]_boardVars

-----------------------------------------------------------------------------
BoardTypeOK ==
  /\ TypeOK
  /\ Main!TypeOK
  /\ stored \in Seq(Stored)
  /\ old \in Main!Vectors
  /\ cut \in BOOLEAN
  /\ resets \in 0 .. MaxResets

(* The loop sees of the frames what BootMain says of them, and a reset     *)
(* puts it back to its start: the frames of BootMain are no guess.         *)
ImplementsMain == Main!Init /\ [][Main!Next \/ Restarted]_(Main!vars)

(* The board starts the application only when the whole countdown has      *)
(* passed without an upload (main.c:195), or under an upload that was open *)
(* when main.c:191 reset upload_flag: requests in the frame of main.c:186  *)
(* and repeated ones, whose session ends with upload_flag = 2 under the    *)
(* first (tftpserver.c:467), are among the frames.                         *)
FullCountdown == Main!FullCountdown

(* The flash begins with the whole file of the client that sent its first  *)
(* block, in one session.                                                  *)
BeginsWithFile ==
  \A n \in DataBlocks(stored[1].from) :
     /\ n \in DOMAIN stored
     /\ stored[n] = [session |-> stored[1].session, from |-> stored[1].from,
                     op |-> "DATA", block |-> n]

(* What the board jumps to is what it was delivered with or one client's   *)
(* whole file, unless a reset came in the middle of an upload and none     *)
(* was begun since (main.c:195-205 with tftpserver.c:461-468), or it jumps *)
(* under an upload (FullCountdown says which).                             *)
JumpsToWholeImage ==
  pc = "jump" /\ ~unheld /\ ~cut /\ stored # << >> => BeginsWithFile

(* Whenever no session is open the flash begins with a whole file: what    *)
(* the network loses, repeats or delivers late makes no part of a whole,   *)
(* wherever in the loop it comes; a client that vanishes leaves its        *)
(* session open, a refused one has stored nothing.  Two things end an      *)
(* upload early: a reset, and an ERROR with which its client abandons it,  *)
(* which tftpserver.c:461-468 takes for the last block.  Requests that are *)
(* repeated are left out over a reset: one that outlives it opens a        *)
(* session on the port to which its client's late blocks are sent, beside  *)
(* the session of the next upload, and the two mix in the flash.           *)
Aborted(c) == AbortCodes # {} /\ cst[c] = "failed"

WholeUnlessAborted ==
  DOMAIN session = {} /\ ~cut /\ stored # << >>
    => BeginsWithFile \/ Aborted(stored[1].from)

(* After a reset the ports are the same again; still no session takes the  *)
(* packets that another client sends to the port it had before.            *)
SessionsOwnBlocks ==
  \A s \in DOMAIN session : \A i \in DOMAIN image :
     image[i].session = s => image[i].from = session[s].remote
=============================================================================
