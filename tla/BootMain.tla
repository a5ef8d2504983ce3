------------------------------ MODULE BootMain ------------------------------
(***************************************************************************)
(* The main loop of Src/main.c (lines 88-220) with Src/iap.c.              *)
(*                                                                         *)
(* One action is the code between two calls of ethernetif_input, which     *)
(* handles at most one received frame: that is where the rest of the       *)
(* program (TCP connection, TFTP sessions, flash) changes what the loop    *)
(* reads.  Nothing of this runs in an interrupt.  Frames are abstract: a   *)
(* connection, a write request with or without a session for it, a block,  *)
(* the last block; TftpServer has them in detail.  A reset starts again in *)
(* Init with whatever vectors the flash holds.                             *)
(***************************************************************************)
EXTENDS Integers

CONSTANTS
  PER_SECOND_FREQUENVY,  \* passes of the loop per second
  WAIT_FREQUENCY,        \* passes of the loop up to the jump
  U32,                   \* stands for 2^32; like it no multiple of a second
  OldVectors,            \* vectors the flash may hold at the start
  NewVectors,            \* vectors an upload may write
  MaxSessions,           \* TFTP sessions open at the same time
  MaxRequests,           \* bound: write requests that arrive
  Refusals               \* TRUE: a write request may find no memory

(* "none": no reset vector of the application (line 197); "badsp": one,    *)
(* but no stack in the AXI SRAM (iap.c:16); "ok": an application.          *)
Vectors == {"none", "badsp", "ok"}

ASSUME BootAssumption ==
  /\ PER_SECOND_FREQUENVY \in Nat \ {0}
  /\ WAIT_FREQUENCY \in Nat \ {0} /\ WAIT_FREQUENCY % PER_SECOND_FREQUENVY = 0
  /\ U32 \in Nat /\ WAIT_FREQUENCY < U32
  /\ OldVectors \subseteq Vectors /\ NewVectors \subseteq Vectors
  /\ MaxSessions \in Nat /\ MaxRequests \in Nat
  /\ Refusals \in BOOLEAN

(* Lines 89, 180 and 189. *)
Seconds == WAIT_FREQUENCY \div PER_SECOND_FREQUENVY

VARIABLES
  pc,            \* where the loop is: the next piece of code to run
  t, wait_time,  \* passes counted, seconds told to the client (both u32)
  wait_flag,     \* 1: counting down
  is_oneshot,    \* 1: "Start Write File..." has been sent
  connected,     \* bit 5 of tcp_server_flag
  upload_flag,   \* of tftpserver.c: 0 nothing, 1 started, 2 finished
  uploads,       \* TFTP write sessions that are open
  requests,      \* requests to the TFTP port so far
  vector,        \* what the flash holds where the application begins
  quiet,         \* history: passes counted since a session was open
  unheld         \* history: a session is open, and was (or another since)
                 \* when line 191 reset upload_flag

loopVars == <<t, wait_time, wait_flag, is_oneshot>>
netVars  == <<connected, uploads, requests, vector>>
vars     == <<pc, loopVars, netVars, upload_flag, quiet, unheld>>

Init ==
  /\ pc = "top"
  /\ t = 0 /\ wait_time = Seconds
  /\ wait_flag = 1 /\ is_oneshot = 0
  /\ connected = FALSE
  /\ upload_flag = 0 /\ uploads = 0 /\ requests = 0
  /\ vector \in OldVectors
  /\ quiet = 0 /\ unheld = FALSE

-----------------------------------------------------------------------------
(* A received frame, or none, as far as the loop can tell. *)

NoFrame == UNCHANGED <<netVars, upload_flag>>

(* tcp_echoserver_accept sets the bit; nothing clears it. *)
ConnectFrame ==
  /\ connected' = TRUE
  /\ UNCHANGED <<uploads, requests, vector, upload_flag>>

WriteRequest ==
  /\ requests < MaxRequests /\ uploads < MaxSessions
  /\ upload_flag' = 1
  /\ uploads' = uploads + 1
  /\ requests' = requests + 1
  /\ UNCHANGED <<connected, vector>>

RefusedRequest ==
  /\ Refusals /\ requests < MaxRequests
  /\ upload_flag' = 1
  /\ requests' = requests + 1
  /\ UNCHANGED <<connected, uploads, vector>>

(* A request that opens no write session. *)
OtherRequest ==
  /\ requests < MaxRequests
  /\ requests' = requests + 1
  /\ UNCHANGED <<connected, uploads, vector, upload_flag>>

BlockFrame ==
  /\ uploads > 0
  /\ vector' \in NewVectors \cup {vector}
  /\ UNCHANGED <<connected, uploads, requests, upload_flag>>

LastBlock ==
  /\ uploads > 0
  /\ upload_flag' = 2
  /\ uploads' = uploads - 1
  /\ vector' \in NewVectors \cup {vector}
  /\ UNCHANGED <<connected, requests>>

(* ethernetif_input and sys_check_timeouts. *)
Frame ==
  \/ NoFrame
  \/ ConnectFrame
  \/ WriteRequest
  \/ RefusedRequest
  \/ OtherRequest
  \/ BlockFrame
  \/ LastBlock

(* After the frame of line 186 nothing comes before line 191. *)
Observe ==
  /\ quiet' = IF uploads + uploads' > 0 THEN 0 ELSE quiet
  /\ unheld' = (uploads' > 0 /\ (unheld \/ pc = "in_finish"))

FrameHandled == Frame /\ Observe

-----------------------------------------------------------------------------
(* The loop. *)

(* Line 159. *)
CountSigned == wait_time' = wait_time - 1
CountDown   == wait_time' = (wait_time + U32 - 1) % U32

(* Lines 146-160. *)
Top ==
  /\ pc = "top"
  /\ IF connected
     THEN /\ t' = IF wait_flag = 1 THEN (t + 1) % U32 ELSE t
          /\ quiet' = IF uploads = 0 /\ quiet < WAIT_FREQUENCY THEN quiet + 1
                      ELSE quiet
          /\ IF t' % PER_SECOND_FREQUENVY = 0
             THEN /\ CountDown
                  /\ pc' = IF wait_flag = 1 THEN "in_wait" ELSE "flag"
             ELSE pc' = "check" /\ UNCHANGED wait_time
     ELSE pc' = "lwip" /\ UNCHANGED <<t, wait_time, quiet>>
  /\ UNCHANGED <<wait_flag, is_oneshot, netVars, upload_flag, unheld>>

(* Lines 161-166: "Wait Time", and a frame.  The part of the loop is one  *)
(* definition, so that Bootloader can put the real frames beside it.       *)
TellWait ==
  /\ pc = "in_wait"
  /\ pc' = "flag"
  /\ UNCHANGED loopVars

InWait == TellWait /\ FrameHandled

(* Lines 179-180 and 188-189. *)
Restart == t' = 0 /\ wait_time' = Seconds

(* Lines 168-182. *)
Flag ==
  /\ pc = "flag"
  /\ \/ /\ upload_flag = 1 /\ is_oneshot = 0
        /\ pc' = "in_start"
        /\ is_oneshot' = 1 /\ wait_flag' = 0
        /\ UNCHANGED <<t, wait_time>>
     \/ /\ upload_flag = 1 /\ is_oneshot # 0
        /\ pc' = "check"
        /\ Restart
        /\ UNCHANGED <<wait_flag, is_oneshot>>
     \/ /\ upload_flag = 2
        /\ pc' = "in_finish"
        /\ UNCHANGED loopVars
     \/ /\ upload_flag = 0
        /\ pc' = "check"
        /\ UNCHANGED loopVars
  /\ UNCHANGED <<netVars, upload_flag, quiet, unheld>>

(* Lines 174-180: "Start Write File...", a frame, and the count restarts. *)
TellStart ==
  /\ pc = "in_start"
  /\ pc' = "check"
  /\ Restart
  /\ UNCHANGED <<wait_flag, is_oneshot>>

InStart == TellStart /\ FrameHandled

(* Lines 184-186: "Write File Finish!", and a frame. *)
TellFinish ==
  /\ pc = "in_finish"
  /\ pc' = "finish"
  /\ UNCHANGED loopVars

InFinish == TellFinish /\ FrameHandled

(* Lines 188-191: only then the flags. *)
FinishKeepsCount == wait_flag' = 1 /\ upload_flag' = 0 /\ UNCHANGED <<t, wait_time>>
FinishKeepsHold  == Restart /\ upload_flag' = 0 /\ UNCHANGED wait_flag
FinishKeepsFlag  == Restart /\ wait_flag' = 1 /\ UNCHANGED upload_flag
FinishKeepsTime  == t' = 0 /\ wait_flag' = 1 /\ upload_flag' = 0 /\ UNCHANGED wait_time
Finished         == Restart /\ wait_flag' = 1 /\ upload_flag' = 0

Finish ==
  /\ pc = "finish"
  /\ pc' = "check"
  /\ Finished
  /\ UNCHANGED <<is_oneshot, netVars, quiet, unheld>>

(* Lines 195-204 and 209. *)
Check ==
  /\ pc = "check"
  /\ pc' = IF t # WAIT_FREQUENCY THEN "lwip"
           ELSE IF vector = "none" THEN "in_illegal" ELSE "jump"
  /\ UNCHANGED <<loopVars, netVars, upload_flag, quiet, unheld>>

(* Lines 210-212: "Illegal FLASH APP", and a frame. *)
TellIllegal ==
  /\ pc = "in_illegal"
  /\ pc' = "lwip"
  /\ UNCHANGED loopVars

InIllegal == TellIllegal /\ FrameHandled

(* iap_load_app, with SysTick stopped and the interrupts off: when it      *)
(* returns, HAL_Delay waits for a tick that never comes.                   *)
iap_load_app ==
  /\ pc = "jump"
  /\ pc' = IF vector = "ok" THEN "app" ELSE "hung"
  /\ UNCHANGED <<loopVars, netVars, upload_flag, quiet, unheld>>

(* Lines 217-219. *)
Poll ==
  /\ pc = "lwip"
  /\ pc' = "top"
  /\ UNCHANGED loopVars

MX_LWIP_Process == Poll /\ FrameHandled

Next ==
  \/ Top \/ InWait \/ Flag \/ InStart \/ InFinish \/ Finish
  \/ Check \/ InIllegal \/ iap_load_app \/ MX_LWIP_Process

Spec == Init /\ [][Next]_vars

(* The loop goes on; the client of an open session sends to the end. *)
LastBlockArrives == MX_LWIP_Process /\ LastBlock

FairSpec == Spec /\ WF_vars(Next) /\ SF_vars(LastBlockArrives)

-----------------------------------------------------------------------------
TypeOK ==
  /\ pc \in {"top", "in_wait", "flag", "in_start", "in_finish", "finish", "check",
             "in_illegal", "jump", "app", "hung", "lwip"}
  /\ t \in 0 .. U32 - 1 /\ wait_time \in 0 .. U32 - 1
  /\ wait_flag \in 0 .. 1 /\ is_oneshot \in 0 .. 1
  /\ connected \in BOOLEAN
  /\ upload_flag \in 0 .. 2
  /\ uploads \in 0 .. MaxSessions /\ requests \in 0 .. MaxRequests
  /\ vector \in Vectors
  /\ quiet \in 0 .. WAIT_FREQUENCY /\ unheld \in BOOLEAN

(* "When the upload is finished, the board counts down anew and then       *)
(* jumps" (Operating Steps, 4.3): the program is left for the application  *)
(* only after a whole countdown during which no upload was running.        *)
QuietCountdown == uploads = 0 /\ quiet = WAIT_FREQUENCY

JumpsWhenQuiet == pc = "jump" => QuietCountdown

(* There is one way round this, however many uploads there are, wherever   *)
(* they begin and whichever of them is refused: an upload under which line *)
(* 191 has reset the flag.  That is one whose request came in the frame of *)
(* line 186, or one that was open when another session ended.              *)
FullCountdown == pc = "jump" => unheld \/ QuietCountdown

(* The countdown is stopped (wait_flag, main.c:156) only while upload_flag *)
(* announces an upload that will start it again.                           *)
HeldForUpload == wait_flag = 0 => upload_flag # 0

(* Why FullCountdown holds: an open session shows in upload_flag unless    *)
(* that was reset under it, while it is 0 every pass counted in t is a     *)
(* quiet one, and the loop gets to the comparison of line 195 with a full  *)
(* count only if nothing is up.                                            *)
Shown ==
  /\ uploads > 0 => upload_flag # 0 \/ unheld
  /\ pc = "finish" /\ uploads > 0 => unheld
  /\ unheld => uploads > 0
  /\ pc \in {"in_finish", "finish"} => upload_flag # 0

Counted ==
  /\ upload_flag = 0 /\ t <= WAIT_FREQUENCY => t <= quiet \/ unheld
  /\ pc \in {"check", "jump"} /\ t = WAIT_FREQUENCY => upload_flag = 0
  /\ pc = "jump" => t = WAIT_FREQUENCY

IInv == TypeOK /\ HeldForUpload /\ Shown /\ Counted

(* The seconds the client is told are those that are left to the jump,    *)
(* when there is something to jump to and no upload to wait for.           *)
WaitTimeTells ==
  pc = "in_wait" /\ vector # "none" /\ upload_flag = 0 /\ ~unheld =>
    t + PER_SECOND_FREQUENVY * wait_time = WAIT_FREQUENCY

(* Why WaitTimeTells holds: while there is something to jump to and no     *)
(* upload, wait_time is what is left of the count in seconds, rounded up,  *)
(* and the count has not gone past the jump.                               *)
WaitInv ==
  /\ vector # "none" /\ upload_flag = 0 /\ ~unheld =>
       /\ WAIT_FREQUENCY <= t + PER_SECOND_FREQUENVY * wait_time
       /\ t + PER_SECOND_FREQUENVY * wait_time < WAIT_FREQUENCY + PER_SECOND_FREQUENVY
       /\ t <= WAIT_FREQUENCY
       /\ pc \in {"top", "lwip"} => t < WAIT_FREQUENCY
  /\ pc = "in_wait" => t % PER_SECOND_FREQUENVY = 0
  /\ pc = "in_illegal" => vector = "none"
  /\ pc = "in_start" => upload_flag # 0

(* With an application in the flash the board starts it in the end, after  *)
(* whatever uploads there are; also when the flash held none at first and  *)
(* the count has gone past the one value at which the loop jumps.  Two     *)
(* things may come between: an upload of something else, and a request     *)
(* that was refused and holds the countdown without a session.             *)
Boots ==
  (connected /\ vector = "ok") ~>
     pc = "app" \/ vector # "ok" \/ (upload_flag = 1 /\ uploads = 0)

(* A jump to the application arrives there (iap.c:9 and iap.h:9). *)
JumpReachesApp == (pc = "jump") ~> (pc = "app")
=============================================================================
