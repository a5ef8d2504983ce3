----------------------------- MODULE EthernetIf -----------------------------
(***************************************************************************)
(* The network interface of Src/ethernetif.c over the descriptor rings of  *)
(* stm32h7xx_hal_eth.c.                                                    *)
(*                                                                         *)
(* The main loop takes a frame, lets the stack handle it, and sends from   *)
(* within or from a timer; the DMA receives and sends at the same time, a  *)
(* descriptor at a step.  Received frames are numbered; buf is what lies   *)
(* in Rx_Buff, and what the stack reads is there whenever it reads.  A     *)
(* frame fits one receive descriptor (1522 bytes at most, RxBuffLen is     *)
(* 1524); one that is sent has a descriptor for every two pbufs.           *)
(***************************************************************************)
EXTENDS Integers, FiniteSets

CONSTANTS
  ETH_RX_DESC_CNT, ETH_TX_DESC_CNT,
  RX_POOL,       \* pbuf_customs for received frames, line 105
  BusErrors,     \* TRUE: the DMA may meet a fatal bus error
  MaxFrames,     \* bound: frames received
  MaxOutputs     \* bound: frames given to low_level_output

ASSUME EthAssumption ==
  /\ ETH_RX_DESC_CNT \in Nat \ {0, 1} /\ ETH_TX_DESC_CNT \in Nat \ {0, 1}
  /\ RX_POOL \in Nat /\ BusErrors \in BOOLEAN
  /\ MaxFrames \in Nat /\ MaxOutputs \in Nat

VARIABLES
  pc,            \* "idle", "build", "alloc", "read", "handle" or "transmit"
  back,          \* where "transmit" returns to
  own, buf,      \* receive descriptor: its owner; Rx_Buff: the frame in it
  CurRxDesc, FirstAppDesc, AppDescNbr,
                 \* heth.RxDescList
  dmaRx,         \* the descriptor the DMA fills next
  pool,          \* free entries of RX_POOL
  kept,          \* frames whose pbuf the stack still holds
  arrived, taken,  \* history: frames received, frames taken by the main loop
  txown, txfrag, \* send descriptor: its owner; what it sends
  CurTxDesc,     \* heth.TxDescList
  dmaTx,         \* the descriptor the DMA sends next
  gState,        \* heth.gState
  last,          \* the last descriptor of the frame in "transmit"
  outputs,       \* history: frames given to low_level_output
  wire           \* history: the fragment sent last

rxRing  == <<own, buf, CurRxDesc, FirstAppDesc, AppDescNbr, dmaRx, arrived, taken>>
txRing  == <<txown, txfrag, CurTxDesc, dmaTx, gState, last, outputs, wire>>
pbufs   == <<pool, kept>>
vars    == <<pc, back, rxRing, pbufs, txRing>>

RxDesc == 0 .. ETH_RX_DESC_CNT - 1
TxDesc == 0 .. ETH_TX_DESC_CNT - 1

NoWrap(i) == i + 1
INCR_RX_DESC_INDEX(i) == (i + 1) % ETH_RX_DESC_CNT
INCR_TX_DESC_INDEX(i, offset) == (i + offset) % ETH_TX_DESC_CNT

(* The buffer of the n-th frame received. *)
BufferOf(n) == (n - 1) % ETH_RX_DESC_CNT

(* A fragment: part p of frame f, which has parts 1 .. of. *)
Fragment == [f : Nat, p : Nat, of : Nat]
None == [f |-> 0, p |-> 0, of |-> 0]

(* After low_level_init, lines 245-333. *)
Init ==
  /\ pc = "idle" /\ back = "idle"
  /\ own = [i \in RxDesc |-> "dma"] /\ buf = [i \in RxDesc |-> 0]
  /\ CurRxDesc = 0 /\ FirstAppDesc = 0 /\ AppDescNbr = 0 /\ dmaRx = 0
  /\ pool = RX_POOL /\ kept = {}
  /\ arrived = 0 /\ taken = 0
  /\ txown = [i \in TxDesc |-> "cpu"] /\ txfrag = [i \in TxDesc |-> None]
  /\ CurTxDesc = 0 /\ dmaTx = 0 /\ gState = "READY" /\ last = 0
  /\ outputs = 0 /\ wire = None

-----------------------------------------------------------------------------
(* low_level_input, lines 398-430. *)

(* Lines 406-409: HAL_ETH_IsRxDataAvailable and the two reads of what it   *)
(* found; the DMA leaves that descriptor alone.                            *)
NotReady == AppDescNbr = 0
Ready    == AppDescNbr = 0 /\ own[CurRxDesc] = "cpu"

HAL_ETH_IsRxDataAvailable ==
  /\ pc = "idle" /\ Ready
  /\ FirstAppDesc' = CurRxDesc
  /\ CurRxDesc' = INCR_RX_DESC_INDEX(CurRxDesc)
  /\ AppDescNbr' = 1
  /\ taken' = taken + 1
  /\ pc' = "build"
  /\ UNCHANGED <<back, own, buf, dmaRx, arrived, pbufs, txRing>>

(* Line 412: the descriptor and its buffer go back to the DMA. *)
BuiltNextDesc == CurRxDesc
BuiltDesc     == FirstAppDesc

AppNotReset == UNCHANGED AppDescNbr
AppDone     == AppDescNbr' = 0

HAL_ETH_BuildRxDescriptors ==
  /\ pc = "build"
  /\ own' = [own EXCEPT ![BuiltDesc] = "dma"]
  /\ AppDone
  /\ pc' = "alloc"
  /\ UNCHANGED <<back, buf, CurRxDesc, FirstAppDesc, dmaRx, arrived, taken, pbufs,
                 txRing>>

(* Lines 419-424.  With the pool empty the pbuf_custom is at address 0,    *)
(* which is RAM on this chip; pbuf_alloced_custom returns that address and *)
(* ethernetif_input takes it for no frame.                                 *)
pbuf_alloced_custom ==
  /\ pc = "alloc"
  /\ \/ pool > 0 /\ pool' = pool - 1 /\ pc' = "read"
     \/ pool = 0 /\ pc' = "idle" /\ UNCHANGED pool
  /\ UNCHANGED <<back, kept, rxRing, txRing>>

(* Line 453: the stack reads the frame where it lies. *)
Read ==
  /\ pc = "read"
  /\ pc' = "handle"
  /\ UNCHANGED <<back, pbufs, rxRing, txRing>>

(* pbuf_free_custom, lines 541-551: only the pool entry is given back. *)
NotFreed         == UNCHANGED pool
pbuf_free_custom == pool' = pool + 1

(* The stack has freed the pbuf, or holds it: an out-of-order segment of   *)
(* TCP, which it frees later, or data the console never frees.             *)
Handled ==
  /\ pc = "handle" /\ pc' = "idle"
  /\ \/ pbuf_free_custom /\ UNCHANGED kept
     \/ kept' = kept \cup {taken} /\ UNCHANGED pool
  /\ UNCHANGED <<back, rxRing, txRing>>

FreeKept ==
  /\ pc \in {"idle", "handle"}
  /\ \E n \in kept : kept' = kept \ {n}
  /\ pbuf_free_custom
  /\ UNCHANGED <<pc, back, rxRing, txRing>>

-----------------------------------------------------------------------------
(* low_level_output, lines 351-388, and HAL_ETH_Transmit. *)

(* ETH_Prepare_Tx_Descriptors, lines 2716-2967: a descriptor for every two *)
(* of k pbufs.                                                             *)
Parts(k) == (k + 1) \div 2
Needed(parts) == {INCR_TX_DESC_INDEX(CurTxDesc, i) : i \in 0 .. parts - 1}
FirstFree(parts) == txown[CurTxDesc] = "cpu"
AllFree(parts)   == \A d \in Needed(parts) : txown[d] = "cpu"

(* Lines 2963 and 975: the descriptor behind the last of the frame. *)
LastOf(parts)   == INCR_TX_DESC_INDEX(CurTxDesc, parts - 1)
BehindOf(parts) == INCR_TX_DESC_INDEX(CurTxDesc, parts)

(* The part that descriptor d gets. *)
PartIn(d) == ((d - CurTxDesc) % ETH_TX_DESC_CNT) + 1

(* The frame of k pbufs is lost and its buffers are freed, and yet the     *)
(* stack is told that it was sent: too many pbufs (line 362, which says    *)
(* so), a bus error before, or a descriptor that still is the DMA's        *)
(* (those of this frame that were given to it before are taken back).      *)
Refused(k) ==
  /\ \/ k > ETH_TX_DESC_CNT
     \/ gState # "READY"
     \/ ~AllFree(Parts(k))
  /\ UNCHANGED <<pc, back, txown, txfrag, CurTxDesc, last>>

(* Lines 965-981: the descriptors are the DMA's and the tail pointer is    *)
(* moved on.                                                               *)
Transmit(k) ==
  /\ k <= ETH_TX_DESC_CNT /\ gState = "READY" /\ AllFree(Parts(k))
  /\ txown' = [d \in TxDesc |-> IF d \in Needed(Parts(k)) THEN "dma" ELSE txown[d]]
  /\ txfrag' = [d \in TxDesc |->
                  IF d \in Needed(Parts(k))
                  THEN [f |-> outputs + 1, p |-> PartIn(d), of |-> Parts(k)]
                  ELSE txfrag[d]]
  /\ last' = LastOf(Parts(k))
  /\ CurTxDesc' = BehindOf(Parts(k))
  /\ back' = pc /\ pc' = "transmit"

low_level_output ==
  /\ pc \in {"idle", "handle"} /\ outputs < MaxOutputs
  /\ outputs' = outputs + 1
  /\ \E k \in 1 .. ETH_TX_DESC_CNT + 1 : Refused(k) \/ Transmit(k)
  /\ UNCHANGED <<dmaTx, gState, wire, rxRing, pbufs>>

(* Lines 983-1011: sent, timed out, or a bus error.  The stack frees the   *)
(* buffers in either case.                                                 *)
Sent == txown[last] = "cpu" /\ UNCHANGED gState
Timeout == txown[last] = "dma" /\ UNCHANGED gState
BusError == BusErrors /\ txown[last] = "dma" /\ gState' = "ERROR"

TransmitEnds ==
  /\ pc = "transmit" /\ pc' = back
  /\ Sent \/ Timeout \/ BusError
  /\ UNCHANGED <<back, txown, txfrag, CurTxDesc, dmaTx, last, outputs, wire,
                 rxRing, pbufs>>

-----------------------------------------------------------------------------
(* The DMA.  A frame that comes when the next descriptor is not its own is *)
(* lost.                                                                   *)

DmaReceive ==
  /\ arrived < MaxFrames /\ own[dmaRx] = "dma"
  /\ arrived' = arrived + 1
  /\ buf' = [buf EXCEPT ![dmaRx] = arrived + 1]
  /\ own' = [own EXCEPT ![dmaRx] = "cpu"]
  /\ dmaRx' = INCR_RX_DESC_INDEX(dmaRx)
  /\ UNCHANGED <<pc, back, CurRxDesc, FirstAppDesc, AppDescNbr, taken, pbufs, txRing>>

DmaSend ==
  /\ txown[dmaTx] = "dma" /\ gState = "READY"
  /\ txown' = [txown EXCEPT ![dmaTx] = "cpu"]
  /\ wire' = txfrag[dmaTx]
  /\ dmaTx' = INCR_TX_DESC_INDEX(dmaTx, 1)
  /\ UNCHANGED <<pc, back, txfrag, CurTxDesc, gState, last, outputs, rxRing, pbufs>>

-----------------------------------------------------------------------------
Input == \/ HAL_ETH_IsRxDataAvailable \/ HAL_ETH_BuildRxDescriptors
         \/ pbuf_alloced_custom \/ Read \/ Handled

Next == Input \/ FreeKept \/ low_level_output \/ TransmitEnds \/ DmaReceive \/ DmaSend

Spec == Init /\ [][Next]_vars

(* The main loop runs; nothing is assumed of the DMA that sends. *)
FairSpec == Spec /\ WF_vars(Input) /\ WF_vars(TransmitEnds)

-----------------------------------------------------------------------------
TypeOK ==
  /\ pc \in {"idle", "build", "alloc", "read", "handle", "transmit"}
  /\ back \in {"idle", "handle"}
  /\ own \in [RxDesc -> {"cpu", "dma"}] /\ buf \in [RxDesc -> 0 .. MaxFrames]
  /\ {CurRxDesc, FirstAppDesc, dmaRx} \subseteq RxDesc /\ AppDescNbr \in 0 .. 1
  /\ pool \in 0 .. RX_POOL /\ kept \subseteq 1 .. MaxFrames
  /\ arrived \in 0 .. MaxFrames /\ taken \in 0 .. MaxFrames
  /\ txown \in [TxDesc -> {"cpu", "dma"}] /\ txfrag \in [TxDesc -> Fragment]
  /\ {CurTxDesc, dmaTx, last} \subseteq TxDesc
  /\ gState \in {"READY", "ERROR"}
  /\ outputs \in 0 .. MaxOutputs /\ wire \in Fragment

(* The frames not given back to the DMA yet. *)
FirstWaiting == IF pc = "build" THEN taken ELSE taken + 1
Waiting == FirstWaiting .. arrived

(* Main loop and DMA agree on the ring: the descriptors that are not the   *)
(* DMA's are those of the frames received and not taken, each still in its *)
(* buffer, and the main loop looks for the oldest (stm32h7xx_hal_eth.c     *)
(* 1081-1116, 1418-1449).                                                  *)
RxRingAgrees ==
  /\ \A i \in RxDesc : own[i] = "cpu" <=> \E n \in Waiting : BufferOf(n) = i
  /\ \A n \in Waiting : buf[BufferOf(n)] = n
  /\ CurRxDesc = BufferOf(taken + 1) /\ dmaRx = BufferOf(arrived + 1)

(* The buffer is the DMA's again before the stack reads it (line 412): the *)
(* stack still finds its frame unless ETH_RX_DESC_CNT more have come, and  *)
(* then that one, never an older or a third.                               *)
ReadsItsFrame ==
  pc = "read" =>
     buf[BufferOf(taken)] = IF arrived < taken + ETH_RX_DESC_CNT
                            THEN taken ELSE taken + ETH_RX_DESC_CNT

(* An entry of RX_POOL is free, with a frame the stack holds, or with the  *)
(* frame it handles; none is lost or freed twice (lines 419, 550).         *)
InHand == IF pc \in {"read", "handle"} \/ (pc = "transmit" /\ back = "handle")
          THEN 1 ELSE 0
PoolConserved == pool + Cardinality(kept) + InHand = RX_POOL

(* Main loop and DMA agree on the send ring, also after timeouts: what is  *)
(* the DMA's lies between its position and CurTxDesc, and nothing else.    *)
Span == (CurTxDesc - dmaTx) % ETH_TX_DESC_CNT
TxRingAgrees ==
  \/ \A d \in TxDesc : txown[d] = "dma" /\ CurTxDesc = dmaTx
  \/ \A d \in TxDesc : txown[d] = "dma" <=> (d - dmaTx) % ETH_TX_DESC_CNT < Span

(* Frames leave whole, in the order they were given to low_level_output    *)
(* and each once, although that returns before they have left when the     *)
(* DMA takes more than 20 ms (stm32h7xx_hal_eth.c:999-1004).               *)
Follows(a, b) ==
  IF a.p < a.of THEN b = [a EXCEPT !.p = @ + 1] ELSE b.f > a.f /\ b.p = 1
WireInOrder == [][wire' # wire => Follows(wire, wire')]_vars

(* The ring is a queue: what is in it are the parts that the DMA sends     *)
(* next, in that order.                                                    *)
InRing == IF \A d \in TxDesc : txown[d] = "dma" THEN ETH_TX_DESC_CNT ELSE Span

Queue == [j \in 1 .. InRing |-> txfrag[INCR_TX_DESC_INDEX(dmaTx, j - 1)]]

Out == INSTANCE FrameQueue WITH
         Size <- ETH_TX_DESC_CNT, queue <- Queue, sent <- wire,
         given <- outputs, down <- gState # "READY"

(* A frame is sent if there is room for all of it and lost only if not:    *)
(* no descriptor in use is overwritten, none that is free is passed over,  *)
(* and what was queued leaves once and in order, also after the driver     *)
(* gave up waiting for it (stm32h7xx_hal_eth.c:941-1011, 2716-2967).       *)
ImplementsQueue == Out!Spec

(* A frame that has been received is taken, whatever becomes of the ones   *)
(* that are sent: sending never holds the main loop for ever.              *)
EveryFrameTaken == \A n \in 1 .. MaxFrames : arrived >= n ~> taken >= n

(* Why RxRingAgrees, ReadsItsFrame and PoolConserved hold: no more frames   *)
(* wait than the ring has descriptors, the frame in hand is in its buffer  *)
(* from the moment it is found, and the stack does not hold it before.     *)
RxInv ==
  /\ taken <= arrived /\ arrived < FirstWaiting + ETH_RX_DESC_CNT
  /\ AppDescNbr = IF pc = "build" THEN 1 ELSE 0
  /\ pc = "build" => FirstAppDesc = BufferOf(taken)
  /\ pc \in {"build", "alloc", "read"} =>
       /\ taken >= 1
       /\ buf[BufferOf(taken)] = IF arrived < taken + ETH_RX_DESC_CNT
                                 THEN taken ELSE taken + ETH_RX_DESC_CNT

KeptInv ==
  /\ kept \subseteq 1 .. taken
  /\ pc \in {"build", "alloc"} \/ InHand = 1 => taken >= 1 /\ taken \notin kept

(* Why TxRingAgrees and WireInOrder hold: n descriptors from the DMA's     *)
(* position on are the DMA's, CurTxDesc is behind them, and what they hold *)
(* continues what was sent last and ends with the end of a frame.          *)
Whole(a) == a.p = a.of /\ a.f <= outputs
SendRing(n) ==
  /\ CurTxDesc = INCR_TX_DESC_INDEX(dmaTx, n)
  /\ \A d \in TxDesc : txown[d] = "dma" <=> (d - dmaTx) % ETH_TX_DESC_CNT < n
SendQueue(n) ==
  LET at(j) == txfrag[INCR_TX_DESC_INDEX(dmaTx, j)]
  IN  IF n = 0 THEN Whole(wire)
      ELSE /\ Follows(wire, at(0))
           /\ \A j \in 0 .. n - 2 : Follows(at(j), at(j + 1))
           /\ Whole(at(n - 1))

TxInv == \E n \in 0 .. ETH_TX_DESC_CNT : SendRing(n) /\ SendQueue(n)

IInv ==
  /\ TypeOK /\ RxInv /\ RxRingAgrees /\ KeptInv /\ PoolConserved /\ TxInv

(* "They will return back to DMA after been processed by the stack"        *)
(* (ethernetif.c:55-56): the buffer of a frame the stack is to read, or    *)
(* holds, is not written.                                                  *)
ReturnedAfterProcessing ==
  pc = "read" => buf[BufferOf(taken)] = taken
=============================================================================
