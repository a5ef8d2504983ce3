# A verification of the XUANWU ROV bootloader in TLA+

The program (`src/Src`, `src/Inc`) is the bootloader of an STM32H743 board: it
waits a few seconds for a PC to upload a new application over TFTP, writes the
upload to the flash and jumps to the application at 0x08020000.  A TCP
connection shows the PC the countdown.  It runs on the lwIP 2.0.3 raw API
without an operating system: one endless loop in `main.c`, which handles at
most one received frame per call of `ethernetif_input`, every callback from
there to its end.

## 1. Inventory

| Part | State | Operations | Interacts with |
|---|---|---|---|
| Main loop, jump (`main.c`, `iap.c`) | `t`, `wait_time`, `wait_flag`, `is_oneshot` | a pass of the loop, `iap_load_app` | reads `upload_flag` and bit 5 of `tcp_server_flag`, resets `upload_flag`; calls `ethernetif_input` in up to three places of a pass |
| TFTP server, write side (`tftpserver.c`, `tftputils.c`) | `upload_flag`, `FLASH_APP1_ADDR`, one `tftp_connection_args` and one `udp_pcb` per session | write request, packet of a session, end of a session | called by lwIP; calls `STMFLASH_Write`; shares `upload_flag` with the main loop |
| TFTP server, read side (`tftpserver.c`) | the same args | read request, ACK of a session | called by lwIP |
| Flash writer (`stmflash.c`, HAL flash) | the flash, the address it writes to | `STMFLASH_Write`, sector erase, flash-word program | called by the TFTP server; the main loop tests the vectors it leaves |
| TCP console (`tcp_echoserver.c`) | `tcppcbnew`, `tcp_server_flag`, an `es` per connection | accept, receive, sent, poll, error, close, send from the main loop | called by lwIP and by the main loop |
| Ethernet interface (`ethernetif.c`, `lwip.c`) | receive and send descriptors, `RX_POOL` | receive a frame, free its pbuf, send a frame | called by the main loop and by lwIP; the DMA works beside it |
| lwIP, HAL, CMSIS, PHY driver | | | vendored |
| Waveforms, board initialisation, interrupts | registers | straight-line set-up | none with the above but the tick |
| `tcpserver.c`, `tcpclient.c`, `app_ethernet.c`, `debug.c` | | never called | |

What is hard here:

* *Interleaving.*  A frame may be handled between any two steps of the main
  loop, and between a test of `upload_flag` and its assignment (`main.c:182-191`).
* *Network.*  TFTP runs over UDP: packets are lost, repeated, reordered;
  requests are retried; clients give up.  The server has no timer.
* *DMA.*  It fills receive buffers and empties send buffers while the main loop
  works, and a call that sends may return before the frame has left.
* *Memory.*  The console keeps a pointer to a pcb that lwIP has freed.
* *Flash.*  Erasing is per sector and programming per flash word, a block is
  neither; either operation may fail, a program operation also after it has
  written, and the board may be reset in between.
* *Limits.*  Four `udp_pcb`s, five `tcp_pcb`s, a heap for two sessions, four
  descriptors of a ring, ten receive pbufs, 32-bit counters.

What makes each part correct:

* flash writer: the bootloader's sector is never touched; only erased words are
  programmed; what is stored stays and is what was written, in order (the last
  two until an operation fails in a way section 4 names); every write returns;
* TFTP server: what a session stores is the client's file in order; what is
  acknowledged is stored; a session ends with the whole file; `upload_flag`
  tells the main loop whether an upload runs; every upload completes;
* main loop: it leaves only after a whole countdown without an upload (but for
  the uploads whose flag line 191 resets); it never stays stopped without an
  upload; with an application in the flash it gets there;
* the board: with no session open its flash begins with a whole file, or with what
  a reset or an ERROR has left of one;
* TFTP server, read side: it stays in step with its client, and a client that
  takes the file for complete has all of it;
* Ethernet interface: main loop and DMA agree on who owns which descriptor; no
  pbuf is lost; frames leave whole and in order; every received frame is taken;
* TCP console: every connection has its own `es`, freed once; a single console
  is the one that is written to; every close comes to its end.

What each part promises, and where it may fail, is listed line by line as
`hazards` in `PROJECT.json`, with the properties that would catch it.

## 2. Modules

| Module | Models | Composes / refines |
|---|---|---|
| `FlashImage` | what the flash writer promises: an append-only log | |
| `FlashWriter` | `STMFLASH_Write` with the two HAL operations | implements `FlashImage` |
| `BlockTransfer` | what TFTP promises its two ends: a file goes over block by block | |
| `TftpServer` | write side of `tftpserver.c`, its clients and the network | uses the log for `STMFLASH_Write`, implements `BlockTransfer` |
| `BootMain` | loop of `main.c`, `iap_load_app` | frames are abstract |
| `Bootloader` | the TFTP server inside the main loop, and resets | extends `TftpServer`, takes the loop from an instance of `BootMain`, implements `BootMain` |
| `RrqServer` | read side of `tftpserver.c`, its clients and the network | implements `BlockTransfer` |
| `FrameQueue` | what the send ring promises the stack: a queue of a fixed size | |
| `EthernetIf` | `ethernetif.c` over the descriptor rings of the HAL | implements `FrameQueue` |
| `TcpConsole` | `tcp_echoserver.c` over the pcbs of lwIP | |
| `FlashWriter_proofs`, `TftpServer_proofs`, `BootMain_proofs`, `Bootloader_proofs`, `RrqServer_proofs`, `EthernetIf_proofs`, `TcpConsole_proofs` | proofs about the module of that name | |
| `MC...` | the instances TLC checks | |

The modules meet where the code does.  `FlashWriter` lies below `TftpServer`:
it justifies that a write is one append, as long as no flash operation fails;
what failing ones do to an upload is seen in `FlashWriter` alone.  `TftpServer`
lies below `BootMain`: `Bootloader` puts the two together.  `EthernetIf` lies
below all of them: what it may do to frames (lose them, deliver them late) the
networks of `TftpServer` and `RrqServer` may do, too.  `TcpConsole` meets the
main loop in bit 5 of `tcp_server_flag` alone, and the TFTP side in the heap
(`HeapShared`).

### FlashWriter: `Src/stmflash.c`

Time is cut where the hardware works: one action is one HAL operation or one
read of the scan.  `pc` is `"scan"` in the loop of lines 52-66 and `"program"`
in that of lines 71-81.

| Model | Code |
|---|---|
| `flash` | the words from `STM32_FLASH_BASE` on, bank 1 and bank 2 |
| `WriteAddr` | `*WriteAddr`, that is `FLASH_APP1_ADDR` of `tftpserver.c`: the call leaves it behind the last flash word |
| `addrx`, `endaddr`, `pBuffer` | the locals of the call |
| `Call` | entry, lines 36-51; the caller's buffer is `data_buffer`, zero behind the payload |
| `ScanBlank`, `EraseSector`, `EraseFails`, `ScanDone` | lines 52-68 with `HAL_FLASHEx_Erase` |
| `ProgramFlashWord`, `ProgramDone` | lines 71-83 with `HAL_FLASH_Program` |
| `ProgramFails` | `HAL_FLASH_Program` reports an error of its first wait, nothing is written |
| `ProgramFailsLate` | it reports an error of its second wait, after it wrote: `*WriteAddr` stays on words that are no longer erased |
| `STMFLASH_GetFlashSector` | lines 14-24, and that it answers 7 for every address behind |
| `Reset` | a reset in between; RAM is initialised again, the flash is not |
| `lateError` | history variable: `ProgramFailsLate` has happened; a reset does not undo what it left |

A word is `Blank` (0xFFFFFFFF), `Corrupt` (programmed twice) or data; an image
that is not a multiple of the flash word is padded with zeros as the code does.
`FlashImage` is the promise: `image` grows by whole flash words of what the
caller passed, in order, and nothing in it changes.  A failing call drops the rest
of its block.  The promise ends (`Break`) when a program operation reports its
error after it wrote: the next block's scan then meets words that are not erased
and erases their sector, blocks of the same upload included, and in later uploads
the words left there may again be met behind blocks just stored.  The refinement
mapping is `image <- Image` (what can be read back between `FLASH_APP1_ADDR_0`
and `WriteAddr`), `pending <- pBuffer` and `broken <- lateError`.

### TftpServer: `Src/tftpserver.c`, write side

One action is one received frame, since a callback runs to its end before the
next call of `ethernetif_input`.

| Model | Code |
|---|---|
| `upload_flag` | the global of line 16 |
| `session` | the `udp_pcb`s with `wrq_recv_callback` and their `tftp_connection_args`; the client they are connected to and `args->block` |
| `ports` | `udp_port` of lwIP: each session has a local port of its own |
| `image` | the blocks behind `FLASH_APP1_ADDR_0`, each with the session that stored it (`STMFLASH_Write` as an append, which `FlashWriter` justifies when no flash operation fails) |
| `process_tftp_request` | lines 536-592 and `tftp_process_write`: no pcb, no memory, or a session and ACK 0 |
| `UnknownRequest` | the default branch of lines 584-590: an error, and the pcb is given back (`UnknownOps` says whether there are such requests) |
| `wrq_recv_callback` | lines 397-480: store or not, acknowledge, end the session |
| `udp_input_no_pcb` | `udp_input` finds no pcb for the packet |
| `FinishSeen` | `main.c:182-191` as far as this flag goes |
| `Overwritten` | the same for a request that comes in the frame of `main.c:186`: its `upload_flag = 1` is overwritten by line 191 |
| `requests`, `toServer`, `toClient` | packets in flight; sets, so any order |
| `Client...`, `Adopt`, `Advance`, `Reject`, `GiveUp`, `Ignore` | a client as RFC 1350 describes it (external) |
| `Deliver`, `Lose` | the network (external): packets of the kinds in `Faulty` are lost or arrive again |

The opcode of a packet is not looked at by the code, nor by the model: an ERROR
packet is a short packet whose "block" is its error code.  The check of line 406
never fails since a 516-byte datagram is one pbuf.  Repeating a packet that is
already in the set adds nothing, so retries need no counter; what bounds the
state is the number of ports handed out (`MaxRequests`).

`BlockTransfer` is what an upload is to its two ends: the receiver takes block
after block, each once, and only when the sender knows it to have all before.  The
mapping says who knows what: `taken` are the blocks stored by the session the
client adopted, `known` those acknowledged to it (`acked`), `done` the clients
that ended with success.  Sessions that a repeated request opened are not seen
from there: the theorem is that they disturb nothing.  The empty block that ends
some files is not a block of the transfer, as it stores nothing.

### BootMain: `Src/main.c:88-220`, `Src/iap.c`

One action is the code between two calls of `ethernetif_input`, because this is
where the variables of the loop may be changed by a frame; an interrupt changes
none of them.  `pc` names the place.

| Model | Code |
|---|---|
| `t`, `wait_time`, `wait_flag`, `is_oneshot` | the locals of `main` (the first two 32-bit, modulo `U32`) |
| `connected` | `tcp_server_flag & (1<<5)`, never cleared |
| `upload_flag`, `uploads` | of `tftpserver.c`, and the sessions open there |
| `vector` | what lines 197 and `iap.c:16` find at 0x08020000 |
| `quiet` | history variable: passes counted since a session was open |
| `unheld` | history variable: a session is open and one was when line 191 reset `upload_flag` |
| `Top`, `TellWait`, `Flag`, `TellStart`, `TellFinish`, `Finish`, `Check`, `TellIllegal`, `iap_load_app`, `Poll` | the loop, in order |
| `InWait`, `InStart`, `InFinish`, `InIllegal`, `MX_LWIP_Process` | those of them that call `ethernetif_input`, with a frame |
| `Frame` | what one frame may do: nothing of interest, a connection, a write request with or without memory for it, a request that opens no write session, a block, the last block |

### Bootloader: the two together

`Bootloader` extends `TftpServer` and takes the loop from `BootMain` through
`Main == INSTANCE BootMain WITH uploads <- Cardinality(DOMAIN session), ...`.
`LoopFrame` is a call of `ethernetif_input` at one of the loop's five places,
handling one frame of `TftpServer` (or of the console, or none); `LoopStep` the
code between two calls, where line 191 is `Main!Finish` and not `Overwritten`;
`Outside` clients and network.  `stored` is what the flash holds where the
application begins, which outlives a reset, while `image` is what was written
since; `old` are the vectors the board was delivered with. `Reset` initialises
the RAM again, lwIP's `udp_port` included, so that packets of an upload before
it meet sessions with the same ports; it may strike between the erase and the
programming of the first block (`FlashAtReset`). `ImplementsMain` says that all
of this, without the resets, are steps of `BootMain`: its abstract frames are
not a guess.

### RrqServer: `Src/tftpserver.c`, read side

| Model | Code |
|---|---|
| `session` | the pcbs with `rrq_recv_callback`; `args->block`, `args->data_len`, the client |
| `total_block`, `DataLen` | lines 249-267, the empty last block included |
| `tftp_send_next_block` | lines 244-284 |
| `process_tftp_request` | lines 536-574 with `tftp_process_read`: no pcb, no memory, or a session and block 1 |
| `UnknownRequest` | the default branch of lines 584-590, as in `TftpServer` |
| `rrq_recv_callback` | lines 295-337: end of the session, the next block, or the same again |
| `Client...`, `TakeBlock`, `OldBlock`, `Reject`, `GiveUp` | the client (external); it may acknowledge a block it has again, or not |

The code has no timer: what is lost is sent again because the client repeats its
acknowledgement.  The kinds of packets that may be lost are told apart once
more: `"LAST"` is the DATA that ends a file, since the session is closed by
whatever comes after it.

The module implements `BlockTransfer` with the roles exchanged: `taken` are the
blocks the client has (`got`), and what the server knows of them is in
`args->block` of the client's session, which is one past it; of a session that
is gone, that everything up to the last block had arrived.

### EthernetIf: `Src/ethernetif.c`, `stm32h7xx_hal_eth.c`

One action is a step of the main loop that a step of the DMA may come before or
after, or one descriptor of the DMA.  A received frame is its number.

| Model | Code |
|---|---|
| `own`, `buf`, `CurRxDesc`, `FirstAppDesc`, `AppDescNbr` | the receive ring of `heth`, and `Rx_Buff` |
| `HAL_ETH_IsRxDataAvailable`, `HAL_ETH_BuildRxDescriptors`, `pbuf_alloced_custom`, `Read`, `Handled` | `low_level_input`, lines 398-430, and `ethernetif_input` |
| `pool`, `kept`, `FreeKept` | `RX_POOL`; pbufs the stack keeps (out-of-order segments) or the console never frees; `pbuf_free_custom` |
| `txown`, `txfrag`, `CurTxDesc`, `gState` | the send ring |
| `low_level_output`, `TransmitEnds` | lines 351-388 with `HAL_ETH_Transmit`: refused, sent, timed out, bus error |
| `DmaReceive`, `DmaSend`, `dmaRx`, `dmaTx` | the DMA (external) |
| `wire`, `arrived`, `taken`, `outputs` | history variables |

`FrameQueue` is what the send ring amounts to: a queue of as many parts as there
are descriptors, into which a frame goes whole or not at all.  The mapping reads
the queue off the ring, from the DMA's position on, as many descriptors as are
the DMA's (`InRing`, all of them when the indices meet and the ring is full).

### TcpConsole: `Src/tcp_echoserver.c`

`tcp_listen` frees the pcb that `tcppcbnew` points to, and `tcp_server_usersent`
writes to whatever connection has got that memory since, or aborts it when it
has none.  The module therefore keeps lwIP's pool as `memp.c` does, a list
through the free elements (`free`, `link`), with what freeing an element twice
does to it.  A pcb has its state, its connection, its argument (which stays in
freed memory), what is queued, and whether the window is owed.  The callbacks
are actions of the same names; `tcp_close` is `CloseReset` or `CloseFin`.  Where
the code no longer determines what happens (a freed `es` or pbuf is used, a pcb
is registered twice) the model stops with `fault` set.

## 3. Runs

Passing runs.

| Run | Shows |
|---|---|
| `flash_writer` | within bank 1, for images without an erased word at a sector head, with program errors before and after the write and with resets: only erased flash words are programmed (`ProgramsErased`) and the writer is a log (`ImplementsLog`), both until an error after the write; every call returns (`WriteReturns`), after such an error too |
| `flash_faults` | with erase errors, both kinds of program errors, erased words at sector heads and an upload into bank 2 the bootloader's sector still never changes |
| `tftp_sequential` | one upload at a time, DATA and ACK lost, repeated, reordered: a session ends only with the whole file (`EndMeansWholeFile`), `upload_flag` is 1 from a session's first step to its last and no longer, unless the request came in the frame of `main.c:186` (`HeldWhileOpen`), an upload lies in one piece in the flash (`InOnePiece`), and every upload gets there (`Uploaded`) |
| `tftp_hostile` | two uploads at once, requests repeated into second sessions, requests of no known kind, memory exhausted, clients that give up: blocks are stored once and in order (`StoredInOrder`), what is acknowledged is stored (`AckMeansStored`), clients and server carry out transfers of `BlockTransfer`, where a client that is done has its file in flash (`ImplementsTransfer`) |
| `boot_main` | any vectors before and after, two sessions at once, refused requests and those that open nothing, requests in the frame of line 186, counters that wrap: a jump only after a whole countdown without an upload, or under one that was open when line 191 reset the flag (`FullCountdown`), the countdown never stops without one (`HeldForUpload`), the seconds told are the seconds left (`WaitTimeTells`), and with an application in the flash the board starts it (`Boots`) |
| `bootloader` | the real frames in the real loop, with a reset at any time: the loop is `BootMain` (`ImplementsMain`), `FullCountdown` again with requests in the frame of line 186; with clients that vanish or abandon their uploads the flash begins with a whole file whenever no session is open, unless that file's client sent an ERROR or the reset cut it off (`WholeUnlessAborted`), no session takes packets meant for one before the reset (`SessionsOwnBlocks`) |
| `rrq_server` | requests, blocks and acknowledgements lost, repeated, retried, and requests of no known kind: server and clients carry out transfers of `BlockTransfer`, the server never more than a block ahead (`ImplementsTransfer`), a client that is done has every byte (`DoneMeansAllBytes`), a session ends only after the file (`EndsAfterFile`), every read completes (`ReadCompletes`) |
| `ethernetif` | main loop and DMA agree on the receive ring (`RxRingAgrees`), the send ring is the queue `FrameQueue` (`ImplementsQueue`), a frame that is read is intact unless the ring went round (`ReadsItsFrame`), no pbuf is lost (`PoolConserved`), frames leave whole and in order in spite of timeouts (`WireInOrder`), every received frame is taken (`EveryFrameTaken`) |
| `tcp_console` | the `es` structures are conserved (`EsConserved`), a single console is always the one written to (`OnlyOneIsServed`), only the pcb of `tcppcbnew` is ever twice in the pool (`OnlyTheFirstIsShared`), every close completes (`CloseCompletes`) |

Runs that find a disagreement between the code and what it says of itself; each
is an entry of `findings` in `PROJECT.json` with both places.

| Run | Property | Disagreement |
|---|---|---|
| `flash_gap` | `StoredKept` | the erase decided word by word hits blocks of the same upload when an erased word at a sector head hid an old image |
| `tftp_second_upload` | `StartsAtApp` | a second upload is stored behind the first, the jump goes to the first |
| `boot_aborted_upload` | `JumpsToWholeImage` | an ERROR packet ends the upload as finished; the board starts a part of an application |

Seen in the code as well, each with a cfg that shows it but without a run in
`PROJECT.json`.  All of them end in a violation but `BootRepeated`:

| cfg, module | Property | Seen |
|---|---|---|
| `FlashBank2`, `MCFlashWriter` | `EraseClearsTheWord` | for an address in bank 2 the erase clears sector 7 of bank 1, again and again, never the word in the way |
| `TftpErrorEnds`, `MCTftpServer` | `EndMeansWholeFile` | the ERROR packet of `boot_aborted_upload`, in the server alone |
| `FlashLateError`, `MCFlashWriter` | `StoredKept` | a program operation reports an error after it wrote; the next block meets words that are not erased and erases the sector with the blocks before it |
| `BootLateRequest`, `MCBootMain` | `JumpsWhenQuiet` | a write request handled while "Write File Finish!" is sent is forgotten by `upload_flag=0`; the board jumps in the middle of that upload |
| `BootRepeated`, `MCBootloader` | `FullCountdown`, `WholeUnlessAborted` | passes: with repeated requests and no reset a second session, rejected by its client, sets the flag to 2 under the first.  The board may then jump in mid-upload, which `FullCountdown` names; but when no session is open the flash begins with a whole file |
| `BootOutlived`, `MCBootloader` | `WholeUnlessAborted` | a repeated request that outlives a reset opens a session on the port its client's late blocks go to, beside the session of the next upload; the two mix in the flash |
| `BootBadStack`, `MCBootMain` | `JumpReachesApp` | `iap_load_app` returns with the tick stopped, the loop hangs in `HAL_Delay` |
| `RrqLastBlock`, `MCRrqServer` | `LostBlockResent` | the last block is not sent again when it is lost (`tftpserver.c:316-317` says it is, line 323 ends the session) |
| `EthernetBuffers`, `MCEthernetIf` | `ReturnedAfterProcessing` | the buffer of a frame is the DMA's again before the stack has read it (`ethernetif.c:55-56` says after) |
| `TcpTwice`, `MCTcpConsole` | `NeverRegisteredTwice` | after a console has gone the freed pcb is aborted every second, and two new connections get the same memory (`tcp_priv.h:349`) |

and without a cfg: `FlagTells` of `TcpConsole`, since bit 5 of `tcp_server_flag`
is never cleared (`tcp_echoserver.c:42`); a failed erase is followed by
programming over what is there (with `"erase"` in `Faults` TLC violates
`ProgramsErased`); an ERROR packet whose code is the expected block number is
stored as data (`AbortCodes = {1}` violates `StoredInOrder`); `is_oneshot` is
never cleared, so during a second upload the client is told "Wait Time" again
although the count is held at its start; the operating steps speak of a
countdown of 10 s, the comment of `main.c:51` of 3 s and 5000 ms, the code
counts 3 s.

### Bounds and why they are enough

* Flash: flash words of two words (eight in the hardware), three sectors of two
  or six words (or four each) in bank 1 and part of bank 2, one of them the
  bootloader's.  A block (`MaxWords` 3 or 4) is no multiple of a flash word
  and may cross a sector, a sector takes several blocks, and `Limit` lets an
  upload reach every sector.  Every program operation may fail, before or after it
  wrote.  Contents are erased, not erased, corrupt: the code
  compares words with 0xFFFFFFFF only.  The theorems hold for every geometry.
* TFTP write side: files of two or three blocks have a first, a middle and a last
  block, and one of the two clients has a file that ends with an empty packet.
  Two clients, two ports: two sessions at a time of different clients or of the
  same, or one after the other.  In `tftp_hostile` `MaxPcbs` = 3 stands for the
  four of `lwipopts.h`, so that the pool matters with two sessions; `HeapShared`
  lets the heap fail at any time, since the TCP side takes from it too.  The
  first acknowledgement is not repeated there and errors to clients are neither
  lost nor repeated, to keep the run small (an acknowledgement that is never
  delivered is in any case among the behaviours); the theorems have them all.
* Main loop: three passes to a second and nine to the jump (the code, with
  passes of 10 ms and 3 s, has 100 and 300); `U32` = 32, like 2^32 no multiple
  of the passes of a second, so that a wrapped counter meets the comparisons of
  lines 157 and 195 out of step.  Two sessions and three requests: two uploads
  that overlap or follow each other, with one refused or one that opens
  nothing, each in any of the loop's frames, that of line 186 among them.
  `MaxSessions` and the place of a request are free in the theorems.
* Board: two passes to a second and one second to the jump, so that the loop
  goes through "Wait Time" and the jump while uploads run; one reset, which may
  cut an upload, leave an old image, or make ports the same again; two clients,
  one before and one after it, of which either may abandon its upload.
  `Faulty` is empty: a client may send a block again as often as it likes, a
  packet may stay under way for ever, and a safety property cannot tell that
  from a loss.  Requests are not repeated (`BootRepeated` and `BootOutlived` do
  that), but may come in any frame of the loop.  The number of resets and
  passes is free in the theorems.
* TFTP read side: three full blocks and an empty one (`TotBytes` is a multiple of
  the block as 10 MiB is), three sessions of one client through retried requests.
  Sessions of different clients share nothing but the pcbs and the heap, which
  `HeapShared` takes away at any time.  The theorems hold for any number of
  clients and for files of every size.
* Ethernet: rings of three (four in the code) that five frames go round; up to
  three frames of one to four pbufs, that is of one or two descriptors or too
  many, so that a ring is full while a timed-out frame is still in it; a pool of
  two that two held pbufs exhaust.  The theorems hold for every size.
* Console: three pcbs (five in the code) for three connections, two at once: a
  connection with the memory of `tcppcbnew`, one with another, and one that
  comes when the first has gone.  A queue of one message (nine in the code).

`Reset` is part of `FlashWriter` and of `Bootloader`, where something outlives
it.  `BootMain` begins with any vectors a reset may find.

### Fairness and deadlock

* `FlashWriter`: the HAL operations and the loops around them go on (one
  processor, no task to wait for).  A reset may come at any time and is not fair.
* `TftpServer`: `process_tftp_request` and `FinishSeen` are weakly fair because
  the main loop polls for ever and handles what it finds.  A client sends its
  block again until it is acknowledged (`WF` of `ClientSend`), and of what is
  sent again and again something arrives (`SF` of `BlockArrives` and
  `AckArrives`): the usual fair-loss channel.  Nothing is assumed of losses.
* `RrqServer`: the same, with the roles exchanged: the client repeats its last
  acknowledgement (`ClientAckAgain`).  `"LAST"` is not in `Faulty` of the run:
  a last block that is lost is lost for good (`RrqLastBlock`).
* `BootMain`: `WF_vars(Next)` is the endless loop; `SF_vars(LastBlockArrives)`
  is a client that sends an open upload to its end.  The code has no timeout
  for clients that vanish: without this assumption `Boots` fails, a hazard that
  is listed and not hidden.
* `Bootloader` has safety properties only and states no fairness.
* `EthernetIf`: the main loop goes on (`Input`, `TransmitEnds`, whose timeout is
  20 ms of the tick).  Nothing is assumed of the DMA that sends.
* `TcpConsole`: lwIP's poll timer runs, and a client repeats its FIN and its last
  ACK until they are answered.

Deadlock is checked for the flash writer.  It is switched off where the model
stops as it should: `TftpServer` and `RrqServer` when all clients are done or
have failed and nothing is in flight, `BootMain` and `Bootloader` in the
application or hung, `EthernetIf` when its frames are used up, `TcpConsole` when
its connections are, or at a fault.

## 4. Theorems

TLAPS checks them for all values of the constants, under the assumptions named
in the modules (`GeometryAssumption`, `DataAssumption`, `TftpAssumption`,
`BootAssumption`, `BootloaderAssumption`, `RrqAssumption`, `EthAssumption`,
`TcpAssumption`: types, rings of two descriptors at least, one pcb more than
connections at once, and for the flash what a sector table is).

| Theorem | Needs | Says |
|---|---|---|
| `FlashWriter_proofs!TypeCorrect` | | types |
| `BootloaderNeverTouched` | | `BootloaderKept`, with every error, image and reset, past bank 1 |
| `InvCorrect`, `ProgramsErasedCorrect` | `Careful` | `IInv`, `ProgramsErased`, both until a program operation reports an error after it wrote |
| `Implements` | `Careful` | `FlashWriter` implements `FlashImage`, a log until a late program error |
| `StoredUntilLateErrorCorrect` | `Careful` | no erase hits what this upload has stored, until a late program error |
| `EraseClearsCorrect`, `CallsRunOutCorrect` | `Limit <= Bank2` | an erase clears the word in the way; every step of a call brings it nearer to its end |
| `TftpServer_proofs!TypeCorrect` | | types |
| `InvCorrect`, `StoredInOrderCorrect`, `AckMeansStoredCorrect`, `DoneMeansStoredCorrect` | `Polite` | the safety of the protocol |
| `WritesTransfer` | `Polite` | `TftpServer` implements `BlockTransfer` |
| `InOnePieceCorrect` | `Polite`, `~Overlap` | `InOnePiece` |
| `EndMeansWholeFileCorrect` | `Steady` | a session ends only with the whole file, for overlapping uploads too |
| `HeldWhileOpenCorrect` | `OneAtATime`, `~HeapShared` | `HeldWhileOpen`, which excepts the request in the frame of `main.c:186` |
| `BootMain_proofs!TypeCorrect`, `HeldCorrect` | | types, `HeldForUpload` |
| `InvCorrect`, `FullCountdownCorrect`, `WaitTimeTellsCorrect` | | `IInv`, `FullCountdown`, `WaitTimeTells` |
| `Bootloader_proofs!BoardTypeCorrect` | | types of the board |
| `RefinesMain` | | the board, resets apart, implements `BootMain` |
| `BoardFullCountdown` | | `FullCountdown` with the real frames and any number of resets |
| `SessionsOwnBlocksCorrect` | | `SessionsOwnBlocks`, with any number of resets |
| `WholeUnlessAbortedCorrect` | `OneAtATime` | `WholeUnlessAborted`, with any number of resets |
| `JumpsToWholeImageCorrect` | `OneAtATime`, `Steady` | `JumpsToWholeImage` |
| `RrqServer_proofs!TypeCorrect`, `InStepCorrect`, `DoneMeansAllBytesCorrect`, `EndsAfterFileCorrect` | | the safety of the read side |
| `ReadsTransfer` | | `RrqServer` implements `BlockTransfer` |
| `EthernetIf_proofs!TypeCorrect`, `RxRingCorrect`, `ReadsItsFrameCorrect`, `PoolCorrect` | | types, the receive ring, the buffer that is read, the pool |
| `TxRingCorrect`, `WireInOrderCorrect` | | the send ring, the order of what leaves it |
| `SendsAsAQueue` | | `EthernetIf` implements `FrameQueue` |
| `TcpConsole_proofs!TypeCorrect`, `EsConservedCorrect` | | types, the es structures |
| `OnlyTheFirstIsSharedCorrect`, `OnlyOneIsServedCorrect` | | which pcb is given out twice, and which one `main` writes to |

*Careful* is what `STMFLASH_Write` relies on and does not ensure: no erased
word at a sector head of an image, no erase that fails, uploads within bank 1.
Each of the three is needed: `flash_gap`, `FlashBank2.cfg` and the remark on
erase errors show what happens otherwise.  The argument: the scan stops at
`endaddr`, but the last flash word reaches beyond it.  So `ProgramsErased`
alone is not inductive; `IInv` adds that the rest of every sector already
entered is erased from `WriteAddr` on (`ErasedAhead`), which holds because a
sector is erased as a whole when its head is found not erased, or was erased as
a whole when it is (`NoGap`), and that entered sectors have a head that is not
erased (`EnteredHeads`), so that no later `NoGap` is spoilt.  A program
operation that reports its error after it wrote (`lateError`) ends all of this:
words behind `WriteAddr` are then not erased.  `IInv` is therefore `BaseInv`,
which holds whatever fails, and until such an error `LogInv`, the rest.
`ProgramsErased` makes the same proviso, and TLC finds it violated without:
what the failed operation left may lie behind `endaddr` of a later, shorter
block.  `BootloaderKept` needs only `BaseInv`: addresses that are aligned and
never below the application, and that the sector found for an address begins at
or below it.

`StoredKept` is the promise `flash_gap` finds broken, by an erased word at a
sector head, and `FlashLateError.cfg`, by a late program error.
`StoredUntilLateErrorCorrect` says that it takes one of the two, or an erase
that fails or an upload beyond bank 1.  An error before the write does not
break it: the failed flash word is erased still, and the next block goes there.
`EraseClearsCorrect` and `CallsRunOutCorrect` need only that uploads stay
within bank 1 (`Limit <= Bank2`), which `FlashBank2.cfg` shows to be needed:
past it the erase never clears the word in the way.  `CallsRunOut` is the part
of `WriteReturns` that can be proved here: `WorkLeft` counts the looks at words
still to come, two for each word since an erase makes the scan look again, and
the words still to program; every step of a call, failures included, makes it
smaller.  That steps are taken at all is fairness, and TLC's.

*Polite*: clients abandon with error codes that are no block numbers of their
file.  `StoredInOrder` is not inductive: it needs that a session has stored
exactly the blocks up to `args->block` (`SessionInv`), that only a client's
adopted session is sent DATA and that an ERROR is never what a session waits for
(`PacketInv`), and that ports not yet handed out have stored nothing
(`ImageInv`).  `AckMeansStored` then survives because the image only grows, and
`DoneMeansStored` follows from the last acknowledgement.

`WritesTransfer` looks at the same from the client.  A session that stores a block
must be the one its client adopted, and the client must have been told of all
blocks before, though a repeated request may open a second session with the
first still running.  `OneOwner` says that a port serves one client for good,
`Adopted` that only adopted sessions have stored anything, and `AckedStored` that
no DATA in flight and no stored block is more than one ahead of what its client
was told.  So when a session stores block n, its client knows of the n - 1 before
and of no more: `Take`; when a client moves on, it learns of the one block it
did not know of: `Learn`; everything else stutters.

`InOnePiece` needs in addition that clients wait for each other (`~Overlap`),
since `FLASH_APP1_ADDR` is shared.  It is not inductive: between two
blocks of an upload another session might store.  `OneUploader` says that a
client whose session is still open keeps the others from beginning, also when it
gave up, and `LastStored` that what such a client stored is the last in the flash;
so the next block of a session goes behind its own last one.

*Steady*: clients neither repeat a request nor send others than WRQ nor abandon an
upload; `TftpErrorEnds` shows that an abandoned one ends its session early, and a repeated request opens
a second session, which the client's ERROR ends.  `EndMeansWholeFile` then needs
that a client is answered by one session only (`OneSession`, so that no ERROR is
ever sent) and that no acknowledgement, no client and no DATA is ahead of the
session it belongs to (`NotAhead`): the short packet that ends a session comes
when all the full ones are stored.

*OneAtATime*: clients wait for each other, repeat no request and send none but
WRQ, so that there is one session at a time (`TakeTurns`).  `HeldWhileOpen`
needs this since the first of two sessions to end resets `upload_flag` under
the other, and memory for that session, since a refused request sets the flag
as well.  It excepts one session: that whose request came in the frame of
`main.c:186`, whose flag line 191 overwrites (`Overwritten`).  For that one it
says that the flag stays 0 to the end, when the last block sets it to 2.

The main loop: nothing is assumed of sessions and requests, of which there may
be any number in any frame.  What can go wrong is that line 191 resets
`upload_flag` under an open session; `unheld` says that this has happened and
that a session has been open ever since, and `FullCountdown` excepts the jump
then (`BootLateRequest.cfg` shows that there is one).  `IInv` says that an open
session shows in `upload_flag` unless it is unheld (`Shown`), that while the
flag is 0 and no session is unheld every pass counted in `t` was a quiet one,
and that the test of line 195 is reached with a full count only with the flag
at 0 (`Counted`).  `WaitInv` adds what is told: while there is something to
jump to and no upload, `t` and `wait_time` seconds make up the whole count,
rounded up to a second, and `t` has not gone past the jump; so neither wraps,
and where "Wait Time" is sent the sum is exact.

The board: `RefinesMain` takes every step of `Bootloader` to a step of
`BootMain`: a frame of `TftpServer` to the abstract frame it amounts to, by
what it does to the number of sessions and to `vector`, clients and network to
a stutter.  `BoardFullCountdown` is then the invariant of `BootMain` carried
over, with a reset leading back to its initial states.  `SessionsOwnBlocks`
needs that ports not handed out since the reset have stored nothing since.  For
`WholeUnlessAborted` the invariants of `TftpServer` do not do, since packets
and clients outlive a reset and what they speak of is gone.  What outlives it
as well is that a client is answered once, in all power-ons together, and sends
nothing but the blocks of its file until it may send an ERROR (`Answers`); so a
client that has a session now was answered by it, and is not ahead of it
(`InStep`).  The image then begins with the blocks of its first session: those
up to `args->block` while it is open, after that a whole file or one its client
has abandoned (`FirstRun`), and the flash holds the image or, before its first
block, what an earlier power-on left (`FlashInv`).  None of this speaks of the
loop, so a request may come anywhere in it.  What is needed is `OneAtATime`:
with two sessions the blocks of both go to `FLASH_APP1_ADDR`, and
`BootOutlived.cfg` shows that a repeated request is enough for that over a
reset.  Without a reset it is not: `BootRepeated.cfg`, which TLC checks and
nothing proves.  `boot_aborted_upload` shows that the exception for an ERROR is
needed, and where there is none (*Steady*) `JumpsToWholeImage` follows: at a
jump that is not under an unheld upload no session is open (`FullCountdown`).

The read side: `InStep` is not inductive.  It needs that an acknowledgement in
flight is for the session its client adopted and for a block the client has
(`PacketInv`), and that no block in flight is ahead of its session
(`AnswerInv`); `DoneMeansAllBytes` needs that the bytes a client has are those
of the blocks it has (`ClientInv`) and that the blocks add up to the file, which
is a lemma about `total_block` and `DataLen` (`LastLength`) and holds for a
multiple of the block, too.  For `ReadsTransfer` each step of the client that
takes a block must find the server knowing of all before it, and each step of
the server must learn of what the client has.  That needs once more that a port
serves one client (`OneOwner`), that the session that answers a client with
nothing yet is open (`OpenWhenNew`), and that a session that is gone had sent
its last block to a client with all the others (`GoneAtEnd`): a session
ended early would leave a client the server knows nothing of.

The Ethernet interface: `RxInv` says that no more frames wait than the ring has
descriptors; since numbers less than a ring apart have different remainders
(`Different`), each of them has a buffer of its own, and a step of the DMA or
of the main loop disturbs one descriptor only.  It also carries from the moment
a frame is found what the stack will read: the buffer changes when the DMA gets
round to it, and then not again before the frame is read, since by then every
descriptor is waiting.  `PoolConserved` needs that a frame in hand is not among
those the stack holds (`KeptInv`).  For sending, `TxInv` says that n
descriptors from the DMA's position on are the DMA's (`SendRing`) and that what
they hold continues what was sent last and ends with the end of a frame
(`SendQueue`); `Transmit` makes n larger by the parts of a frame, `DmaSend`
smaller by one, and neither timeout nor bus error changes it.  `SendsAsAQueue`
reads that queue off the ring: laying the parts of a frame from `CurTxDesc` on
appends them (`QueueLaid`), a ring that has no room for all of them is left as
it is (`QueueRefuses`), and sending one takes the head away.  This is sharper
than `TxRingAgrees`, which it rests on: a frame is lost only if it did not fit,
so no free descriptor is ever taken for an occupied one.

The console: no pcb but `tcppcbnew` is in the pool more than once, or in it
while in use (`InPoolOnce`, which counts what points to a pcb: the head of the
pool and the pcbs that are not in use themselves).  Taking a pcb moves the head
along one pointer, giving one back replaces one, and `tcppcbnew` may be given
back as often as the loop likes: it then only hides what lay behind it.  As
long as there was one connection at a time the pool begins with `tcppcbnew`
whenever none is there (`FirstIsNext`).  `EsConserved` needs that a connection
still new to the board has no es, and that a pcb has none before
`tcp_echoserver_accept` and after the board's FIN (`EsInv`): the callbacks that
end a connection free the es of that pcb, and the abort of line 137 meets only
pcbs without one.

Only model-checked: liveness (`WriteReturns`, `Uploaded`, `Boots`,
`ReadCompletes`, `EveryFrameTaken`, `CloseCompletes`), which TLAPS does not do
under fairness.  Every safety property of a passing run is proved, each under
the assumption its row names.  `DoneMeansStored`, `InStep`, `TxRingAgrees`
and `JumpsToWholeImage` are proved and no longer in a passing run: what is checked
in their place says more.

## 5. Plan

Every component that keeps a state of its own is modelled, every safety property
of a passing run is proved, and `FlashWriter`, `TftpServer`, `RrqServer` and
`EthernetIf` are shown to implement abstract specifications, `Bootloader` to
implement `BootMain`.  What could follow:

* an abstract specification of the console, which writes to at most one
  connection and closes every one of them;
* a proof of what `BootRepeated.cfg` checks: with repeated requests and no reset a
  second session stores nothing, so that the flash begins with a whole file;
* failing flash operations under the TFTP server, whose acknowledgements do not
  know of them;
* the provable half of further liveness properties, as `CallsRunOut` is of
  `WriteReturns`.

The runs are kept few: a run that shows a disagreement gives way, where needed,
to a passing one (its cfg stays, section 3).

## 6. Not modelled

* lwIP, HAL and CMSIS, PHY driver: vendored, and by far the largest part of the
  tree, so that the modules map a small share of all its lines although they
  cover the program's own.  What the program depends on is in the modules that
  use it: pcbs and heap that run out, ports handed out in order, `udp_input`,
  the pool and the states of `tcp_pcb`s, flash operations, descriptor rings.
  Sequence numbers and retransmission of TCP, ARP, ICMP and IP are not.
* the link: `ethernet_link_check_state` is called once, by `low_level_init`
  (`ethernetif.c:322`); there is no state to follow.
* waveform outputs, board initialisation, interrupt handlers: straight-line
  register set-up with no state the loop reads but the tick;
* `tcpserver.c`, `tcpclient.c`, `app_ethernet.c`, `debug.c`: never called.

## 7. Running

    tlc -config MCFlashWriter.cfg MCFlashWriter      (and the other cfgs)
    tlapm FlashWriter_proofs.tla                     (and the other proofs)

`PROJECT.json` lists for every run its module, cfg and properties, for every
property a mutation of the code's model that violates it, and for every
definition the lines it stands for.
