----------------------------- MODULE TftpServer -----------------------------
(***************************************************************************)
(* The write side of Src/tftpserver.c over an unreliable network.          *)
(*                                                                         *)
(* Frames are handled one at a time (a single main loop, NO_SYS), so each  *)
(* callback is one action.  Every write request opens a session: a udp_pcb *)
(* connected to the client's address and port, with its                    *)
(* tftp_connection_args.  A session is named by its local port, numbered   *)
(* from 1 in the order udp_new_port hands them out.  Client endpoints are  *)
(* TIDs of RFC 1350: a new upload of the same PC is another Client.        *)
(* STMFLASH_Write is the append-only log FlashImage promises; the image is *)
(* a sequence of blocks, each with the session that stored it.             *)
(***************************************************************************)
EXTENDS Integers, Sequences, FiniteSets

CONSTANTS
  Client,        \* client endpoints
  FileBlocks,    \* DATA packets of a file; only the last has under 512 bytes
  EmptyLast,     \* clients whose last packet carries no byte at all
  MaxPcbs,       \* MEMP_NUM_UDP_PCB
  MaxArgs,       \* tftp_connection_args that fit into the heap
  HeapShared,    \* TRUE: other users of the heap may make mem_malloc fail
  MaxRequests,   \* bound: local ports handed out
  Faulty,        \* kinds of packets that may be lost, repeated, and retried
  Overlap,       \* TRUE: clients may request while another upload runs
  UnknownOps,    \* TRUE: requests may come that neither read nor write
  AbortCodes     \* error codes with which a client may abandon its upload

ASSUME TftpAssumption ==
  /\ FileBlocks \in Nat \ {0}
  /\ EmptyLast \subseteq Client
  /\ MaxPcbs \in Nat /\ MaxArgs \in Nat \ {0} /\ MaxRequests \in Nat
  /\ HeapShared \in BOOLEAN /\ Overlap \in BOOLEAN /\ UnknownOps \in BOOLEAN
  /\ Faulty \subseteq {"WRQ", "ACK0", "DATA", "ACK", "ERROR"}
  /\ AbortCodes \subseteq Nat

VARIABLES
  upload_flag,   \* 0 nothing to do, 1 upload started, 2 upload finished
  session,       \* local port -> args->remote_port and args->block
  ports,         \* local ports handed out so far (udp_port)
  image,         \* blocks stored behind FLASH_APP1_ADDR_0, in flash order
  requests,      \* write requests on their way to port 69
  toServer,      \* packets on their way to a session's port
  toClient,      \* packets on their way to a client
  cst,           \* client: "idle", "wrq", "send", "done" or "failed"
  tid,           \* client: the session it adopted, 0 before that
  acked          \* client: last block acknowledged

serverVars == <<upload_flag, session, ports, image>>
netVars    == <<requests, toServer, toClient>>
clientVars == <<cst, tid, acked>>
vars       == <<serverVars, netVars, clientVars>>

Port    == 1 .. MaxRequests
Session == [remote : Client, block : Nat]
Packet  == [to : Port, from : Client, op : {"DATA", "ERROR"}, block : Nat,
            size : {"full", "short", "none"}]
Answer  == [to : Client, from : Port, op : {"ACK", "ERROR"}, block : Nat]
Stored  == [session : Port, from : Client, op : {"DATA", "ERROR"}, block : Nat]

Kind(m) == IF m.op = "ACK" /\ m.block = 0 THEN "ACK0" ELSE m.op

(* m is taken off the network; a faulty network may deliver it again. *)
Deliver(net, m, kind) == {net \ {m}} \cup (IF kind \in Faulty THEN {net} ELSE {})

AckNext(s, c, n) == [to |-> c, from |-> s, op |-> "ACK", block |-> n + 1]
Ack(s, c, n)   == [to |-> c, from |-> s, op |-> "ACK", block |-> n]
Error(s, c, n) == [to |-> c, from |-> s, op |-> "ERROR", block |-> n]

(* What a client sends to session s: block n of its file, or an error, a   *)
(* packet with the code where DATA has its block number and with a text.   *)
Data(c, s, n) ==
  [to |-> s, from |-> c, op |-> "DATA", block |-> n,
   size |-> IF n < FileBlocks THEN "full"
            ELSE IF c \in EmptyLast THEN "none" ELSE "short"]
ClientError(c, s, code) ==
  [to |-> s, from |-> c, op |-> "ERROR", block |-> code, size |-> "short"]

Init ==
  /\ upload_flag = 0
  /\ session = << >>
  /\ ports = 0
  /\ image = << >>
  /\ requests = {} /\ toServer = {} /\ toClient = {}
  /\ cst = [c \in Client |-> "idle"]
  /\ tid = [c \in Client |-> 0]
  /\ acked = [c \in Client |-> 0]

-----------------------------------------------------------------------------
(* The server: process_tftp_request. *)

(* udp_connect binds the new pcb to the next local port. *)
SamePort == UNCHANGED ports
udp_new_port == ports' = ports + 1

(* Line 578; line 467 is Finish.  A request may come in the frame that     *)
(* main.c:186 handles between the test of line 182 and the store of line   *)
(* 191, which then overwrites its 1.  No client and no other frame can     *)
(* tell the three steps apart, so they are this one.                       *)
NotHeld == UNCHANGED upload_flag
Hold    == upload_flag' = 1
Overwritten  == upload_flag = 2 /\ upload_flag' = 0
FinishUnseen == UNCHANGED upload_flag
Finish       == upload_flag' = 2

(* Lines 507-512. *)
OpenedAsRead(c) == [remote |-> c, block |-> 1]
Opened(c)       == [remote |-> c, block |-> 0]

(* Lines 543-550: the pool of udp_pcbs is exhausted (one is the server's). *)
HasPcb == Cardinality(DOMAIN session) + 1 < MaxPcbs

NoPcb(c) ==
  /\ ~HasPcb
  /\ UNCHANGED <<serverVars, toClient>>

(* Lines 576-580 and 497-505: no memory for the args; upload_flag is set   *)
(* before that is known and stays set, and the pcb is given back.          *)
NoArgs(c) ==
  /\ HasPcb /\ ports < MaxRequests
  /\ HeapShared \/ Cardinality(DOMAIN session) >= MaxArgs
  /\ Hold \/ Overwritten
  /\ udp_new_port
  /\ toClient' = toClient \cup {Error(ports + 1, c, 0)}
  /\ UNCHANGED <<session, image>>

(* Lines 576-580 and 507-519: a session, answered by ACK 0. *)
OpenSession(c) ==
  /\ HasPcb /\ ports < MaxRequests
  /\ Cardinality(DOMAIN session) < MaxArgs
  /\ Hold \/ Overwritten
  /\ udp_new_port
  /\ session' = [s \in DOMAIN session \cup {ports + 1} |->
                   IF s = ports + 1 THEN Opened(c) ELSE session[s]]
  /\ toClient' = toClient \cup {Ack(ports + 1, c, 0)}
  /\ UNCHANGED image

process_tftp_request(c) ==
  /\ c \in requests
  /\ requests' \in Deliver(requests, c, "WRQ")
  /\ NoPcb(c) \/ NoArgs(c) \/ OpenSession(c)
  /\ UNCHANGED <<toServer, clientVars>>

(* Lines 584-590: a request from c that is neither RRQ nor WRQ is answered *)
(* by an error (TFTP_ERR_ACCESS_VIOLATION), and the pcb is given back.     *)
UnknownRequest(c) ==
  /\ UnknownOps
  /\ HasPcb /\ ports < MaxRequests
  /\ udp_new_port
  /\ toClient' = toClient \cup {Error(ports + 1, c, 2)}
  /\ UNCHANGED <<upload_flag, session, image, requests, toServer, clientVars>>

(* udp_input hands a session only what its remote endpoint sent: its pcb   *)
(* is connected.                                                           *)
OnPort(p)   == p.to \in DOMAIN session
FromPeer(p) == p.to \in DOMAIN session /\ session[p.to].remote = p.from

(* wrq_recv_callback, lines 397-480.  A packet is one pbuf and from the    *)
(* peer, so the check of line 406 never fails.  The opcode is not looked   *)
(* at.                                                                     *)
ExpectedOrRepeated(p) == p.block \in {session[p.to].block, session[p.to].block + 1}
Expected(p)           == p.block = session[p.to].block + 1
CarriesFullBlock(p) == p.size = "full"
CarriesData(p)      == p.size # "none"
LastOrEqual(p) == p.size \in {"full", "short", "none"}
LastPacket(p)  == p.size # "full"

wrq_recv_callback(p) ==
  /\ p \in toServer
  /\ FromPeer(p)
  /\ toServer' \in Deliver(toServer, p, p.op)
  /\ image' = IF Expected(p) /\ CarriesData(p)
              THEN Append(image, [session |-> p.to, from |-> p.from,
                                  op |-> p.op, block |-> p.block])
              ELSE image
  /\ LET n == IF Expected(p) THEN p.block ELSE session[p.to].block
     IN  /\ toClient' = toClient \cup {Ack(p.to, p.from, n)}
         /\ IF LastPacket(p)
            THEN /\ Finish
                 /\ session' = [s \in DOMAIN session \ {p.to} |-> session[s]]
            ELSE /\ session' = [session EXCEPT ![p.to].block = n]
                 /\ UNCHANGED upload_flag
  /\ UNCHANGED <<ports, requests, clientVars>>

(* udp_input finds no pcb: the packet is dropped (port unreachable). *)
udp_input_no_pcb(p) ==
  /\ p \in toServer
  /\ ~FromPeer(p)
  /\ toServer' \in Deliver(toServer, p, p.op)
  /\ UNCHANGED <<serverVars, requests, toClient, clientVars>>

(* One frame, handled to the end. *)
Frame ==
  \/ \E c \in requests : process_tftp_request(c)
  \/ \E c \in Client : UnknownRequest(c)
  \/ \E p \in toServer : wrq_recv_callback(p) \/ udp_input_no_pcb(p)

(* main.c:182-191: the main loop has seen that the upload is finished.  A  *)
(* frame of line 186 that is no write request may as well come before.     *)
FinishSeen ==
  /\ upload_flag = 2
  /\ upload_flag' = 0
  /\ UNCHANGED <<session, ports, image, netVars, clientVars>>

-----------------------------------------------------------------------------
(* The clients, as RFC 1350 has them. *)

ClientRequest(c) ==
  /\ cst[c] = "idle"
  /\ Overlap \/ (session = << >> /\ \A d \in Client : cst[d] \in {"idle", "done", "failed"})
  /\ cst' = [cst EXCEPT ![c] = "wrq"]
  /\ requests' = requests \cup {c}
  /\ UNCHANGED <<serverVars, toServer, toClient, tid, acked>>

ClientRetryRequest(c) ==
  /\ cst[c] = "wrq" /\ "WRQ" \in Faulty
  /\ requests' = requests \cup {c}
  /\ UNCHANGED <<serverVars, toServer, toClient, clientVars>>

(* The next block, for the first time or again. *)
ClientSend(c) ==
  /\ cst[c] = "send"
  /\ toServer' = toServer \cup {Data(c, tid[c], acked[c] + 1)}
  /\ UNCHANGED <<serverVars, requests, toClient, clientVars>>

ClientAbort(c) ==
  /\ cst[c] = "send"
  /\ \E code \in AbortCodes :
        toServer' = toServer \cup {ClientError(c, tid[c], code)}
  /\ cst' = [cst EXCEPT ![c] = "failed"]
  /\ UNCHANGED <<serverVars, requests, toClient, tid, acked>>

Adopt(c, m) ==
  /\ cst[c] = "wrq" /\ Kind(m) = "ACK0"
  /\ cst' = [cst EXCEPT ![c] = "send"]
  /\ tid' = [tid EXCEPT ![c] = m.from]
  /\ UNCHANGED <<acked, toServer>>

Advance(c, m) ==
  /\ cst[c] = "send" /\ m.from = tid[c]
  /\ m.op = "ACK" /\ m.block = acked[c] + 1
  /\ acked' = [acked EXCEPT ![c] = m.block]
  /\ cst' = [cst EXCEPT ![c] = IF m.block = FileBlocks THEN "done" ELSE "send"]
  /\ UNCHANGED <<tid, toServer>>

(* An answer of another session: "unknown transfer id", error code 5. *)
Reject(c, m) ==
  /\ cst[c] \in {"send", "done"} /\ m.from # tid[c] /\ m.op = "ACK"
  /\ toServer' = toServer \cup {ClientError(c, m.from, 5)}
  /\ UNCHANGED clientVars

GiveUp(c, m) ==
  /\ m.op = "ERROR"
  /\ cst[c] = "wrq" \/ (cst[c] = "send" /\ m.from = tid[c])
  /\ cst' = [cst EXCEPT ![c] = "failed"]
  /\ UNCHANGED <<tid, acked, toServer>>

Ignore(c, m) ==
  /\ \/ cst[c] \in {"idle", "failed"}
     \/ cst[c] = "wrq" /\ m.op = "ACK" /\ m.block # 0
     \/ cst[c] = "send" /\ m.from = tid[c] /\ m.op = "ACK" /\ m.block # acked[c] + 1
     \/ cst[c] \in {"send", "done"} /\ m.from # tid[c] /\ m.op = "ERROR"
     \/ cst[c] = "done" /\ m.from = tid[c]
  /\ UNCHANGED <<clientVars, toServer>>

ClientReceive(m) ==
  /\ m \in toClient
  /\ toClient' \in Deliver(toClient, m, Kind(m))
  /\ \/ Adopt(m.to, m)
     \/ Advance(m.to, m)
     \/ Reject(m.to, m)
     \/ GiveUp(m.to, m)
     \/ Ignore(m.to, m)
  /\ UNCHANGED <<serverVars, requests>>

Lose ==
  /\ \/ /\ "WRQ" \in Faulty
        /\ \E c \in requests : requests' = requests \ {c}
        /\ UNCHANGED <<toServer, toClient>>
     \/ /\ \E p \in toServer : p.op \in Faulty /\ toServer' = toServer \ {p}
        /\ UNCHANGED <<requests, toClient>>
     \/ /\ \E m \in toClient : Kind(m) \in Faulty /\ toClient' = toClient \ {m}
        /\ UNCHANGED <<requests, toServer>>
  /\ UNCHANGED <<serverVars, clientVars>>

Environment ==
  \/ \E c \in Client : \/ ClientRequest(c)
                       \/ ClientRetryRequest(c)
                       \/ ClientSend(c)
                       \/ ClientAbort(c)
  \/ \E m \in toClient : ClientReceive(m)
  \/ Lose

Next == Frame \/ FinishSeen \/ Environment

Spec == Init /\ [][Next]_vars

(* The main loop handles every frame that arrives, a client sends its      *)
(* block again until that is acknowledged, and of what is sent again and   *)
(* again something arrives, in either direction.                           *)
BlockArrives(c) ==
  /\ cst[c] = "send"
  /\ \E p \in toServer : p = Data(c, tid[c], acked[c] + 1) /\ wrq_recv_callback(p)
AckArrives(c) ==
  \E m \in toClient :
     /\ m.to = c
     /\ cst[c] = "wrq" \/ m.block = acked[c] + 1
     /\ ClientReceive(m)

FairSpec ==
  /\ Spec
  /\ WF_vars(FinishSeen)
  /\ \A c \in Client : /\ WF_vars(process_tftp_request(c))
                       /\ WF_vars(ClientSend(c))
                       /\ SF_vars(BlockArrives(c))
                       /\ SF_vars(AckArrives(c))

-----------------------------------------------------------------------------
TypeOK ==
  /\ upload_flag \in 0 .. 2
  /\ ports \in 0 .. MaxRequests
  /\ DOMAIN session \subseteq 1 .. ports
  /\ \A s \in DOMAIN session : session[s] \in Session
  /\ image \in Seq(Stored)
  /\ requests \subseteq Client
  /\ toServer \subseteq Packet
  /\ toClient \subseteq Answer
  /\ cst \in [Client -> {"idle", "wrq", "send", "done", "failed"}]
  /\ tid \in [Client -> 0 .. MaxRequests]
  /\ acked \in [Client -> 0 .. FileBlocks]

(* The blocks of c's file that carry bytes. *)
DataBlocks(c) == 1 .. (IF c \in EmptyLast THEN FileBlocks - 1 ELSE FileBlocks)

(* What session s has stored is a run of blocks of its client's file, each *)
(* of them once and in order, whatever was lost, repeated or reordered,    *)
(* and nothing but file data ("does this packet have any valid data to     *)
(* write?", tftpserver.c:416).                                             *)
StoredInOrder ==
  \A i \in DOMAIN image :
     /\ image[i].op = "DATA"
     /\ image[i].block >= 1
     /\ \A j \in 1 .. i - 1 :
           image[j].session = image[i].session => image[j].block < image[i].block
     /\ image[i].block > 1 =>
           \E j \in 1 .. i - 1 : /\ image[j].session = image[i].session
                                 /\ image[j].block = image[i].block - 1

HasStored(s, n) == \E i \in DOMAIN image : image[i].session = s /\ image[i].block = n

(* Block n is acknowledged only when blocks 1 .. n are in the flash. *)
AckMeansStored ==
  \A m \in toClient :
     m.op = "ACK" => \A n \in DataBlocks(m.to) : n <= m.block => HasStored(m.from, n)

WholeFile(s, c) == \A n \in DataBlocks(c) : HasStored(s, n)

(* A client that was told its upload succeeded has its whole file in flash. *)
DoneMeansStored == \A c \in Client : cst[c] = "done" => WholeFile(tid[c], c)

(* Why the three hold, for clients that abandon with codes no block has    *)
(* (the assumption Polite).                                                *)
Polite == AbortCodes \cap (1 .. FileBlocks) = {}

(* A client adopts one session, and only to that it sends its file.  An    *)
(* ERROR is never the packet its session waits for.                        *)
ClientInv ==
  \A c \in Client :
     /\ cst[c] \in {"idle", "wrq"} => tid[c] = 0
     /\ cst[c] \in {"send", "done"} => tid[c] # 0
     /\ cst[c] \in {"idle", "wrq", "send"} => acked[c] < FileBlocks

PacketInv ==
  \A p \in toServer :
     /\ cst[p.from] \in {"send", "done", "failed"}
     /\ p.op = "DATA" => /\ p.to = tid[p.from]
                         /\ p.block \in 1 .. FileBlocks
                         /\ p = Data(p.from, p.to, p.block)
     /\ p.op = "ERROR" => \/ p.block \notin 1 .. FileBlocks
                          \/ p.to # tid[p.from] /\ p.block # 1

(* An open session has stored its blocks up to args->block and no others.  *)
SessionInv ==
  \A s \in DOMAIN session :
     /\ session[s].block < FileBlocks
     /\ s # tid[session[s].remote] => session[s].block = 0
     /\ \A n \in 1 .. session[s].block : HasStored(s, n)
     /\ \A i \in DOMAIN image :
           image[i].session = s => image[i].block <= session[s].block

ImageInv == \A i \in DOMAIN image : image[i].session <= ports

IInv ==
  /\ TypeOK /\ ClientInv /\ PacketInv /\ SessionInv /\ ImageInv
  /\ StoredInOrder /\ AckMeansStored /\ DoneMeansStored

(* Client and server carry out a transfer of the blocks that carry bytes:  *)
(* those that the session the client adopted has stored are taken, and the *)
(* client knows of those that were acknowledged.                           *)
StoredBy(s) == {image[i].block : i \in {j \in DOMAIN image : image[j].session = s}}

Taken == [c \in Client |-> StoredBy(tid[c])]
Known == [c \in Client |-> DataBlocks(c) \cap (1 .. acked[c])]
Done  == {c \in Client : cst[c] = "done"}

Transfer == INSTANCE BlockTransfer WITH
              Transfer <- Client,
              Blocks   <- [c \in Client |-> DataBlocks(c)],
              taken <- Taken, known <- Known, done <- Done

(* A block goes to the flash only when the client knows that all before it *)
(* are there, each once and in order, and the client takes its upload for  *)
(* complete only then, whatever was lost, repeated, or answered by a       *)
(* second session (tftpserver.c:409-468).                                  *)
ImplementsTransfer == Transfer!Spec

(* Why: every session serves one client, and stores only what that sends   *)
(* after adopting it; no packet and no stored block is ahead of what was   *)
(* acknowledged by more than one, and what was acknowledged is stored.     *)
OneOwner ==
  \E owner \in [1 .. ports -> Client] :
     /\ \A m \in toClient : owner[m.from] = m.to
     /\ \A s \in DOMAIN session : owner[s] = session[s].remote
     /\ \A c \in Client : tid[c] # 0 => owner[tid[c]] = c

Adopted ==
  /\ \A m \in toClient : m.from <= ports
  /\ \A c \in Client : tid[c] <= ports
  /\ \A i \in DOMAIN image : /\ tid[image[i].from] = image[i].session
                             /\ image[i].block \in DataBlocks(image[i].from)

AckedStored ==
  /\ \A c \in Client : \A n \in DataBlocks(c) : n <= acked[c] => HasStored(tid[c], n)
  /\ \A p \in toServer : p.op = "DATA" => p.block <= acked[p.from] + 1
  /\ \A i \in DOMAIN image : image[i].block <= acked[image[i].from] + 1

TransferInv == IInv /\ OneOwner /\ Adopted /\ AckedStored

(* An upload lies in one piece: every block but the first is stored        *)
(* directly behind the one before it, with no block of another session in  *)
(* between (all sessions share FLASH_APP1_ADDR, tftpserver.c:13, 433).     *)
InOnePiece ==
  \A i \in DOMAIN image :
     image[i].block > 1 =>
        /\ i - 1 \in DOMAIN image
        /\ image[i - 1].session = image[i].session
        /\ image[i - 1].block = image[i].block - 1

(* Why, when no client begins while another uploads: the client whose      *)
(* session is open is the only one that uploads, and what it has stored is *)
(* the last in the flash.  Repeated requests open sessions, too, but those *)
(* are no client's, and store nothing.                                     *)
Uploading(c) == cst[c] \in {"wrq", "send"} \/ tid[c] \in DOMAIN session

OneUploader == \A c, d \in Client : Uploading(c) /\ Uploading(d) => c = d

LastStored ==
  \A i, j \in DOMAIN image :
     i < j /\ tid[image[i].from] \in DOMAIN session => image[j].from = image[i].from

PieceInv == TransferInv /\ OneUploader /\ LastStored /\ InOnePiece

(* Why sessions end with whole files, for clients that neither repeat      *)
(* their requests nor send others nor abandon their uploads (the           *)
(* assumption Steady): a client is answered by one session, which is sent  *)
(* nothing but DATA, and neither what it acknowledged nor what its client  *)
(* sends is ahead of the session's blocks.                                 *)
Steady == "WRQ" \notin Faulty /\ ~UnknownOps /\ AbortCodes = {}

OneSession ==
  /\ \A c \in requests : cst[c] = "wrq"
  /\ \A m \in toClient : cst[m.to] # "idle" /\ m.to \notin requests
  /\ \A m, n \in toClient : m.to = n.to => m.from = n.from
  /\ \A m \in toClient : tid[m.to] \in {0, m.from}
  /\ \A p \in toServer : p.op = "DATA"

NotAhead ==
  /\ \A c \in Client : tid[c] <= ports /\ (tid[c] = 0 => acked[c] = 0)
  /\ \A m \in toClient : m.from <= ports
  /\ \A s \in DOMAIN session :
       /\ \A m \in toClient : m.from = s /\ m.op = "ACK" => m.block <= session[s].block
       /\ \A c \in Client : tid[c] = s => acked[c] <= session[s].block
       /\ \A p \in toServer : p.to = s => p.block <= session[s].block + 1

SteadyInv == IInv /\ OneSession /\ NotAhead

(* A session that ends has received the whole file (tftpserver.c:461-464). *)
EndMeansWholeFile ==
  [][\A s \in DOMAIN session \ DOMAIN session' :
        \A c \in Client : session[s].remote = c => WholeFile(s, c)']_vars

(* The main loop is held, by upload_flag, while a session is open, from    *)
(* its first step to its last, and nothing else holds it.  One session is  *)
(* never held at all: that whose request came in the frame of main.c:186,  *)
(* where main.c:191 overwrites its flag.                                   *)
HeldWhileOpen ==
  [][/\ session = << >> /\ session' # << >> => upload_flag' = 1 \/ Overwritten
     /\ session # << >> /\ session' # << >> => UNCHANGED upload_flag
     /\ session' = << >> => upload_flag' # 1]_vars

(* Clients that wait for each other, and neither repeat their requests nor *)
(* send others, have one session at a time, however many fit into the      *)
(* memory.                                                                 *)
OneAtATime == ~Overlap /\ "WRQ" \notin Faulty /\ ~UnknownOps

(* An upload that gets to its session ends with the file in flash. *)
Uploaded == \A c \in Client :
              cst[c] = "wrq" ~> \E s \in Port : WholeFile(s, c)

(* The image of an upload begins where the application begins, "the first  *)
(* application's start address" (tftpserver.c:13, main.c:66), which is     *)
(* where the main loop jumps to.                                           *)
StartsAtApp ==
  \A i \in DOMAIN image : image[i].block = 1 => i = 1
=============================================================================
