----------------------------- MODULE RrqServer ------------------------------
(***************************************************************************)
(* The read side of Src/tftpserver.c over an unreliable network.           *)
(*                                                                         *)
(* A read request opens a session that sends the next block whenever a     *)
(* packet arrives; the server has no timer, so what is lost is sent again  *)
(* only because the client repeats itself.  A session is named by its      *)
(* local port, as in TftpServer, and each callback is one action.  A block *)
(* is its number and its length; its filling (line 269) is left out.       *)
(***************************************************************************)
EXTENDS Integers, FiniteSets

CONSTANTS
  Client,             \* client endpoints
  TFTP_DATA_LEN_MAX,  \* bytes of a full block
  TotBytes,           \* args->tot_bytes, 10 MiB in line 373
  MaxPcbs,            \* MEMP_NUM_UDP_PCB less what write sessions hold
  MaxArgs,            \* tftp_connection_args that fit into the heap
  HeapShared,         \* TRUE: other users of the heap may make mem_malloc fail
  MaxRequests,        \* bound: local ports handed out
  UnknownOps,         \* TRUE: requests may come that neither read nor write
  Faulty              \* kinds of packets that may be lost, repeated, and retried

ASSUME RrqAssumption ==
  /\ TFTP_DATA_LEN_MAX \in Nat \ {0} /\ TotBytes \in Nat
  /\ MaxPcbs \in Nat /\ MaxArgs \in Nat \ {0} /\ MaxRequests \in Nat
  /\ HeapShared \in BOOLEAN /\ UnknownOps \in BOOLEAN
  /\ Faulty \subseteq {"RRQ", "DATA", "LAST", "ACK", "ERROR"}

VARIABLES
  session,       \* local port -> the fields of args that are read again
  ports,         \* local ports handed out so far (udp_port)
  requests,      \* read requests on their way to port 69
  toServer,      \* packets on their way to a session's port
  toClient,      \* packets on their way to a client
  cst,           \* client: "idle", "rrq", "recv", "done" or "failed"
  tid,           \* client: the session it adopted, 0 before that
  got,           \* client: blocks it has taken
  bytes          \* client: bytes it has taken

serverVars == <<session, ports>>
netVars    == <<requests, toServer, toClient>>
clientVars == <<cst, tid, got, bytes>>
vars       == <<serverVars, netVars, clientVars>>

Port    == 1 .. MaxRequests
Lengths == 0 .. TFTP_DATA_LEN_MAX
Session == [remote : Client, block : Nat, data_len : Lengths]
Packet  == [to : Port, from : Client, op : {"ACK", "ERROR"}, block : Nat]
Answer  == [to : Client, from : Port, op : {"DATA", "ERROR"}, block : Nat,
            len : Lengths]

(* The kind of a packet; LAST is the DATA that ends the file. *)
Kind(m) ==
  IF m.op = "DATA" /\ m.len < TFTP_DATA_LEN_MAX THEN "LAST" ELSE m.op

(* m is taken off the network; a faulty network may deliver it again. *)
Deliver(net, m, kind) == {net \ {m}} \cup (IF kind \in Faulty THEN {net} ELSE {})

Data(s, c, n, len) == [to |-> c, from |-> s, op |-> "DATA", block |-> n, len |-> len]
Error(s, c)        == [to |-> c, from |-> s, op |-> "ERROR", block |-> 0, len |-> 0]
Ack(c, s, n)       == [to |-> s, from |-> c, op |-> "ACK", block |-> n]
UnknownTid(c, s)   == [to |-> s, from |-> c, op |-> "ERROR", block |-> 5]

Init ==
  /\ session = << >>
  /\ ports = 0
  /\ requests = {} /\ toServer = {} /\ toClient = {}
  /\ cst = [c \in Client |-> "idle"]
  /\ tid = [c \in Client |-> 0]
  /\ got = [c \in Client |-> 0]
  /\ bytes = [c \in Client |-> 0]

-----------------------------------------------------------------------------
(* tftp_send_next_block, lines 244-284. *)

(* Lines 249-250: the block under 512 bytes counts, also when it is empty. *)
FullBlocks  == TotBytes \div TFTP_DATA_LEN_MAX
total_block == TotBytes \div TFTP_DATA_LEN_MAX + 1

(* Lines 257-267. *)
FullLength(n) == TFTP_DATA_LEN_MAX
DataLen(n) ==
  IF n # total_block THEN TFTP_DATA_LEN_MAX
  ELSE IF TotBytes % TFTP_DATA_LEN_MAX = 0 THEN 0
       ELSE TotBytes - (total_block - 1) * TFTP_DATA_LEN_MAX

(* Session s of client c sends block n; args->data_len remembers its       *)
(* length.  Past the end (line 252) nothing is sent and data_len stays.    *)
tftp_send_next_block(s, c, n, data_len) ==
  LET sends == n <= total_block
      len   == IF sends THEN DataLen(n) ELSE data_len
  IN  /\ session' = [r \in DOMAIN session \cup {s} |->
                       IF r = s THEN [remote |-> c, block |-> n, data_len |-> len]
                       ELSE session[r]]
      /\ toClient' = toClient \cup (IF sends THEN {Data(s, c, n, len)} ELSE {})

-----------------------------------------------------------------------------
(* process_tftp_request and tftp_process_read, lines 536-592 and 347-386.  *)

SamePort     == UNCHANGED ports
udp_new_port == ports' = ports + 1

HasPcb == Cardinality(DOMAIN session) + 1 < MaxPcbs

NoPcb(c) ==
  /\ ~HasPcb
  /\ UNCHANGED <<serverVars, toClient>>

(* Lines 357-366: the pcb is given back. *)
NoArgs(c) ==
  /\ HasPcb /\ ports < MaxRequests
  /\ HeapShared \/ Cardinality(DOMAIN session) >= MaxArgs
  /\ udp_new_port
  /\ toClient' = toClient \cup {Error(ports + 1, c)}
  /\ UNCHANGED session

OpenSession(c) ==
  /\ HasPcb /\ ports < MaxRequests
  /\ Cardinality(DOMAIN session) < MaxArgs
  /\ udp_new_port
  /\ tftp_send_next_block(ports + 1, c, 1, 0)

process_tftp_request(c) ==
  /\ c \in requests
  /\ requests' \in Deliver(requests, c, "RRQ")
  /\ NoPcb(c) \/ NoArgs(c) \/ OpenSession(c)
  /\ UNCHANGED <<toServer, clientVars>>

(* Lines 584-590: a request of c that is neither RRQ nor WRQ is answered   *)
(* by an error, and the pcb is given back.                                 *)
UnknownRequest(c) ==
  /\ UnknownOps
  /\ HasPcb /\ ports < MaxRequests
  /\ udp_new_port
  /\ toClient' = toClient \cup {Error(ports + 1, c)}
  /\ UNCHANGED <<session, requests, toServer, clientVars>>

(* The pcb of a session is connected: udp_input gives it only what its     *)
(* client sent, and line 300 never sees another port.                      *)
FromPeer(p) == p.to \in DOMAIN session /\ session[p.to].remote = p.from

(* tftputils.c:86-97. *)
AckOfAny(p)            == p.op = "ACK"
tftp_is_correct_ack(p) == p.op = "ACK" /\ p.block = session[p.to].block

tftp_cleanup_rd(s) == session' = [r \in DOMAIN session \ {s} |-> session[r]]

(* Line 323: the block last sent was the last of the file. *)
NextIsLast(s) == session[s].block + 1 >= total_block
LastSent(s)   == session[s].data_len < TFTP_DATA_LEN_MAX

(* Lines 295-337. *)
rrq_recv_callback(p) ==
  /\ p \in toServer
  /\ FromPeer(p)
  /\ toServer' \in Deliver(toServer, p, p.op)
  /\ IF LastSent(p.to)
     THEN tftp_cleanup_rd(p.to) /\ UNCHANGED toClient
     ELSE tftp_send_next_block(p.to, p.from,
            IF tftp_is_correct_ack(p) THEN session[p.to].block + 1
                                      ELSE session[p.to].block,
            session[p.to].data_len)
  /\ UNCHANGED <<ports, requests, clientVars>>

(* udp_input finds no pcb: the packet is dropped. *)
udp_input_no_pcb(p) ==
  /\ p \in toServer
  /\ ~FromPeer(p)
  /\ toServer' \in Deliver(toServer, p, p.op)
  /\ UNCHANGED <<serverVars, requests, toClient, clientVars>>

Frame ==
  \/ \E c \in requests : process_tftp_request(c)
  \/ \E c \in Client : UnknownRequest(c)
  \/ \E p \in toServer : rrq_recv_callback(p) \/ udp_input_no_pcb(p)

-----------------------------------------------------------------------------
(* The clients, as RFC 1350 has them. *)

ClientRequest(c) ==
  /\ cst[c] = "idle"
  /\ cst' = [cst EXCEPT ![c] = "rrq"]
  /\ requests' = requests \cup {c}
  /\ UNCHANGED <<serverVars, toServer, toClient, tid, got, bytes>>

ClientRetryRequest(c) ==
  /\ cst[c] = "rrq" /\ "RRQ" \in Faulty
  /\ requests' = requests \cup {c}
  /\ UNCHANGED <<serverVars, toServer, toClient, clientVars>>

(* Nothing came in time: the last acknowledgement again. *)
ClientAckAgain(c) ==
  /\ cst[c] = "recv"
  /\ toServer' = toServer \cup {Ack(c, tid[c], got[c])}
  /\ UNCHANGED <<serverVars, requests, toClient, clientVars>>

ClientGone(c) ==
  /\ cst[c] \in {"rrq", "recv"}
  /\ cst' = [cst EXCEPT ![c] = "failed"]
  /\ UNCHANGED <<serverVars, netVars, tid, got, bytes>>

(* The block that comes next is taken and acknowledged.  The first fixes   *)
(* the session; one under 512 bytes is the last.                           *)
TakeBlock(c, m) ==
  /\ m.op = "DATA" /\ m.block = got[c] + 1
  /\ cst[c] = "rrq" \/ (cst[c] = "recv" /\ m.from = tid[c])
  /\ tid' = [tid EXCEPT ![c] = m.from]
  /\ got' = [got EXCEPT ![c] = m.block]
  /\ bytes' = [bytes EXCEPT ![c] = @ + m.len]
  /\ cst' = [cst EXCEPT ![c] =
               IF m.len < TFTP_DATA_LEN_MAX THEN "done" ELSE "recv"]
  /\ toServer' = toServer \cup {Ack(c, m.from, m.block)}

(* A block it has: acknowledged again, or not. *)
OldBlock(c, m) ==
  /\ m.op = "DATA" /\ cst[c] = "recv" /\ m.from = tid[c] /\ m.block <= got[c]
  /\ toServer' \in {toServer, toServer \cup {Ack(c, m.from, m.block)}}
  /\ UNCHANGED clientVars

(* A block of another session: "unknown transfer id". *)
Reject(c, m) ==
  /\ m.op = "DATA" /\ cst[c] \in {"recv", "done"} /\ m.from # tid[c]
  /\ toServer' = toServer \cup {UnknownTid(c, m.from)}
  /\ UNCHANGED clientVars

GiveUp(c, m) ==
  /\ m.op = "ERROR" /\ cst[c] = "rrq"
  /\ cst' = [cst EXCEPT ![c] = "failed"]
  /\ UNCHANGED <<tid, got, bytes, toServer>>

Ignore(c, m) ==
  /\ \/ cst[c] \in {"idle", "failed"}
     \/ cst[c] = "done" /\ m.from = tid[c]
     \/ cst[c] = "recv" /\ m.from = tid[c] /\ m.block > got[c] + 1
     \/ cst[c] = "rrq" /\ m.op = "DATA" /\ m.block # 1
     \/ cst[c] \in {"recv", "done"} /\ m.op = "ERROR"
  /\ UNCHANGED <<clientVars, toServer>>

ClientReceive(m) ==
  /\ m \in toClient
  /\ toClient' \in Deliver(toClient, m, Kind(m))
  /\ \/ TakeBlock(m.to, m)
     \/ OldBlock(m.to, m)
     \/ Reject(m.to, m)
     \/ GiveUp(m.to, m)
     \/ Ignore(m.to, m)
  /\ UNCHANGED <<serverVars, requests>>

Lose ==
  /\ \/ /\ "RRQ" \in Faulty
        /\ \E c \in requests : requests' = requests \ {c}
        /\ UNCHANGED <<toServer, toClient>>
     \/ /\ \E p \in toServer : p.op \in Faulty /\ toServer' = toServer \ {p}
        /\ UNCHANGED <<requests, toClient>>
     \/ /\ \E m \in toClient : Kind(m) \in Faulty /\ toClient' = toClient \ {m}
        /\ UNCHANGED <<requests, toServer>>
  /\ UNCHANGED <<serverVars, clientVars>>

Environment ==
  \/ \E c \in Client : \/ ClientRequest(c)
                       \/ ClientRetryRequest(c)
                       \/ ClientAckAgain(c)
                       \/ ClientGone(c)
  \/ \E m \in toClient : ClientReceive(m)
  \/ Lose

Next == Frame \/ Environment

Spec == Init /\ [][Next]_vars

(* The main loop handles the frames that arrive, a client repeats its      *)
(* acknowledgement, and of what is sent again and again something arrives. *)
AckArrives(c) ==
  \E p \in toServer :
     p = Ack(c, tid[c], got[c]) /\ rrq_recv_callback(p)
BlockArrives(c) ==
  \E m \in toClient :
     /\ m.to = c /\ m.from = tid[c] /\ m.block = got[c] + 1
     /\ ClientReceive(m)

FairSpec ==
  /\ Spec
  /\ \A c \in Client : /\ WF_vars(ClientAckAgain(c))
                       /\ SF_vars(AckArrives(c))
                       /\ SF_vars(BlockArrives(c))

-----------------------------------------------------------------------------
TypeOK ==
  /\ ports \in 0 .. MaxRequests
  /\ DOMAIN session \subseteq 1 .. ports
  /\ \A s \in DOMAIN session : session[s] \in Session
  /\ requests \subseteq Client
  /\ toServer \subseteq Packet
  /\ toClient \subseteq Answer
  /\ cst \in [Client -> {"idle", "rrq", "recv", "done", "failed"}]
  /\ tid \in [Client -> 0 .. MaxRequests]
  /\ got \in [Client -> 0 .. total_block]
  /\ bytes \in [Client -> 0 .. TotBytes]

(* A client that takes its file for complete has every byte of it, also    *)
(* when the size is a multiple of 512 and an empty block ends it           *)
(* (tftpserver.c:257-267).                                                 *)
DoneMeansAllBytes ==
  \A c \in Client : cst[c] = "done" => bytes[c] = TotBytes

(* The server sends a block only when the client has all before it, each   *)
(* of them once, however acknowledgements are repeated and reordered       *)
(* (tftpserver.c:309-318): it is never more than one block ahead.          *)
InStep ==
  \A s \in DOMAIN session :
     LET c == session[s].remote
     IN  IF tid[c] = s THEN session[s].block \in {got[c], got[c] + 1}
                       ELSE session[s].block = 1

(* Why the two hold.  No DATA is ahead of its session; a client that has a *)
(* block has a session.                                                    *)
AnswerInv ==
  \A m \in toClient :
     /\ m.from <= ports
     /\ m.op = "DATA" =>
          /\ m.block \in 1 .. total_block /\ m.len = DataLen(m.block)
          /\ m.from \in DOMAIN session => m.block <= session[m.from].block

ClientInv ==
  \A c \in Client :
     /\ cst[c] \in {"idle", "rrq"} => got[c] = 0
     /\ tid[c] <= ports
     /\ cst[c] \in {"recv", "done"} => tid[c] # 0
     /\ cst[c] = "recv" => got[c] < total_block
     /\ bytes[c] = IF got[c] < total_block THEN got[c] * TFTP_DATA_LEN_MAX
                                           ELSE TotBytes

PacketInv ==
  \A p \in toServer :
     p.op = "ACK" => /\ cst[p.from] \notin {"idle", "rrq"}
                     /\ p.to = tid[p.from] /\ p.block <= got[p.from]

SessionInv ==
  \A s \in DOMAIN session :
     /\ session[s].block \in 1 .. total_block
     /\ session[s].data_len = DataLen(session[s].block)

IInv ==
  /\ TypeOK /\ AnswerInv /\ ClientInv /\ PacketInv /\ SessionInv /\ InStep
  /\ DoneMeansAllBytes

(* Server and client carry out a transfer of blocks 1 .. total_block: the  *)
(* client has taken those up to got, and the block its session has come to *)
(* tells which of them the server knows of; all but the last when it is    *)
(* gone.                                                                   *)
Taken == [c \in Client |-> 1 .. got[c]]
Known == [c \in Client |->
            IF tid[c] = 0 THEN {}
            ELSE IF tid[c] \in DOMAIN session THEN 1 .. session[tid[c]].block - 1
                 ELSE 1 .. total_block - 1]
Done  == {c \in Client : cst[c] = "done"}

Transfer == INSTANCE BlockTransfer WITH
              Transfer <- Client,
              Blocks   <- [c \in Client |-> 1 .. total_block],
              taken <- Taken, known <- Known, done <- Done

(* The server sends a block only to a client that it knows to have all     *)
(* before it, the client takes each block once and in order, and neither a *)
(* session that ends nor one opened by a repeated request disturbs that    *)
(* (tftpserver.c:309-330).                                                 *)
ImplementsTransfer == Transfer!Spec

(* Why: every session serves one client; the one that answers a client     *)
(* that has no block yet is open; one that is gone had sent everything.    *)
OneOwner ==
  \E owner \in [1 .. ports -> Client] :
     /\ \A m \in toClient : owner[m.from] = m.to
     /\ \A s \in DOMAIN session : owner[s] = session[s].remote
     /\ \A c \in Client : tid[c] # 0 => owner[tid[c]] = c

OpenWhenNew ==
  /\ \A c \in Client : cst[c] \in {"idle", "rrq"} => tid[c] = 0
  /\ \A p \in toServer : cst[p.from] \notin {"idle", "rrq"}
  /\ \A m \in toClient :
        m.op = "DATA" /\ cst[m.to] \in {"idle", "rrq"} => m.from \in DOMAIN session

GoneAtEnd ==
  \A c \in Client :
     tid[c] # 0 /\ tid[c] \notin DOMAIN session => got[c] >= total_block - 1

TransferInv == IInv /\ OneOwner /\ OpenWhenNew /\ GoneAtEnd

(* "We've sent the whole file and we can quit" (tftpserver.c:320-321): a   *)
(* session ends only when its client has every block but the last, which   *)
(* was sent.                                                               *)
EndsAfterFile ==
  [][\A s \in DOMAIN session \ DOMAIN session' :
        \A c \in Client : session[s].remote = c =>
           /\ got[c] >= total_block - 1
           /\ session[s].block = total_block]_vars

(* A client that has its first block gets the whole file, unless it gives  *)
(* up: lost, repeated and late packets are made good, although the server  *)
(* has no timer, as long as the last block is not lost.                    *)
ReadCompletes ==
  \A c \in Client : cst[c] = "recv" ~> cst[c] \in {"done", "failed"}

(* "We did not receive the expected ACK, so do not update block #.  This   *)
(* causes the current block to be resent" (tftpserver.c:316-317): a client *)
(* that lost the block the session is at and says so gets it again.        *)
LostBlockResent ==
  [][\A s \in DOMAIN session : \A p \in toServer :
        LET c     == p.from
            block == Data(s, c, session[s].block, session[s].data_len)
        IN  /\ rrq_recv_callback(p) /\ p.to = s /\ tid[c] = s
            /\ got[c] < session[s].block /\ block \notin toClient
            /\ p = Ack(c, s, session[s].block - 1)
            => block \in toClient']_vars
=============================================================================
