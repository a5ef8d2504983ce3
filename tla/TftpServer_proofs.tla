------------------------- MODULE TftpServer_proofs --------------------------
(***************************************************************************)
(* Theorems about TftpServer, for any number of clients, sessions and      *)
(* blocks, and whatever the network loses, repeats or reorders.            *)
(***************************************************************************)
EXTENDS TftpServer, SequenceTheorems, FiniteSetTheorems, TLAPS

-----------------------------------------------------------------------------
(* Packets taken off the network leave only packets that were on it. *)
LEMMA DeliverSubset ==
  ASSUME NEW net, NEW m, NEW kind, NEW left \in Deliver(net, m, kind)
  PROVE  left \subseteq net
BY DEF Deliver

LEMMA AckType ==
  ASSUME NEW s \in Port, NEW c \in Client, NEW n \in Nat
  PROVE  Ack(s, c, n) \in Answer /\ Error(s, c, n) \in Answer
BY DEF Ack, Error, Answer

LEMMA DataType ==
  ASSUME NEW s \in Port, NEW c \in Client, NEW n \in Nat
  PROVE  Data(c, s, n) \in Packet /\ ClientError(c, s, n) \in Packet
BY DEF Data, ClientError, Packet

LEMMA DataBlocksBound ==
  ASSUME NEW c \in Client, NEW n \in DataBlocks(c)
  PROVE  n \in Nat /\ n \in 1 .. FileBlocks
BY TftpAssumption DEF DataBlocks

(* The image after a block was appended. *)
LEMMA Appended ==
  ASSUME image \in Seq(Stored), NEW x \in Stored, image' = Append(image, x)
  PROVE  /\ image' \in Seq(Stored)
         /\ Len(image) \in Nat
         /\ DOMAIN image = 1 .. Len(image)
         /\ DOMAIN image' = 1 .. Len(image) + 1
         /\ \A i \in DOMAIN image : image'[i] = image[i]
         /\ image'[Len(image) + 1] = x
<1>1. image' \in Seq(Stored) /\ Len(image') = Len(image) + 1 /\ Len(image) \in Nat
  BY AppendProperties
<1>2. QED
  BY <1>1, AppendProperties

-----------------------------------------------------------------------------
(* Types, and the two facts about clients that keep acked within the file. *)
TypeInv == TypeOK /\ ClientInv

LEMMA InitType == Init => TypeInv
<1>1. << >> \in Seq(Stored)
  BY EmptySeq
<1>2. QED
  BY <1>1, TftpAssumption DEF Init, TypeInv, TypeOK, ClientInv

(* A request to write, or one that the server does not know. *)
Requested(c) == process_tftp_request(c) \/ UnknownRequest(c)

LEMMA RequestType ==
  ASSUME TypeInv, NEW c \in Client, Requested(c)
  PROVE  TypeInv'
<1> USE DEF TypeInv, TypeOK, Requested, process_tftp_request, clientVars
<1>1. ClientInv'
  BY DEF ClientInv, UnknownRequest
<1>2. requests' \subseteq Client
  BY DeliverSubset DEF UnknownRequest
<1>3. CASE process_tftp_request(c) /\ NoPcb(c)
  BY <1>1, <1>2, <1>3 DEF NoPcb, serverVars
<1>4. ports < MaxRequests => ports + 1 \in Port
  BY TftpAssumption DEF Port
<1>5. CASE process_tftp_request(c) /\ NoArgs(c)
  BY <1>1, <1>2, <1>4, <1>5, AckType, TftpAssumption
  DEF NoArgs, Hold, Overwritten, udp_new_port
<1>6. CASE process_tftp_request(c) /\ OpenSession(c)
  <2>1. Opened(c) \in Session
    BY DEF Opened, Session
  <2>2. DOMAIN session' \subseteq 1 .. ports' /\ \A s \in DOMAIN session' : session'[s] \in Session
    BY <1>6, <2>1, TftpAssumption DEF OpenSession, udp_new_port
  <2>3. toClient' \subseteq Answer
    BY <1>4, <1>6, AckType DEF OpenSession
  <2>4. ports' \in 0 .. MaxRequests /\ upload_flag' \in 0 .. 2
    BY <1>6, TftpAssumption DEF OpenSession, Hold, Overwritten, udp_new_port
  <2>5. UNCHANGED <<image, toServer, cst, tid, acked>>
    BY <1>6 DEF OpenSession
  <2>6. QED
    BY <1>1, <1>2, <2>2, <2>3, <2>4, <2>5
<1>7. CASE UnknownRequest(c)
  BY <1>1, <1>2, <1>4, <1>7, AckType, TftpAssumption DEF UnknownRequest, udp_new_port
<1>8. QED
  BY <1>3, <1>5, <1>6, <1>7

LEMMA BlockType ==
  ASSUME TypeInv, NEW p \in toServer, wrq_recv_callback(p)
  PROVE  TypeInv'
<1> USE DEF TypeInv, TypeOK
<1> DEFINE n == IF Expected(p) THEN p.block ELSE session[p.to].block
<1>1. UNCHANGED <<ports, requests, cst, tid, acked>> /\ ClientInv'
  BY DEF ClientInv, FromPeer, wrq_recv_callback, clientVars
<1>2. p \in Packet /\ session[p.to] \in Session
  BY DEF FromPeer, wrq_recv_callback
<1>3. n \in Nat /\ p.to \in Port /\ p.from \in Client
  BY <1>2 DEF Packet, Session
<1>4. toServer' \subseteq Packet
  BY DeliverSubset DEF FromPeer, wrq_recv_callback
<1>5. image' \in Seq(Stored)
  <2>1. [session |-> p.to, from |-> p.from, op |-> p.op, block |-> p.block] \in Stored
    BY <1>2 DEF Packet, Stored
  <2>2. QED
    BY <2>1, Appended DEF FromPeer, wrq_recv_callback
<1>6. toClient' \subseteq Answer
  <2>1. toClient' = toClient \cup {Ack(p.to, p.from, n)}
    BY DEF FromPeer, wrq_recv_callback
  <2>2. Ack(p.to, p.from, n) \in Answer
    BY <1>3, AckType
  <2>3. QED
    BY <2>1, <2>2
<1>7. DOMAIN session' \subseteq 1 .. ports' /\ \A s \in DOMAIN session' : session'[s] \in Session
  <2>1. CASE LastPacket(p)
    BY <1>1, <2>1 DEF FromPeer, wrq_recv_callback
  <2>2. CASE ~LastPacket(p)
    <3>1. session' = [session EXCEPT ![p.to].block = n]
      BY <2>2 DEF FromPeer, wrq_recv_callback
    <3>2. [session[p.to] EXCEPT !.block = n] \in Session
      BY <1>2, <1>3 DEF Session
    <3>3. QED
      BY <1>1, <3>1, <3>2
  <2>3. QED
    BY <2>1, <2>2
<1>8. upload_flag' \in 0 .. 2
  BY DEF FromPeer, wrq_recv_callback, Finish
<1>9. QED
  BY <1>1, <1>4, <1>5, <1>6, <1>7, <1>8

LEMMA ClientType ==
  ASSUME TypeInv,
         (\E c \in Client : \/ ClientRequest(c)
                            \/ ClientRetryRequest(c)
                            \/ ClientSend(c)
                            \/ ClientAbort(c))
  PROVE  TypeInv'
<1> USE DEF TypeInv, TypeOK, clientVars, serverVars, netVars
<1>1. PICK c \in Client : \/ ClientRequest(c)
                          \/ ClientRetryRequest(c)
                          \/ ClientSend(c)
                          \/ ClientAbort(c)
  OBVIOUS
<1>2. CASE ClientRequest(c)
  BY <1>2 DEF ClientRequest, ClientInv
<1>3. CASE ClientRetryRequest(c)
  BY <1>3 DEF ClientRetryRequest, ClientInv
<1>4. ASSUME cst[c] = "send"
      PROVE  tid[c] \in Port /\ acked[c] + 1 \in Nat
  BY <1>4, TftpAssumption DEF ClientInv, Port
<1>5. CASE ClientSend(c)
  BY <1>4, <1>5, DataType DEF ClientSend, ClientInv
<1>6. CASE ClientAbort(c)
  BY <1>4, <1>6, DataType, TftpAssumption DEF ClientAbort, ClientInv
<1>7. QED
  BY <1>1, <1>2, <1>3, <1>5, <1>6

LEMMA ReceiveType ==
  ASSUME TypeInv, NEW m \in toClient, ClientReceive(m)
  PROVE  TypeInv'
<1> USE DEF TypeInv, TypeOK, clientVars, serverVars
<1>1. /\ m \in Answer /\ m.to \in Client /\ m.from \in Port /\ m.block \in Nat
      /\ m.from \in 0 .. MaxRequests /\ m.from # 0
  BY TftpAssumption DEF Answer, Port
<1>2. /\ UNCHANGED <<upload_flag, session, ports, image, requests>>
      /\ toClient' \subseteq Answer
  BY DeliverSubset DEF ClientReceive
<1>3. CASE Adopt(m.to, m)
  BY <1>1, <1>2, <1>3 DEF Adopt, ClientInv
<1>4. CASE Advance(m.to, m)
  <2>1. m.block \in 0 .. FileBlocks
    BY <1>1, <1>4, TftpAssumption DEF Advance, ClientInv
  <2>2. m.block # FileBlocks => m.block < FileBlocks
    BY <2>1, TftpAssumption
  <2>3. acked' \in [Client -> 0 .. FileBlocks]
    BY <1>1, <1>4, <2>1 DEF Advance
  <2>4. cst' \in [Client -> {"idle", "wrq", "send", "done", "failed"}]
    BY <1>1, <1>4 DEF Advance
  <2>5. ClientInv'
    BY <1>1, <1>4, <2>2 DEF Advance, ClientInv
  <2>6. QED
    BY <1>2, <1>4, <2>3, <2>4, <2>5 DEF Advance
<1>5. CASE Reject(m.to, m)
  BY <1>1, <1>2, <1>5, DataType DEF Reject, ClientInv
<1>6. CASE GiveUp(m.to, m)
  BY <1>1, <1>2, <1>6 DEF GiveUp, ClientInv
<1>7. CASE Ignore(m.to, m)
  BY <1>2, <1>7 DEF Ignore, ClientInv
<1>8. QED
  BY <1>3, <1>4, <1>5, <1>6, <1>7 DEF ClientReceive

LEMMA StepType == TypeInv /\ [Next]_vars => TypeInv'
<1> SUFFICES ASSUME TypeInv, [Next]_vars PROVE TypeInv'
  OBVIOUS
<1>1. ASSUME NEW c \in Client, Requested(c) PROVE TypeInv'
  BY <1>1, RequestType
<1>2. ASSUME NEW p \in toServer, udp_input_no_pcb(p) PROVE TypeInv'
  BY <1>2, DeliverSubset
  DEF FromPeer, udp_input_no_pcb, TypeInv, TypeOK, ClientInv, serverVars, clientVars
<1>3. CASE Frame
  BY <1>1, <1>2, <1>3, BlockType DEF Frame, Requested, TypeInv, TypeOK
<1>4. CASE FinishSeen
  BY <1>4 DEF FinishSeen, TypeInv, TypeOK, ClientInv, netVars, clientVars
<1>5. CASE Lose
  BY <1>5 DEF Lose, TypeInv, TypeOK, ClientInv, serverVars, clientVars
<1>6. CASE Environment
  BY <1>5, <1>6, ClientType, ReceiveType DEF Environment
<1>7. CASE UNCHANGED vars
  BY <1>7 DEF vars, TypeInv, TypeOK, ClientInv, serverVars, netVars, clientVars
<1>8. QED
  BY <1>3, <1>4, <1>6, <1>7 DEF Next

(* Every packet, session, stored block and counter keeps its type, whatever *)
(* the network does and the clients abandon.                                *)
THEOREM TypeCorrect == Spec => []TypeOK
<1>1. TypeInv => TypeOK
  BY DEF TypeInv
<1>2. QED
  BY <1>1, InitType, StepType, PTL DEF Spec

-----------------------------------------------------------------------------
(* What is stored stays stored: the image only grows. *)
LEMMA StoredStays ==
  ASSUME image \in Seq(Stored), NEW x \in Stored, image' = Append(image, x)
  PROVE  /\ \A s, n : HasStored(s, n) => HasStored(s, n)'
         /\ HasStored(x.session, x.block)'
<1>1. ASSUME NEW s, NEW n, HasStored(s, n)
      PROVE  HasStored(s, n)'
  <2>1. PICK i \in DOMAIN image : image[i].session = s /\ image[i].block = n
    BY <1>1 DEF HasStored
  <2>2. i \in DOMAIN image' /\ image'[i] = image[i]
    BY <2>1, Appended
  <2>3. QED
    BY <2>1, <2>2 DEF HasStored
<1>2. Len(image) + 1 \in DOMAIN image' /\ image'[Len(image) + 1] = x
  BY Appended
<1>3. HasStored(x.session, x.block)'
  BY <1>2 DEF HasStored
<1>4. QED
  BY <1>1, <1>3

(* A block that continues its session keeps the image in order. *)
LEMMA OrderKept ==
  ASSUME image \in Seq(Stored), StoredInOrder,
         NEW x \in Stored, image' = Append(image, x),
         x.op = "DATA", x.block >= 1,
         \A i \in DOMAIN image : image[i].session = x.session => image[i].block < x.block,
         x.block > 1 => HasStored(x.session, x.block - 1)
  PROVE  StoredInOrder'
<1>1. /\ Len(image) \in Nat
      /\ DOMAIN image = 1 .. Len(image)
      /\ DOMAIN image' = 1 .. Len(image) + 1
      /\ \A i \in DOMAIN image : image'[i] = image[i]
      /\ image'[Len(image) + 1] = x
  BY Appended
<1> SUFFICES ASSUME NEW i \in DOMAIN image'
             PROVE  /\ image'[i].op = "DATA"
                    /\ image'[i].block >= 1
                    /\ \A j \in 1 .. i - 1 :
                          image'[j].session = image'[i].session
                            => image'[j].block < image'[i].block
                    /\ image'[i].block > 1 =>
                          \E j \in 1 .. i - 1 :
                             /\ image'[j].session = image'[i].session
                             /\ image'[j].block = image'[i].block - 1
  BY DEF StoredInOrder
<1>2. CASE i \in DOMAIN image
  <2>1. \A j \in 1 .. i - 1 : j \in DOMAIN image /\ image'[j] = image[j]
    BY <1>1, <1>2
  <2>2. image'[i] = image[i]
    BY <1>1, <1>2
  <2>3. QED
    BY <1>2, <2>1, <2>2 DEF StoredInOrder
<1>3. CASE i = Len(image) + 1
  <2>1. \A j \in 1 .. i - 1 : j \in DOMAIN image /\ image'[j] = image[j]
    BY <1>1, <1>3
  <2>2. image'[i] = x
    BY <1>1, <1>3
  <2>3. ASSUME x.block > 1
        PROVE  \E j \in 1 .. i - 1 : /\ image'[j].session = x.session
                                     /\ image'[j].block = x.block - 1
    <3>1. PICK j \in DOMAIN image : /\ image[j].session = x.session
                                    /\ image[j].block = x.block - 1
      BY <2>3 DEF HasStored
    <3>2. j \in 1 .. i - 1
      BY <1>1, <1>3
    <3>3. QED
      BY <2>1, <3>1, <3>2
  <2>4. QED
    BY <2>1, <2>2, <2>3
<1>4. QED
  BY <1>1, <1>2, <1>3

-----------------------------------------------------------------------------
LEMMA InitInv == Init => IInv
<1> SUFFICES ASSUME Init PROVE IInv
  OBVIOUS
<1>1. TypeOK /\ ClientInv
  BY InitType DEF TypeInv
<1>2. DOMAIN image = {} /\ DOMAIN session = {}
  BY DEF Init
<1>3. QED
  BY <1>1, <1>2
  DEF Init, IInv, PacketInv, SessionInv, ImageInv, StoredInOrder, AckMeansStored,
      DoneMeansStored

(* Steps that leave the server's sessions and the image alone. *)
LEMMA QuietServer ==
  ASSUME IInv, UNCHANGED <<session, ports, image>>
  PROVE  /\ ImageInv' /\ StoredInOrder'
         /\ \A s, n : HasStored(s, n) => HasStored(s, n)'
         /\ tid' = tid => SessionInv'
         /\ toClient' \subseteq toClient => AckMeansStored'
         /\ (tid' = tid /\ cst' = cst) => DoneMeansStored'
<1>1. ImageInv' /\ StoredInOrder'
  BY DEF IInv, ImageInv, StoredInOrder
<1>2. \A s, n : HasStored(s, n) <=> HasStored(s, n)'
  BY DEF HasStored
<1>3. tid' = tid => SessionInv'
  BY <1>2 DEF IInv, SessionInv
<1>4. toClient' \subseteq toClient => AckMeansStored'
  BY <1>2 DEF IInv, AckMeansStored
<1>5. (tid' = tid /\ cst' = cst) => DoneMeansStored'
  BY <1>2 DEF IInv, DoneMeansStored, WholeFile
<1>6. QED
  BY <1>1, <1>2, <1>3, <1>4, <1>5

(* Steps that hand out a port, and at most open a session on it. *)
LEMMA RequestStep ==
  ASSUME IInv, NEW c \in Client, Requested(c)
  PROVE  IInv'
<1> USE DEF Requested, UnknownRequest
<1>1. TypeInv /\ TypeInv'
  BY RequestType DEF IInv, TypeInv
<1>2. UNCHANGED <<image, toServer, cst, tid, acked>>
  BY DEF process_tftp_request, NoPcb, NoArgs, OpenSession, serverVars, clientVars
<1>3. \A s, n : HasStored(s, n) => HasStored(s, n)'
  BY <1>2 DEF HasStored
<1>4. StoredInOrder' /\ DoneMeansStored' /\ PacketInv'
  BY <1>2, <1>3
  DEF IInv, StoredInOrder, DoneMeansStored, WholeFile, PacketInv
<1>5. /\ ports \in Nat /\ ports' \in Nat /\ ports' >= ports
      /\ \A i \in DOMAIN image : image[i].session \in Nat
  <2>1. ports \in Nat
    BY <1>1, TftpAssumption DEF TypeInv, TypeOK
  <2>2. \A i \in DOMAIN image : image[i] \in Stored
    BY <1>1, ElementOfSeq DEF TypeInv, TypeOK
  <2>3. QED
    BY <2>1, <2>2
    DEF process_tftp_request, NoPcb, NoArgs, OpenSession, serverVars, udp_new_port,
        Stored, Port
<1>6. ImageInv'
  BY <1>2, <1>5 DEF IInv, ImageInv
<1>7. AckMeansStored'
  <2>1. \A m \in toClient' : m \in toClient \/ (m.op = "ACK" => m.block = 0)
    BY DEF process_tftp_request, NoPcb, NoArgs, OpenSession, Ack, Error
  <2>2. \A m \in toClient' : m.to \in Client
    BY <1>1 DEF TypeInv, TypeOK, Answer
  <2>3. QED
    BY <1>3, <2>1, <2>2, DataBlocksBound DEF IInv, AckMeansStored, DataBlocks
<1>8. SessionInv'
  <2>1. CASE session' = session
    BY <1>2, <1>3, <2>1 DEF IInv, SessionInv
  <2>2. CASE OpenSession(c)
    <3>1. \A s \in DOMAIN session' :
             \/ s \in DOMAIN session /\ session'[s] = session[s]
             \/ s = ports + 1 /\ session'[s].block = 0
      BY <2>2 DEF OpenSession, Opened
    <3>2. \A i \in DOMAIN image : image[i].session # ports + 1
      BY <1>5 DEF IInv, ImageInv
    <3>3. 0 < FileBlocks
      BY TftpAssumption
    <3>4. QED
      BY <1>2, <1>3, <3>1, <3>2, <3>3 DEF IInv, SessionInv
  <2>3. QED
    BY <2>1, <2>2 DEF process_tftp_request, NoPcb, NoArgs, serverVars
<1>9. QED
  BY <1>1, <1>4, <1>6, <1>7, <1>8 DEF IInv, TypeInv

(* An ERROR is never the packet a session waits for. *)
LEMMA ExpectedIsData ==
  ASSUME IInv, NEW p \in toServer, p.to \in DOMAIN session,
         session[p.to].remote = p.from, Expected(p)
  PROVE  /\ p.op = "DATA" /\ p.to = tid[p.from]
         /\ p.block \in 1 .. FileBlocks
         /\ p = Data(p.from, p.to, p.block)
<1>1. p \in Packet /\ session[p.to] \in Session
  BY DEF IInv, TypeOK
<1>2. p.block = session[p.to].block + 1 /\ session[p.to].block \in Nat
  BY <1>1 DEF Expected, Session
<1>3. p.block \in 1 .. FileBlocks
  BY <1>2, TftpAssumption DEF IInv, SessionInv
<1>4. p.op # "ERROR"
  <2>1. SUFFICES ASSUME p.op = "ERROR" PROVE FALSE
    OBVIOUS
  <2>2. p.to # tid[p.from] /\ p.block # 1
    BY <1>3, <2>1 DEF IInv, PacketInv
  <2>3. session[p.to].block = 0
    BY <2>2 DEF IInv, SessionInv
  <2>4. QED
    BY <1>2, <2>2, <2>3
<1>5. p.op = "DATA"
  BY <1>1, <1>4 DEF Packet
<1>6. QED
  BY <1>3, <1>5 DEF IInv, PacketInv

(* A packet of an open session: what is acknowledged has been stored. *)
LEMMA BlockStep ==
  ASSUME IInv, NEW p \in toServer, wrq_recv_callback(p)
  PROVE  IInv'
<1> DEFINE s == p.to
           x == [session |-> s, from |-> p.from, op |-> p.op, block |-> p.block]
           b == session[s].block
           n == IF Expected(p) THEN p.block ELSE b
<1>1. TypeInv /\ TypeInv'
  BY BlockType DEF IInv, TypeInv
<1>2. /\ s \in DOMAIN session /\ session[s].remote = p.from
      /\ UNCHANGED <<ports, cst, tid, acked>>
  BY DEF FromPeer, wrq_recv_callback, clientVars
<1>3. /\ p \in Packet /\ session[s] \in Session
      /\ b \in Nat /\ p.block \in Nat /\ p.from \in Client /\ s \in Port
      /\ ports \in Nat /\ s <= ports
      /\ image \in Seq(Stored) /\ x \in Stored
  BY <1>1, <1>2, TftpAssumption DEF TypeInv, TypeOK, Packet, Session, Stored, Port
<1>4. /\ b < FileBlocks
      /\ \A k \in 1 .. b : HasStored(s, k)
      /\ \A i \in DOMAIN image : image[i].session = s => image[i].block <= b
  BY <1>2 DEF IInv, SessionInv
<1>5. Expected(p) => p.block = b + 1
  BY DEF Expected
<1>6. Expected(p) => /\ p.op = "DATA" /\ s = tid[p.from]
                     /\ p.block \in 1 .. FileBlocks
                     /\ p = Data(p.from, s, p.block)
  BY <1>2, ExpectedIsData
<1>7. \/ image' = image
      \/ Expected(p) /\ CarriesData(p) /\ image' = Append(image, x)
  BY DEF FromPeer, wrq_recv_callback
<1>8. \A i \in DOMAIN image : image[i] \in Stored /\ image[i].block \in Nat
  <2>1. \A i \in DOMAIN image : image[i] \in Stored
    BY <1>3, ElementOfSeq
  <2>2. QED
    BY <2>1 DEF Stored
<1>9. \A r, k : HasStored(r, k) => HasStored(r, k)'
  <2>1. CASE image' = image
    BY <2>1 DEF HasStored
  <2>2. CASE image' = Append(image, x)
    BY <1>3, <2>2, StoredStays
  <2>3. QED
    BY <1>7, <2>1, <2>2
<1>10. ASSUME NEW k \in DataBlocks(p.from), k <= n
       PROVE  HasStored(s, k)'
  <2>1. k \in Nat /\ k \in 1 .. FileBlocks
    BY <1>3, DataBlocksBound
  <2>2. CASE k <= b
    BY <1>3, <1>4, <1>9, <2>1, <2>2
  <2>3. CASE ~(k <= b)
    <3>1. Expected(p) /\ k = p.block
      BY <1>3, <1>5, <1>10, <2>1, <2>3
    <3>2. CarriesData(p)
      <4>1. SUFFICES ASSUME p.size = "none" PROVE FALSE
        BY DEF CarriesData
      <4>2. ~(p.block < FileBlocks) /\ p.from \in EmptyLast
        BY <1>6, <3>1, <4>1 DEF Data
      <4>3. k \in 1 .. FileBlocks - 1
        BY <4>2 DEF DataBlocks
      <4>4. QED
        BY <3>1, <4>2, <4>3, TftpAssumption
    <3>3. image' = Append(image, x)
      BY <3>1, <3>2 DEF FromPeer, wrq_recv_callback
    <3>4. QED
      BY <1>3, <3>1, <3>3, StoredStays
  <2>4. QED
    BY <2>2, <2>3
<1>11. AckMeansStored'
  <2>1. toClient' = toClient \cup {Ack(s, p.from, n)}
    BY DEF FromPeer, wrq_recv_callback
  <2>2. SUFFICES ASSUME NEW m \in toClient', m.op = "ACK",
                        NEW k \in DataBlocks(m.to), k <= m.block
                 PROVE  HasStored(m.from, k)'
    BY DEF AckMeansStored
  <2>3. CASE m \in toClient
    BY <1>9, <2>2, <2>3 DEF IInv, AckMeansStored
  <2>4. CASE m = Ack(s, p.from, n)
    BY <1>10, <2>2, <2>4 DEF Ack
  <2>5. QED
    BY <2>1, <2>3, <2>4
<1>12. StoredInOrder'
  <2>1. CASE image' = image
    BY <2>1 DEF IInv, StoredInOrder
  <2>2. CASE Expected(p) /\ image' = Append(image, x)
    <3>1. /\ x.op = "DATA" /\ x.block >= 1 /\ x.session = s /\ x.block = b + 1
          /\ x.block - 1 = b
      BY <1>3, <1>5, <1>6, <2>2
    <3>2. \A i \in DOMAIN image : image[i].session = x.session => image[i].block < x.block
      BY <1>3, <1>4, <1>8, <3>1
    <3>3. x.block > 1 => HasStored(x.session, x.block - 1)
      BY <1>3, <1>4, <3>1
    <3>4. StoredInOrder
      BY DEF IInv
    <3>5. QED
      BY <1>3, <2>2, <3>1, <3>2, <3>3, <3>4, OrderKept
  <2>3. QED
    BY <1>7, <2>1, <2>2
<1>13. \A i \in DOMAIN image' :
          \/ i \in DOMAIN image /\ image'[i] = image[i]
          \/ Expected(p) /\ image'[i] = x
  BY <1>3, <1>7, Appended
<1>14. ImageInv'
  BY <1>2, <1>3, <1>13 DEF IInv, ImageInv
<1>15. SessionInv'
  <2>1. ASSUME NEW r \in DOMAIN session', r # s
        PROVE  /\ r \in DOMAIN session /\ session'[r] = session[r]
               /\ \A i \in DOMAIN image' :
                     image'[i].session = r => image'[i].block <= session'[r].block
    <3>1. r \in DOMAIN session /\ session'[r] = session[r]
      BY <1>2, <2>1 DEF FromPeer, wrq_recv_callback
    <3>2. QED
      BY <1>13, <2>1, <3>1 DEF IInv, SessionInv
  <2>2. ASSUME s \in DOMAIN session'
        PROVE  /\ session'[s].block = n /\ session'[s].remote = session[s].remote
               /\ ~LastPacket(p)
    <3>1. ~LastPacket(p)
      BY <2>2 DEF FromPeer, wrq_recv_callback
    <3>2. session' = [session EXCEPT ![s].block = n]
      BY <3>1 DEF FromPeer, wrq_recv_callback
    <3>3. QED
      BY <1>2, <1>3, <3>1, <3>2 DEF Session
  <2>3. ASSUME s \in DOMAIN session'
        PROVE  /\ n < FileBlocks
               /\ s # tid[session[s].remote] => n = 0
               /\ \A k \in 1 .. n : HasStored(s, k)'
               /\ \A i \in DOMAIN image' : image'[i].session = s => image'[i].block <= n
    <3>1. CASE ~Expected(p)
      BY <1>2, <1>4, <1>9, <1>13, <3>1 DEF IInv, SessionInv
    <3>2. CASE Expected(p)
      <4>1. p.block < FileBlocks /\ CarriesData(p)
        BY <1>6, <2>2, <2>3, <3>2 DEF LastPacket, CarriesData, Data
      <4>2. image' = Append(image, x)
        BY <3>2, <4>1 DEF FromPeer, wrq_recv_callback
      <4>3. HasStored(s, p.block)'
        BY <1>3, <4>2, StoredStays
      <4>4. ASSUME NEW k \in 1 .. p.block
            PROVE  HasStored(s, k)'
        <5>1. k = p.block \/ k \in 1 .. b
          BY <1>3, <1>5, <3>2
        <5>2. QED
          BY <1>4, <1>9, <4>3, <5>1
      <4>5. ASSUME NEW i \in DOMAIN image', image'[i].session = s
            PROVE  image'[i].block <= p.block
        <5>1. CASE i \in DOMAIN image /\ image'[i] = image[i]
          <6>1. image[i].block <= b /\ image[i].block \in Nat
            BY <1>4, <1>8, <4>5, <5>1
          <6>2. QED
            BY <1>3, <1>5, <3>2, <5>1, <6>1
        <5>2. CASE image'[i] = x
          BY <1>3, <5>2
        <5>3. QED
          BY <1>13, <5>1, <5>2
      <4>6. n = p.block /\ s = tid[session[s].remote]
        BY <1>2, <1>6, <3>2
      <4>7. \A k \in 1 .. n : HasStored(s, k)'
        BY <4>4, <4>6
      <4>8. \A i \in DOMAIN image' : image'[i].session = s => image'[i].block <= n
        BY <4>5, <4>6
      <4>9. QED
        BY <4>1, <4>6, <4>7, <4>8
    <3>3. QED
      BY <3>1, <3>2
  <2>4. QED
    BY <1>2, <1>9, <2>1, <2>2, <2>3 DEF IInv, SessionInv
<1>16. PacketInv'
  <2>1. toServer' \subseteq toServer
    BY DeliverSubset DEF FromPeer, wrq_recv_callback
  <2>2. QED
    BY <1>2, <2>1 DEF IInv, PacketInv
<1>17. DoneMeansStored'
  BY <1>2, <1>9 DEF IInv, DoneMeansStored, WholeFile
<1>18. QED
  BY <1>1, <1>11, <1>12, <1>14, <1>15, <1>16, <1>17 DEF IInv, TypeInv

(* What a client sends, and what it abandons its upload with. *)
LEMMA ClientStep ==
  ASSUME Polite, IInv,
         (\E c \in Client : \/ ClientRequest(c)
                            \/ ClientRetryRequest(c)
                            \/ ClientSend(c)
                            \/ ClientAbort(c))
  PROVE  IInv'
<1>1. TypeInv /\ TypeInv'
  BY ClientType DEF IInv, TypeInv
<1>2. PICK c \in Client : \/ ClientRequest(c)
                          \/ ClientRetryRequest(c)
                          \/ ClientSend(c)
                          \/ ClientAbort(c)
  OBVIOUS
<1>3. /\ UNCHANGED <<session, ports, image, toClient, tid, acked>>
      /\ \A d \in Client : cst'[d] = "done" => cst[d] = "done"
      /\ \A d \in Client : cst[d] \in {"send", "done", "failed"}
                             => cst'[d] \in {"send", "done", "failed"}
  BY <1>1, <1>2
  DEF ClientRequest, ClientRetryRequest, ClientSend, ClientAbort, serverVars, clientVars,
      TypeInv, TypeOK
<1>4. ImageInv' /\ StoredInOrder' /\ SessionInv' /\ AckMeansStored'
  BY <1>3, QuietServer
<1>5. DoneMeansStored'
  BY <1>3, QuietServer DEF IInv, DoneMeansStored, WholeFile
<1>6. PacketInv'
  <2>1. \A p \in toServer : p.from \in Client
    BY <1>1 DEF TypeInv, TypeOK, Packet
  <2>2. CASE toServer' = toServer
    BY <1>3, <2>1, <2>2 DEF IInv, PacketInv
  <2>3. CASE ClientSend(c)
    <3>1. acked[c] + 1 \in 1 .. FileBlocks
      BY <1>1, <2>3, TftpAssumption DEF ClientSend, TypeInv, TypeOK, ClientInv
    <3>2. \A p \in toServer' : p \in toServer \/ p = Data(c, tid[c], acked[c] + 1)
      BY <2>3 DEF ClientSend
    <3>3. LET p == Data(c, tid[c], acked[c] + 1)
          IN  /\ p.from = c /\ p.op = "DATA" /\ p.to = tid[c]
              /\ p.block = acked[c] + 1
              /\ p = Data(p.from, p.to, p.block)
      BY DEF Data
    <3>4. cst[c] = "send" /\ cst' = cst
      BY <2>3 DEF ClientSend, clientVars
    <3>5. QED
      BY <1>3, <2>1, <3>1, <3>2, <3>3, <3>4 DEF IInv, PacketInv
  <2>4. CASE ClientAbort(c)
    <3>1. PICK code \in AbortCodes :
             toServer' = toServer \cup {ClientError(c, tid[c], code)}
      BY <2>4 DEF ClientAbort
    <3>2. code \notin 1 .. FileBlocks
      BY <3>1 DEF Polite
    <3>3. LET p == ClientError(c, tid[c], code)
          IN  p.from = c /\ p.op = "ERROR" /\ p.block = code
      BY DEF ClientError
    <3>4. cst'[c] = "failed"
      BY <1>1, <2>4 DEF ClientAbort, TypeInv, TypeOK
    <3>5. QED
      BY <1>3, <2>1, <3>1, <3>2, <3>3, <3>4 DEF IInv, PacketInv
  <2>5. QED
    BY <1>2, <2>2, <2>3, <2>4 DEF ClientRequest, ClientRetryRequest
<1>7. QED
  BY <1>1, <1>4, <1>5, <1>6 DEF IInv, TypeInv

(* What a client makes of an answer. *)
LEMMA ReceiveStep ==
  ASSUME IInv, NEW m \in toClient, ClientReceive(m)
  PROVE  IInv'
<1> DEFINE c == m.to
<1>1. TypeInv /\ TypeInv'
  BY ReceiveType DEF IInv, TypeInv
<1>2. c \in Client /\ m.from \in Port /\ m.block \in Nat
  BY <1>1 DEF TypeInv, TypeOK, Answer
<1>3. UNCHANGED <<session, ports, image>> /\ toClient' \subseteq toClient
  BY DeliverSubset DEF ClientReceive, serverVars
<1>4. /\ ImageInv' /\ StoredInOrder' /\ AckMeansStored'
      /\ \A s, k : HasStored(s, k) => HasStored(s, k)'
      /\ tid' = tid => SessionInv'
      /\ (tid' = tid /\ cst' = cst) => DoneMeansStored'
  BY <1>3, QuietServer
<1>5. \A p \in toServer : p.from \in Client
  BY <1>1 DEF TypeInv, TypeOK, Packet
<1>6. CASE Adopt(c, m)
  <2>1. /\ cst[c] = "wrq" /\ tid[c] = 0 /\ toServer' = toServer
        /\ cst'[c] = "send" /\ tid'[c] = m.from
        /\ \A d \in Client \ {c} : cst'[d] = cst[d] /\ tid'[d] = tid[d]
    BY <1>1, <1>2, <1>6 DEF Adopt, TypeInv, TypeOK, ClientInv
  <2>2. \A p \in toServer : p.from # c
    BY <2>1 DEF IInv, PacketInv
  <2>3. PacketInv'
    BY <1>5, <2>1, <2>2 DEF IInv, PacketInv
  <2>4. \A s \in DOMAIN session : s # 0 /\ session[s].remote \in Client
    BY <1>1, TftpAssumption DEF TypeInv, TypeOK, Session
  <2>5. SessionInv'
    <3>1. ASSUME NEW s \in DOMAIN session, s # tid'[session[s].remote]
          PROVE  session[s].block = 0
      BY <2>1, <2>4, <3>1 DEF IInv, SessionInv
    <3>2. QED
      BY <1>3, <1>4, <3>1 DEF IInv, SessionInv
  <2>6. DoneMeansStored'
    BY <1>4, <2>1 DEF IInv, DoneMeansStored, WholeFile
  <2>7. QED
    BY <1>1, <1>4, <2>3, <2>5, <2>6 DEF IInv, TypeInv
<1>7. CASE Advance(c, m)
  <2>1. /\ tid' = tid /\ toServer' = toServer
        /\ cst[c] = "send" /\ cst'[c] \in {"send", "done"}
        /\ cst'[c] = "done" => m.block = FileBlocks
        /\ m.from = tid[c] /\ m.op = "ACK"
        /\ \A d \in Client \ {c} : cst'[d] = cst[d]
    BY <1>1, <1>2, <1>7 DEF Advance, TypeInv, TypeOK
  <2>2. PacketInv'
    BY <1>5, <2>1 DEF IInv, PacketInv
  <2>3. ASSUME cst'[c] = "done"
        PROVE  WholeFile(tid[c], c)'
    <3>1. \A k \in DataBlocks(c) : k <= m.block
      BY <1>2, <2>1, <2>3, DataBlocksBound, TftpAssumption
    <3>2. \A k \in DataBlocks(c) : HasStored(tid[c], k)
      BY <2>1, <3>1 DEF IInv, AckMeansStored
    <3>3. QED
      BY <1>4, <2>1, <3>2 DEF WholeFile
  <2>4. DoneMeansStored'
    BY <1>4, <2>1, <2>3 DEF IInv, DoneMeansStored, WholeFile
  <2>5. QED
    BY <1>1, <1>4, <2>1, <2>2, <2>4 DEF IInv, TypeInv
<1>8. CASE Reject(c, m)
  <2>1. /\ UNCHANGED <<cst, tid>>
        /\ \A p \in toServer' : p \in toServer \/ p = ClientError(c, m.from, 5)
    BY <1>8 DEF Reject, clientVars
  <2>2. LET p == ClientError(c, m.from, 5)
        IN  p.from = c /\ p.op = "ERROR" /\ p.to = m.from /\ p.block = 5
    BY DEF ClientError
  <2>3. cst[c] \in {"send", "done"} /\ m.from # tid[c]
    BY <1>8 DEF Reject
  <2>4. PacketInv'
    BY <2>1, <2>2, <2>3 DEF IInv, PacketInv
  <2>5. QED
    BY <1>1, <1>4, <2>1, <2>4 DEF IInv, TypeInv
<1>9. CASE GiveUp(c, m) \/ Ignore(c, m)
  <2>1. /\ tid' = tid /\ toServer' = toServer
        /\ \A d \in Client : cst'[d] = "done" => cst[d] = "done"
        /\ \A d \in Client : cst[d] \in {"send", "done", "failed"}
                               => cst'[d] \in {"send", "done", "failed"}
    BY <1>1, <1>9 DEF GiveUp, Ignore, clientVars, TypeInv, TypeOK
  <2>2. PacketInv'
    BY <1>5, <2>1 DEF IInv, PacketInv
  <2>3. DoneMeansStored'
    BY <1>4, <2>1 DEF IInv, DoneMeansStored, WholeFile
  <2>4. QED
    BY <1>1, <1>4, <2>1, <2>2, <2>3 DEF IInv, TypeInv
<1>10. QED
  BY <1>6, <1>7, <1>8, <1>9 DEF ClientReceive

-----------------------------------------------------------------------------
LEMMA StepInv == Polite /\ IInv /\ [Next]_vars => IInv'
<1> SUFFICES ASSUME Polite, IInv, [Next]_vars PROVE IInv'
  OBVIOUS
<1>1. TypeInv'
  BY StepType DEF IInv, TypeInv
<1>2. ASSUME UNCHANGED <<session, ports, image, cst, tid, acked>>,
             toServer' \subseteq toServer, toClient' \subseteq toClient
      PROVE  IInv'
  <2>1. PacketInv'
    BY <1>2 DEF IInv, PacketInv
  <2>2. QED
    BY <1>1, <1>2, <2>1, QuietServer DEF IInv, TypeInv
<1>3. ASSUME NEW c \in Client, Requested(c) PROVE IInv'
  BY <1>3, RequestStep
<1>4. ASSUME NEW p \in toServer, udp_input_no_pcb(p) PROVE IInv'
  BY <1>2, <1>4, DeliverSubset DEF FromPeer, udp_input_no_pcb, serverVars, clientVars
<1>5. CASE Frame
  BY <1>3, <1>4, <1>5, BlockStep DEF Frame, Requested, IInv, TypeOK
<1>6. CASE FinishSeen
  BY <1>2, <1>6 DEF FinishSeen, netVars, clientVars
<1>7. CASE Lose
  BY <1>2, <1>7 DEF Lose, serverVars, clientVars
<1>8. CASE Environment
  BY <1>7, <1>8, ClientStep, ReceiveStep DEF Environment
<1>9. CASE UNCHANGED vars
  BY <1>2, <1>9 DEF vars, serverVars, netVars, clientVars
<1>10. QED
  BY <1>5, <1>6, <1>8, <1>9 DEF Next

(* The inductive invariant, for clients that abandon their uploads with     *)
(* error codes that are no block numbers.                                   *)
THEOREM InvCorrect ==
  ASSUME Polite
  PROVE  Spec => []IInv
BY InitInv, StepInv, PTL DEF Spec

(* Under the same assumption what a session stores are the blocks of its    *)
(* client's file, each once and in order.                                   *)
THEOREM StoredInOrderCorrect ==
  ASSUME Polite
  PROVE  Spec => []StoredInOrder
<1>1. IInv => StoredInOrder
  BY DEF IInv
<1>2. QED
  BY <1>1, InvCorrect, PTL

(* Under the same assumption an acknowledged block is stored, and so are    *)
(* all before it.                                                           *)
THEOREM AckMeansStoredCorrect ==
  ASSUME Polite
  PROVE  Spec => []AckMeansStored
<1>1. IInv => AckMeansStored
  BY DEF IInv
<1>2. QED
  BY <1>1, InvCorrect, PTL

(* Under the same assumption a client whose upload succeeded has its whole  *)
(* file in the flash.                                                       *)
THEOREM DoneMeansStoredCorrect ==
  ASSUME Polite
  PROVE  Spec => []DoneMeansStored
<1>1. IInv => DoneMeansStored
  BY DEF IInv
<1>2. QED
  BY <1>1, InvCorrect, PTL

-----------------------------------------------------------------------------
(* Clients that neither repeat their requests nor abandon their uploads. *)

LEMMA SteadyPolite == Steady => Polite
BY DEF Steady, Polite

LEMMA InitSteady == Init => SteadyInv
BY InitInv, TftpAssumption DEF Init, SteadyInv, OneSession, NotAhead

(* What all of the proof needs of types. *)
LEMMA SteadyTypes ==
  ASSUME SteadyInv
  PROVE  /\ \A m \in toClient : m.to \in Client /\ m.from \in Port /\ m.block \in Nat
         /\ \A p \in toServer : p.to \in Port /\ p.from \in Client /\ p.block \in Nat
         /\ \A s \in DOMAIN session : /\ s \in 1 .. ports /\ session[s].block \in Nat
                                      /\ session[s].remote \in Client
         /\ ports \in Nat /\ requests \subseteq Client
         /\ \A c \in Client : tid[c] \in Nat /\ acked[c] \in Nat
         /\ \A p \in toServer : /\ p.to = tid[p.from] /\ p.block \in 1 .. FileBlocks
                                /\ p = Data(p.from, p.to, p.block)
                                /\ cst[p.from] \in {"send", "done", "failed"}
  BY TftpAssumption DEF SteadyInv, OneSession, IInv, TypeOK, Answer, Packet, Session, Port,
     PacketInv

(* Packets that are taken off the network, or are lost, disturb nothing. *)
LEMMA SteadyQuiet ==
  ASSUME SteadyInv, UNCHANGED <<session, ports, cst, tid, acked>>,
         requests' \subseteq requests, toServer' \subseteq toServer,
         toClient' \subseteq toClient
  PROVE  OneSession' /\ NotAhead'
<1>1. OneSession'
  BY DEF SteadyInv, OneSession
<1>2. NotAhead'
  BY DEF SteadyInv, NotAhead
<1>3. QED
  BY <1>1, <1>2

LEMMA SteadyRequest ==
  ASSUME Steady, SteadyInv, NEW c \in requests, process_tftp_request(c)
  PROVE  OneSession' /\ NotAhead'
<1>1. /\ requests' = requests \ {c}
      /\ UNCHANGED <<toServer, cst, tid, acked>>
  BY DEF process_tftp_request, Deliver, Steady, clientVars
<1>2. c \in Client /\ cst[c] = "wrq" /\ tid[c] = 0
  BY SteadyTypes DEF SteadyInv, OneSession, IInv, ClientInv
<1>3. CASE NoPcb(c)
  BY <1>1, <1>3, SteadyQuiet DEF NoPcb, serverVars
<1>4. CASE NoArgs(c) \/ OpenSession(c)
  <2>1. PICK a \in {Error(ports + 1, c, 0), Ack(ports + 1, c, 0)} :
          toClient' = toClient \cup {a}
    BY <1>4 DEF NoArgs, OpenSession
  <2>2. a.to = c /\ a.from = ports + 1 /\ a.block = 0
    BY <2>1 DEF Error, Ack
  <2>3. ports' = ports + 1
    BY <1>4 DEF NoArgs, OpenSession, udp_new_port
  <2>4. \A s \in DOMAIN session' :
          \/ s \in DOMAIN session /\ session'[s] = session[s]
          \/ s = ports + 1 /\ session'[s].block = 0
    BY <1>4 DEF NoArgs, OpenSession, Opened
  <2>5. OneSession'
    BY <1>1, <1>2, <2>1, <2>2 DEF SteadyInv, OneSession
  <2>6. ASSUME NEW s \in DOMAIN session'
        PROVE  /\ \A m \in toClient' : m.from = s /\ m.op = "ACK" => m.block <= session'[s].block
               /\ \A d \in Client : tid[d] = s => acked[d] <= session'[s].block
               /\ \A p \in toServer : p.to = s => p.block <= session'[s].block + 1
    <3>1. CASE s \in DOMAIN session /\ session'[s] = session[s]
      <4>1. s # ports + 1
        BY <3>1, SteadyTypes
      <4>2. QED
        BY <2>1, <2>2, <3>1, <4>1 DEF SteadyInv, NotAhead
    <3>2. CASE s = ports + 1 /\ session'[s].block = 0
      <4>1. \A m \in toClient : m.from # s
        BY <3>2, SteadyTypes DEF SteadyInv, NotAhead
      <4>2. \A d \in Client : tid[d] # s
        BY <3>2, SteadyTypes DEF SteadyInv, NotAhead
      <4>3. \A p \in toServer : p.to # s
        BY <4>2, SteadyTypes
      <4>4. QED
        BY <2>1, <2>2, <3>2, <4>1, <4>2, <4>3
    <3>3. QED
      BY <2>4, <3>1, <3>2
  <2>7. /\ \A d \in Client : tid[d] <= ports + 1 /\ (tid[d] = 0 => acked[d] = 0)
        /\ \A m \in toClient' : m.from <= ports + 1
    <3>1. \A x \in Nat : x <= ports => x <= ports + 1
      BY SteadyTypes
    <3>2. \A d \in Client : tid[d] \in Nat /\ tid[d] <= ports /\ (tid[d] = 0 => acked[d] = 0)
      BY SteadyTypes DEF SteadyInv, NotAhead
    <3>3. \A m \in toClient : m.from \in Nat /\ m.from <= ports
      BY SteadyTypes, TftpAssumption DEF SteadyInv, NotAhead, Port
    <3>4. ports + 1 <= ports + 1
      BY SteadyTypes
    <3>5. QED
      BY <2>1, <2>2, <3>1, <3>2, <3>3, <3>4
  <2>8. NotAhead'
    BY <1>1, <2>3, <2>6, <2>7 DEF NotAhead
  <2>9. QED
    BY <2>5, <2>8
<1>5. QED
  BY <1>3, <1>4 DEF process_tftp_request

(* A block, and what is left of its session. *)
LEMMA SteadyBlock ==
  ASSUME SteadyInv, NEW p \in toServer, wrq_recv_callback(p)
  PROVE  OneSession' /\ NotAhead'
<1> DEFINE n == IF Expected(p) THEN p.block ELSE session[p.to].block
<1>1. /\ toServer' \subseteq toServer /\ toClient' = toClient \cup {Ack(p.to, p.from, n)}
      /\ UNCHANGED <<requests, ports, cst, tid, acked>>
  BY DeliverSubset DEF wrq_recv_callback, clientVars
<1>2. /\ p.to \in DOMAIN session /\ p.to = tid[p.from] /\ p.to \in 1 .. ports
      /\ cst[p.from] \in {"send", "done", "failed"} /\ p.from \in Client
      /\ n \in Nat /\ session[p.to].block <= n /\ ports \in Nat
  BY SteadyTypes DEF wrq_recv_callback, FromPeer, Expected
<1>3. \A s \in DOMAIN session' :
         /\ s \in DOMAIN session
         /\ session'[s].block = IF s = p.to THEN n ELSE session[s].block
         /\ session[s].block <= session'[s].block /\ session'[s].block \in Nat
  <2>1. CASE LastPacket(p)
    BY <2>1, SteadyTypes DEF wrq_recv_callback
  <2>2. CASE ~LastPacket(p)
    <3>1. session' = [session EXCEPT ![p.to].block = n]
      BY <2>2 DEF wrq_recv_callback
    <3>2. session[p.to] \in Session
      BY <1>2 DEF SteadyInv, IInv, TypeOK
    <3>3. QED
      BY <1>2, <3>1, <3>2, SteadyTypes DEF Session
  <2>3. QED
    BY <2>1, <2>2
<1>4. LET a == Ack(p.to, p.from, n)
      IN  a.to = p.from /\ a.from = p.to /\ a.block = n
  BY DEF Ack
<1> HIDE DEF n
<1>5. p.from \notin requests
  BY <1>2 DEF SteadyInv, OneSession
<1>6. \A m \in toClient : m.to = p.from => m.from = p.to
  BY <1>2 DEF SteadyInv, OneSession
<1>7. OneSession'
  BY <1>1, <1>2, <1>4, <1>5, <1>6 DEF SteadyInv, OneSession
<1>8. ASSUME NEW s \in DOMAIN session'
      PROVE  /\ \A m \in toClient' : m.from = s /\ m.op = "ACK" => m.block <= session'[s].block
             /\ \A d \in Client : tid[d] = s => acked[d] <= session'[s].block
             /\ \A q \in toServer' : q.to = s => q.block <= session'[s].block + 1
  <2>1. session[s].block <= session'[s].block /\ session'[s].block \in Nat
        /\ s \in DOMAIN session /\ session[s].block \in Nat
        /\ (s = p.to => session'[s].block = n)
    BY <1>3, SteadyTypes
  <2>2. ASSUME NEW m \in toClient', m.from = s, m.op = "ACK"
        PROVE  m.block <= session'[s].block
    <3>1. CASE m \in toClient
      <4>1. m.block <= session[s].block /\ m.block \in Nat
        BY <2>1, <2>2, <3>1, SteadyTypes DEF SteadyInv, NotAhead
      <4>2. QED
        BY <2>1, <4>1
    <3>2. CASE m = Ack(p.to, p.from, n)
      BY <1>2, <1>4, <2>1, <2>2, <3>2
    <3>3. QED
      BY <1>1, <2>2, <3>1, <3>2
  <2>3. ASSUME NEW d \in Client, tid[d] = s PROVE acked[d] <= session'[s].block
    <3>1. acked[d] <= session[s].block /\ acked[d] \in Nat
      BY <2>1, <2>3, SteadyTypes DEF SteadyInv, NotAhead
    <3>2. QED
      BY <2>1, <3>1
  <2>4. ASSUME NEW q \in toServer', q.to = s PROVE q.block <= session'[s].block + 1
    <3>1. q.block <= session[s].block + 1 /\ q.block \in Nat
      BY <1>1, <2>1, <2>4, SteadyTypes DEF SteadyInv, NotAhead
    <3>2. QED
      BY <2>1, <3>1
  <2>5. QED
    BY <2>2, <2>3, <2>4
<1>9. /\ \A d \in Client : tid[d] <= ports /\ (tid[d] = 0 => acked[d] = 0)
      /\ \A m \in toClient' : m.from <= ports
  BY <1>1, <1>2, <1>4 DEF SteadyInv, NotAhead
<1>10. NotAhead'
  BY <1>1, <1>8, <1>9 DEF NotAhead
<1>11. QED
  BY <1>7, <1>10

LEMMA SteadyClient ==
  ASSUME Steady, SteadyInv,
         (\E c \in Client : \/ ClientRequest(c)
                            \/ ClientRetryRequest(c)
                            \/ ClientSend(c)
                            \/ ClientAbort(c))
  PROVE  OneSession' /\ NotAhead'
<1>1. PICK c \in Client : ClientRequest(c) \/ ClientSend(c)
  BY DEF Steady, ClientRetryRequest, ClientAbort
<1>2. UNCHANGED <<session, ports, toClient, tid, acked>>
  BY <1>1 DEF ClientRequest, ClientSend, serverVars, clientVars
<1>3. CASE ClientRequest(c)
  <2>1. /\ requests' = requests \cup {c} /\ toServer' = toServer
        /\ \A d \in Client : cst'[d] = IF d = c THEN "wrq" ELSE cst[d]
        /\ cst[c] = "idle"
    BY <1>3 DEF ClientRequest, SteadyInv, IInv, TypeOK
  <2>2. OneSession'
    BY <1>2, <2>1, SteadyTypes DEF SteadyInv, OneSession
  <2>3. NotAhead'
    BY <1>2, <2>1 DEF SteadyInv, NotAhead
  <2>4. QED
    BY <2>2, <2>3
<1>4. CASE ClientSend(c)
  <2>1. /\ toServer' = toServer \cup {Data(c, tid[c], acked[c] + 1)}
        /\ UNCHANGED <<cst, requests>>
    BY <1>4 DEF ClientSend, clientVars
  <2>2. LET p == Data(c, tid[c], acked[c] + 1)
        IN  p.op = "DATA" /\ p.to = tid[c] /\ p.block = acked[c] + 1
    BY DEF Data
  <2>3. OneSession'
    BY <1>2, <2>1, <2>2 DEF SteadyInv, OneSession
  <2>4. ASSUME NEW s \in DOMAIN session, tid[c] = s
        PROVE  acked[c] + 1 <= session[s].block + 1
    BY <2>4, SteadyTypes DEF SteadyInv, NotAhead
  <2>5. NotAhead'
    BY <1>2, <2>1, <2>2, <2>4 DEF SteadyInv, NotAhead
  <2>6. QED
    BY <2>3, <2>5
<1>5. QED
  BY <1>1, <1>3, <1>4

LEMMA SteadyReceive ==
  ASSUME SteadyInv, NEW m \in toClient, ClientReceive(m)
  PROVE  OneSession' /\ NotAhead'
<1> DEFINE c == m.to
<1>1. /\ c \in Client /\ cst[c] # "idle" /\ c \notin requests /\ m.from \in Port
      /\ m.from # 0 /\ m.from <= ports
  BY SteadyTypes, TftpAssumption DEF SteadyInv, OneSession, NotAhead, Port
<1>2. UNCHANGED <<session, ports, requests>> /\ toClient' \subseteq toClient
  BY DeliverSubset DEF ClientReceive, serverVars
<1>3. toServer' = toServer
  <2>1. ~Reject(c, m)
    BY <1>1 DEF Reject, SteadyInv, OneSession, IInv, ClientInv
  <2>2. QED
    BY <2>1 DEF ClientReceive, Adopt, Advance, GiveUp, Ignore
<1>4. \A d \in Client : /\ d # c => cst'[d] = cst[d]
                        /\ cst'[d] = "idle" => cst[d] = "idle"
  BY <1>1 DEF ClientReceive, Adopt, Advance, Reject, GiveUp, Ignore, clientVars, SteadyInv,
     IInv, TypeOK
<1>5. \A d \in requests : d # c
  BY <1>1
<1>6. CASE Adopt(c, m)
  <2>1. acked' = acked /\ tid[c] = 0 /\ acked[c] = 0
        /\ \A d \in Client : tid'[d] = IF d = c THEN m.from ELSE tid[d]
    BY <1>1, <1>6 DEF Adopt, SteadyInv, NotAhead, IInv, TypeOK, ClientInv
  <2>2. OneSession'
    BY <1>2, <1>3, <1>4, <1>5, <2>1, SteadyTypes DEF SteadyInv, OneSession
  <2>3. NotAhead'
    BY <1>1, <1>2, <1>3, <2>1, SteadyTypes DEF SteadyInv, NotAhead
  <2>4. QED
    BY <2>2, <2>3
<1>7. CASE ~Adopt(c, m)
  <2>1. tid' = tid
    BY <1>7 DEF ClientReceive, Advance, Reject, GiveUp, Ignore, clientVars
  <2>2. OneSession'
    BY <1>2, <1>3, <1>4, <1>5, <2>1, SteadyTypes DEF SteadyInv, OneSession
  <2>3. CASE Advance(c, m)
    <3>1. /\ \A d \in Client : acked'[d] = IF d = c THEN m.block ELSE acked[d]
          /\ m.from = tid[c] /\ m.op = "ACK"
      BY <1>1, <2>3 DEF Advance, SteadyInv, IInv, TypeOK
    <3>2. NotAhead'
      BY <1>1, <1>2, <1>3, <2>1, <3>1 DEF SteadyInv, NotAhead
    <3>3. QED
      BY <2>2, <3>2
  <2>4. CASE ~Advance(c, m)
    <3>1. acked' = acked
      BY <1>7, <2>4 DEF ClientReceive, Reject, GiveUp, Ignore, clientVars
    <3>2. NotAhead'
      BY <1>2, <1>3, <2>1, <3>1 DEF SteadyInv, NotAhead
    <3>3. QED
      BY <2>2, <3>2
  <2>5. QED
    BY <2>3, <2>4
<1>8. QED
  BY <1>6, <1>7

LEMMA SteadyStep == Steady /\ SteadyInv /\ [Next]_vars => SteadyInv'
<1> SUFFICES ASSUME Steady, SteadyInv, [Next]_vars PROVE SteadyInv'
  OBVIOUS
<1>1. IInv'
  BY SteadyPolite, StepInv DEF SteadyInv
<1> SUFFICES OneSession' /\ NotAhead'
  BY <1>1 DEF SteadyInv
<1>2. ASSUME NEW c \in requests, process_tftp_request(c) PROVE OneSession' /\ NotAhead'
  BY <1>2, SteadyRequest
<1>3. ASSUME NEW p \in toServer, wrq_recv_callback(p) PROVE OneSession' /\ NotAhead'
  BY <1>3, SteadyBlock
<1>4. ASSUME NEW p \in toServer, udp_input_no_pcb(p) PROVE OneSession' /\ NotAhead'
  BY <1>4, SteadyQuiet, DeliverSubset DEF udp_input_no_pcb, serverVars, clientVars
<1>5. CASE FinishSeen
  BY <1>5, SteadyQuiet DEF FinishSeen, netVars, clientVars
<1>6. CASE Lose
  BY <1>6, SteadyQuiet DEF Lose, serverVars, clientVars
<1>7. CASE Environment
  BY <1>6, <1>7, SteadyClient, SteadyReceive DEF Environment
<1>8. CASE UNCHANGED vars
  BY <1>8, SteadyQuiet DEF vars, serverVars, netVars, clientVars
<1>9. QED
  BY <1>2, <1>3, <1>4, <1>5, <1>7, <1>8 DEF Next, Frame, UnknownRequest, Steady

(* The packet that ends a session is the last of the file, and it comes    *)
(* when all before it are stored.                                          *)
LEMMA EndStores ==
  ASSUME SteadyInv, NEW p \in toServer, wrq_recv_callback(p), LastPacket(p)
  PROVE  WholeFile(p.to, p.from)'
<1> DEFINE s == p.to
           c == p.from
<1>1. /\ s \in DOMAIN session /\ p.block \in 1 .. FileBlocks /\ c \in Client
      /\ p = Data(c, s, p.block) /\ session[s].block \in Nat
  BY SteadyTypes DEF wrq_recv_callback, FromPeer
<1>2. p.size = IF p.block < FileBlocks THEN "full"
               ELSE IF c \in EmptyLast THEN "none" ELSE "short"
  BY <1>1 DEF Data
<1>3. p.block = FileBlocks
  BY <1>1, <1>2, TftpAssumption DEF LastPacket
<1>4. session[s].block < FileBlocks /\ p.block <= session[s].block + 1
  BY <1>1 DEF SteadyInv, IInv, SessionInv, NotAhead
<1>5. Expected(p) /\ session[s].block = FileBlocks - 1
  BY <1>1, <1>3, <1>4, TftpAssumption DEF Expected
<1>6. \A n \in 1 .. FileBlocks - 1 : HasStored(s, n)
  BY <1>1, <1>5 DEF SteadyInv, IInv, SessionInv
<1>7. image \in Seq(Stored)
  BY DEF SteadyInv, IInv, TypeOK
<1> DEFINE x == [session |-> s, from |-> c, op |-> p.op, block |-> p.block]
<1>8. CASE CarriesData(p)
  <2>1. image' = Append(image, x)
    BY <1>5, <1>8 DEF wrq_recv_callback
  <2>2. p \in Packet
    BY DEF SteadyInv, IInv, TypeOK
  <2>3. x \in Stored
    BY <2>2 DEF Packet, Stored
  <2>4. /\ Len(image) \in Nat /\ DOMAIN image = 1 .. Len(image)
        /\ DOMAIN image' = 1 .. Len(image) + 1
        /\ \A i \in DOMAIN image : image'[i] = image[i]
        /\ image'[Len(image) + 1] = x
    BY <1>7, <2>1, <2>3, Appended
  <2>5. \A n \in 1 .. FileBlocks - 1 : HasStored(s, n)'
    BY <1>6, <2>4 DEF HasStored
  <2>6. HasStored(s, FileBlocks)'
    BY <1>3, <2>4 DEF HasStored
  <2>7. \A n \in DataBlocks(c) : n \in 1 .. FileBlocks - 1 \/ n = FileBlocks
    BY <1>1, DataBlocksBound, TftpAssumption
  <2>8. QED
    BY <2>5, <2>6, <2>7 DEF WholeFile
<1>9. CASE ~CarriesData(p)
  <2>1. image' = image
    BY <1>9 DEF wrq_recv_callback
  <2>2. c \in EmptyLast
    BY <1>2, <1>3, <1>9, TftpAssumption DEF CarriesData
  <2>3. \A n \in DataBlocks(c) : HasStored(s, n)
    BY <1>6, <2>2 DEF DataBlocks
  <2>4. QED
    BY <2>1, <2>3 DEF WholeFile, HasStored
<1>10. QED
  BY <1>8, <1>9

(* A session ends only when its client's whole file is stored, with any    *)
(* number of uploads at a time and whatever blocks and acknowledgements    *)
(* are lost, repeated or reordered (tftpserver.c:461-464).                 *)
THEOREM EndMeansWholeFileCorrect ==
  ASSUME Steady
  PROVE  Spec => EndMeansWholeFile
<1> DEFINE A == \A s \in DOMAIN session \ DOMAIN session' :
                   \A c \in Client : session[s].remote = c => WholeFile(s, c)'
<1>1. ASSUME SteadyInv, [Next]_vars PROVE A
  <2> SUFFICES ASSUME NEW s \in DOMAIN session \ DOMAIN session', NEW c \in Client,
                      session[s].remote = c
               PROVE  WholeFile(s, c)'
    OBVIOUS
  <2>1. session' # session
    OBVIOUS
  <2>2. ASSUME NEW d \in requests, process_tftp_request(d) PROVE FALSE
    BY <2>1, <2>2 DEF process_tftp_request, NoPcb, NoArgs, OpenSession, serverVars
  <2>3. PICK p \in toServer : wrq_recv_callback(p)
    BY <1>1, <2>1, <2>2 DEF Next, Frame, UnknownRequest, udp_input_no_pcb, FinishSeen,
       Environment, ClientRequest, ClientRetryRequest, ClientSend, ClientAbort, ClientReceive, Lose,
       serverVars, vars
  <2>4. LastPacket(p) /\ s = p.to
    BY <2>3 DEF wrq_recv_callback
  <2>5. c = p.from
    BY <2>3, <2>4 DEF wrq_recv_callback, FromPeer
  <2>6. QED
    BY <1>1, <2>3, <2>4, <2>5, EndStores
<1>2. Steady /\ SteadyInv /\ [Next]_vars => [A]_vars
  BY <1>1
<1>3. EndMeansWholeFile <=> [][A]_vars
  BY DEF EndMeansWholeFile
<1>4. QED
  BY InitSteady, SteadyStep, <1>2, <1>3, PTL DEF Spec

-----------------------------------------------------------------------------
(* Clients that wait for each other and whose requests are not repeated:   *)
(* one of them is active at most, its request finds no session open, and   *)
(* nothing was answered to it before.                                      *)
Active(c) == cst[c] \in {"wrq", "send"}

TakeTurns ==
  /\ \A c \in requests :
        /\ cst[c] = "wrq" /\ session = << >>
        /\ \A m \in toClient : m.to # c
  /\ \A c, d \in Client : Active(c) /\ Active(d) => c = d
  /\ \A c \in Client : cst[c] = "idle" => \A m \in toClient : m.to # c
  /\ \A s \in DOMAIN session : cst[session[s].remote] # "idle"
  /\ \A r, s \in DOMAIN session : r = s

LEMMA TurnsFrame ==
  ASSUME TypeInv, OneAtATime, TakeTurns, Frame
  PROVE  TakeTurns'
<1>1. ASSUME NEW c \in requests, process_tftp_request(c) PROVE TakeTurns'
  <2>1. /\ requests' = requests \ {c} /\ UNCHANGED cst
        /\ c \in Client /\ cst[c] = "wrq" /\ session = << >>
    BY <1>1 DEF TakeTurns, process_tftp_request, Deliver, OneAtATime, clientVars,
       TypeInv, TypeOK
  <2>2. \A d \in requests' : d = c
    BY <2>1 DEF TakeTurns, Active, TypeInv, TypeOK
  <2>3. requests' = {}
    BY <2>1, <2>2
  <2>4. \A m \in toClient' : m \in toClient \/ m.to = c
    BY <1>1 DEF process_tftp_request, NoPcb, NoArgs, OpenSession, serverVars, Ack, Error
  <2>5. \A s \in DOMAIN session' : s = ports + 1 /\ session'[s].remote = c
    BY <1>1, <2>1 DEF process_tftp_request, NoPcb, NoArgs, OpenSession, serverVars, Opened
  <2> QED BY <2>1, <2>3, <2>4, <2>5 DEF TakeTurns, Active
<1>2. ASSUME NEW p \in toServer, wrq_recv_callback(p) PROVE TakeTurns'
  <2>1. p.to \in DOMAIN session /\ session[p.to].remote = p.from
    BY <1>2 DEF wrq_recv_callback, FromPeer
  <2>2. requests = {} /\ cst[p.from] # "idle"
    BY <2>1 DEF TakeTurns
  <2>3. UNCHANGED <<requests, cst>>
    BY <1>2 DEF wrq_recv_callback, clientVars
  <2>4. \A m \in toClient' : m \in toClient \/ m.to = p.from
    BY <1>2 DEF wrq_recv_callback, Ack
  <2>5. /\ DOMAIN session' \subseteq DOMAIN session
        /\ \A s \in DOMAIN session' : session'[s].remote = session[s].remote
    <3>1. session[p.to] \in [remote : Client, block : Nat]
      BY <2>1 DEF TypeInv, TypeOK, Session
    <3>2. CASE LastPacket(p)
      BY <1>2, <3>2 DEF wrq_recv_callback
    <3>3. CASE ~LastPacket(p)
      <4>1. PICK n : session' = [session EXCEPT ![p.to].block = n]
        BY <1>2, <3>3 DEF wrq_recv_callback
      <4> QED BY <4>1, <3>1
    <3> QED BY <3>2, <3>3
  <2> QED BY <2>2, <2>3, <2>4, <2>5 DEF TakeTurns, Active
<1>3. ASSUME NEW p \in toServer, udp_input_no_pcb(p) PROVE TakeTurns'
  BY <1>3 DEF udp_input_no_pcb, serverVars, clientVars, TakeTurns, Active
<1> QED BY <1>1, <1>2, <1>3 DEF Frame, UnknownRequest, OneAtATime

LEMMA TurnsOutside ==
  ASSUME TypeInv, OneAtATime, TakeTurns, Environment
  PROVE  TakeTurns'
<1> USE DEF TakeTurns, Active, TypeInv, TypeOK
<1>1. ASSUME NEW c \in Client, ClientRequest(c) PROVE TakeTurns'
  <2>1. /\ session = << >> /\ UNCHANGED <<session, toClient>>
        /\ requests' = requests \cup {c}
        /\ cst' = [cst EXCEPT ![c] = "wrq"] /\ cst[c] = "idle"
    BY <1>1 DEF ClientRequest, OneAtATime, serverVars
  <2>2. \A d \in Client : ~Active(d)
    BY <1>1 DEF ClientRequest, OneAtATime
  <2>3. requests = {} /\ DOMAIN session = {}
    BY <2>1, <2>2
  <2>4. \A d \in Client : cst'[d] = IF d = c THEN "wrq" ELSE cst[d]
    BY <2>1
  <2> QED BY <2>1, <2>2, <2>3, <2>4
<1>2. ASSUME NEW c \in Client, ClientRetryRequest(c) PROVE TakeTurns'
  BY <1>2 DEF ClientRetryRequest, OneAtATime
<1>3. ASSUME NEW c \in Client, ClientSend(c) PROVE TakeTurns'
  BY <1>3 DEF ClientSend, serverVars, clientVars
<1>4. ASSUME NEW c \in Client, ClientAbort(c) PROVE TakeTurns'
  BY <1>4 DEF ClientAbort, serverVars
<1>5. ASSUME NEW m \in toClient, ClientReceive(m) PROVE TakeTurns'
  <2>1. m.to \in Client /\ m.to \notin requests
    BY DEF Answer
  <2>2. /\ toClient' \subseteq toClient
        /\ UNCHANGED <<session, requests>>
    BY <1>5, DeliverSubset DEF ClientReceive, serverVars
  <2>3. \A c \in Client : /\ c # m.to => cst'[c] = cst[c]
                          /\ cst[c] # "idle" => cst'[c] # "idle"
                          /\ Active(c)' => Active(c)
                          /\ cst'[c] = "idle" => cst[c] = "idle"
    BY <1>5, <2>1 DEF ClientReceive, Adopt, Advance, Reject, GiveUp, Ignore, clientVars
  <2> QED BY <2>1, <2>2, <2>3 DEF Session
<1>6. CASE Lose
  BY <1>6 DEF Lose, serverVars, clientVars
<1> QED BY <1>1, <1>2, <1>3, <1>4, <1>5, <1>6 DEF Environment

LEMMA TurnsNext == TypeInv /\ OneAtATime /\ TakeTurns /\ [Next]_vars => TakeTurns'
<1> SUFFICES ASSUME TypeInv, OneAtATime, TakeTurns, [Next]_vars PROVE TakeTurns'
  OBVIOUS
<1>1. CASE FinishSeen \/ UNCHANGED vars
  BY <1>1 DEF FinishSeen, vars, serverVars, netVars, clientVars, TakeTurns, Active
<1>2. QED
  BY <1>1, TurnsFrame, TurnsOutside DEF Next

(* The flag announces an upload while a session is open, and has not yet   *)
(* announced its end.                                                      *)
Held == /\ session = << >> => upload_flag # 1
        /\ session # << >> => upload_flag # 2

LEMMA HeldStep ==
  ASSUME OneAtATime, ~HeapShared, TypeInv, TakeTurns, Held, [Next]_vars
  PROVE  /\ Held'
         /\ session = << >> /\ session' # << >> => upload_flag' = 1 \/ Overwritten
         /\ session # << >> /\ session' # << >> => UNCHANGED upload_flag
         /\ session' = << >> => upload_flag' # 1
<1> DEFINE Goal == /\ Held'
                   /\ session = << >> /\ session' # << >> => upload_flag' = 1 \/ Overwritten
                   /\ session # << >> /\ session' # << >> => UNCHANGED upload_flag
                   /\ session' = << >> => upload_flag' # 1
<1>1. CASE UNCHANGED <<upload_flag, session>>
  BY <1>1 DEF Held
<1>2. ASSUME NEW c \in requests, process_tftp_request(c) PROVE Goal
  <2>1. session = << >> /\ DOMAIN session = {}
    BY DEF TakeTurns
  <2>2. CASE NoPcb(c)
    BY <1>1, <2>2 DEF NoPcb, serverVars
  <2>3. CASE NoArgs(c)
    <3>1. Cardinality({}) >= MaxArgs
      BY <2>1, <2>3 DEF NoArgs
    <3>2. QED
      BY <3>1, FS_EmptySet, TftpAssumption
  <2>4. CASE OpenSession(c)
    <3>1. (upload_flag' = 1 \/ Overwritten) /\ ports + 1 \in DOMAIN session'
      BY <2>4 DEF OpenSession, Hold
    <3>2. session' # << >>
      BY <3>1
    <3>3. QED
      BY <2>1, <3>1, <3>2 DEF Held, Overwritten
  <2>5. QED
    BY <1>2, <2>2, <2>3, <2>4 DEF process_tftp_request
<1>3. ASSUME NEW p \in toServer, wrq_recv_callback(p) PROVE Goal
  <2>1. p.to \in DOMAIN session /\ session # << >>
    BY <1>3 DEF wrq_recv_callback, FromPeer
  <2>2. CASE LastPacket(p)
    <3>1. upload_flag' = 2 /\ session' = [s \in DOMAIN session \ {p.to} |-> session[s]]
      BY <1>3, <2>2 DEF wrq_recv_callback, Finish
    <3>2. DOMAIN session \ {p.to} = {}
      BY <2>1 DEF TakeTurns
    <3>3. session' = << >>
      BY <3>1, <3>2
    <3>4. QED
      BY <3>1, <3>3 DEF Held
  <2>3. CASE ~LastPacket(p)
    <3>1. upload_flag' = upload_flag /\ p.to \in DOMAIN session'
      BY <1>3, <2>1, <2>3 DEF wrq_recv_callback
    <3>2. session' # << >>
      BY <3>1
    <3>3. QED
      BY <2>1, <3>1, <3>2 DEF Held
  <2>4. QED
    BY <2>2, <2>3
<1>4. CASE FinishSeen
  BY <1>4 DEF FinishSeen, Held
<1>5. QED
  BY <1>1, <1>2, <1>3, <1>4 DEF Next, Frame, UnknownRequest, OneAtATime, udp_input_no_pcb,
     Environment, ClientRequest, ClientRetryRequest, ClientSend, ClientAbort, ClientReceive,
     Lose, serverVars, vars

(* With uploads one at a time, and memory for one, the main loop is held   *)
(* from the first step of a session to its last, and not between sessions  *)
(* (tftpserver.c:578 and 467), unless the request of a session comes in    *)
(* the frame of main.c:186: that session's flag is overwritten at once.    *)
THEOREM HeldWhileOpenCorrect ==
  ASSUME OneAtATime, ~HeapShared
  PROVE  Spec => HeldWhileOpen
<1> DEFINE I == TypeInv /\ TakeTurns /\ Held
           A == /\ session = << >> /\ session' # << >> => upload_flag' = 1 \/ Overwritten
                /\ session # << >> /\ session' # << >> => UNCHANGED upload_flag
                /\ session' = << >> => upload_flag' # 1
<1>1. Init => I
  BY InitType DEF Init, TakeTurns, Active, Held
<1>2. I /\ [Next]_vars => I' /\ [A]_vars
  BY StepType, TurnsNext, HeldStep
<1>3. HeldWhileOpen <=> [][A]_vars
  BY DEF HeldWhileOpen
<1>4. QED
  BY <1>1, <1>2, <1>3, PTL DEF Spec

-----------------------------------------------------------------------------
(* The transfer.  Every session has an owner. *)

LEMMA OwnerKept ==
  ASSUME OneOwner, UNCHANGED ports,
         \A m \in toClient' : \/ m \in toClient
                              \/ m.from \in DOMAIN session /\ session[m.from].remote = m.to,
         \A s \in DOMAIN session' : /\ s \in DOMAIN session
                                    /\ session'[s].remote = session[s].remote,
         \A c \in Client : \/ tid'[c] = tid[c]
                           \/ \E m \in toClient : m.to = c /\ tid'[c] = m.from
  PROVE  OneOwner'
<1>1. PICK owner \in [1 .. ports -> Client] :
        /\ \A m \in toClient : owner[m.from] = m.to
        /\ \A s \in DOMAIN session : owner[s] = session[s].remote
        /\ \A c \in Client : tid[c] # 0 => owner[tid[c]] = c
  BY DEF OneOwner
<1>2. \A m \in toClient' : owner[m.from] = m.to
  BY <1>1
<1>3. \A s \in DOMAIN session' : owner[s] = session'[s].remote
  BY <1>1
<1>4. \A c \in Client : tid'[c] # 0 => owner[tid'[c]] = c
  BY <1>1
<1>5. QED
  BY <1>1, <1>2, <1>3, <1>4 DEF OneOwner

(* What TransferInv says of the types and the ports in use. *)
LEMMA PortsInUse ==
  ASSUME TransferInv
  PROVE  /\ ports \in Nat /\ DOMAIN session \subseteq 1 .. ports
         /\ \A m \in toClient : m.to \in Client /\ m.from \in 1 .. ports /\ m.block \in Nat
         /\ tid \in [Client -> 0 .. MaxRequests] /\ acked \in [Client -> 0 .. FileBlocks]
         /\ \A c \in Client : tid[c] # 0 => tid[c] \in 1 .. ports
         /\ \A i \in DOMAIN image : /\ image[i] \in Stored
                                    /\ image[i].from \in Client /\ image[i].session \in Port
                                    /\ image[i].block \in Nat
<1>1. \A i \in DOMAIN image : image[i] \in Stored
  BY ElementOfSeq DEF TransferInv, IInv, TypeOK
<1>2. QED
  BY <1>1, TftpAssumption DEF TransferInv, IInv, TypeOK, Adopted, Answer, Stored, Port

(* A new port is the client's that it is opened for. *)
LEMMA OwnerAdded ==
  ASSUME TransferInv, NEW c \in Client, ports' = ports + 1, UNCHANGED tid,
         \A m \in toClient' : m \in toClient \/ (m.from = ports + 1 /\ m.to = c),
         \A s \in DOMAIN session' :
            \/ s \in DOMAIN session /\ session'[s].remote = session[s].remote
            \/ s = ports + 1 /\ session'[s].remote = c
  PROVE  OneOwner'
<1>1. PICK owner \in [1 .. ports -> Client] :
        /\ \A m \in toClient : owner[m.from] = m.to
        /\ \A s \in DOMAIN session : owner[s] = session[s].remote
        /\ \A d \in Client : tid[d] # 0 => owner[tid[d]] = d
  BY DEF TransferInv, OneOwner
<1> DEFINE w == [s \in 1 .. ports + 1 |-> IF s = ports + 1 THEN c ELSE owner[s]]
<1>2. /\ ports \in Nat /\ DOMAIN session \subseteq 1 .. ports
      /\ \A m \in toClient : m.from \in 1 .. ports
      /\ \A d \in Client : tid[d] # 0 => tid[d] \in 1 .. ports
  BY PortsInUse
<1>3. w \in [1 .. ports' -> Client]
  BY <1>1, <1>2
<1>4. \A s \in 1 .. ports : w[s] = owner[s] /\ s # ports + 1
  BY <1>2
<1>5. w[ports + 1] = c
  BY <1>2
<1> HIDE DEF w
<1>6. \A m \in toClient' : w[m.from] = m.to
  BY <1>1, <1>2, <1>4, <1>5
<1>7. \A s \in DOMAIN session' : w[s] = session'[s].remote
  BY <1>1, <1>2, <1>4, <1>5
<1>8. \A d \in Client : tid'[d] # 0 => w[tid'[d]] = d
  BY <1>1, <1>2, <1>4
<1>9. QED
  BY <1>3, <1>6, <1>7, <1>8 DEF OneOwner

LEMMA OwnerUnique ==
  ASSUME OneOwner
  PROVE  /\ \A m \in toClient : \A c \in Client : tid[c] # 0 /\ tid[c] = m.from => c = m.to
         /\ \A c \in Client : tid[c] # 0 /\ tid[c] \in DOMAIN session
                              => session[tid[c]].remote = c
         /\ \A c, d \in Client : tid[c] # 0 /\ tid[c] = tid[d] => c = d
BY DEF OneOwner

(* What the steps do to the transfer: most leave sessions, blocks and the  *)
(* clients' counts alone.                                                  *)
Idle ==
  /\ UNCHANGED <<ports, session, image, tid, acked, Done>>
  /\ toClient' \subseteq toClient
  /\ \A p \in toServer' : \/ p \in toServer
                          \/ p.op = "DATA" => p.block = acked[p.from] + 1

Adopts(m)   == Adopt(m.to, m) /\ toClient' \subseteq toClient /\ UNCHANGED serverVars
Advances(m) == Advance(m.to, m) /\ toClient' \subseteq toClient /\ UNCHANGED serverVars

LEMMA Steps ==
  ASSUME TypeInv, [Next]_vars
  PROVE  \/ Idle
         \/ \E m \in toClient : Adopts(m) \/ Advances(m)
         \/ \E p \in toServer : wrq_recv_callback(p)
         \/ \E c \in Client : Requested(c)
<1> USE DEF Idle
<1>1. CASE \E p \in toServer : udp_input_no_pcb(p)
  <2>1. toServer' \subseteq toServer
    BY <1>1, DeliverSubset DEF udp_input_no_pcb
  <2>2. QED
    BY <1>1, <2>1 DEF udp_input_no_pcb, serverVars, clientVars, Done
<1>2. CASE FinishSeen
  BY <1>2 DEF FinishSeen, netVars, clientVars, Done
<1>3. CASE Lose
  BY <1>3 DEF Lose, serverVars, clientVars, Done
<1>4. CASE UNCHANGED vars
  BY <1>4 DEF vars, serverVars, netVars, clientVars, Done
<1>5. ASSUME NEW c \in Client,
             \/ ClientRequest(c) \/ ClientRetryRequest(c) \/ ClientSend(c) \/ ClientAbort(c)
      PROVE  Idle
  <2>1. UNCHANGED <<ports, session, image, tid, acked, toClient>>
    BY <1>5 DEF ClientRequest, ClientRetryRequest, ClientSend, ClientAbort, serverVars, clientVars
  <2>2. \A d \in Client : cst'[d] = "done" <=> cst[d] = "done"
    BY <1>5 DEF ClientRequest, ClientRetryRequest, ClientSend, ClientAbort, clientVars,
                TypeInv, TypeOK
  <2>3. Done' = Done
    BY <2>2 DEF Done
  <2>4. \A p \in toServer' : \/ p \in toServer
                             \/ p.op = "DATA" => p.block = acked[p.from] + 1
    <3>1. CASE ClientSend(c)
      BY <3>1 DEF ClientSend, Data
    <3>2. CASE ClientAbort(c)
      BY <3>2 DEF ClientAbort, ClientError
    <3>3. QED
      BY <1>5, <3>1, <3>2 DEF ClientRequest, ClientRetryRequest
  <2>5. QED
    BY <2>1, <2>3, <2>4
<1>6. ASSUME NEW m \in toClient, ClientReceive(m)
      PROVE  Idle \/ Adopts(m) \/ Advances(m)
  <2>1. toClient' \subseteq toClient /\ UNCHANGED serverVars /\ m.to \in Client
    BY <1>6, DeliverSubset DEF ClientReceive, TypeInv, TypeOK, Answer
  <2>2. CASE Adopt(m.to, m) \/ Advance(m.to, m)
    BY <2>1, <2>2 DEF Adopts, Advances
  <2>3. CASE Reject(m.to, m)
    BY <2>1, <2>3 DEF Reject, ClientError, serverVars, clientVars, Done
  <2>4. CASE GiveUp(m.to, m)
    <3>1. \A d \in Client : cst'[d] = "done" <=> cst[d] = "done"
      BY <2>1, <2>4 DEF GiveUp, TypeInv, TypeOK
    <3>2. Done' = Done
      BY <3>1 DEF Done
    <3>3. QED
      BY <2>1, <2>4, <3>2 DEF GiveUp, serverVars
  <2>5. CASE Ignore(m.to, m)
    BY <2>1, <2>5 DEF Ignore, serverVars, clientVars, Done
  <2>6. QED
    BY <1>6, <2>2, <2>3, <2>4, <2>5 DEF ClientReceive
<1>7. requests \subseteq Client
  BY DEF TypeInv, TypeOK
<1>8. QED
  BY <1>1, <1>2, <1>3, <1>4, <1>5, <1>6, <1>7 DEF Next, Frame, Environment, Requested

(* A packet of an open session stores the block it waits for, or nothing. *)
LEMMA CallbackStep ==
  ASSUME IInv, NEW p \in toServer, wrq_recv_callback(p)
  PROVE  /\ p.from \in Client /\ p.to \in DOMAIN session /\ session[p.to].remote = p.from
         /\ toServer' \subseteq toServer /\ UNCHANGED <<ports, cst, tid, acked>>
         /\ \A m \in toClient' : m \in toClient \/ (m.from = p.to /\ m.to = p.from)
         /\ \A s \in DOMAIN session' : /\ s \in DOMAIN session
                                       /\ session'[s].remote = session[s].remote
         /\ \/ UNCHANGED image
            \/ /\ image' = Append(image, [session |-> p.to, from |-> p.from,
                                         op |-> "DATA", block |-> p.block])
               /\ p.block = session[p.to].block + 1 /\ p.op = "DATA"
               /\ p.to = tid[p.from] /\ p.block \in DataBlocks(p.from)
<1> DEFINE n == IF Expected(p) THEN p.block ELSE session[p.to].block
<1>1. /\ p.from \in Client /\ p.to \in DOMAIN session /\ session[p.to].remote = p.from
      /\ session[p.to] \in Session /\ UNCHANGED <<ports, cst, tid, acked>>
  BY DEF wrq_recv_callback, FromPeer, clientVars, IInv, TypeOK, Packet
<1>2. toServer' \subseteq toServer
  BY DeliverSubset DEF wrq_recv_callback
<1>3. toClient' = toClient \cup {Ack(p.to, p.from, n)}
  BY DEF wrq_recv_callback
<1>4. \A m \in toClient' : m \in toClient \/ (m.from = p.to /\ m.to = p.from)
  BY <1>3 DEF Ack
<1>5. \A s \in DOMAIN session' : /\ s \in DOMAIN session
                                 /\ session'[s].remote = session[s].remote
  <2>1. CASE LastPacket(p)
    BY <2>1 DEF wrq_recv_callback
  <2>2. CASE ~LastPacket(p)
    <3>1. session' = [session EXCEPT ![p.to].block = n]
      BY <2>2 DEF wrq_recv_callback
    <3>2. session'[p.to].remote = session[p.to].remote
      BY <1>1, <3>1 DEF Session
    <3>3. QED
      BY <3>1, <3>2
  <2>3. QED
    BY <2>1, <2>2
<1>6. CASE Expected(p) /\ CarriesData(p)
  <2>1. /\ p.op = "DATA" /\ p.to = tid[p.from] /\ p.block \in 1 .. FileBlocks
        /\ p = Data(p.from, p.to, p.block)
    BY <1>1, <1>6, ExpectedIsData
  <2>2. p.block \in DataBlocks(p.from)
    <3>1. p.block < FileBlocks \/ p.from \notin EmptyLast
      BY <1>6, <2>1 DEF CarriesData, Data
    <3>2. QED
      BY <2>1, <3>1, TftpAssumption DEF DataBlocks
  <2>3. image' = Append(image, [session |-> p.to, from |-> p.from,
                                op |-> "DATA", block |-> p.block])
    BY <1>6, <2>1 DEF wrq_recv_callback
  <2>4. p.block = session[p.to].block + 1
    BY <1>6 DEF Expected
  <2>5. QED
    BY <1>1, <1>2, <1>4, <1>5, <2>1, <2>2, <2>3, <2>4
<1>7. CASE ~(Expected(p) /\ CarriesData(p))
  <2>1. UNCHANGED image
    BY <1>7 DEF wrq_recv_callback
  <2>2. QED
    BY <1>1, <1>2, <1>4, <1>5, <2>1
<1>8. QED
  BY <1>6, <1>7

(* A request hands out a port, and at most opens a session on it. *)
LEMMA OpeningStep ==
  ASSUME TypeInv, NEW c \in Client, Requested(c)
  PROVE  /\ UNCHANGED <<image, toServer, cst, tid, acked>>
         /\ \/ UNCHANGED <<ports, session, toClient>>
            \/ /\ ports' = ports + 1
               /\ \A m \in toClient' : m \in toClient \/ (m.from = ports + 1 /\ m.to = c)
               /\ \A s \in DOMAIN session' :
                     \/ s \in DOMAIN session /\ session'[s].remote = session[s].remote
                     \/ s = ports + 1 /\ session'[s].remote = c
<1>1. UNCHANGED <<toServer, cst, tid, acked>>
  BY DEF Requested, process_tftp_request, UnknownRequest, clientVars
<1>2. CASE NoPcb(c)
  BY <1>1, <1>2 DEF NoPcb, serverVars
<1>3. CASE NoArgs(c)
  BY <1>1, <1>3 DEF NoArgs, udp_new_port, Error
<1>4. CASE OpenSession(c)
  BY <1>1, <1>4 DEF OpenSession, udp_new_port, Opened, Ack
<1>5. CASE UnknownRequest(c)
  BY <1>1, <1>5 DEF UnknownRequest, udp_new_port, Error
<1>6. QED
  BY <1>2, <1>3, <1>4, <1>5 DEF Requested, process_tftp_request

LEMMA TransferInit == Init => TransferInv
<1> SUFFICES ASSUME Init PROVE TransferInv
  OBVIOUS
<1>1. OneOwner
  <2>1. 1 .. ports = {}
    BY DEF Init
  <2>2. [s \in {} |-> s] \in [{} -> Client]
    OBVIOUS
  <2>3. /\ \A m \in toClient : [s \in {} |-> s][m.from] = m.to
        /\ \A r \in DOMAIN session : [s \in {} |-> s][r] = session[r].remote
        /\ \A c \in Client : tid[c] # 0 => [s \in {} |-> s][tid[c]] = c
    BY DEF Init
  <2>4. QED
    BY <2>1, <2>2, <2>3 DEF OneOwner
<1>2. Adopted
  BY DEF Init, Adopted
<1>3. AckedStored
  BY DataBlocksBound DEF Init, AckedStored
<1>4. QED
  BY <1>1, <1>2, <1>3, InitInv DEF TransferInv

LEMMA OwnerStep ==
  ASSUME TransferInv, [Next]_vars
  PROVE  OneOwner'
<1>0. OneOwner /\ TypeInv /\ IInv
  BY DEF TransferInv, IInv, TypeInv
<1>1. CASE Idle
  BY <1>0, <1>1, OwnerKept DEF Idle
<1>2. ASSUME NEW m \in toClient, Adopts(m) \/ Advances(m)
      PROVE  OneOwner'
  <2>1. /\ toClient' \subseteq toClient /\ UNCHANGED <<ports, session>>
        /\ tid' = tid \/ tid' = [tid EXCEPT ![m.to] = m.from]
    BY <1>2 DEF Adopts, Advances, Adopt, Advance, serverVars
  <2>2. \A c \in Client : tid'[c] = tid[c] \/ (m.to = c /\ tid'[c] = m.from)
    BY <2>1, PortsInUse
  <2>3. QED
    BY <1>0, <2>1, <2>2, OwnerKept
<1>3. ASSUME NEW p \in toServer, wrq_recv_callback(p)
      PROVE  OneOwner'
  <2>1. /\ UNCHANGED <<ports, tid>>
        /\ \A s \in DOMAIN session' : s \in DOMAIN session /\ session'[s].remote = session[s].remote
        /\ \A m \in toClient' : \/ m \in toClient
                                \/ m.from \in DOMAIN session /\ session[m.from].remote = m.to
    BY <1>0, <1>3, CallbackStep
  <2>2. QED
    BY <1>0, <2>1, OwnerKept
<1>4. ASSUME NEW c \in Client, Requested(c)
      PROVE  OneOwner'
  <2>1. CASE UNCHANGED <<ports, session, toClient>>
    BY <1>0, <1>4, <2>1, OpeningStep, OwnerKept
  <2>2. CASE ports' = ports + 1
    <3>1. ports # ports + 1
      BY PortsInUse
    <3>2. /\ UNCHANGED tid
          /\ \A m \in toClient' : m \in toClient \/ (m.from = ports + 1 /\ m.to = c)
          /\ \A s \in DOMAIN session' :
                \/ s \in DOMAIN session /\ session'[s].remote = session[s].remote
                \/ s = ports + 1 /\ session'[s].remote = c
      BY <1>0, <1>4, <2>2, <3>1, OpeningStep
    <3>3. QED
      BY <2>2, <3>2, OwnerAdded
  <2>3. QED
    BY <1>0, <1>4, <2>1, <2>2, OpeningStep
<1>5. QED
  BY <1>0, <1>1, <1>2, <1>3, <1>4, Steps

(* The image after a step: a block more, or as it was. *)
LEMMA ImageStep ==
  ASSUME TransferInv, NEW p \in toServer, wrq_recv_callback(p)
  PROVE  /\ \A i \in DOMAIN image' :
               \/ i \in DOMAIN image /\ image'[i] = image[i]
               \/ /\ image'[i].session = p.to /\ image'[i].from = p.from
                  /\ image'[i].block = p.block /\ p.op = "DATA"
                  /\ p.to = tid[p.from] /\ p.block \in DataBlocks(p.from)
         /\ \A s, n : HasStored(s, n) => HasStored(s, n)'
<1>1. IInv /\ image \in Seq(Stored)
  BY DEF TransferInv, IInv, TypeOK
<1>2. CASE UNCHANGED image
  BY <1>2 DEF HasStored
<1>3. CASE ~UNCHANGED image
  <2> DEFINE x == [session |-> p.to, from |-> p.from, op |-> "DATA", block |-> p.block]
  <2>1. /\ image' = Append(image, x)
        /\ p.op = "DATA" /\ p.to = tid[p.from] /\ p.block \in DataBlocks(p.from)
    BY <1>1, <1>3, CallbackStep
  <2>2. x \in Stored
    BY <1>1 DEF IInv, TypeOK, Packet, Stored
  <2>3. \A i \in DOMAIN image' : (i \in DOMAIN image /\ image'[i] = image[i]) \/ image'[i] = x
    <3>1. /\ Len(image) \in Nat /\ DOMAIN image = 1 .. Len(image)
          /\ DOMAIN image' = 1 .. Len(image) + 1
          /\ \A i \in DOMAIN image : image'[i] = image[i]
          /\ image'[Len(image) + 1] = x
      BY <1>1, <2>1, <2>2, Appended
    <3>2. \A i \in DOMAIN image' : i \in DOMAIN image \/ i = Len(image) + 1
      BY <3>1
    <3>3. QED
      BY <3>1, <3>2
  <2>4. \A s, n : HasStored(s, n) => HasStored(s, n)'
    BY <1>1, <2>1, <2>2, StoredStays
  <2>5. QED
    BY <2>1, <2>3, <2>4
<1>4. QED
  BY <1>2, <1>3

LEMMA AdoptedStep ==
  ASSUME TransferInv, [Next]_vars
  PROVE  Adopted'
<1>0. TypeInv /\ IInv /\ Adopted
  BY DEF TransferInv, IInv, TypeInv
<1>1. /\ ports \in Nat /\ DOMAIN session \subseteq 1 .. ports
      /\ \A m \in toClient : m.to \in Client /\ m.from \in 1 .. ports
      /\ tid \in [Client -> 0 .. MaxRequests]
      /\ \A i \in DOMAIN image : image[i].from \in Client /\ image[i].session \in Port
  BY PortsInUse
<1> USE DEF Adopted
<1>2. CASE Idle
  BY <1>0, <1>2 DEF Idle, DataBlocks
<1>3. ASSUME NEW m \in toClient, Adopts(m)
      PROVE  Adopted'
  <2>1. /\ toClient' \subseteq toClient /\ UNCHANGED <<ports, image>>
        /\ tid' = [tid EXCEPT ![m.to] = m.from] /\ cst[m.to] = "wrq"
    BY <1>3 DEF Adopts, Adopt, serverVars
  <2>2. tid[m.to] = 0
    BY <1>0, <1>1, <2>1 DEF IInv, ClientInv
  <2>3. \A i \in DOMAIN image : image[i].from # m.to
    BY <1>0, <1>1, <2>2 DEF Port
  <2>4. QED
    BY <1>0, <1>1, <2>1, <2>3 DEF DataBlocks
<1>4. ASSUME NEW m \in toClient, Advances(m)
      PROVE  Adopted'
  BY <1>0, <1>4 DEF Advances, Advance, serverVars, DataBlocks
<1>5. ASSUME NEW p \in toServer, wrq_recv_callback(p)
      PROVE  Adopted'
  <2>1. /\ p.to \in DOMAIN session /\ UNCHANGED <<ports, tid>>
        /\ \A m \in toClient' : m \in toClient \/ m.from = p.to
    BY <1>0, <1>5, CallbackStep
  <2>2. \A m \in toClient' : m.from <= ports'
    BY <1>0, <1>1, <2>1
  <2>3. \A i \in DOMAIN image' : /\ tid'[image'[i].from] = image'[i].session
                                 /\ image'[i].block \in DataBlocks(image'[i].from)
    BY <1>0, <1>5, <2>1, ImageStep
  <2>4. QED
    BY <1>0, <2>1, <2>2, <2>3 DEF DataBlocks
<1>6. ASSUME NEW c \in Client, Requested(c)
      PROVE  Adopted'
  <2>1. /\ UNCHANGED <<image, tid>> /\ ports' \in Nat /\ ports <= ports'
        /\ \A m \in toClient' : m \in toClient \/ m.from = ports'
    BY <1>0, <1>1, <1>6, OpeningStep
  <2>2. \A m \in toClient' : m.from <= ports'
    BY <1>1, <2>1
  <2>3. \A d \in Client : tid'[d] <= ports'
    BY <1>0, <1>1, <2>1, TftpAssumption
  <2>4. QED
    BY <1>0, <2>1, <2>2, <2>3 DEF DataBlocks
<1>7. QED
  BY <1>0, <1>2, <1>3, <1>4, <1>5, <1>6, Steps

LEMMA AckedStep ==
  ASSUME TransferInv, [Next]_vars
  PROVE  AckedStored'
<1>0. TypeInv /\ IInv /\ AckedStored
  BY DEF TransferInv, IInv, TypeInv
<1>1. /\ \A m \in toClient : m.to \in Client /\ m.from \in 1 .. ports /\ m.block \in Nat
      /\ tid \in [Client -> 0 .. MaxRequests] /\ acked \in [Client -> 0 .. FileBlocks]
      /\ \A i \in DOMAIN image : /\ image[i].from \in Client /\ image[i].session \in Port
                                 /\ image[i].block \in Nat
  BY PortsInUse
<1>2. \A p \in toServer : p.from \in Client /\ p.block \in Nat
  BY <1>0 DEF IInv, TypeOK, Packet
<1> USE DEF AckedStored
<1>3. CASE Idle
  <2>1. \A s, n : HasStored(s, n) => HasStored(s, n)'
    BY <1>3 DEF HasStored, Idle
  <2>2. \A c \in Client : \A n \in DataBlocks(c) : n <= acked'[c] => HasStored(tid[c], n)'
    BY <1>0, <1>3, <2>1 DEF Idle
  <2>3. \A p \in toServer' : p.op = "DATA" => p.block <= acked'[p.from] + 1
    <3>1. toServer' \subseteq Packet
      BY <1>0, StepType DEF TypeInv, TypeOK
    <3>2. \A p \in toServer' : p.from \in Client /\ p.block \in Nat
      BY <3>1 DEF Packet
    <3>3. QED
      BY <1>0, <1>1, <1>3, <3>2 DEF Idle
  <2>4. \A i \in DOMAIN image' : image'[i].block <= acked'[image'[i].from] + 1
    BY <1>0, <1>3 DEF Idle
  <2>5. QED
    BY <2>2, <2>3, <2>4 DEF DataBlocks
<1>4. ASSUME NEW m \in toClient, Adopts(m)
      PROVE  AckedStored'
  <2>1. /\ UNCHANGED <<image, toServer, acked>>
        /\ tid' = [tid EXCEPT ![m.to] = m.from] /\ cst[m.to] = "wrq"
    BY <1>4 DEF Adopts, Adopt, serverVars
  <2>2. \A s, n : HasStored(s, n) => HasStored(s, n)'
    BY <2>1 DEF HasStored
  <2>3. tid[m.to] = 0
    BY <1>0, <1>1, <2>1 DEF IInv, ClientInv
  <2>4. \A n \in DataBlocks(m.to) : ~(n <= acked[m.to])
    <3>1. \A n : ~HasStored(0, n)
      BY <1>1 DEF HasStored, Port
    <3>2. QED
      BY <1>0, <1>1, <2>3, <3>1
  <2>5. \A c \in Client : \A n \in DataBlocks(c) : n <= acked'[c] => HasStored(tid[c], n)'
    BY <1>0, <1>1, <2>1, <2>2, <2>4
  <2>6. QED
    BY <1>0, <2>1, <2>5 DEF DataBlocks
<1>5. ASSUME NEW m \in toClient, Advances(m)
      PROVE  AckedStored'
  <2>1. /\ UNCHANGED <<image, toServer, tid>>
        /\ m.op = "ACK" /\ m.from = tid[m.to] /\ m.block = acked[m.to] + 1
        /\ acked' = [acked EXCEPT ![m.to] = m.block]
    BY <1>5 DEF Advances, Advance, serverVars
  <2>2. \A s, n : HasStored(s, n) => HasStored(s, n)'
    BY <2>1 DEF HasStored
  <2>3. \A n \in DataBlocks(m.to) : n <= m.block => HasStored(tid[m.to], n)
    BY <1>0, <2>1 DEF IInv, AckMeansStored
  <2>4. \A c \in Client : \A n \in DataBlocks(c) : n <= acked'[c] => HasStored(tid[c], n)'
    BY <1>0, <1>1, <2>1, <2>2, <2>3
  <2>5. \A c \in Client : acked[c] <= acked'[c] /\ acked[c] \in Nat /\ acked'[c] \in Nat
    BY <1>1, <2>1, TftpAssumption
  <2>6. \A p \in toServer' : p.op = "DATA" => p.block <= acked'[p.from] + 1
    BY <1>0, <1>2, <2>1, <2>5
  <2>7. \A i \in DOMAIN image' : image'[i].block <= acked'[image'[i].from] + 1
    BY <1>0, <1>1, <2>1, <2>5
  <2>8. QED
    BY <2>4, <2>6, <2>7 DEF DataBlocks
<1>6. ASSUME NEW p \in toServer, wrq_recv_callback(p)
      PROVE  AckedStored'
  <2>1. UNCHANGED <<tid, acked>> /\ toServer' \subseteq toServer
    BY <1>0, <1>6, CallbackStep
  <2>2. \A s, n : HasStored(s, n) => HasStored(s, n)'
    BY <1>6, ImageStep
  <2>3. \A i \in DOMAIN image' : image'[i].block <= acked'[image'[i].from] + 1
    BY <1>0, <1>6, <2>1, ImageStep
  <2>4. \A c \in Client : \A n \in DataBlocks(c) : n <= acked'[c] => HasStored(tid[c], n)'
    BY <1>0, <2>1, <2>2
  <2>5. QED
    BY <1>0, <2>1, <2>3, <2>4 DEF DataBlocks
<1>7. ASSUME NEW c \in Client, Requested(c)
      PROVE  AckedStored'
  <2>1. UNCHANGED <<image, toServer, tid, acked>>
    BY <1>0, <1>7, OpeningStep
  <2>2. QED
    BY <1>0, <2>1 DEF DataBlocks, HasStored
<1>8. QED
  BY <1>0, <1>3, <1>4, <1>5, <1>6, <1>7, Steps

LEMMA TransferNext == Polite /\ TransferInv /\ [Next]_vars => TransferInv'
BY StepInv, OwnerStep, AdoptedStep, AckedStep DEF TransferInv

(* The blocks a session has stored. *)
LEMMA StoredByMeans ==
  \A s, n : n \in StoredBy(s) <=> HasStored(s, n)
BY DEF StoredBy, HasStored

LEMMA OfOpenSession ==
  ASSUME IInv, NEW s \in DOMAIN session
  PROVE  StoredBy(s) = 1 .. session[s].block
<1>1. session[s].block \in Nat
  BY DEF IInv, TypeOK, Session
<1>2. \A n \in 1 .. session[s].block : n \in StoredBy(s)
  BY StoredByMeans DEF IInv, SessionInv
<1>3. ASSUME NEW n \in StoredBy(s)
      PROVE  n \in 1 .. session[s].block
  <2>1. PICK i \in DOMAIN image : image[i].session = s /\ image[i].block = n
    BY DEF StoredBy
  <2>2. n \in Nat
    <3>1. image[i] \in Stored
      BY <2>1, ElementOfSeq DEF IInv, TypeOK
    <3>2. QED
      BY <2>1, <3>1 DEF Stored
  <2>3. n >= 1 /\ n <= session[s].block
    BY <2>1 DEF IInv, StoredInOrder, SessionInv
  <2>4. QED
    BY <1>1, <2>2, <2>3
<1>4. QED
  BY <1>2, <1>3

(* A step of the server, the network or a client is a step of the transfer *)
(* or leaves it as it is.                                                  *)
LEMMA TransferStep ==
  ASSUME TransferInv, [Next]_vars
  PROVE  [Transfer!Next]_(Transfer!vars)
<1>0. /\ TypeInv /\ IInv /\ OneOwner /\ Adopted /\ AckedStored
      /\ cst \in [Client -> {"idle", "wrq", "send", "done", "failed"}]
      /\ FileBlocks \in Nat \ {0}
  BY TftpAssumption DEF TransferInv, IInv, TypeInv, TypeOK
<1>1. /\ ports \in Nat /\ DOMAIN session \subseteq 1 .. ports
      /\ \A m \in toClient : m.to \in Client /\ m.from \in 1 .. ports /\ m.block \in Nat
      /\ tid \in [Client -> 0 .. MaxRequests] /\ acked \in [Client -> 0 .. FileBlocks]
      /\ \A i \in DOMAIN image : /\ image[i].from \in Client /\ image[i].session \in Port
                                 /\ image[i].block \in Nat
  BY PortsInUse
<1>2. ASSUME UNCHANGED <<image, tid, acked, Done>>
      PROVE  UNCHANGED Transfer!vars
  <2>1. Taken' = Taken /\ Known' = Known
    BY <1>2 DEF Taken, Known, StoredBy
  <2>2. QED
    BY <1>2, <2>1 DEF Transfer!vars
<1>3. CASE Idle
  BY <1>2, <1>3 DEF Idle
<1>4. ASSUME NEW c \in Client, Requested(c)
      PROVE  UNCHANGED Transfer!vars
  BY <1>0, <1>2, <1>4, OpeningStep DEF Done
<1>5. ASSUME NEW m \in toClient, Adopts(m)
      PROVE  UNCHANGED Transfer!vars
  <2>1. /\ UNCHANGED <<image, acked>> /\ cst[m.to] = "wrq" /\ m.to \in Client
        /\ tid' = [tid EXCEPT ![m.to] = m.from] /\ cst' = [cst EXCEPT ![m.to] = "send"]
    BY <1>1, <1>5 DEF Adopts, Adopt, serverVars
  <2>2. tid[m.to] = 0
    BY <1>0, <1>1, <2>1 DEF IInv, ClientInv
  <2>3. StoredBy(0) = {}
    BY <1>1 DEF StoredBy, Port
  <2>4. StoredBy(m.from) = {}
    <3>1. SUFFICES ASSUME NEW i \in DOMAIN image, image[i].session = m.from PROVE FALSE
      BY DEF StoredBy
    <3>2. tid[image[i].from] = m.from /\ m.from # 0
      BY <1>0, <1>1, <3>1 DEF Adopted
    <3>3. image[i].from = m.to
      BY <1>0, <1>1, <3>2, OwnerUnique
    <3>4. QED
      BY <2>2, <3>2, <3>3
  <2>5. Taken' = Taken
    <3>1. \A s : StoredBy(s)' = StoredBy(s)
      BY <2>1 DEF StoredBy
    <3>2. \A c \in Client : StoredBy(tid[c])' = StoredBy(tid[c])
      BY <1>1, <2>1, <2>2, <2>3, <2>4, <3>1
    <3>3. QED
      BY <3>2 DEF Taken
  <2>6. Known' = Known
    BY <2>1 DEF Known
  <2>7. Done' = Done
    BY <1>0, <2>1 DEF Done
  <2>8. QED
    BY <2>5, <2>6, <2>7 DEF Transfer!vars
<1>6. ASSUME NEW m \in toClient, Advances(m)
      PROVE  Transfer!Next
  <2> DEFINE c == m.to
  <2>1. /\ UNCHANGED <<image, tid>> /\ c \in Client /\ m \in toClient
        /\ cst[c] = "send" /\ m.from = tid[c] /\ m.op = "ACK" /\ m.block = acked[c] + 1
        /\ acked' = [acked EXCEPT ![c] = m.block]
        /\ cst' = [cst EXCEPT ![c] = IF m.block = FileBlocks THEN "done" ELSE "send"]
    BY <1>1, <1>6 DEF Advances, Advance, serverVars
  <2>2. Taken' = Taken
    BY <2>1 DEF Taken, StoredBy
  <2>3. StoredBy(tid[c]) = DataBlocks(c) \cap (1 .. m.block)
    <3>1. ASSUME NEW n \in StoredBy(tid[c])
          PROVE  n \in DataBlocks(c) \cap (1 .. m.block)
      <4>1. PICK i \in DOMAIN image : image[i].session = tid[c] /\ image[i].block = n
        BY <3>1 DEF StoredBy
      <4>2. tid[image[i].from] = tid[c] /\ tid[c] # 0
        BY <1>0, <1>1, <2>1, <4>1 DEF Adopted
      <4>3. image[i].from = c
        BY <1>0, <1>1, <2>1, <4>2, OwnerUnique
      <4>4. n \in DataBlocks(c) /\ n <= acked[c] + 1
        BY <1>0, <4>1, <4>3 DEF Adopted, AckedStored
      <4>5. n \in Nat /\ n \in 1 .. FileBlocks
        BY <2>1, <4>4, DataBlocksBound
      <4>6. QED
        BY <1>1, <2>1, <4>4, <4>5
    <3>2. ASSUME NEW n \in DataBlocks(c) \cap (1 .. m.block)
          PROVE  n \in StoredBy(tid[c])
      <4>1. n <= m.block
        BY <1>1, <3>2
      <4>2. HasStored(tid[c], n)
        BY <1>0, <2>1, <4>1 DEF IInv, AckMeansStored
      <4>3. QED
        BY <4>2, StoredByMeans
    <3>3. QED
      BY <3>1, <3>2
  <2>4. Known' = [Known EXCEPT ![c] = Taken[c]]
    <3>1. Taken[c] = DataBlocks(c) \cap (1 .. m.block)
      BY <2>1, <2>3 DEF Taken
    <3>2. acked'[c] = m.block /\ \A d \in Client : d # c => acked'[d] = acked[d]
      BY <1>1, <2>1
    <3>3. Known' = [d \in Client |-> DataBlocks(d) \cap (1 .. acked'[d])]
      BY DEF Known, DataBlocks
    <3>4. QED
      BY <3>1, <3>2, <3>3 DEF Known
  <2>5. Transfer!Settle(c)
    <3>1. CASE m.block = FileBlocks
      <4>1. Done' = Done \cup {c}
        BY <1>0, <2>1, <3>1 DEF Done
      <4>2. DataBlocks(c) \cap (1 .. m.block) = DataBlocks(c)
        BY <2>1, <3>1, DataBlocksBound
      <4>3. Taken'[c] = DataBlocks(c)
        BY <2>1, <2>2, <2>3, <4>2 DEF Taken
      <4>4. QED
        BY <2>1, <4>1, <4>3 DEF Transfer!Settle
    <3>2. CASE m.block # FileBlocks
      <4>1. Done' = Done
        BY <1>0, <2>1, <3>2 DEF Done
      <4>2. QED
        BY <4>1 DEF Transfer!Settle
    <3>3. QED
      BY <3>1, <3>2
  <2>6. QED
    BY <2>1, <2>2, <2>4, <2>5 DEF Transfer!Next, Transfer!Learn
<1>7. ASSUME NEW p \in toServer, wrq_recv_callback(p)
      PROVE  [Transfer!Next]_(Transfer!vars)
  <2> DEFINE s == p.to
             c == p.from
             b == p.block
             x == [session |-> s, from |-> c, op |-> "DATA", block |-> b]
  <2>1. /\ c \in Client /\ s \in DOMAIN session /\ session[s].remote = c
        /\ UNCHANGED <<cst, tid, acked>>
    BY <1>0, <1>7, CallbackStep
  <2>2. Known' = Known /\ Done' = Done
    BY <2>1 DEF Known, Done
  <2>3. CASE UNCHANGED image
    BY <1>2, <2>1, <2>2, <2>3
  <2>4. CASE ~UNCHANGED image
    <3>1. /\ image' = Append(image, x)
          /\ b = session[s].block + 1 /\ p.op = "DATA" /\ s = tid[c] /\ b \in DataBlocks(c)
      BY <1>0, <1>7, <2>4, CallbackStep
    <3>2. b \in Nat /\ b \in 1 .. FileBlocks
      BY <2>1, <3>1, DataBlocksBound
    <3>3. StoredBy(s) = 1 .. b - 1
      <4>1. session[s].block = b - 1
        BY <1>0, <2>1, <3>1, <3>2 DEF IInv, TypeOK, Session
      <4>2. QED
        BY <1>0, <2>1, <4>1, OfOpenSession
    <3>4. Known[c] = 1 .. b - 1
      <4>1. b <= acked[c] + 1
        BY <1>0, <3>1 DEF AckedStored
      <4>2. ASSUME NEW n \in DataBlocks(c), n <= acked[c]
            PROVE  n \in 1 .. b - 1
        <5>1. HasStored(s, n)
          BY <1>0, <2>1, <3>1, <4>2 DEF AckedStored
        <5>2. QED
          BY <3>3, <5>1, StoredByMeans
      <4>3. ASSUME NEW n \in 1 .. b - 1
            PROVE  n \in DataBlocks(c)
        BY <1>0, <3>1, <3>2 DEF DataBlocks
      <4>4. DataBlocks(c) \cap (1 .. acked[c]) = 1 .. b - 1
        BY <1>1, <2>1, <3>2, <4>1, <4>2, <4>3
      <4>5. QED
        BY <2>1, <4>4 DEF Known
    <3>5. StoredBy(s)' = 1 .. b
      <4>1. x \in Stored /\ image \in Seq(Stored)
        BY <1>0, <3>1 DEF IInv, TypeOK, Packet, Stored
      <4>2. /\ Len(image) \in Nat /\ DOMAIN image = 1 .. Len(image)
            /\ DOMAIN image' = 1 .. Len(image) + 1
            /\ \A i \in DOMAIN image : image'[i] = image[i]
            /\ image'[Len(image) + 1] = x
        BY <3>1, <4>1, Appended
      <4>3. StoredBy(s)' = StoredBy(s) \cup {b}
        <5>1. ASSUME NEW n \in StoredBy(s)'
              PROVE  n \in StoredBy(s) \cup {b}
          <6>1. PICK i \in DOMAIN image' : image'[i].session = s /\ image'[i].block = n
            BY <5>1 DEF StoredBy
          <6>2. i \in DOMAIN image \/ i = Len(image) + 1
            BY <4>2, <6>1
          <6>3. QED
            BY <4>2, <6>1, <6>2 DEF StoredBy
        <5>2. b \in StoredBy(s)'
          <6>1. Len(image) + 1 \in DOMAIN image'
            BY <4>2
          <6>2. QED
            BY <4>2, <6>1 DEF StoredBy
        <5>3. ASSUME NEW n \in StoredBy(s)
              PROVE  n \in StoredBy(s)'
          <6>1. PICK i \in DOMAIN image : image[i].session = s /\ image[i].block = n
            BY <5>3 DEF StoredBy
          <6>2. i \in DOMAIN image' /\ image'[i] = image[i]
            BY <4>2, <6>1
          <6>3. QED
            BY <6>1, <6>2 DEF StoredBy
        <5>4. QED
          BY <5>1, <5>2, <5>3
      <4>4. QED
        BY <3>2, <3>3, <4>3
    <3>6. ASSUME NEW r, r # s
          PROVE  StoredBy(r)' = StoredBy(r)
      <4>1. x \in Stored /\ image \in Seq(Stored)
        BY <1>0, <3>1 DEF IInv, TypeOK, Packet, Stored
      <4>2. /\ Len(image) \in Nat /\ DOMAIN image = 1 .. Len(image)
            /\ DOMAIN image' = 1 .. Len(image) + 1
            /\ \A i \in DOMAIN image : image'[i] = image[i]
            /\ image'[Len(image) + 1] = x
        BY <3>1, <4>1, Appended
      <4>3. \A i \in DOMAIN image' : image'[i].session = r =>
                                       i \in DOMAIN image /\ image'[i] = image[i]
        BY <3>6, <4>2
      <4>4. \A i \in DOMAIN image : i \in DOMAIN image' /\ image'[i] = image[i]
        BY <4>2
      <4>5. QED
        BY <4>3, <4>4 DEF StoredBy
    <3>7. Taken' = [Taken EXCEPT ![c] = 1 .. b]
      <4>1. Taken' = [d \in Client |-> StoredBy(tid[d])']
        BY DEF Taken
      <4>2. \A d \in Client : d # c => StoredBy(tid[d])' = StoredBy(tid[d])
        <5>1. ASSUME NEW d \in Client, d # c
              PROVE  StoredBy(tid[d])' = StoredBy(tid[d])
          <6>1. tid[d] # s
            BY <1>0, <1>1, <2>1, <3>1, <5>1, OwnerUnique
          <6>2. tid'[d] = tid[d]
            BY <2>1
          <6>3. QED
            BY <3>6, <6>1, <6>2 DEF StoredBy
        <5>2. QED
          BY <5>1
      <4>3. StoredBy(tid[c])' = 1 .. b
        BY <2>1, <3>1, <3>5 DEF StoredBy
      <4>4. QED
        BY <4>1, <4>2, <4>3 DEF Taken
    <3>8. Taken[c] = 1 .. b - 1
      BY <2>1, <3>1, <3>3 DEF Taken
    <3>9. Transfer!Take(c)
      BY <2>1, <2>2, <3>1, <3>4, <3>7, <3>8 DEF Transfer!Take
    <3>10. QED
      BY <2>1, <2>2, <3>9 DEF Transfer!Next, Transfer!Settle
  <2>5. QED
    BY <2>3, <2>4
<1>8. QED
  BY <1>0, <1>3, <1>4, <1>5, <1>6, <1>7, Steps

LEMMA TransferStart == Init => Transfer!Init
<1> SUFFICES ASSUME Init PROVE Transfer!Init
  OBVIOUS
<1>1. Known = [c \in Client |-> {}]
  BY DEF Init, Known
<1>2. Taken = [c \in Client |-> {}]
  BY DEF Init, Taken, StoredBy
<1>3. Done = {}
  BY DEF Init, Done
<1>4. QED
  BY <1>1, <1>2, <1>3 DEF Transfer!Init

(* Under Polite, writing is a transfer block by block: a block goes to the *)
(* flash only when its client knows that all before it are there, each     *)
(* once, and a client takes its upload for complete only when the file is  *)
(* whole, for any number of clients and sessions, files of every length,   *)
(* and whatever the network does (tftpserver.c:397-480).                   *)
THEOREM WritesTransfer ==
  ASSUME Polite
  PROVE  Spec => ImplementsTransfer
<1>1. TransferInv /\ [Next]_vars => TransferInv'
  BY TransferNext
<1>2. TransferInv /\ [Next]_vars => [Transfer!Next]_(Transfer!vars)
  BY TransferStep
<1>3. QED
  BY TransferInit, TransferStart, <1>1, <1>2, PTL
     DEF Spec, ImplementsTransfer, Transfer!Spec

-----------------------------------------------------------------------------
(* Clients that wait for each other: an upload lies in one piece.  Only a  *)
(* new request makes another client the one that uploads.                  *)
LEMMA UploaderStep ==
  ASSUME TransferInv, ~Overlap, OneUploader, [Next]_vars
  PROVE  OneUploader'
<1>0. /\ TypeInv /\ IInv /\ Adopted
      /\ ports \in Nat /\ DOMAIN session \subseteq 1 .. ports
      /\ cst \in [Client -> {"idle", "wrq", "send", "done", "failed"}]
      /\ tid \in [Client -> 0 .. MaxRequests]
  BY PortsInUse DEF TransferInv, IInv, TypeInv, TypeOK
<1>1. ASSUME NEW c \in Client, ClientRequest(c)
      PROVE  OneUploader'
  <2>1. /\ session = << >> /\ session' = session
        /\ \A d \in Client : cst[d] \notin {"wrq", "send"}
        /\ cst' = [cst EXCEPT ![c] = "wrq"]
    BY <1>1 DEF ClientRequest, serverVars
  <2>2. \A d \in Client : Uploading(d)' => d = c
    BY <1>0, <2>1 DEF Uploading
  <2>3. QED
    BY <2>2 DEF OneUploader
<1>2. ASSUME \A d \in Client : Uploading(d)' => Uploading(d)
      PROVE  OneUploader'
  BY <1>2 DEF OneUploader
<1>3. ASSUME NEW c \in Client, Requested(c)
      PROVE  OneUploader'
  <2>1. /\ UNCHANGED <<cst, tid>>
        /\ \A s \in DOMAIN session' : s \in DOMAIN session \/ s = ports + 1
    BY <1>0, <1>3, OpeningStep
  <2>2. \A d \in Client : tid[d] # ports + 1
    BY <1>0, TftpAssumption DEF Adopted
  <2>3. QED
    BY <1>2, <2>1, <2>2 DEF Uploading
<1>4. ASSUME NEW p \in toServer, wrq_recv_callback(p)
      PROVE  OneUploader'
  <2>1. UNCHANGED <<cst, tid>> /\ \A s \in DOMAIN session' : s \in DOMAIN session
    BY <1>0, <1>4, CallbackStep
  <2>2. QED
    BY <1>2, <2>1 DEF Uploading
<1>5. ASSUME NEW m \in toClient, ClientReceive(m)
      PROVE  OneUploader'
  <2>1. m.to \in Client /\ session' = session
    BY <1>0, <1>5 DEF ClientReceive, serverVars, IInv, TypeOK, Answer
  <2>2. \A c \in Client : /\ cst'[c] \in {"wrq", "send"} => cst[c] \in {"wrq", "send"}
                          /\ tid'[c] = tid[c] \/ cst[c] = "wrq"
    BY <1>0, <1>5, <2>1 DEF ClientReceive, Adopt, Advance, Reject, GiveUp, Ignore, clientVars
  <2>3. QED
    BY <1>2, <2>1, <2>2 DEF Uploading
<1>6. ASSUME NEW c \in Client,
             ClientRetryRequest(c) \/ ClientSend(c) \/ ClientAbort(c)
      PROVE  OneUploader'
  <2>1. /\ UNCHANGED <<session, tid>>
        /\ cst' = cst \/ cst' = [cst EXCEPT ![c] = "failed"]
    BY <1>6 DEF ClientRetryRequest, ClientSend, ClientAbort, serverVars, clientVars
  <2>2. QED
    BY <1>0, <1>2, <2>1 DEF Uploading
<1>7. CASE UNCHANGED <<session, cst, tid>>
  BY <1>2, <1>7 DEF Uploading
<1>8. requests \subseteq Client
  BY <1>0 DEF TypeInv, TypeOK
<1>9. QED
  BY <1>1, <1>3, <1>4, <1>5, <1>6, <1>7, <1>8
  DEF Next, Frame, Requested, Environment, udp_input_no_pcb, FinishSeen, Lose,
      vars, serverVars, clientVars

(* What the uploading client has stored stays the last in the flash.       *)
LEMMA LastStep ==
  ASSUME TransferInv, OneUploader, LastStored, [Next]_vars
  PROVE  LastStored'
<1>0. /\ TypeInv /\ IInv /\ image \in Seq(Stored)
      /\ ports \in Nat /\ tid \in [Client -> 0 .. MaxRequests]
      /\ \A i \in DOMAIN image : /\ image[i].from \in Client /\ image[i].session \in Port
                                 /\ image[i].session <= ports
                                 /\ tid[image[i].from] = image[i].session
  BY PortsInUse DEF TransferInv, IInv, TypeInv, TypeOK, Adopted, ImageInv
<1>1. CASE UNCHANGED <<session, image, tid>>
  BY <1>1 DEF LastStored
<1>2. ASSUME NEW m \in toClient, Adopts(m)
      PROVE  LastStored'
  <2>1. /\ UNCHANGED <<session, image>> /\ m.to \in Client
        /\ tid' = [tid EXCEPT ![m.to] = m.from] /\ cst[m.to] = "wrq"
    BY <1>2, PortsInUse DEF Adopts, Adopt, serverVars
  <2>2. tid[m.to] = 0
    BY <1>0, <2>1 DEF IInv, ClientInv
  <2>3. \A i \in DOMAIN image : image[i].from # m.to
    BY <1>0, <2>2 DEF Port
  <2>4. \A i \in DOMAIN image : tid'[image[i].from] = tid[image[i].from]
    BY <1>0, <2>1, <2>3
  <2>5. QED
    BY <2>1, <2>4 DEF LastStored
<1>3. ASSUME NEW p \in toServer, wrq_recv_callback(p)
      PROVE  LastStored'
  <2>1. /\ p.from \in Client /\ p.to \in DOMAIN session /\ tid' = tid
        /\ \A s \in DOMAIN session' : s \in DOMAIN session
    BY <1>0, <1>3, CallbackStep
  <2>2. CASE UNCHANGED image
    BY <2>1, <2>2 DEF LastStored
  <2>3. CASE ~UNCHANGED image
    <3> DEFINE x == [session |-> p.to, from |-> p.from, op |-> "DATA", block |-> p.block]
    <3>1. image' = Append(image, x) /\ p.to = tid[p.from]
      BY <1>0, <1>3, <2>3, CallbackStep
    <3>2. x \in Stored
      BY <1>0, <3>1 DEF IInv, TypeOK, Packet, Stored
    <3>3. /\ Len(image) \in Nat /\ DOMAIN image = 1 .. Len(image)
          /\ DOMAIN image' = 1 .. Len(image) + 1
          /\ \A i \in DOMAIN image : image'[i] = image[i]
          /\ image'[Len(image) + 1] = x
      BY <1>0, <3>1, <3>2, Appended
    <3>4. \A i \in DOMAIN image :
             tid[image[i].from] \in DOMAIN session => image[i].from = p.from
      BY <1>0, <2>1, <3>1 DEF OneUploader, Uploading
    <3>5. SUFFICES ASSUME NEW i \in DOMAIN image', NEW j \in DOMAIN image', i < j,
                          tid'[image'[i].from] \in DOMAIN session'
                   PROVE  image'[j].from = image'[i].from
      BY DEF LastStored
    <3>6. i \in DOMAIN image /\ image'[i] = image[i]
      BY <3>3, <3>5
    <3>7. tid[image[i].from] \in DOMAIN session
      BY <2>1, <3>5, <3>6
    <3>8. CASE j = Len(image) + 1
      BY <3>3, <3>4, <3>6, <3>7, <3>8
    <3>9. CASE j \in DOMAIN image
      BY <3>3, <3>5, <3>6, <3>7, <3>9 DEF LastStored
    <3>10. QED
      BY <3>3, <3>8, <3>9
  <2>4. QED
    BY <2>2, <2>3
<1>4. ASSUME NEW c \in Client, Requested(c)
      PROVE  LastStored'
  <2>1. /\ UNCHANGED <<image, tid>>
        /\ \A s \in DOMAIN session' : s \in DOMAIN session \/ s = ports + 1
    BY <1>0, <1>4, OpeningStep
  <2>2. \A i \in DOMAIN image : tid[image[i].from] # ports + 1
    BY <1>0 DEF Port
  <2>3. QED
    BY <2>1, <2>2 DEF LastStored
<1>5. QED
  BY <1>0, <1>1, <1>2, <1>3, <1>4, Steps DEF Idle, Advances, Advance, serverVars

LEMMA PieceStep ==
  ASSUME TransferInv, LastStored, InOnePiece, [Next]_vars
  PROVE  InOnePiece'
<1>0. /\ TypeInv /\ IInv /\ OneOwner /\ image \in Seq(Stored)
      /\ tid \in [Client -> 0 .. MaxRequests] /\ DOMAIN session \subseteq 1 .. ports
      /\ \A i \in DOMAIN image : /\ image[i].from \in Client /\ image[i].session \in Port
                                 /\ image[i].block \in Nat
                                 /\ tid[image[i].from] = image[i].session
  BY PortsInUse DEF TransferInv, IInv, TypeInv, TypeOK, Adopted
<1>1. CASE UNCHANGED image
  BY <1>1 DEF InOnePiece
<1>2. ASSUME NEW p \in toServer, wrq_recv_callback(p), ~UNCHANGED image
      PROVE  InOnePiece'
  <2> DEFINE x == [session |-> p.to, from |-> p.from, op |-> "DATA", block |-> p.block]
  <2>1. /\ p.from \in Client /\ p.to \in DOMAIN session
        /\ image' = Append(image, x) /\ p.to = tid[p.from]
        /\ p.block = session[p.to].block + 1
    BY <1>0, <1>2, CallbackStep
  <2>2. x \in Stored /\ session[p.to].block \in Nat
    BY <1>0, <2>1 DEF IInv, TypeOK, Packet, Stored, Session
  <2>3. /\ Len(image) \in Nat /\ DOMAIN image = 1 .. Len(image)
        /\ DOMAIN image' = 1 .. Len(image) + 1
        /\ \A i \in DOMAIN image : image'[i] = image[i]
        /\ image'[Len(image) + 1] = x
    BY <1>0, <2>1, <2>2, Appended
  <2>4. SUFFICES ASSUME NEW k \in DOMAIN image', image'[k].block > 1
                 PROVE  /\ k - 1 \in DOMAIN image'
                        /\ image'[k - 1].session = image'[k].session
                        /\ image'[k - 1].block = image'[k].block - 1
    BY DEF InOnePiece
  <2>5. CASE k \in DOMAIN image
    <3>1. image[k].block > 1
      BY <2>3, <2>4, <2>5
    <3>2. /\ k - 1 \in DOMAIN image
          /\ image[k - 1].session = image[k].session
          /\ image[k - 1].block = image[k].block - 1
      BY <2>5, <3>1 DEF InOnePiece
    <3>3. QED
      BY <2>3, <2>5, <3>2
  <2>6. CASE k = Len(image) + 1
    <3> DEFINE n == session[p.to].block
    <3>1. n \in 1 .. n
      BY <2>1, <2>2, <2>3, <2>4, <2>6
    <3>2. PICK i \in DOMAIN image : image[i].session = p.to /\ image[i].block = n
      BY <1>0, <2>1, <3>1 DEF IInv, SessionInv, HasStored
    <3>3. image[i].from = p.from
      <4>1. tid[image[i].from] = tid[p.from] /\ tid[p.from] # 0
        BY <1>0, <2>1, <3>2
      <4>2. QED
        BY <1>0, <2>1, <4>1, OwnerUnique
    <3>4. i = Len(image)
      <4>1. SUFFICES ASSUME i # Len(image) PROVE FALSE
        OBVIOUS
      <4>2. i + 1 \in DOMAIN image /\ i < i + 1 /\ i \in 1 .. (i + 1) - 1
        BY <2>3, <4>1
      <4>3. image[i + 1].from = image[i].from
        BY <1>0, <2>1, <3>2, <4>2 DEF LastStored
      <4>4. image[i + 1].session = p.to
        BY <1>0, <2>1, <3>3, <4>2, <4>3
      <4>5. image[i + 1].block > n
        BY <1>0, <3>2, <4>2, <4>4 DEF IInv, StoredInOrder
      <4>6. image[i + 1].block <= n
        BY <1>0, <2>1, <4>2, <4>4 DEF IInv, SessionInv
      <4>7. QED
        BY <1>0, <2>2, <4>2, <4>5, <4>6
    <3>5. QED
      BY <2>1, <2>2, <2>3, <2>6, <3>2, <3>4
  <2>7. QED
    BY <2>3, <2>5, <2>6
<1>3. ASSUME NEW c \in Client, Requested(c)
      PROVE  UNCHANGED image
  BY <1>0, <1>3, OpeningStep
<1>4. QED
  BY <1>0, <1>1, <1>2, <1>3, Steps DEF Idle, Adopts, Advances, serverVars

(* With uploads one at a time the blocks of each lie one directly behind   *)
(* the other in the flash, although requests are repeated into sessions    *)
(* that no client uses and all sessions share FLASH_APP1_ADDR.             *)
THEOREM InOnePieceCorrect ==
  ASSUME Polite, ~Overlap
  PROVE  Spec => []InOnePiece
<1>1. Init => PieceInv
  BY TransferInit DEF Init, PieceInv, OneUploader, Uploading, LastStored, InOnePiece
<1>2. PieceInv /\ [Next]_vars => PieceInv'
  BY TransferNext, UploaderStep, LastStep, PieceStep DEF PieceInv
<1>3. PieceInv => InOnePiece
  BY DEF PieceInv
<1>4. QED
  BY <1>1, <1>2, <1>3, PTL DEF Spec
=============================================================================
