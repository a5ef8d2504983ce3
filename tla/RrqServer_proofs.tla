-------------------------- MODULE RrqServer_proofs --------------------------
(***************************************************************************)
(* Theorems about RrqServer, for any number of clients, sessions and       *)
(* blocks, whatever the network loses, repeats or reorders, and for files  *)
(* of every size, a multiple of a block or not.                            *)
(***************************************************************************)
EXTENDS RrqServer, TLAPS

-----------------------------------------------------------------------------
(* The blocks of a file: full ones, and one that is shorter and ends it. *)
LEMMA DivMod ==
  ASSUME NEW n \in Nat, NEW d \in Nat \ {0}
  PROVE  /\ n \div d \in Nat /\ n % d \in 0 .. d - 1
         /\ n = d * (n \div d) + (n % d)
<1>1. n % d \in 0 .. d - 1
  BY SMT
<1>2. n \div d \in Nat
  BY SMT
<1>3. n = d * (n \div d) + (n % d)
  BY SMT
<1>4. QED
  BY <1>1, <1>2, <1>3

LEMMA LastLength ==
  /\ total_block \in Nat \ {0}
  /\ DataLen(total_block) \in 0 .. TFTP_DATA_LEN_MAX - 1
  /\ (total_block - 1) * TFTP_DATA_LEN_MAX + DataLen(total_block) = TotBytes
<1> DEFINE q == TotBytes \div TFTP_DATA_LEN_MAX
           r == TotBytes % TFTP_DATA_LEN_MAX
<1>1. /\ TFTP_DATA_LEN_MAX \in Nat \ {0} /\ TotBytes \in Nat
      /\ q \in Nat /\ r \in 0 .. TFTP_DATA_LEN_MAX - 1
      /\ TotBytes = TFTP_DATA_LEN_MAX * q + r
  BY RrqAssumption, DivMod
<1>2. total_block = q + 1
  BY DEF total_block
<1>3. DataLen(total_block) = IF r = 0 THEN 0 ELSE TotBytes - (total_block - 1) * TFTP_DATA_LEN_MAX
  BY DEF DataLen
<1> HIDE DEF q, r
<1>4. (total_block - 1) * TFTP_DATA_LEN_MAX = TFTP_DATA_LEN_MAX * q
  BY <1>1, <1>2
<1>5. TFTP_DATA_LEN_MAX * q \in Nat
  BY <1>1
<1>6. DataLen(total_block) = r
  BY <1>1, <1>3, <1>4, <1>5
<1>7. QED
  BY <1>1, <1>2, <1>4, <1>5, <1>6

LEMMA Length ==
  ASSUME NEW n \in 1 .. total_block
  PROVE  /\ DataLen(n) \in Lengths
         /\ n = total_block <=> DataLen(n) < TFTP_DATA_LEN_MAX
         /\ n # total_block => DataLen(n) = TFTP_DATA_LEN_MAX
BY LastLength, RrqAssumption DEF DataLen, Lengths

(* The bytes of the blocks before the last. *)
LEMMA FullBytes ==
  ASSUME NEW n \in Nat, n < total_block
  PROVE  /\ n * TFTP_DATA_LEN_MAX \in 0 .. TotBytes
         /\ (n + 1) * TFTP_DATA_LEN_MAX = n * TFTP_DATA_LEN_MAX + TFTP_DATA_LEN_MAX
<1> DEFINE L == TFTP_DATA_LEN_MAX
           q == total_block - 1
<1>1. L \in Nat /\ q \in Nat /\ n <= q /\ DataLen(total_block) \in Nat
      /\ q * L + DataLen(total_block) = TotBytes /\ TotBytes \in Nat
  BY LastLength, RrqAssumption
<1> HIDE DEF L, q
<1>2. q * L = n * L + (q - n) * L /\ (q - n) * L \in Nat /\ n * L \in Nat
  BY <1>1
<1>3. n * L \in 0 .. TotBytes
  BY <1>1, <1>2
<1>4. (n + 1) * L = n * L + L
  BY <1>1
<1>5. QED
  BY <1>3, <1>4 DEF L

(* Packets taken off the network leave only packets that were on it. *)
LEMMA DeliverSubset ==
  ASSUME NEW net, NEW m, NEW kind, NEW left \in Deliver(net, m, kind)
  PROVE  left \subseteq net
BY DEF Deliver

LEMMA PacketTypes ==
  ASSUME NEW s \in Port, NEW c \in Client, NEW n \in Nat, NEW len \in Lengths
  PROVE  /\ Data(s, c, n, len) \in Answer /\ Error(s, c) \in Answer
         /\ Ack(c, s, n) \in Packet /\ UnknownTid(c, s) \in Packet
BY RrqAssumption DEF Data, Error, Ack, UnknownTid, Answer, Packet, Lengths

-----------------------------------------------------------------------------
(* The inductive invariant, one action or group of actions at a time. *)

LEMMA InitInv == Init => IInv
<1> SUFFICES ASSUME Init PROVE IInv
  OBVIOUS
<1>1. total_block \in Nat \ {0} /\ 0 < total_block
  BY LastLength
<1>2. TypeOK
  BY <1>1, RrqAssumption DEF Init, TypeOK
<1>3. AnswerInv /\ PacketInv /\ SessionInv /\ InStep /\ DoneMeansAllBytes
  BY DEF Init, AnswerInv, PacketInv, SessionInv, InStep, DoneMeansAllBytes
<1>4. ClientInv
  BY <1>1, RrqAssumption DEF Init, ClientInv
<1>5. QED
  BY <1>2, <1>3, <1>4 DEF IInv

(* A new session, its first block on the way. *)
LEMMA OpenInv ==
  ASSUME IInv, NEW c \in Client, requests' \subseteq requests, OpenSession(c),
         UNCHANGED <<toServer, clientVars>>
  PROVE  IInv'
<1> USE DEF IInv, TypeOK, clientVars
<1> DEFINE s == ports + 1
<1>1. s \in Port /\ s \in Nat /\ ports' = s /\ s \notin DOMAIN session /\ ports < MaxRequests
  BY RrqAssumption DEF OpenSession, udp_new_port, Port
<1>2. 1 \in 1 .. total_block /\ 1 <= total_block
  BY LastLength
<1>3. DataLen(1) \in Lengths
  BY <1>2, Length
<1>4. /\ session' = [r \in DOMAIN session \cup {s} |->
                       IF r = s THEN [remote |-> c, block |-> 1, data_len |-> DataLen(1)]
                       ELSE session[r]]
      /\ toClient' = toClient \cup {Data(s, c, 1, DataLen(1))}
  BY <1>2 DEF OpenSession, tftp_send_next_block
<1>5. [remote |-> c, block |-> 1, data_len |-> DataLen(1)] \in Session
  BY <1>3 DEF Session
<1>6. Data(s, c, 1, DataLen(1)) \in Answer
  BY <1>1, <1>3, PacketTypes
<1>7. DOMAIN session' = DOMAIN session \cup {s}
  BY <1>4
<1>8. TypeOK'
  <2>1. DOMAIN session' \subseteq 1 .. ports'
    BY <1>1, <1>7
  <2>2. \A r \in DOMAIN session' : session'[r] \in Session
    BY <1>4, <1>5, <1>7
  <2>3. toClient' \subseteq Answer /\ ports' \in 0 .. MaxRequests
    BY <1>1, <1>4, <1>6, RrqAssumption
  <2>4. QED
    BY <2>1, <2>2, <2>3
<1>9. AnswerInv'
  <2> SUFFICES ASSUME NEW m \in toClient'
               PROVE  /\ m.from <= ports'
                      /\ m.op = "DATA" =>
                           /\ m.block \in 1 .. total_block /\ m.len = DataLen(m.block)
                           /\ m.from \in DOMAIN session' => m.block <= session'[m.from].block
    BY DEF AnswerInv
  <2>1. CASE m = Data(s, c, 1, DataLen(1))
    BY <2>1, <1>1, <1>2, <1>4 DEF Data
  <2>2. CASE m \in toClient
    <3>1. m.from <= ports /\ m.from \in Nat
      BY <2>2 DEF AnswerInv, Answer, Port
    <3>2. m.from # s /\ m.from <= ports'
      BY <3>1, <1>1, RrqAssumption
    <3>3. m.from \in DOMAIN session' =>
             m.from \in DOMAIN session /\ session'[m.from] = session[m.from]
      BY <3>2, <1>4, <1>7
    <3>4. QED
      BY <2>2, <3>2, <3>3 DEF AnswerInv
  <2>3. QED
    BY <2>1, <2>2, <1>4
<1>10. ClientInv'
  BY <1>1, RrqAssumption DEF ClientInv
<1>11. PacketInv' /\ DoneMeansAllBytes'
  BY DEF PacketInv, DoneMeansAllBytes
<1>12. SessionInv'
  BY <1>2, <1>4, <1>7 DEF SessionInv
<1>13. InStep'
  <2>1. tid[c] # s
    BY <1>1, RrqAssumption DEF ClientInv
  <2>2. QED
    BY <2>1, <1>1, <1>4, <1>7 DEF InStep
<1>14. QED
  BY <1>8, <1>9, <1>10, <1>11, <1>12, <1>13

(* A request that is answered by an error. *)
Refuses(c) ==
  /\ ports < MaxRequests /\ ports' = ports + 1
  /\ toClient' = toClient \cup {Error(ports + 1, c)}
  /\ requests' \subseteq requests
  /\ UNCHANGED <<session, toServer, clientVars>>

LEMMA RefusesInv ==
  ASSUME IInv, NEW c \in Client, Refuses(c)
  PROVE  IInv'
<1> USE DEF IInv, TypeOK, clientVars, Refuses
<1>1. ports + 1 \in Port
  BY RrqAssumption DEF Port
<1>2. Error(ports + 1, c) \in Answer
  BY <1>1, PacketTypes, RrqAssumption DEF Lengths
<1>3. TypeOK'
  BY <1>1, <1>2, RrqAssumption DEF Port
<1>4. AnswerInv'
  <2> SUFFICES ASSUME NEW m \in toClient'
               PROVE  /\ m.from <= ports'
                      /\ m.op = "DATA" =>
                           /\ m.block \in 1 .. total_block /\ m.len = DataLen(m.block)
                           /\ m.from \in DOMAIN session' => m.block <= session'[m.from].block
    BY DEF AnswerInv
  <2>1. CASE m = Error(ports + 1, c)
    BY <2>1, <1>1 DEF Error, Port
  <2>2. CASE m \in toClient
    BY <2>2, <1>1, RrqAssumption DEF AnswerInv, Answer, Port
  <2>3. QED
    BY <2>1, <2>2, <1>1
<1>5. ClientInv'
  BY <1>1, RrqAssumption DEF ClientInv
<1>6. PacketInv' /\ DoneMeansAllBytes' /\ SessionInv' /\ InStep'
  BY <1>1 DEF PacketInv, DoneMeansAllBytes, SessionInv, InStep
<1>7. QED
  BY <1>3, <1>4, <1>5, <1>6

(* A request of c, whatever it asks for. *)
Requested(c) == process_tftp_request(c) \/ UnknownRequest(c)

LEMMA RequestInv ==
  ASSUME IInv, NEW c \in Client, Requested(c)
  PROVE  IInv'
<1>1. CASE process_tftp_request(c)
  <2>1. requests' \subseteq requests /\ UNCHANGED <<toServer, clientVars>>
    BY <1>1, DeliverSubset DEF process_tftp_request
  <2>2. CASE NoPcb(c)
    BY <2>1, <2>2 DEF NoPcb, IInv, TypeOK, AnswerInv, ClientInv, PacketInv, SessionInv,
                      InStep, DoneMeansAllBytes, serverVars, clientVars
  <2>3. CASE NoArgs(c)
    BY <2>1, <2>3, RefusesInv DEF NoArgs, udp_new_port, Refuses
  <2>4. CASE OpenSession(c)
    BY <2>1, <2>4, OpenInv
  <2> QED
    BY <1>1, <2>2, <2>3, <2>4 DEF process_tftp_request
<1>2. CASE UnknownRequest(c)
  BY <1>2, RefusesInv DEF UnknownRequest, udp_new_port, Refuses
<1> QED
  BY <1>1, <1>2 DEF Requested

(* A packet of a session: the next block, the same again, or the end. *)
LEMMA CallbackInv ==
  ASSUME IInv, NEW p \in toServer, rrq_recv_callback(p)
  PROVE  IInv'
<1> USE DEF IInv, TypeOK, clientVars
<1> DEFINE s == p.to
           c == p.from
           n == IF tftp_is_correct_ack(p) THEN session[s].block + 1 ELSE session[s].block
<1>1. /\ s \in DOMAIN session /\ session[s].remote = c /\ session[s] \in Session
      /\ toServer' \subseteq toServer
      /\ UNCHANGED <<ports, requests, cst, tid, got, bytes>>
  BY DeliverSubset DEF rrq_recv_callback, FromPeer
<1>2. c \in Client /\ s \in Port
  BY DEF Packet
<1>3. session[s].block \in 1 .. total_block /\ session[s].data_len = DataLen(session[s].block)
  BY <1>1 DEF SessionInv
<1>4. ClientInv' /\ PacketInv' /\ DoneMeansAllBytes'
  BY <1>1 DEF ClientInv, PacketInv, DoneMeansAllBytes
<1>5. CASE LastSent(s)
  <2>1. UNCHANGED toClient /\ session' = [r \in DOMAIN session \ {s} |-> session[r]]
    BY <1>5 DEF rrq_recv_callback, tftp_cleanup_rd
  <2>2. DOMAIN session' \subseteq DOMAIN session
        /\ \A r \in DOMAIN session' : session'[r] = session[r]
    BY <2>1
  <2>3. TypeOK'
    BY <1>1, <2>1, <2>2
  <2>4. AnswerInv' /\ SessionInv' /\ InStep'
    BY <1>1, <2>1, <2>2 DEF AnswerInv, SessionInv, InStep
  <2>5. QED
    BY <1>4, <2>3, <2>4
<1>6. CASE ~LastSent(s)
  <2>1. session[s].block # total_block
    BY <1>3, <1>6, Length DEF LastSent
  <2>2. n \in 1 .. total_block /\ n <= total_block /\ n \in Nat /\ session[s].block <= n
    BY <1>3, <2>1, LastLength
  <2>3. DataLen(n) \in Lengths
    BY <2>2, Length
  <2>4. tftp_send_next_block(s, c, n, session[s].data_len)
    BY <1>6 DEF rrq_recv_callback
  <2>5. /\ session' = [r \in DOMAIN session \cup {s} |->
                         IF r = s THEN [remote |-> c, block |-> n, data_len |-> DataLen(n)]
                         ELSE session[r]]
        /\ toClient' = toClient \cup {Data(s, c, n, DataLen(n))}
    BY <2>2, <2>4 DEF tftp_send_next_block
  <2>6. DOMAIN session' = DOMAIN session
    BY <1>1, <2>5
  <2>7. [remote |-> c, block |-> n, data_len |-> DataLen(n)] \in Session
    BY <1>2, <2>2, <2>3 DEF Session
  <2>8. Data(s, c, n, DataLen(n)) \in Answer
    BY <1>2, <2>2, <2>3, PacketTypes
  <2> HIDE DEF n
  <2>9. TypeOK'
    <3>1. \A r \in DOMAIN session' : session'[r] \in Session
      BY <2>5, <2>6, <2>7
    <3>2. toClient' \subseteq Answer
      BY <2>5, <2>8
    <3>3. QED
      BY <1>1, <2>6, <3>1, <3>2
  <2>10. AnswerInv'
    <3> SUFFICES ASSUME NEW m \in toClient'
                 PROVE  /\ m.from <= ports'
                        /\ m.op = "DATA" =>
                             /\ m.block \in 1 .. total_block /\ m.len = DataLen(m.block)
                             /\ m.from \in DOMAIN session' => m.block <= session'[m.from].block
      BY DEF AnswerInv
    <3>1. CASE m = Data(s, c, n, DataLen(n))
      BY <3>1, <1>1, <2>2, <2>5 DEF Data
    <3>2. CASE m \in toClient
      <4>1. m.from <= ports /\ ports' = ports
        BY <3>2, <1>1 DEF AnswerInv
      <4>2. ASSUME m.op = "DATA"
            PROVE  m.block \in 1 .. total_block /\ m.len = DataLen(m.block)
        BY <3>2, <4>2 DEF AnswerInv
      <4>3. ASSUME m.op = "DATA", m.from \in DOMAIN session'
            PROVE  m.block <= session'[m.from].block
        <5>1. m.block <= session[m.from].block /\ m.block \in Nat
          BY <3>2, <4>3, <2>6 DEF AnswerInv, Answer
        <5>2. CASE m.from = s
          <6>1. session'[m.from].block = n
            BY <5>2, <1>1, <2>5
          <6>2. QED
            BY <5>1, <5>2, <6>1, <2>2, <1>3
        <5>3. CASE m.from # s
          BY <5>1, <5>3, <4>3, <2>5, <2>6
        <5>4. QED
          BY <5>2, <5>3
      <4>4. QED
        BY <4>1, <4>2, <4>3
    <3>3. QED
      BY <3>1, <3>2, <2>5
  <2>11. SessionInv'
    BY <2>2, <2>5, <2>6 DEF SessionInv
  <2>12. InStep'
    <3> SUFFICES ASSUME NEW r \in DOMAIN session'
                 PROVE  IF tid[session'[r].remote] = r
                        THEN session'[r].block \in {got[session'[r].remote],
                                                    got[session'[r].remote] + 1}
                        ELSE session'[r].block = 1
      BY <1>1 DEF InStep
    <3>1. CASE r # s
      <4>1. r \in DOMAIN session /\ session'[r] = session[r]
        BY <3>1, <2>5, <2>6
      <4>2. QED
        BY <4>1 DEF InStep
    <3>2. CASE r = s
      <4>1. session'[r].remote = c /\ session'[r].block = n
        BY <3>2, <1>1, <2>5
      <4>2. IF tid[c] = s THEN session[s].block \in {got[c], got[c] + 1}
                          ELSE session[s].block = 1
        BY <1>1 DEF InStep
      <4>3. CASE tftp_is_correct_ack(p)
        <5>1. p.op = "ACK" /\ p.block = session[s].block /\ n = session[s].block + 1
          BY <4>3 DEF tftp_is_correct_ack, n
        <5>2. tid[c] = s /\ session[s].block <= got[c]
          BY <5>1 DEF PacketInv
        <5>3. n = got[c] + 1
          BY <1>2, <1>3, <4>2, <5>1, <5>2, LastLength
        <5>4. QED
          BY <3>2, <4>1, <5>2, <5>3
      <4>4. CASE ~tftp_is_correct_ack(p)
        <5>1. n = session[s].block
          BY <4>4 DEF n
        <5>2. QED
          BY <3>2, <4>1, <4>2, <5>1
      <4>5. QED
        BY <4>3, <4>4
    <3>3. QED
      BY <3>1, <3>2
  <2>13. QED
    BY <1>4, <2>9, <2>10, <2>11, <2>12
<1>7. QED
  BY <1>5, <1>6

(* A client takes the block that comes next. *)
LEMMA TakeInv ==
  ASSUME IInv, NEW m \in toClient, TakeBlock(m.to, m), toClient' \subseteq toClient,
         UNCHANGED <<serverVars, requests>>
  PROVE  IInv'
<1> USE DEF IInv, TypeOK, serverVars
<1> DEFINE c == m.to
<1>1. c \in Client /\ m.from \in Port /\ m.from # 0
  BY DEF Answer, Port
<1>2. /\ m.op = "DATA" /\ m.block = got[c] + 1 /\ m.block \in 1 .. total_block
      /\ m.len = DataLen(m.block) /\ m.from <= ports
      /\ m.from \in DOMAIN session => m.block <= session[m.from].block
  BY DEF TakeBlock, AnswerInv
<1>3. got[c] \in Nat /\ got[c] < total_block /\ m.block \in Nat
  BY <1>1, <1>2, LastLength
<1>4. /\ tid' = [tid EXCEPT ![c] = m.from]
      /\ got' = [got EXCEPT ![c] = m.block]
      /\ bytes' = [bytes EXCEPT ![c] = @ + m.len]
      /\ cst' = [cst EXCEPT ![c] = IF m.len < TFTP_DATA_LEN_MAX THEN "done" ELSE "recv"]
      /\ toServer' = toServer \cup {Ack(c, m.from, m.block)}
  BY DEF TakeBlock
<1>5. IF m.block = total_block THEN m.len < TFTP_DATA_LEN_MAX /\ bytes[c] + m.len = TotBytes
      ELSE m.len = TFTP_DATA_LEN_MAX /\ bytes[c] + m.len = m.block * TFTP_DATA_LEN_MAX
  <2>1. bytes[c] = got[c] * TFTP_DATA_LEN_MAX
    BY <1>1, <1>3 DEF ClientInv
  <2>2. CASE m.block = total_block
    <3>1. got[c] = total_block - 1 /\ m.len = DataLen(total_block)
      BY <1>2, <1>3, <2>2, LastLength
    <3>2. m.len < TFTP_DATA_LEN_MAX
      BY <3>1, LastLength, RrqAssumption
    <3>3. bytes[c] = (total_block - 1) * TFTP_DATA_LEN_MAX
      BY <2>1, <3>1
    <3>4. bytes[c] + m.len = TotBytes
      BY <3>1, <3>3, LastLength
    <3>5. QED
      BY <2>2, <3>2, <3>4
  <2>3. CASE m.block # total_block
    <3>1. m.len = TFTP_DATA_LEN_MAX
      BY <1>2, <2>3, Length
    <3>2. (got[c] + 1) * TFTP_DATA_LEN_MAX = got[c] * TFTP_DATA_LEN_MAX + TFTP_DATA_LEN_MAX
      BY <1>3, FullBytes
    <3>3. QED
      BY <1>2, <2>1, <2>3, <3>1, <3>2
  <2>4. QED
    BY <2>2, <2>3
<1>6. bytes[c] + m.len \in 0 .. TotBytes
  BY <1>2, <1>3, <1>5, FullBytes, RrqAssumption, LastLength
<1>7. TypeOK'
  <2>1. Ack(c, m.from, m.block) \in Packet
    BY <1>1, <1>3, PacketTypes, RrqAssumption DEF Lengths
  <2>2. tid' \in [Client -> 0 .. MaxRequests]
    BY <1>1, <1>4, RrqAssumption DEF Port
  <2>3. got' \in [Client -> 0 .. total_block] /\ bytes' \in [Client -> 0 .. TotBytes]
    <3>1. m.block \in 0 .. total_block
      BY <1>2, LastLength
    <3>2. QED
      BY <1>1, <1>4, <1>6, <3>1
  <2>4. cst' \in [Client -> {"idle", "rrq", "recv", "done", "failed"}]
    BY <1>1, <1>4
  <2>5. toServer' \subseteq Packet
    BY <1>4, <2>1
  <2>6. QED
    BY <2>2, <2>3, <2>4, <2>5
<1>8. AnswerInv' /\ SessionInv'
  BY DEF AnswerInv, SessionInv
<1>9. ClientInv'
  <2> SUFFICES ASSUME NEW d \in Client
               PROVE  /\ cst'[d] \in {"idle", "rrq"} => got'[d] = 0
                      /\ tid'[d] <= ports
                      /\ cst'[d] \in {"recv", "done"} => tid'[d] # 0
                      /\ cst'[d] = "recv" => got'[d] < total_block
                      /\ bytes'[d] = IF got'[d] < total_block
                                     THEN got'[d] * TFTP_DATA_LEN_MAX ELSE TotBytes
    BY DEF ClientInv
  <2>1. CASE d # c
    BY <2>1, <1>4 DEF ClientInv
  <2>2. CASE d = c
    <3>1. /\ tid'[d] = m.from /\ got'[d] = m.block /\ bytes'[d] = bytes[c] + m.len
          /\ cst'[d] = IF m.len < TFTP_DATA_LEN_MAX THEN "done" ELSE "recv"
      BY <2>2, <1>1, <1>4
    <3>2. m.block # total_block => m.block < total_block
      BY <1>2, LastLength
    <3>3. m.block = total_block => ~(m.block < total_block)
      BY LastLength
    <3>4. m.block # total_block => ~(m.len < TFTP_DATA_LEN_MAX)
      BY <1>5, RrqAssumption
    <3>5. QED
      BY <3>1, <3>2, <3>3, <3>4, <1>1, <1>2, <1>5
  <2>3. QED
    BY <2>1, <2>2
<1>10. PacketInv'
  <2> SUFFICES ASSUME NEW p \in toServer', p.op = "ACK"
               PROVE  /\ cst'[p.from] \notin {"idle", "rrq"}
                      /\ p.to = tid'[p.from] /\ p.block <= got'[p.from]
    BY DEF PacketInv
  <2>1. CASE p = Ack(c, m.from, m.block)
    BY <2>1, <1>1, <1>3, <1>4 DEF Ack
  <2>2. CASE p \in toServer
    <3>1. /\ cst[p.from] \notin {"idle", "rrq"} /\ p.to = tid[p.from]
          /\ p.block <= got[p.from] /\ p.from \in Client /\ p.block \in Nat
      BY <2>2 DEF PacketInv, Packet
    <3>2. CASE p.from = c
      <4>1. cst[c] = "recv" /\ m.from = tid[c]
        BY <3>1, <3>2 DEF TakeBlock
      <4>2. QED
        BY <3>1, <3>2, <4>1, <1>1, <1>2, <1>3, <1>4
    <3>3. CASE p.from # c
      BY <3>1, <3>3, <1>4
    <3>4. QED
      BY <3>2, <3>3
  <2>3. QED
    BY <2>1, <2>2, <1>4
<1>11. InStep'
  <2> SUFFICES ASSUME NEW r \in DOMAIN session
               PROVE  IF tid'[session[r].remote] = r
                      THEN session[r].block \in {got'[session[r].remote],
                                                 got'[session[r].remote] + 1}
                      ELSE session[r].block = 1
    BY DEF InStep
  <2>1. /\ session[r].remote \in Client /\ session[r].block \in Nat /\ session[r].block >= 1
        /\ IF tid[session[r].remote] = r
           THEN session[r].block \in {got[session[r].remote], got[session[r].remote] + 1}
           ELSE session[r].block = 1
    BY LastLength DEF InStep, SessionInv, Session
  <2>2. CASE session[r].remote # c
    BY <2>1, <2>2, <1>4
  <2>3. CASE session[r].remote = c
    <3>1. tid'[c] = m.from /\ got'[c] = got[c] + 1
      BY <1>1, <1>2, <1>4
    <3>2. CASE cst[c] = "rrq"
      <4>1. got[c] = 0
        BY <3>2, <1>1 DEF ClientInv
      <4>2. session[r].block = 1
        BY <2>1, <2>3, <4>1
      <4>3. QED
        BY <2>3, <3>1, <4>1, <4>2
    <3>3. CASE cst[c] = "recv" /\ m.from = tid[c]
      <4>1. CASE r = m.from
        <5>1. session[r].block \in {got[c], got[c] + 1} /\ got[c] + 1 <= session[r].block
          BY <2>1, <2>3, <3>3, <4>1, <1>2
        <5>2. session[r].block = got[c] + 1
          BY <5>1, <1>3
        <5>3. QED
          BY <2>3, <3>1, <4>1, <5>2
      <4>2. CASE r # m.from
        BY <2>1, <2>3, <3>1, <3>3, <4>2
      <4>3. QED
        BY <4>1, <4>2
    <3>4. QED
      BY <3>2, <3>3 DEF TakeBlock
  <2>4. QED
    BY <2>2, <2>3
<1>12. DoneMeansAllBytes'
  <2> SUFFICES ASSUME NEW d \in Client, cst'[d] = "done" PROVE bytes'[d] = TotBytes
    BY DEF DoneMeansAllBytes
  <2>1. CASE d = c
    <3>1. m.len < TFTP_DATA_LEN_MAX
      BY <2>1, <1>1, <1>4
    <3>2. m.block = total_block
      BY <3>1, <1>5, RrqAssumption
    <3>3. QED
      BY <2>1, <3>2, <1>1, <1>4, <1>5
  <2>2. CASE d # c
    BY <2>2, <1>4 DEF DoneMeansAllBytes
  <2>3. QED
    BY <2>1, <2>2
<1>13. QED
  BY <1>7, <1>8, <1>9, <1>10, <1>11, <1>12

(* An ERROR to the server, or an acknowledgement again. *)
LEMMA SendInv ==
  ASSUME IInv, NEW c \in Client, NEW p \in Packet,
         p.op = "ACK" => cst[c] = "recv" /\ p = Ack(c, tid[c], p.block) /\ p.block <= got[c],
         toServer' \in {toServer, toServer \cup {p}},
         toClient' \subseteq toClient,
         UNCHANGED <<serverVars, requests, clientVars>>
  PROVE  IInv'
<1> USE DEF IInv, TypeOK, serverVars, clientVars
<1>1. TypeOK'
  OBVIOUS
<1>2. AnswerInv' /\ ClientInv' /\ SessionInv' /\ InStep' /\ DoneMeansAllBytes'
  BY DEF AnswerInv, ClientInv, SessionInv, InStep, DoneMeansAllBytes
<1>3. PacketInv'
  <2> SUFFICES ASSUME NEW q \in toServer', q.op = "ACK"
               PROVE  /\ cst[q.from] \notin {"idle", "rrq"}
                      /\ q.to = tid[q.from] /\ q.block <= got[q.from]
    BY DEF PacketInv
  <2>1. CASE q = p
    <3>1. cst[c] = "recv" /\ q.from = c /\ q.to = tid[c] /\ q.block <= got[c]
      BY <2>1 DEF Ack
    <3>2. QED
      BY <3>1
  <2>2. CASE q \in toServer
    BY <2>2 DEF PacketInv
  <2>3. QED
    BY <2>1, <2>2
<1>4. QED
  BY <1>1, <1>2, <1>3

LEMMA ReceiveInv ==
  ASSUME IInv, NEW m \in toClient, ClientReceive(m)
  PROVE  IInv'
<1>1. /\ toClient' \subseteq toClient /\ UNCHANGED <<serverVars, requests>>
      /\ m.to \in Client /\ m.from \in Port /\ m \in Answer
  BY DeliverSubset DEF ClientReceive, IInv, TypeOK, Answer
<1>2. CASE TakeBlock(m.to, m)
  BY <1>1, <1>2, TakeInv
<1>3. CASE OldBlock(m.to, m)
  <2>1. m.block \in Nat /\ 0 \in Lengths
    BY <1>1, RrqAssumption DEF Answer, Lengths
  <2>2. Ack(m.to, m.from, m.block) \in Packet
    BY <1>1, <2>1, PacketTypes
  <2>3. /\ cst[m.to] = "recv" /\ m.from = tid[m.to] /\ m.block <= got[m.to]
        /\ toServer' \in {toServer, toServer \cup {Ack(m.to, m.from, m.block)}}
        /\ UNCHANGED clientVars
    BY <1>3 DEF OldBlock
  <2>4. Ack(m.to, m.from, m.block).block = m.block
    BY DEF Ack
  <2> DEFINE p == Ack(m.to, m.from, m.block)
  <2>5. p = Ack(m.to, tid[m.to], p.block) /\ p.block <= got[m.to] /\ p \in Packet
    BY <2>2, <2>3, <2>4
  <2> HIDE DEF p
  <2>6. toServer' \in {toServer, toServer \cup {p}}
    BY <2>3 DEF p
  <2>7. QED
    BY <1>1, <2>3, <2>5, <2>6, SendInv
<1>4. CASE Reject(m.to, m)
  <2>1. UnknownTid(m.to, m.from) \in Packet
    BY <1>1, PacketTypes, RrqAssumption DEF Lengths
  <2>2. UnknownTid(m.to, m.from).op = "ERROR"
    BY DEF UnknownTid
  <2>3. toServer' = toServer \cup {UnknownTid(m.to, m.from)} /\ UNCHANGED clientVars
    BY <1>4 DEF Reject
  <2>4. QED
    BY <1>1, <2>1, <2>2, <2>3, SendInv
<1>5. CASE GiveUp(m.to, m) \/ Ignore(m.to, m)
  <2>1. CASE GiveUp(m.to, m)
    <3>1. /\ cst' = [cst EXCEPT ![m.to] = "failed"]
          /\ UNCHANGED <<tid, got, bytes, toServer>>
      BY <2>1 DEF GiveUp
    <3>2. TypeOK' /\ AnswerInv' /\ SessionInv' /\ InStep'
      BY <1>1, <3>1 DEF IInv, TypeOK, serverVars, AnswerInv, SessionInv, InStep
    <3>3. ClientInv' /\ PacketInv' /\ DoneMeansAllBytes'
      BY <1>1, <3>1 DEF IInv, TypeOK, serverVars, ClientInv, PacketInv, DoneMeansAllBytes, Packet
    <3>4. QED
      BY <3>2, <3>3 DEF IInv
  <2>2. CASE Ignore(m.to, m)
    BY <1>1, <2>2 DEF Ignore, IInv, TypeOK, AnswerInv, ClientInv, PacketInv, SessionInv,
                      InStep, DoneMeansAllBytes, serverVars, clientVars
  <2>3. QED
    BY <1>5, <2>1, <2>2
<1>6. QED
  BY <1>2, <1>3, <1>4, <1>5 DEF ClientReceive

LEMMA ClientStepInv ==
  ASSUME IInv, NEW c \in Client,
         \/ ClientRequest(c) \/ ClientRetryRequest(c) \/ ClientAckAgain(c) \/ ClientGone(c)
  PROVE  IInv'
<1>1. CASE ClientAckAgain(c)
  <2> DEFINE p == Ack(c, tid[c], got[c])
  <2>1. /\ cst[c] = "recv" /\ toServer' = toServer \cup {p}
        /\ UNCHANGED <<serverVars, requests, toClient, clientVars>>
    BY <1>1 DEF ClientAckAgain
  <2>2. tid[c] \in Port /\ got[c] \in Nat /\ 0 \in Lengths
    BY <2>1, LastLength, RrqAssumption DEF IInv, TypeOK, ClientInv, Port, Lengths
  <2>3. p \in Packet /\ p = Ack(c, tid[c], p.block) /\ p.block <= got[c]
    BY <2>2, PacketTypes DEF Ack
  <2> HIDE DEF p
  <2>4. QED
    BY <2>1, <2>3, SendInv
<1>2. CASE ClientRequest(c)
  BY <1>2 DEF ClientRequest, IInv, TypeOK, AnswerInv, ClientInv, PacketInv, SessionInv,
              InStep, DoneMeansAllBytes, serverVars, Packet
<1>3. CASE ClientRetryRequest(c)
  BY <1>3 DEF ClientRetryRequest, IInv, TypeOK, AnswerInv, ClientInv, PacketInv, SessionInv,
              InStep, DoneMeansAllBytes, serverVars, clientVars
<1>4. CASE ClientGone(c)
  BY <1>4 DEF ClientGone, IInv, TypeOK, AnswerInv, ClientInv, PacketInv, SessionInv,
              InStep, DoneMeansAllBytes, serverVars, netVars, Packet
<1>5. QED
  BY <1>1, <1>2, <1>3, <1>4

LEMMA NextInv == IInv /\ [Next]_vars => IInv'
<1> SUFFICES ASSUME IInv, [Next]_vars PROVE IInv'
  OBVIOUS
<1>1. CASE \/ \E c \in requests : process_tftp_request(c)
         \/ \E c \in Client : UnknownRequest(c)
  BY <1>1, RequestInv DEF IInv, TypeOK, Requested
<1>2. CASE \E p \in toServer : rrq_recv_callback(p)
  BY <1>2, CallbackInv
<1>3. CASE \E p \in toServer : udp_input_no_pcb(p)
  <2>1. toServer' \subseteq toServer /\ UNCHANGED <<serverVars, requests, toClient, clientVars>>
    BY <1>3, DeliverSubset DEF udp_input_no_pcb
  <2>2. QED
    BY <2>1 DEF IInv, TypeOK, AnswerInv, ClientInv, PacketInv, SessionInv, InStep,
                DoneMeansAllBytes, serverVars, clientVars
<1>4. CASE \E c \in Client : \/ ClientRequest(c) \/ ClientRetryRequest(c)
                             \/ ClientAckAgain(c) \/ ClientGone(c)
  BY <1>4, ClientStepInv
<1>5. CASE \E m \in toClient : ClientReceive(m)
  BY <1>5, ReceiveInv
<1>6. CASE Lose
  <2>1. /\ requests' \subseteq requests /\ toServer' \subseteq toServer
        /\ toClient' \subseteq toClient /\ UNCHANGED <<serverVars, clientVars>>
    BY <1>6 DEF Lose
  <2>2. QED
    BY <2>1 DEF IInv, TypeOK, AnswerInv, ClientInv, PacketInv, SessionInv, InStep,
                DoneMeansAllBytes, serverVars, clientVars
<1>7. CASE UNCHANGED vars
  BY <1>7 DEF vars, IInv, TypeOK, AnswerInv, ClientInv, PacketInv, SessionInv, InStep,
              DoneMeansAllBytes, serverVars, netVars, clientVars
<1>8. QED
  BY <1>1, <1>2, <1>3, <1>4, <1>5, <1>6, <1>7 DEF Next, Frame, Environment

-----------------------------------------------------------------------------
(* The state of server, network and clients stays within its types: in     *)
(* particular no client takes more bytes than the file has, and no more    *)
(* than its blocks (tftpserver.c:249-267).                                 *)
THEOREM TypeCorrect == Spec => []TypeOK
<1>1. IInv => TypeOK
  BY DEF IInv
<1>2. QED
  BY InitInv, NextInv, <1>1, PTL DEF Spec

(* The server sends each block once the client has all before it, and      *)
(* never gets ahead of it, whatever the network does                       *)
(* (tftpserver.c:309-318).                                                 *)
THEOREM InStepCorrect == Spec => []InStep
<1>1. IInv => InStep
  BY DEF IInv
<1>2. QED
  BY InitInv, NextInv, <1>1, PTL DEF Spec

(* A client that was sent the short block has every byte of the file, for  *)
(* every size of the file (tftpserver.c:257-267).                          *)
THEOREM DoneMeansAllBytesCorrect == Spec => []DoneMeansAllBytes
<1>1. IInv => DoneMeansAllBytes
  BY DEF IInv
<1>2. QED
  BY InitInv, NextInv, <1>1, PTL DEF Spec

(* The step that ends a session. *)
LEMMA EndStep ==
  ASSUME IInv, [Next]_vars, NEW s \in DOMAIN session, s \notin DOMAIN session',
         NEW c \in Client, session[s].remote = c
  PROVE  /\ got[c] >= total_block - 1 /\ session[s].block = total_block
         /\ \E p \in toServer : rrq_recv_callback(p) /\ p.to = s
<1>1. PICK p \in toServer : rrq_recv_callback(p)
  <2>1. CASE \/ \E d \in requests : process_tftp_request(d)
           \/ \E d \in Client : UnknownRequest(d)
    BY <2>1 DEF process_tftp_request, UnknownRequest, NoPcb, NoArgs, OpenSession, tftp_send_next_block, serverVars
  <2>2. CASE \E p \in toServer : udp_input_no_pcb(p)
    BY <2>2 DEF udp_input_no_pcb, serverVars
  <2>3. CASE Environment
    BY <2>3 DEF Environment, ClientRequest, ClientRetryRequest, ClientAckAgain, ClientGone,
                ClientReceive, Lose, serverVars
  <2>4. CASE UNCHANGED vars
    BY <2>4 DEF vars, serverVars
  <2>5. QED
    BY <2>1, <2>2, <2>3, <2>4 DEF Next, Frame
<1>2. p.to = s /\ LastSent(s)
  BY <1>1 DEF rrq_recv_callback, FromPeer, tftp_cleanup_rd, tftp_send_next_block
<1>3. session[s].block = total_block
  <2>1. session[s].block \in 1 .. total_block /\ session[s].data_len = DataLen(session[s].block)
    BY DEF IInv, SessionInv
  <2>2. QED
    BY <1>2, <2>1, Length DEF LastSent
<1>4. IF tid[c] = s THEN session[s].block \in {got[c], got[c] + 1} ELSE session[s].block = 1
  BY DEF IInv, InStep
<1>5. got[c] \in Nat /\ total_block \in Nat
  BY LastLength DEF IInv, TypeOK
<1>6. QED
  BY <1>1, <1>2, <1>3, <1>4, <1>5

(* A session is closed only when every block but the last is with its      *)
(* client and the last has been sent (tftpserver.c:320-330).               *)
THEOREM EndsAfterFileCorrect == Spec => EndsAfterFile
<1> DEFINE A == \A s \in DOMAIN session \ DOMAIN session' :
                   \A c \in Client : session[s].remote = c =>
                      /\ got[c] >= total_block - 1
                      /\ session[s].block = total_block
<1>1. ASSUME IInv, [Next]_vars PROVE A
  BY <1>1, EndStep
<1>2. IInv /\ [Next]_vars => [A]_vars
  BY <1>1
<1>3. EndsAfterFile <=> [][A]_vars
  BY DEF EndsAfterFile
<1>4. QED
  BY InitInv, NextInv, <1>2, <1>3, PTL DEF Spec

-----------------------------------------------------------------------------
(* The transfer.  Every session has an owner. *)

LEMMA OwnerKept ==
  ASSUME OneOwner, UNCHANGED ports,
         \A m \in toClient' : \/ m \in toClient
                              \/ m.from \in DOMAIN session /\ session[m.from].remote = m.to,
         \A s \in DOMAIN session' : /\ s \in DOMAIN session
                                    /\ session'[s].remote = session[s].remote,
         \A c \in Client : \/ tid'[c] = tid[c]
                           \/ \E m \in toClient : m.to = c /\ tid'[c] = m.from
  PROVE  OneOwner'
<1>1. PICK owner \in [1 .. ports -> Client] :
        /\ \A m \in toClient : owner[m.from] = m.to
        /\ \A s \in DOMAIN session : owner[s] = session[s].remote
        /\ \A c \in Client : tid[c] # 0 => owner[tid[c]] = c
  BY DEF OneOwner
<1>2. \A m \in toClient' : owner[m.from] = m.to
  BY <1>1
<1>3. \A s \in DOMAIN session' : owner[s] = session'[s].remote
  BY <1>1
<1>4. \A c \in Client : tid'[c] # 0 => owner[tid'[c]] = c
  BY <1>1
<1>5. QED
  BY <1>1, <1>2, <1>3, <1>4 DEF OneOwner

(* A new port is the client's that it is opened for. *)
LEMMA OwnerAdded ==
  ASSUME OneOwner, IInv, NEW c \in Client, ports' = ports + 1, UNCHANGED tid,
         \A m \in toClient' : m \in toClient \/ (m.from = ports + 1 /\ m.to = c),
         \A s \in DOMAIN session' :
            \/ s \in DOMAIN session /\ session'[s].remote = session[s].remote
            \/ s = ports + 1 /\ session'[s].remote = c
  PROVE  OneOwner'
<1>1. PICK owner \in [1 .. ports -> Client] :
        /\ \A m \in toClient : owner[m.from] = m.to
        /\ \A s \in DOMAIN session : owner[s] = session[s].remote
        /\ \A d \in Client : tid[d] # 0 => owner[tid[d]] = d
  BY DEF OneOwner
<1> DEFINE w == [s \in 1 .. ports + 1 |-> IF s = ports + 1 THEN c ELSE owner[s]]
<1>2. ports \in Nat /\ DOMAIN session \subseteq 1 .. ports
  BY RrqAssumption DEF IInv, TypeOK
<1>3. w \in [1 .. ports' -> Client]
  BY <1>1, <1>2
<1>4. \A s \in 1 .. ports : w[s] = owner[s] /\ s # ports + 1
  BY <1>2
<1>5. w[ports + 1] = c
  BY <1>2
<1> HIDE DEF w
<1>6. \A m \in toClient : m.from \in 1 .. ports
  BY <1>2 DEF IInv, TypeOK, AnswerInv, Answer, Port
<1>7. \A m \in toClient' : w[m.from] = m.to
  BY <1>1, <1>4, <1>5, <1>6
<1>8. \A s \in DOMAIN session' : w[s] = session'[s].remote
  BY <1>1, <1>2, <1>4, <1>5
<1>9. \A d \in Client : tid'[d] # 0 => w[tid'[d]] = d
  <2>1. \A d \in Client : tid[d] # 0 => tid[d] \in 1 .. ports
    BY <1>2 DEF IInv, TypeOK, ClientInv
  <2>2. QED
    BY <1>1, <1>4, <2>1
<1>10. QED
  BY <1>3, <1>7, <1>8, <1>9 DEF OneOwner

LEMMA OwnerUnique ==
  ASSUME OneOwner
  PROVE  /\ \A m \in toClient : m.from \in DOMAIN session => session[m.from].remote = m.to
         /\ \A c \in Client : tid[c] # 0 /\ tid[c] \in DOMAIN session
                              => session[tid[c]].remote = c
         /\ \A c, d \in Client : tid[c] # 0 /\ tid[c] = tid[d] => c = d
BY DEF OneOwner

(* What a step does to the sessions: a packet's or a new one. *)
LEMMA CallbackStep ==
  ASSUME IInv, NEW p \in toServer, rrq_recv_callback(p)
  PROVE  /\ p.from \in Client /\ p.to \in DOMAIN session /\ session[p.to].remote = p.from
         /\ toServer' \subseteq toServer /\ UNCHANGED <<ports, cst, tid, got>>
         /\ \/ /\ session' = [r \in DOMAIN session \ {p.to} |-> session[r]]
               /\ UNCHANGED toClient /\ session[p.to].block = total_block
            \/ /\ DOMAIN session' = DOMAIN session
               /\ \A r \in DOMAIN session : r # p.to => session'[r] = session[r]
               /\ session'[p.to].remote = p.from
               /\ session'[p.to].block = IF tftp_is_correct_ack(p)
                                         THEN session[p.to].block + 1 ELSE session[p.to].block
               /\ \A m \in toClient' : m \in toClient \/ (m.from = p.to /\ m.to = p.from)
<1> DEFINE s == p.to
           n == IF tftp_is_correct_ack(p) THEN session[s].block + 1 ELSE session[s].block
<1>1. /\ s \in DOMAIN session /\ session[s].remote = p.from /\ session[s] \in Session
      /\ toServer' \subseteq toServer /\ p.from \in Client
      /\ UNCHANGED <<ports, cst, tid, got>>
  BY DeliverSubset DEF rrq_recv_callback, FromPeer, IInv, TypeOK, clientVars, Packet
<1>2. CASE LastSent(s)
  <2>1. session[s].block \in 1 .. total_block /\ session[s].data_len = DataLen(session[s].block)
    BY <1>1 DEF IInv, SessionInv
  <2>2. session[s].block = total_block
    BY <1>2, <2>1, Length DEF LastSent
  <2>3. QED
    BY <1>1, <1>2, <2>2 DEF rrq_recv_callback, tftp_cleanup_rd
<1>3. CASE ~LastSent(s)
  <2>1. tftp_send_next_block(s, p.from, n, session[s].data_len)
    BY <1>3 DEF rrq_recv_callback
  <2> HIDE DEF n
  <2>2. PICK len : session' = [r \in DOMAIN session \cup {s} |->
                  IF r = s THEN [remote |-> p.from, block |-> n, data_len |-> len]
                  ELSE session[r]]
    BY <2>1 DEF tftp_send_next_block
  <2>3. \A m \in toClient' : m \in toClient \/ (m.from = s /\ m.to = p.from)
    BY <2>1 DEF tftp_send_next_block, Data
  <2>4. /\ DOMAIN session' = DOMAIN session
        /\ \A r \in DOMAIN session : r # s => session'[r] = session[r]
        /\ session'[s].remote = p.from /\ session'[s].block = n
    BY <1>1, <2>2
  <2>5. QED
    BY <1>1, <2>3, <2>4 DEF n
<1>4. QED
  BY <1>2, <1>3

LEMMA RequestStep ==
  ASSUME IInv, NEW c \in Client, Requested(c)
  PROVE  /\ UNCHANGED <<toServer, cst, tid, got>>
         /\ \/ UNCHANGED <<ports, session, toClient>>
            \/ /\ ports' = ports + 1 /\ UNCHANGED session
               /\ toClient' = toClient \cup {Error(ports + 1, c)}
            \/ /\ ports' = ports + 1 /\ DOMAIN session' = DOMAIN session \cup {ports + 1}
               /\ \A s \in DOMAIN session : session'[s] = session[s]
               /\ session'[ports + 1].remote = c
               /\ \A m \in toClient' : m \in toClient \/ (m.from = ports + 1 /\ m.to = c)
<1>1. UNCHANGED <<toServer, cst, tid, got>>
  BY DEF Requested, process_tftp_request, UnknownRequest, clientVars
<1>2. CASE NoPcb(c)
  BY <1>1, <1>2 DEF NoPcb, serverVars
<1>3. CASE NoArgs(c)
  BY <1>1, <1>3 DEF NoArgs, udp_new_port
<1>4. CASE OpenSession(c)
  <2>1. ports + 1 \notin DOMAIN session
    BY RrqAssumption DEF IInv, TypeOK
  <2>2. ports' = ports + 1 /\ tftp_send_next_block(ports + 1, c, 1, 0)
    BY <1>4 DEF OpenSession, udp_new_port
  <2>3. PICK len : session' = [r \in DOMAIN session \cup {ports + 1} |->
                  IF r = ports + 1 THEN [remote |-> c, block |-> 1, data_len |-> len]
                  ELSE session[r]]
    BY <2>2 DEF tftp_send_next_block
  <2>4. \A m \in toClient' : m \in toClient \/ (m.from = ports + 1 /\ m.to = c)
    BY <2>2 DEF tftp_send_next_block, Data
  <2>5. /\ DOMAIN session' = DOMAIN session \cup {ports + 1}
        /\ \A s \in DOMAIN session : session'[s] = session[s]
        /\ session'[ports + 1].remote = c
    BY <2>1, <2>3
  <2>6. QED
    BY <1>1, <2>2, <2>4, <2>5
<1>5. CASE UnknownRequest(c)
  BY <1>1, <1>5 DEF UnknownRequest, udp_new_port
<1>6. QED
  BY <1>2, <1>3, <1>4, <1>5 DEF Requested, process_tftp_request

(* A step that neither opens, moves nor ends a session and in which no     *)
(* client takes a block.                                                   *)
Quiet ==
  /\ UNCHANGED <<ports, session, tid, got>>
  /\ toClient' \subseteq toClient
  /\ \A c \in Client : \/ cst'[c] = cst[c]
                       \/ cst[c] # "done" /\ cst'[c] = "failed"
                       \/ cst[c] = "idle" /\ cst'[c] = "rrq"
  /\ \A p \in toServer' : p \in toServer \/ cst[p.from] \in {"recv", "done"}

Takes(m) ==
  /\ m \in toClient /\ TakeBlock(m.to, m)
  /\ toClient' \subseteq toClient /\ UNCHANGED serverVars

LEMMA Steps ==
  ASSUME IInv, [Next]_vars
  PROVE  \/ Quiet
         \/ \E m \in toClient : Takes(m)
         \/ \E p \in toServer : rrq_recv_callback(p)
         \/ \E c \in Client : Requested(c)
<1> USE DEF Quiet
<1>1. CASE \E p \in toServer : udp_input_no_pcb(p)
  <2>1. toServer' \subseteq toServer
    BY <1>1, DeliverSubset DEF udp_input_no_pcb
  <2>2. QED
    BY <1>1, <2>1 DEF udp_input_no_pcb, serverVars, clientVars
<1>2. CASE Lose
  BY <1>2 DEF Lose, serverVars, clientVars
<1>3. CASE UNCHANGED vars
  BY <1>3 DEF vars, serverVars, netVars, clientVars
<1>4. ASSUME NEW c \in Client,
             \/ ClientRequest(c) \/ ClientRetryRequest(c) \/ ClientAckAgain(c) \/ ClientGone(c)
      PROVE  Quiet
  <2>1. CASE ClientRequest(c)
    BY <2>1 DEF ClientRequest, serverVars, IInv, TypeOK
  <2>2. CASE ClientRetryRequest(c)
    BY <2>2 DEF ClientRetryRequest, serverVars, clientVars
  <2>3. CASE ClientAckAgain(c)
    BY <2>3 DEF ClientAckAgain, serverVars, clientVars, Ack
  <2>4. CASE ClientGone(c)
    BY <2>4 DEF ClientGone, serverVars, netVars, IInv, TypeOK
  <2>5. QED
    BY <1>4, <2>1, <2>2, <2>3, <2>4
<1>5. ASSUME NEW m \in toClient, ClientReceive(m)
      PROVE  Quiet \/ Takes(m)
  <2>1. toClient' \subseteq toClient /\ UNCHANGED serverVars /\ m.to \in Client
    BY <1>5, DeliverSubset DEF ClientReceive, IInv, TypeOK, Answer
  <2>2. CASE TakeBlock(m.to, m)
    BY <2>1, <2>2 DEF Takes
  <2>3. CASE OldBlock(m.to, m)
    BY <2>1, <2>3 DEF OldBlock, Ack, serverVars, clientVars
  <2>4. CASE Reject(m.to, m)
    BY <2>1, <2>4 DEF Reject, UnknownTid, serverVars, clientVars
  <2>5. CASE GiveUp(m.to, m)
    BY <2>1, <2>5 DEF GiveUp, serverVars, IInv, TypeOK
  <2>6. CASE Ignore(m.to, m)
    BY <2>1, <2>6 DEF Ignore, serverVars, clientVars
  <2>7. QED
    BY <1>5, <2>2, <2>3, <2>4, <2>5, <2>6 DEF ClientReceive
<1>6. requests \subseteq Client
  BY DEF IInv, TypeOK
<1>7. QED
  BY <1>1, <1>2, <1>3, <1>4, <1>5, <1>6 DEF Next, Frame, Environment, Requested

LEMMA TransferInit == Init => TransferInv
<1> SUFFICES ASSUME Init PROVE TransferInv
  OBVIOUS
<1>1. OneOwner
  <2>1. 1 .. ports = {}
    BY DEF Init
  <2>2. [s \in {} |-> s] \in [{} -> Client]
    OBVIOUS
  <2>3. /\ \A m \in toClient : [s \in {} |-> s][m.from] = m.to
        /\ \A r \in DOMAIN session : [s \in {} |-> s][r] = session[r].remote
        /\ \A c \in Client : tid[c] # 0 => [s \in {} |-> s][tid[c]] = c
    BY DEF Init
  <2>4. QED
    BY <2>1, <2>2, <2>3 DEF OneOwner
<1>2. OpenWhenNew /\ GoneAtEnd
  BY DEF Init, OpenWhenNew, GoneAtEnd
<1>3. QED
  BY <1>1, <1>2, InitInv DEF TransferInv

LEMMA OwnerStep ==
  ASSUME IInv, OneOwner, [Next]_vars
  PROVE  OneOwner'
<1>1. CASE Quiet
  BY <1>1, OwnerKept DEF Quiet
<1>2. ASSUME NEW m \in toClient, Takes(m)
      PROVE  OneOwner'
  <2>1. /\ toClient' \subseteq toClient /\ UNCHANGED <<ports, session>>
        /\ tid' = [tid EXCEPT ![m.to] = m.from]
    BY <1>2 DEF Takes, TakeBlock, serverVars
  <2>2. \A c \in Client : tid'[c] = tid[c] \/ (m.to = c /\ tid'[c] = m.from)
    BY <2>1 DEF IInv, TypeOK
  <2>3. QED
    BY <2>1, <2>2, OwnerKept
<1>3. ASSUME NEW p \in toServer, rrq_recv_callback(p)
      PROVE  OneOwner'
  <2>1. /\ UNCHANGED <<ports, tid>>
        /\ \A s \in DOMAIN session' : s \in DOMAIN session /\ session'[s].remote = session[s].remote
        /\ \A m \in toClient' : \/ m \in toClient
                                \/ m.from \in DOMAIN session /\ session[m.from].remote = m.to
    BY <1>3, CallbackStep
  <2>2. QED
    BY <2>1, OwnerKept
<1>4. ASSUME NEW c \in Client, Requested(c)
      PROVE  OneOwner'
  <2>1. CASE UNCHANGED <<ports, session, toClient>>
    BY <1>4, <2>1, RequestStep, OwnerKept
  <2>2. CASE ports' = ports + 1
    <3>1. /\ UNCHANGED tid
          /\ \A m \in toClient' : m \in toClient \/ (m.from = ports + 1 /\ m.to = c)
          /\ \A s \in DOMAIN session' :
                \/ s \in DOMAIN session /\ session'[s].remote = session[s].remote
                \/ s = ports + 1 /\ session'[s].remote = c
      BY <1>4, <2>2, RequestStep, RrqAssumption DEF Error, IInv, TypeOK
    <3>2. QED
      BY <2>2, <3>1, OwnerAdded
  <2>3. QED
    BY <1>4, <2>1, <2>2, RequestStep
<1>5. QED
  BY <1>1, <1>2, <1>3, <1>4, Steps

LEMMA NewStep ==
  ASSUME IInv, OneOwner, OpenWhenNew, [Next]_vars
  PROVE  OpenWhenNew'
<1> DEFINE New(c) == cst[c] \in {"idle", "rrq"}
<1> USE DEF OpenWhenNew
<1>0. toServer \subseteq Packet /\ toClient \subseteq Answer /\ ports \in Nat
      /\ DOMAIN session \subseteq 1 .. ports /\ cst \in [Client -> {"idle", "rrq", "recv", "done", "failed"}]
      /\ \A m \in toClient : m.to \in Client
      /\ \A p \in toServer : p.from \in Client
  BY RrqAssumption DEF IInv, TypeOK, Packet, Answer
<1>1. CASE Quiet
  <2>1. \A c \in Client : New(c)' => New(c)
    BY <1>1 DEF Quiet
  <2>2. \A c \in Client : New(c)' => tid'[c] = 0
    BY <1>1, <2>1 DEF Quiet
  <2>3. \A p \in toServer' : p.from \in Client /\ ~New(p.from)
    BY <1>1, <1>0, NextInv DEF Quiet, IInv, TypeOK, Packet
  <2>4. \A p \in toServer' : ~New(p.from)'
    BY <2>1, <2>3
  <2>5. \A m \in toClient' : m.op = "DATA" /\ New(m.to)' => m.from \in DOMAIN session'
    BY <1>0, <1>1, <2>1 DEF Quiet
  <2>6. QED
    BY <2>2, <2>4, <2>5
<1>2. ASSUME NEW m \in toClient, Takes(m)
      PROVE  OpenWhenNew'
  <2>1. /\ toClient' \subseteq toClient /\ UNCHANGED session
        /\ toServer' = toServer \cup {Ack(m.to, m.from, m.block)}
        /\ tid' = [tid EXCEPT ![m.to] = m.from]
        /\ cst' = [cst EXCEPT ![m.to] = IF m.len < TFTP_DATA_LEN_MAX THEN "done" ELSE "recv"]
    BY <1>2 DEF Takes, TakeBlock, serverVars
  <2>2. tid \in [Client -> 0 .. MaxRequests]
    BY DEF IInv, TypeOK
  <2>3. \A c \in Client : New(c)' => c # m.to /\ New(c) /\ tid'[c] = tid[c]
    BY <1>0, <2>1, <2>2
  <2>4. \A p \in toServer' : p.from \in Client /\ (p.from = m.to \/ ~New(p.from))
    BY <1>0, <2>1 DEF Ack
  <2>5. QED
    BY <1>0, <2>1, <2>3, <2>4
<1>3. ASSUME NEW p \in toServer, rrq_recv_callback(p)
      PROVE  OpenWhenNew'
  <2>1. /\ p.to \in DOMAIN session /\ session[p.to].remote = p.from
        /\ toServer' \subseteq toServer /\ UNCHANGED <<cst, tid>>
        /\ \A s \in DOMAIN session : s \in DOMAIN session' \/ s = p.to
        /\ \A m \in toClient' : m \in toClient \/ (m.from = p.to /\ m.to = p.from)
    BY <1>3, CallbackStep
  <2>2. ~New(p.from)
    OBVIOUS
  <2>3. ASSUME NEW m \in toClient', m.op = "DATA", New(m.to)
        PROVE  m.from \in DOMAIN session'
    <3>1. m \in toClient /\ m.to # p.from
      BY <2>1, <2>2, <2>3
    <3>2. m.from \in DOMAIN session
      BY <2>3, <3>1
    <3>3. m.from # p.to
      BY <2>1, <3>1, <3>2, OwnerUnique
    <3>4. QED
      BY <2>1, <3>2, <3>3
  <2>4. QED
    BY <2>1, <2>3
<1>4. ASSUME NEW c \in Client, Requested(c)
      PROVE  OpenWhenNew'
  <2>1. /\ UNCHANGED <<toServer, cst, tid>>
        /\ DOMAIN session \subseteq DOMAIN session'
        /\ \A m \in toClient' : \/ m \in toClient
                                \/ m = Error(ports + 1, c)
                                \/ m.from \in DOMAIN session'
    BY <1>4, RequestStep
  <2>2. Error(ports + 1, c).op # "DATA"
    BY DEF Error
  <2>3. QED
    BY <2>1, <2>2
<1>5. QED
  BY <1>1, <1>2, <1>3, <1>4, Steps

LEMMA GoneStep ==
  ASSUME IInv, OneOwner, OpenWhenNew, GoneAtEnd, [Next]_vars
  PROVE  GoneAtEnd'
<1> SUFFICES ASSUME NEW c \in Client, tid'[c] # 0, tid'[c] \notin DOMAIN session'
             PROVE  got'[c] >= total_block - 1
  BY DEF GoneAtEnd
<1>0. /\ tid \in [Client -> 0 .. MaxRequests] /\ got \in [Client -> 0 .. total_block]
      /\ total_block \in Nat
  BY LastLength DEF IInv, TypeOK
<1>1. ASSUME tid'[c] = tid[c], got'[c] >= got[c], got'[c] \in Nat
      PROVE  got'[c] >= total_block - 1
  <2>1. CASE tid[c] \notin DOMAIN session
    BY <1>0, <1>1, <2>1 DEF GoneAtEnd
  <2>2. CASE tid[c] \in DOMAIN session
    <3>1. session[tid[c]].remote = c
      BY <1>1, <2>2, OwnerUnique
    <3>2. got[c] >= total_block - 1
      BY <1>1, <2>2, <3>1, EndStep
    <3>3. QED
      BY <1>0, <1>1, <3>2
  <2>3. QED
    BY <2>1, <2>2
<1>2. ASSUME UNCHANGED <<tid, got>>
      PROVE  got'[c] >= total_block - 1
  BY <1>0, <1>1, <1>2
<1>3. ASSUME NEW m \in toClient, Takes(m)
      PROVE  got'[c] >= total_block - 1
  <2>1. /\ tid' = [tid EXCEPT ![m.to] = m.from] /\ got' = [got EXCEPT ![m.to] = m.block]
        /\ m.block = got[m.to] + 1 /\ m.op = "DATA" /\ UNCHANGED session
        /\ cst[m.to] = "rrq" \/ (cst[m.to] = "recv" /\ m.from = tid[m.to])
    BY <1>3 DEF Takes, TakeBlock, serverVars
  <2>2. CASE cst[m.to] = "rrq" /\ c = m.to
    <3>1. m.from \in DOMAIN session
      BY <2>1, <2>2 DEF OpenWhenNew
    <3>2. QED
      BY <1>0, <2>1, <2>2, <3>1
  <2>3. CASE c # m.to \/ m.from = tid[m.to]
    <3>1. tid'[c] = tid[c] /\ got'[c] >= got[c] /\ got'[c] \in Nat
      BY <1>0, <2>1, <2>3
    <3>2. QED
      BY <1>1, <3>1
  <2>4. QED
    BY <2>1, <2>2, <2>3
<1>4. QED
  BY <1>2, <1>3, Steps, CallbackStep, RequestStep DEF Quiet

LEMMA TransferNext == TransferInv /\ [Next]_vars => TransferInv'
BY NextInv, OwnerStep, NewStep, GoneStep DEF TransferInv

(* A step of the server, the network or a client is a step of the transfer *)
(* or leaves it as it is.                                                  *)
LEMMA TransferStep ==
  ASSUME TransferInv, [Next]_vars
  PROVE  [Transfer!Next]_(Transfer!vars)
<1> USE DEF TransferInv
<1>0. /\ tid \in [Client -> 0 .. MaxRequests] /\ got \in [Client -> 0 .. total_block]
      /\ cst \in [Client -> {"idle", "rrq", "recv", "done", "failed"}]
      /\ ports \in Nat /\ DOMAIN session \subseteq 1 .. ports
      /\ \A c \in Client : tid[c] <= ports
      /\ total_block \in Nat \ {0}
  BY LastLength, RrqAssumption DEF IInv, TypeOK, ClientInv
<1>1. CASE Quiet
  <2>1. UNCHANGED <<session, tid, got>> /\ Done' = Done
    BY <1>1 DEF Quiet, Done
  <2>2. Taken' = Taken /\ Known' = Known
    BY <2>1 DEF Taken, Known
  <2>3. QED
    BY <2>1, <2>2 DEF Transfer!vars
<1>2. ASSUME NEW m \in toClient, Takes(m)
      PROVE  Transfer!Next
  <2> DEFINE c == m.to
  <2>1. /\ tid' = [tid EXCEPT ![c] = m.from] /\ got' = [got EXCEPT ![c] = m.block]
        /\ cst' = [cst EXCEPT ![c] = IF m.len < TFTP_DATA_LEN_MAX THEN "done" ELSE "recv"]
        /\ m.op = "DATA" /\ m.block = got[c] + 1 /\ UNCHANGED session
        /\ cst[c] = "rrq" \/ (cst[c] = "recv" /\ m.from = tid[c])
        /\ c \in Client /\ m.from \in 1 .. ports
    BY <1>0, <1>2 DEF Takes, TakeBlock, serverVars, IInv, TypeOK, Answer, AnswerInv, Port
  <2>2. /\ m.block \in 1 .. total_block /\ m.len = DataLen(m.block)
        /\ m.from \in DOMAIN session => m.block <= session[m.from].block
    BY <2>1 DEF IInv, AnswerInv
  <2>3. \A s \in DOMAIN session : session[s].block \in 1 .. total_block
    BY DEF IInv, SessionInv
  <2>4. (tid[c] = 0 => got[c] = 0) /\ IF m.from \in DOMAIN session
                                    THEN session[m.from].block = got[c] + 1
                                    ELSE got[c] + 1 = total_block
    <3>1. CASE cst[c] = "rrq"
      <4>1. got[c] = 0 /\ tid[c] = 0 /\ m.from \in DOMAIN session
        BY <2>1, <3>1 DEF IInv, ClientInv, OpenWhenNew
      <4>2. session[m.from].remote = c
        BY <4>1, OwnerUnique
      <4>3. session[m.from].block = 1
        BY <2>1, <4>1, <4>2 DEF IInv, InStep
      <4>4. QED
        BY <4>1, <4>3
    <3>2. CASE cst[c] = "recv" /\ m.from = tid[c]
      <4>1. tid[c] # 0 /\ got[c] < total_block
        BY <2>1, <3>2 DEF IInv, ClientInv
      <4>2. CASE m.from \in DOMAIN session
        <5>1. session[m.from].remote = c
          BY <2>1, <3>2, <4>1, <4>2, OwnerUnique
        <5>2. session[m.from].block \in {got[c], got[c] + 1}
          BY <2>1, <3>2, <4>2, <5>1 DEF IInv, InStep
        <5>3. QED
          BY <1>0, <2>1, <2>2, <2>3, <4>1, <4>2, <5>2
      <4>3. CASE m.from \notin DOMAIN session
        <5>1. got[c] >= total_block - 1
          BY <2>1, <3>2, <4>1, <4>3 DEF GoneAtEnd
        <5>2. QED
          BY <1>0, <2>1, <4>1, <4>3, <5>1
      <4>4. QED
        BY <4>2, <4>3
    <3>3. QED
      BY <2>1, <3>1, <3>2
  <2>5. Known[c] = 1 .. got[c] /\ Known'[c] = 1 .. got[c]
    <3>1. tid'[c] = m.from /\ m.from # 0 /\ got[c] \in Nat
      BY <1>0, <2>1
    <3>2. Known'[c] = 1 .. got[c]
      BY <1>0, <2>1, <2>4, <3>1 DEF Known
    <3>3. Known[c] = 1 .. got[c]
      <4>1. CASE tid[c] = 0
        BY <2>1, <2>4, <4>1 DEF Known
      <4>2. CASE tid[c] # 0
        <5>1. m.from = tid[c]
          BY <2>1, <4>2 DEF OpenWhenNew
        <5>2. QED
          BY <1>0, <2>1, <2>4, <3>1, <4>2, <5>1 DEF Known
      <4>3. QED
        BY <4>1, <4>2
    <3>4. QED
      BY <3>2, <3>3
  <2>6. Known' = Known
    <3>1. \A d \in Client : Known'[d] = Known[d]
      <4> SUFFICES ASSUME NEW d \in Client, d # c PROVE Known'[d] = Known[d]
        BY <2>5
      <4>1. tid'[d] = tid[d]
        BY <1>0, <2>1
      <4>2. QED
        BY <2>1, <4>1 DEF Known
    <3>2. QED
      BY <3>1 DEF Known
  <2>7. Taken[c] = 1 .. got[c] /\ Taken' = [Taken EXCEPT ![c] = 1 .. m.block]
    BY <1>0, <2>1 DEF Taken
  <2>8. got[c] = m.block - 1
    BY <1>0, <2>1
  <2>9. Transfer!Take(c)
    BY <2>1, <2>2, <2>5, <2>6, <2>7, <2>8 DEF Transfer!Take
  <2>10. Transfer!Settle(c)
    <3>1. CASE m.block = total_block
      <4>1. m.len < TFTP_DATA_LEN_MAX
        BY <2>2, <3>1, LastLength, RrqAssumption
      <4>2. Done' = Done \cup {c}
        BY <1>0, <2>1, <4>1 DEF Done
      <4>3. Taken'[c] = 1 .. total_block
        BY <2>1, <2>7, <3>1 DEF Taken
      <4>4. QED
        BY <2>1, <4>2, <4>3 DEF Transfer!Settle
    <3>2. CASE m.block # total_block
      <4>1. ~(m.len < TFTP_DATA_LEN_MAX)
        BY <2>2, <3>2, Length
      <4>2. Done' = Done
        BY <1>0, <2>1, <4>1 DEF Done
      <4>3. QED
        BY <4>2 DEF Transfer!Settle
    <3>3. QED
      BY <3>1, <3>2
  <2>11. QED
    BY <2>1, <2>9, <2>10 DEF Transfer!Next
<1>3. ASSUME NEW p \in toServer, rrq_recv_callback(p)
      PROVE  [Transfer!Next]_(Transfer!vars)
  <2> DEFINE s == p.to
             c == p.from
  <2>1. /\ c \in Client /\ s \in DOMAIN session /\ session[s].remote = c
        /\ UNCHANGED <<cst, tid, got>>
        /\ \/ /\ session' = [r \in DOMAIN session \ {s} |-> session[r]]
              /\ session[s].block = total_block
           \/ /\ DOMAIN session' = DOMAIN session
              /\ \A r \in DOMAIN session : r # s => session'[r] = session[r]
              /\ session'[s].block = IF tftp_is_correct_ack(p)
                                     THEN session[s].block + 1 ELSE session[s].block
    BY <1>3, CallbackStep
  <2>2. Taken' = Taken /\ Done' = Done
    BY <2>1 DEF Taken, Done
  <2>3. ASSUME NEW d \in Client, tid[d] # s
        PROVE  Known'[d] = Known[d]
    <3>1. /\ tid'[d] = tid[d]
          /\ tid[d] \in DOMAIN session' <=> tid[d] \in DOMAIN session
          /\ tid[d] \in DOMAIN session => session'[tid[d]] = session[tid[d]]
      BY <2>1, <2>3
    <3>2. QED
      BY <3>1 DEF Known
  <2>4. ASSUME NEW d \in Client, tid[d] = s
        PROVE  d = c
    BY <1>0, <2>1, <2>4, OwnerUnique
  <2>5. CASE tid[c] = s /\ s \in DOMAIN session' /\ tftp_is_correct_ack(p)
    <3>1. p.block = session[s].block /\ p.op = "ACK" /\ session'[s].block = session[s].block + 1
      BY <2>1, <2>5 DEF tftp_is_correct_ack
    <3>2. session[s].block \in 1 .. total_block /\ s # 0
      BY <1>0, <2>1 DEF IInv, SessionInv
    <3>3. session[s].block = got[c]
      <4>1. p.block <= got[c] /\ session[s].block \in {got[c], got[c] + 1} /\ got[c] \in Nat
        BY <1>0, <2>1, <2>5, <3>1 DEF IInv, PacketInv, InStep
      <4>2. QED
        BY <3>1, <4>1
    <3>4. Known'[c] = 1 .. got[c]
      BY <2>1, <2>5, <3>1, <3>2, <3>3 DEF Known
    <3>5. Known' = [Known EXCEPT ![c] = Taken[c]]
      <4>1. Taken[c] = 1 .. got[c]
        BY <2>1 DEF Taken
      <4>2. \A d \in Client : d # c => Known'[d] = Known[d]
        BY <2>3, <2>4
      <4>3. QED
        BY <2>1, <3>4, <4>1, <4>2 DEF Known
    <3>6. QED
      BY <2>1, <2>2, <3>5 DEF Transfer!Next, Transfer!Learn, Transfer!Settle
  <2>6. CASE ~(tid[c] = s /\ s \in DOMAIN session' /\ tftp_is_correct_ack(p))
    <3>1. ASSUME tid[c] = s
          PROVE  Known'[c] = Known[c]
      <4>1. s # 0
        BY <1>0, <2>1
      <4>2. QED
        BY <2>1, <2>6, <3>1, <4>1 DEF Known
    <3>2. \A d \in Client : Known'[d] = Known[d]
      BY <2>1, <2>3, <2>4, <3>1
    <3>3. Known' = Known
      BY <3>2 DEF Known
    <3>4. QED
      BY <2>2, <3>3 DEF Transfer!vars
  <2>7. QED
    BY <2>5, <2>6
<1>4. ASSUME NEW c \in Client, Requested(c)
      PROVE  UNCHANGED Transfer!vars
  <2>1. /\ UNCHANGED <<cst, tid, got>>
        /\ \A s \in DOMAIN session : s \in DOMAIN session' /\ session'[s] = session[s]
        /\ \A s \in DOMAIN session' : s \in DOMAIN session \/ s = ports + 1
    BY <1>4, RequestStep
  <2>2. Taken' = Taken /\ Done' = Done
    BY <2>1 DEF Taken, Done
  <2>3. \A d \in Client : tid[d] # ports + 1
    BY <1>0
  <2>4. \A d \in Client : /\ tid'[d] = tid[d]
                          /\ tid[d] \in DOMAIN session' <=> tid[d] \in DOMAIN session
    BY <2>1, <2>3
  <2>5. Known' = Known
    BY <2>1, <2>4 DEF Known
  <2>6. QED
    BY <2>2, <2>5 DEF Transfer!vars
<1>5. QED
  BY <1>1, <1>2, <1>3, <1>4, Steps

LEMMA TransferStart == Init => Transfer!Init
<1> SUFFICES ASSUME Init PROVE Transfer!Init
  OBVIOUS
<1>1. Known = [c \in Client |-> {}]
  BY DEF Init, Known
<1>2. Taken = [c \in Client |-> {}]
  BY DEF Init, Taken
<1>3. Done = {}
  BY DEF Init, Done
<1>4. QED
  BY <1>1, <1>2, <1>3 DEF Transfer!Init

(* Reading is a transfer block by block: the board sends a block only to a *)
(* client it knows to have all before it, the client takes each once, and  *)
(* takes the file for complete only with its last block, for any number of *)
(* sessions, files of every size, and whatever the network does            *)
(* (tftpserver.c:244-337).                                                 *)
THEOREM ReadsTransfer == Spec => ImplementsTransfer
<1>1. TransferInv /\ [Next]_vars => [Transfer!Next]_(Transfer!vars)
  BY TransferStep
<1>2. QED
  BY TransferInit, TransferNext, TransferStart, <1>1, PTL
     DEF Spec, ImplementsTransfer, Transfer!Spec
=============================================================================
