------------------------- MODULE TcpConsole_proofs --------------------------
(***************************************************************************)
(* Theorems about TcpConsole, for any number of pcbs and connections.      *)
(***************************************************************************)
EXTENDS TcpConsole, FiniteSetTheorems, TLAPS

States == {"CLOSED", "SYN_RCVD", "ESTABLISHED", "CLOSE_WAIT", "LAST_ACK"}
PcbRecord == [state : States, peer : Conn \cup {0}, arg : Conn \cup {NULL},
              queued : 0 .. TCP_SND_QUEUELEN, owed : BOOLEAN]
EsRecord == [state : {"NONE", "ACCEPTED", "CLOSING", "FREED"}, p : {"NULL", "freed"}]

LEMMA Sizes ==
  /\ MEMP_NUM_TCP_PCB \in Nat /\ MEMP_NUM_TCP_PCB >= 2 /\ MaxConns \in Nat
  /\ TCP_SND_QUEUELEN \in Nat \ {0} /\ MaxAtOnce \in Nat \ {0}
  /\ tcppcbnew \in Pcb /\ NULL \notin Pcb /\ NULL \notin Conn /\ 0 \notin Conn
BY TcpAssumption DEF tcppcbnew, Pcb, NULL, Conn

LEMMA Types ==
  TypeOK <=>
    /\ pcb \in [Pcb -> PcbRecord]
    /\ free \in Pcb \cup {NULL} /\ link \in [Pcb -> Pcb \cup {NULL}]
    /\ es \in [Conn -> EsRecord]
    /\ connected \in BOOLEAN
    /\ fault \in {"none", "registered twice", "freed es", "freed pbuf"}
    /\ cl \in [Conn -> {"new", "syn", "open", "closing", "closed", "reset"}]
    /\ most \in 0 .. MaxAtOnce
BY DEF TypeOK, PcbRecord, EsRecord, States

-----------------------------------------------------------------------------
(* What the helpers do to the pcbs and to the pool. *)

LEMMA BlankType == Blank \in PcbRecord /\ Blank.state = "CLOSED" /\ Blank.arg = NULL
BY Sizes DEF Blank, PcbRecord, States

LEMMA ReleasedType ==
  ASSUME NEW a \in Conn \cup {NULL}
  PROVE  Released(a) \in PcbRecord /\ Released(a).state = "CLOSED"
<1>1. Released(a) = [Blank EXCEPT !.arg = a]
  BY DEF Released
<1>2. QED
  BY <1>1, BlankType DEF PcbRecord

(* A pcb that goes back to the pool, in use or not. *)
Frees(p) ==
  /\ memp_free(p)
  /\ pcb' \in [Pcb -> PcbRecord] /\ pcb'[p].state = "CLOSED"
  /\ \A q \in Pcb \ {p} : pcb'[q] = pcb[q]

(* One that stays, or changes between states in use. *)
Stays(p) ==
  /\ UNCHANGED pool
  /\ pcb' \in [Pcb -> PcbRecord]
  /\ pcb'[p].state = "CLOSED" <=> pcb[p].state = "CLOSED"
  /\ \A q \in Pcb \ {p} : pcb'[q] = pcb[q]

LEMMA Aborts ==
  ASSUME TypeOK, NEW p \in Pcb, tcp_abort(p)
  PROVE  Frees(p)
<1>1. pcb \in [Pcb -> PcbRecord]
  BY Types
<1>2. Released(pcb[p].arg) \in PcbRecord /\ Released(pcb[p].arg).state = "CLOSED"
  BY <1>1, ReleasedType DEF PcbRecord
<1>3. QED
  BY <1>1, <1>2 DEF tcp_abort, Frees

LEMMA Closes ==
  ASSUME TypeOK, NEW p \in Active, NEW a \in Conn \cup {NULL},
         CloseReset(p, a) \/ CloseFin(p, a)
  PROVE  \/ Frees(p)
         \/ Stays(p) /\ pcb'[p].state = "LAST_ACK" /\ pcb'[p].arg = a
<1>1. pcb \in [Pcb -> PcbRecord] /\ p \in Pcb /\ pcb[p].state # "CLOSED"
  BY Types DEF Active
<1>2. CASE CloseReset(p, a)
  <2>1. Released(a) \in PcbRecord /\ Released(a).state = "CLOSED"
    BY ReleasedType
  <2>2. QED
    BY <1>1, <1>2, <2>1 DEF CloseReset, Frees
<1>3. CASE CloseFin(p, a)
  BY <1>1, <1>3 DEF CloseFin, Stays, PcbRecord, States
<1>4. QED
  BY <1>2, <1>3

(* tcp_echoserver_connection_close: the es is freed, and the pcb is freed  *)
(* as well or knows it no longer.                                          *)
LEMMA ConnectionCloses ==
  ASSUME TypeOK, NEW p \in Active, tcp_echoserver_connection_close(p)
  PROVE  /\ es' \in [Conn -> EsRecord]
         /\ \A m \in Conn : es'[m].state = IF m = pcb[p].arg THEN "FREED" ELSE es[m].state
         /\ \/ Frees(p)
            \/ Stays(p) /\ pcb'[p].state = "LAST_ACK" /\ pcb'[p].arg = NULL
<1> DEFINE n == pcb[p].arg
<1>1. es \in [Conn -> EsRecord]
  BY Types
<1>2. es' = [es EXCEPT ![n].state = "FREED"] /\ (CloseReset(p, NULL) \/ CloseFin(p, NULL))
  BY DEF tcp_echoserver_connection_close, ArgCleared
<1>3. es' \in [Conn -> EsRecord]
  BY <1>1, <1>2 DEF EsRecord
<1>4. \A m \in Conn : es'[m].state = IF m = n THEN "FREED" ELSE es[m].state
  BY <1>1, <1>2 DEF EsRecord
<1>5. QED
  BY <1>2, <1>3, <1>4, Closes

(* What the pool and the pcbs in use go through in a step. *)
Taken ==
  /\ free \in Pcb \ Active /\ Active' = Active \cup {free}
  /\ free' = link[free] /\ link' = link
  /\ most' = IF Cardinality(Active) = most THEN most + 1 ELSE most
  /\ fault' = "none"
Given(p) ==
  /\ Active' = Active \ {p}
  /\ free' = p /\ link' = [link EXCEPT ![p] = free]
  /\ most' = most /\ fault' = "none"
Kept ==
  /\ Active' = Active
  /\ UNCHANGED <<free, link, most>>
  /\ fault' = "registered twice" => free \in Active

LEMMA FreesActive ==
  ASSUME NEW p \in Pcb, Frees(p)
  PROVE  Active' = Active \ {p} /\ free' = p /\ link' = [link EXCEPT ![p] = free]
BY DEF Frees, Active, memp_free

LEMMA StaysActive ==
  ASSUME NEW p \in Pcb, Stays(p)
  PROVE  Active' = Active /\ UNCHANGED <<free, link>>
BY DEF Stays, Active, pool

-----------------------------------------------------------------------------
(* Types, and the effect of every action on the pool. *)
Effect == Taken \/ Kept \/ \E p \in Active \cup {tcppcbnew} : Given(p)

(* Types of the variables other than pcb, pool and es. *)
Rest == /\ connected' \in BOOLEAN
        /\ fault' \in {"none", "registered twice", "freed es", "freed pbuf"}
        /\ cl' \in [Conn -> {"new", "syn", "open", "closing", "closed", "reset"}]

LEMMA FreesStep ==
  ASSUME TypeOK, NEW p \in Active \cup {tcppcbnew}, Frees(p),
         es' \in [Conn -> EsRecord], Rest, most' = most, fault' = "none"
  PROVE  TypeOK' /\ Effect
<1>1. p \in Pcb
  BY Sizes DEF Active
<1>2. /\ pcb' \in [Pcb -> PcbRecord] /\ free' \in Pcb \cup {NULL}
      /\ link' \in [Pcb -> Pcb \cup {NULL}] /\ most' \in 0 .. MaxAtOnce
  BY <1>1, Types DEF Frees, memp_free
<1>3. TypeOK'
  BY <1>2, Types DEF Rest, TypeOK, PcbRecord, EsRecord, States
<1>4. Given(p)
  BY <1>1, FreesActive DEF Given
<1>5. QED
  BY <1>3, <1>4 DEF Effect

LEMMA StaysStep ==
  ASSUME TypeOK, NEW p \in Pcb, Stays(p), es' \in [Conn -> EsRecord], Rest, most' = most,
         fault' = "registered twice" => free \in Active
  PROVE  TypeOK' /\ Effect
<1>1. /\ pcb' \in [Pcb -> PcbRecord] /\ free' \in Pcb \cup {NULL}
      /\ link' \in [Pcb -> Pcb \cup {NULL}] /\ most' \in 0 .. MaxAtOnce
  BY Types DEF Stays, pool
<1>2. TypeOK'
  BY <1>1, Types DEF Rest, TypeOK, PcbRecord, EsRecord, States
<1>3. Kept
  BY StaysActive DEF Kept
<1>4. QED
  BY <1>2, <1>3 DEF Effect

LEMMA SameStep ==
  ASSUME TypeOK, UNCHANGED <<pcb, pool>>, es' \in [Conn -> EsRecord], Rest, most' = most,
         fault' = "registered twice" => free \in Active
  PROVE  TypeOK' /\ Effect
<1>1. Stays(tcppcbnew) /\ tcppcbnew \in Pcb
  BY Types, Sizes DEF Stays
<1>2. QED
  BY <1>1, StaysStep

LEMMA ListenStep ==
  ASSUME TypeOK, fault = "none", NEW n \in Conn, tcp_listen_input(n)
  PROVE  TypeOK' /\ Effect
<1>1. /\ pcb \in [Pcb -> PcbRecord] /\ es \in [Conn -> EsRecord] /\ free \in Pcb
      /\ link \in [Pcb -> Pcb \cup {NULL}] /\ most \in 0 .. MaxAtOnce
      /\ UNCHANGED <<es, connected>> /\ connected \in BOOLEAN
      /\ Cardinality(Active) < MaxAtOnce
  BY Types DEF tcp_listen_input
<1>2. CASE free \in Active
  <2>1. UNCHANGED <<pcb, pool>> /\ most' = most /\ Rest
    BY <1>1, <1>2, Types DEF tcp_listen_input, Rest
  <2>2. QED
    BY <1>1, <1>2, <2>1, SameStep
<1>3. CASE free \notin Active
  <2> DEFINE r == [Blank EXCEPT !.state = "SYN_RCVD", !.peer = n]
  <2>1. /\ pcb' = [pcb EXCEPT ![free] = r] /\ free' = link[free]
        /\ cl' = [cl EXCEPT ![n] = "syn"] /\ UNCHANGED <<link, fault>>
        /\ most' = IF Cardinality(Active) = most THEN most + 1 ELSE most
    BY <1>3 DEF tcp_listen_input
  <2>2. r \in PcbRecord /\ r.state = "SYN_RCVD"
    BY BlankType DEF PcbRecord, States
  <2> HIDE DEF r
  <2>3. pcb' \in [Pcb -> PcbRecord] /\ free' \in Pcb \cup {NULL} /\ Rest
    BY <1>1, <2>1, <2>2, Types DEF Rest
  <2>4. most' \in 0 .. MaxAtOnce
    BY <1>1, <2>1, Sizes
  <2>5. TypeOK'
    BY <1>1, <2>1, <2>3, <2>4 DEF Rest, TypeOK, PcbRecord, EsRecord, States
  <2>6. Active' = Active \cup {free}
    BY <1>1, <2>1, <2>2 DEF Active
  <2>7. Taken
    BY <1>1, <1>3, <2>1, <2>6 DEF Taken
  <2>8. QED
    BY <2>5, <2>7 DEF Effect
<1>4. QED
  BY <1>2, <1>3

LEMMA AcceptStep ==
  ASSUME TypeOK, fault = "none", NEW p \in Pcb, tcp_echoserver_accept(p)
  PROVE  TypeOK' /\ Effect
<1> DEFINE n == pcb[p].peer
<1>1. /\ p \in Active /\ pcb \in [Pcb -> PcbRecord] /\ es \in [Conn -> EsRecord]
      /\ pcb[p].state = "SYN_RCVD"
  BY Types DEF tcp_echoserver_accept, Active
<1>2. n \in Conn \cup {0}
  BY <1>1 DEF PcbRecord
<1>3. most' = most /\ fault' = "none" /\ Rest
  BY <1>2, Types DEF tcp_echoserver_accept, Rest
<1>4. CASE tcp_abort(p) /\ es' = es
  BY <1>1, <1>3, <1>4, Aborts, FreesStep
<1>5. CASE /\ es' = [es EXCEPT ![n] = [state |-> "ACCEPTED", p |-> "NULL"]]
           /\ pcb' = [pcb EXCEPT ![p].state = "ESTABLISHED", ![p].arg = n]
           /\ UNCHANGED pool
  <2>1. es' \in [Conn -> EsRecord]
    BY <1>1, <1>5 DEF EsRecord
  <2>2. Stays(p)
    BY <1>1, <1>2, <1>5 DEF Stays, PcbRecord, States, NULL
  <2>3. QED
    BY <1>3, <2>1, <2>2, StaysStep
<1>6. QED
  BY <1>4, <1>5 DEF tcp_echoserver_accept

LEMMA ReceiveStep ==
  ASSUME TypeOK, fault = "none", NEW p \in Pcb, ReceiveData(p) \/ ReceiveFin(p)
  PROVE  TypeOK' /\ Effect
<1> DEFINE n == pcb[p].arg
<1>1. /\ p \in Active /\ pcb \in [Pcb -> PcbRecord] /\ es \in [Conn -> EsRecord]
      /\ pcb[p].state = "ESTABLISHED"
  BY Types DEF ReceiveData, ReceiveFin, Active
<1>2. most' = most /\ fault' = "none" /\ Rest
  BY Types DEF ReceiveData, ReceiveFin, Rest
<1>3. CASE ReceiveData(p)
  <2>1. Stays(p) /\ es' = es
    BY <1>1, <1>3 DEF ReceiveData, Stays, PcbRecord, States
  <2>2. QED
    BY <1>1, <1>2, <2>1, StaysStep
<1>4. CASE tcp_echoserver_connection_close(p)
  BY <1>1, <1>2, <1>4, ConnectionCloses, FreesStep, StaysStep
<1>5. CASE /\ es' = [es EXCEPT ![n].state = "CLOSING"]
           /\ pcb' = [pcb EXCEPT ![p].state = "CLOSE_WAIT"]
           /\ UNCHANGED pool
  <2>1. es' \in [Conn -> EsRecord]
    BY <1>1, <1>5 DEF EsRecord
  <2>2. Stays(p)
    BY <1>1, <1>5 DEF Stays, PcbRecord, States
  <2>3. QED
    BY <1>2, <2>1, <2>2, <1>1, StaysStep
<1>6. QED
  BY <1>3, <1>4, <1>5 DEF ReceiveFin

LEMMA SendStep ==
  ASSUME TypeOK, fault = "none", tcp_server_usersent
  PROVE  TypeOK' /\ Effect
<1> DEFINE p == tcppcbnew
           n == pcb[p].arg
<1>1. /\ p \in Pcb /\ pcb \in [Pcb -> PcbRecord] /\ es \in [Conn -> EsRecord]
  BY Types, Sizes
<1>2. most' = most /\ Rest /\ fault' # "registered twice"
  BY Types DEF tcp_server_usersent, Rest
<1>3. CASE tcp_abort(p) /\ UNCHANGED <<es, fault>>
  BY <1>1, <1>2, <1>3, Aborts, FreesStep
<1>4. CASE UNCHANGED <<pcb, pool, es>>
  BY <1>1, <1>2, <1>4, SameStep
<1>5. CASE tcp_echoserver_send(p) /\ UNCHANGED <<pool, fault>>
  <2>1. es' \in [Conn -> EsRecord]
    BY <1>1, <1>5 DEF tcp_echoserver_send, EsRecord
  <2>2. CASE HasRoom(p) /\ \E owed \in {FALSE, pcb[p].owed} :
               pcb' = [pcb EXCEPT ![p].queued = @ + 1, ![p].owed = owed]
    <3>1. PICK owed \in {FALSE, pcb[p].owed} :
            pcb' = [pcb EXCEPT ![p].queued = @ + 1, ![p].owed = owed]
      BY <2>2
    <3>2. /\ pcb[p].queued \in 0 .. TCP_SND_QUEUELEN /\ pcb[p].queued < TCP_SND_QUEUELEN
          /\ owed \in BOOLEAN
      BY <1>1, <2>2, <3>1 DEF HasRoom, PcbRecord
    <3>3. pcb[p].queued + 1 \in 0 .. TCP_SND_QUEUELEN
      BY <3>2, Sizes
    <3> HIDE DEF p
    <3>4. Stays(p)
      BY <1>1, <1>5, <3>1, <3>2, <3>3 DEF Stays, PcbRecord
    <3>5. QED
      BY <1>1, <1>2, <2>1, <3>4, StaysStep
  <2>3. CASE UNCHANGED pcb
    BY <1>2, <1>5, <2>1, <2>3, SameStep
  <2>4. QED
    BY <1>5, <2>2, <2>3 DEF tcp_echoserver_send
<1>6. QED
  BY <1>3, <1>4, <1>5 DEF tcp_server_usersent

LEMMA TimerStep ==
  ASSUME TypeOK, fault = "none", NEW p \in Pcb,
         tcp_echoserver_sent(p) \/ tcp_echoserver_poll(p)
  PROVE  TypeOK' /\ Effect
<1>1. /\ p \in Active /\ pcb \in [Pcb -> PcbRecord] /\ es \in [Conn -> EsRecord]
  BY Types DEF tcp_echoserver_sent, tcp_echoserver_poll
<1>2. most' = most /\ Rest /\ fault' # "registered twice"
  BY Types DEF tcp_echoserver_sent, tcp_echoserver_poll, Rest
<1>3. CASE UNCHANGED <<pcb, pool, es>>
  BY <1>1, <1>2, <1>3, SameStep
<1>4. CASE pcb' = [pcb EXCEPT ![p].queued = 0] /\ UNCHANGED <<pool, es>>
  <2>1. 0 \in 0 .. TCP_SND_QUEUELEN
    BY Sizes
  <2>2. Stays(p)
    BY <1>1, <1>4, <2>1 DEF Stays, PcbRecord
  <2>3. QED
    BY <1>1, <1>2, <1>4, <2>2, StaysStep
<1>5. CASE tcp_echoserver_connection_close(p) /\ UNCHANGED fault
  BY <1>1, <1>2, <1>5, ConnectionCloses, FreesStep, StaysStep
<1>6. QED
  BY <1>3, <1>4, <1>5 DEF tcp_echoserver_sent, tcp_echoserver_poll

LEMMA EndStep ==
  ASSUME TypeOK, fault = "none", NEW p \in Pcb,
         tcp_echoserver_error(p) \/ LastAck(p)
  PROVE  TypeOK' /\ Effect
<1>1. /\ p \in Active /\ pcb \in [Pcb -> PcbRecord] /\ es \in [Conn -> EsRecord]
  BY Types DEF tcp_echoserver_error, LastAck, Active
<1>2. most' = most /\ Rest /\ fault' = "none"
  BY Types DEF tcp_echoserver_error, LastAck, Rest
<1>3. es' \in [Conn -> EsRecord]
  BY <1>1 DEF tcp_echoserver_error, LastAck, EsRecord
<1>4. CASE tcp_abort(p)
  BY <1>1, <1>2, <1>3, <1>4, Aborts, FreesStep
<1>5. CASE UNCHANGED <<pcb, pool>>
  BY <1>2, <1>3, <1>5, SameStep
<1>6. QED
  BY <1>4, <1>5 DEF tcp_echoserver_error, LastAck

LEMMA NextStep == TypeOK /\ Next => TypeOK' /\ Effect
<1> SUFFICES ASSUME TypeOK, Next PROVE TypeOK' /\ Effect
  OBVIOUS
<1>1. fault = "none"
  BY DEF Next
<1>2. ASSUME NEW n \in Conn, ClientClose(n) \/ ClientReset(n)
      PROVE  TypeOK' /\ Effect
  <2>1. UNCHANGED <<pcb, pool, es, fault, most>> /\ Rest
    BY <1>2, Types DEF ClientClose, ClientReset, Rest
  <2>2. QED
    BY <1>1, <2>1, SameStep, Types
<1>3. QED
  BY <1>1, <1>2, SendStep, ListenStep, AcceptStep, ReceiveStep, TimerStep, EndStep
  DEF Next, Segment

LEMMA InitType == Init => TypeOK
<1> SUFFICES ASSUME Init PROVE TypeOK
  OBVIOUS
<1>1. pcb \in [Pcb -> PcbRecord]
  BY BlankType DEF Init
<1>2. free \in Pcb \cup {NULL} /\ link \in [Pcb -> Pcb \cup {NULL}]
  BY Sizes DEF Init, FirstInPool, Pcb
<1>3. es \in [Conn -> EsRecord]
  BY DEF Init, EsRecord
<1>4. connected \in BOOLEAN /\ fault = "none"
  BY DEF Init
<1>5. cl \in [Conn -> {"new", "syn", "open", "closing", "closed", "reset"}]
  BY DEF Init
<1>6. most \in 0 .. MaxAtOnce
  <2>1. most = 0 /\ MaxAtOnce \in Nat
    BY Sizes DEF Init
  <2>2. QED
    BY <2>1
<1>7. QED
  BY <1>1, <1>2, <1>3, <1>4, <1>5, <1>6, Types

LEMMA TypeStep == TypeOK /\ [Next]_vars => TypeOK'
<1>1. ASSUME TypeOK, UNCHANGED vars PROVE TypeOK'
  BY <1>1 DEF vars, pool, TypeOK
<1>2. QED
  BY <1>1, NextStep

(* Pcbs, pool, es structures and clients keep their types, whatever is     *)
(* freed twice.                                                            *)
THEOREM TypeCorrect == Spec => []TypeOK
BY InitType, TypeStep, PTL DEF Spec

-----------------------------------------------------------------------------
(* The pool, although its first pcb is freed again and again: every other  *)
(* pcb is in it once at most and not while it is in use.  Pointers are     *)
(* counted that come from the pool's head and from pcbs not in use; what   *)
(* tcppcbnew points to while it is in use is written before it is read, or *)
(* the model stops.                                                        *)
Idle == Pcb \ Active
InPoolOnce ==
  \A q \in Pcb \ {tcppcbnew} :
     /\ q \in Active => free # q /\ \A r \in Idle : link[r] # q
     /\ free = q => \A r \in Idle : link[r] # q
     /\ \A r, s \in Idle : link[r] = q /\ link[s] = q => r = s

LEMMA InitPool == Init => InPoolOnce
<1> SUFFICES ASSUME Init PROVE InPoolOnce
  OBVIOUS
<1>1. MEMP_NUM_TCP_PCB \in Nat /\ tcppcbnew = 1 /\ free = 1 /\ Pcb = 1 .. MEMP_NUM_TCP_PCB
  BY Sizes DEF Init, FirstInPool, Pcb, tcppcbnew
<1>2. \A p \in Pcb : link[p] = IF p = MEMP_NUM_TCP_PCB THEN NULL ELSE p + 1
  BY DEF Init
<1>3. Active = {}
  BY DEF Active, Init, Blank
<1>4. \A q \in Pcb \ {tcppcbnew} : q # NULL
  BY Sizes
<1>5. QED
  BY <1>1, <1>2, <1>3, <1>4 DEF InPoolOnce, Idle

LEMMA StepPool == TypeOK /\ InPoolOnce /\ Effect => InPoolOnce'
<1> SUFFICES ASSUME TypeOK, InPoolOnce, Effect PROVE InPoolOnce'
  OBVIOUS
<1>1. link \in [Pcb -> Pcb \cup {NULL}] /\ tcppcbnew \in Pcb /\ Active \subseteq Pcb
  BY Types, Sizes DEF Active
<1>2. CASE Kept
  <2>1. Idle' = Idle /\ UNCHANGED <<free, link>> /\ Active' = Active
    BY <1>2 DEF Kept, Idle
  <2>2. QED
    BY <2>1 DEF InPoolOnce, tcppcbnew
<1>3. CASE Taken
  <2>1. /\ free \in Idle /\ Idle' = Idle \ {free} /\ free' = link[free] /\ link' = link
        /\ Active' = Active \cup {free}
    BY <1>3 DEF Taken, Idle
  <2> SUFFICES ASSUME NEW q \in Pcb \ {tcppcbnew}
               PROVE  /\ q \in Active' => free' # q /\ \A r \in Idle' : link'[r] # q
                      /\ free' = q => \A r \in Idle' : link'[r] # q
                      /\ \A r, s \in Idle' : link'[r] = q /\ link'[s] = q => r = s
    BY DEF InPoolOnce, tcppcbnew
  <2>2. /\ q \in Active => free # q /\ \A r \in Idle : link[r] # q
        /\ free = q => \A r \in Idle : link[r] # q
        /\ \A r, s \in Idle : link[r] = q /\ link[s] = q => r = s
    BY DEF InPoolOnce
  <2>3. QED
    BY <2>1, <2>2
<1>4. ASSUME NEW p \in Active \cup {tcppcbnew}, Given(p) PROVE InPoolOnce'
  <2>1. /\ p \in Pcb /\ Active' = Active \ {p} /\ Idle' = Idle \cup {p} /\ free' = p
        /\ link'[p] = free /\ \A r \in Pcb \ {p} : link'[r] = link[r]
    BY <1>1, <1>4 DEF Given, Idle
  <2> SUFFICES ASSUME NEW q \in Pcb \ {tcppcbnew}
               PROVE  /\ q \in Active' => free' # q /\ \A r \in Idle' : link'[r] # q
                      /\ free' = q => \A r \in Idle' : link'[r] # q
                      /\ \A r, s \in Idle' : link'[r] = q /\ link'[s] = q => r = s
    BY DEF InPoolOnce, tcppcbnew
  <2>2. /\ q \in Active => free # q /\ \A r \in Idle : link[r] # q
        /\ free = q => \A r \in Idle : link[r] # q
        /\ \A r, s \in Idle : link[r] = q /\ link[s] = q => r = s
    BY DEF InPoolOnce
  <2>3. \A r \in Idle' : IF r = p THEN link'[r] = free ELSE r \in Idle /\ link'[r] = link[r]
    BY <2>1 DEF Idle
  <2>4. q = p => q \in Active
    BY <1>4, <2>1
  <2>5. q \in Active' => free' # q /\ \A r \in Idle' : link'[r] # q
    BY <2>1, <2>2, <2>3
  <2>6. free' = q => \A r \in Idle' : link'[r] # q
    BY <2>1, <2>2, <2>3, <2>4
  <2>7. \A r, s \in Idle' : link'[r] = q /\ link'[s] = q => r = s
    BY <2>2, <2>3
  <2>8. QED
    BY <2>5, <2>6, <2>7
<1>5. QED
  BY <1>2, <1>3, <1>4 DEF Effect

LEMMA StepPoolVars == TypeOK /\ InPoolOnce /\ [Next]_vars => InPoolOnce'
<1>1. ASSUME TypeOK, InPoolOnce, UNCHANGED vars PROVE InPoolOnce'
  <2>1. Idle' = Idle /\ UNCHANGED <<free, link>> /\ Active' = Active
    BY <1>1 DEF vars, pool, Idle, Active
  <2>2. QED
    BY <1>1, <2>1 DEF InPoolOnce, tcppcbnew
<1>2. QED
  BY <1>1, NextStep, StepPool

(* A pcb that is taken from the pool while it is in use is the one that    *)
(* tcppcbnew points to (tcp_echoserver.c:127, 137).                        *)
THEOREM OnlyTheFirstIsSharedCorrect == Spec => OnlyTheFirstIsShared
<1> DEFINE A == fault' = "registered twice" => free = tcppcbnew
<1>1. TypeOK /\ InPoolOnce /\ [Next]_vars => [A]_vars
  <2> SUFFICES ASSUME TypeOK, InPoolOnce, Next, fault' = "registered twice"
               PROVE  free = tcppcbnew
    OBVIOUS
  <2>1. Effect
    BY NextStep
  <2>2. free \in Active
    BY <2>1 DEF Effect, Taken, Given, Kept
  <2>3. QED
    BY <2>2 DEF InPoolOnce, Active
<1>2. OnlyTheFirstIsShared <=> [][A]_vars
  BY DEF OnlyTheFirstIsShared
<1>3. QED
  BY InitType, TypeStep, InitPool, StepPoolVars, <1>1, <1>2, PTL DEF Spec

(* With one connection at a time the pool begins with tcppcbnew whenever   *)
(* no connection is there.                                                 *)
FirstIsNext ==
  /\ most = 0 => Active = {}
  /\ most <= 1 => /\ Active \subseteq {tcppcbnew}
                  /\ Active = {} => free = tcppcbnew

LEMMA StepFirst == TypeOK /\ FirstIsNext /\ Effect => FirstIsNext'
<1> SUFFICES ASSUME TypeOK, FirstIsNext, Effect PROVE FirstIsNext'
  OBVIOUS
<1>1. most \in Nat
  <2>1. most \in 0 .. MaxAtOnce
    BY Types
  <2>2. QED
    BY <2>1, Sizes
<1>2. CASE Kept
  BY <1>2 DEF Kept, FirstIsNext, tcppcbnew
<1>3. ASSUME NEW p \in Active \cup {tcppcbnew}, Given(p) PROVE FirstIsNext'
  <2>1. Active' = Active \ {p} /\ free' = p /\ most' = most
    BY <1>3 DEF Given
  <2>2. most <= 1 => p = tcppcbnew
    BY DEF FirstIsNext
  <2>3. QED
    BY <2>1, <2>2 DEF FirstIsNext, tcppcbnew
<1>4. CASE Taken
  <2>1. /\ free \notin Active /\ Active' = Active \cup {free}
        /\ most' = IF Cardinality(Active) = most THEN most + 1 ELSE most
    BY <1>4 DEF Taken
  <2>2. CASE most = 0
    <3>1. Active = {} /\ Cardinality({}) = 0 /\ free = tcppcbnew
      BY <2>2, FS_EmptySet DEF FirstIsNext
    <3>2. most' = 1 /\ Active' = {tcppcbnew}
      BY <2>1, <2>2, <3>1
    <3>3. QED
      BY <3>2 DEF FirstIsNext, tcppcbnew
  <2>3. CASE most = 1 /\ Active = {}
    <3>1. free = tcppcbnew /\ Cardinality({}) = 0
      BY <2>3, FS_EmptySet DEF FirstIsNext
    <3>2. most' = 1 /\ Active' = {tcppcbnew}
      BY <2>1, <2>3, <3>1
    <3>3. QED
      BY <3>2 DEF FirstIsNext, tcppcbnew
  <2>4. CASE most = 1 /\ Active # {}
    <3>1. Active = {tcppcbnew}
      BY <2>4 DEF FirstIsNext
    <3>2. Cardinality(Active) = 1
      BY <3>1, FS_Singleton
    <3>3. most' = 2
      BY <2>1, <2>4, <3>2
    <3>4. QED
      BY <3>3 DEF FirstIsNext
  <2>5. CASE most > 1
    <3>1. most' > 1 /\ most' \in Nat
      BY <1>1, <2>1, <2>5
    <3>2. QED
      BY <3>1 DEF FirstIsNext
  <2>6. QED
    BY <1>1, <2>2, <2>3, <2>4, <2>5
<1>5. QED
  BY <1>2, <1>3, <1>4 DEF Effect

(* A console that never met another is the one main writes to, in spite of *)
(* all the aborts of a free pcb (tcp_echoserver.c:127, 137).               *)
THEOREM OnlyOneIsServedCorrect == Spec => []OnlyOneIsServed
<1>1. Init => FirstIsNext
  BY DEF Init, FirstIsNext, Active, Blank, FirstInPool
<1>2. TypeOK /\ FirstIsNext /\ [Next]_vars => FirstIsNext'
  <2>1. ASSUME FirstIsNext, UNCHANGED vars PROVE FirstIsNext'
    BY <2>1 DEF vars, pool, FirstIsNext, Active, tcppcbnew
  <2>2. QED
    BY <2>1, NextStep, StepFirst
<1>3. FirstIsNext => OnlyOneIsServed
  BY DEF FirstIsNext, OnlyOneIsServed
<1>4. QED
  BY InitType, TypeStep, <1>1, <1>2, <1>3, PTL DEF Spec

-----------------------------------------------------------------------------
(* Who uses which es. *)
Held == {"ACCEPTED", "CLOSING"}

(* EsConserved, a pcb at a time. *)
Owned ==
  /\ \A p \in Active : pcb[p].arg # NULL =>
        /\ es[pcb[p].arg].state \in Held /\ pcb[p].peer = pcb[p].arg
        /\ \A q \in Active : pcb[q].arg = pcb[p].arg => q = p
  /\ \A n \in Conn : es[n].state \in Held => \E p \in Active : pcb[p].arg = n

(* A pcb has an es from tcp_echoserver_accept until the board's FIN, and a *)
(* connection that is new to the board has none.                           *)
EsInv ==
  /\ Owned
  /\ \A p \in Active : pcb[p].peer \in Conn
  /\ \A p \in Pcb : pcb[p].state \in {"SYN_RCVD", "LAST_ACK"} => pcb[p].arg = NULL
  /\ \A n \in Conn : cl[n] \in {"new", "syn"} => es[n].state = "NONE"

LEMMA OwnedConserves == TypeOK /\ Owned => EsConserved
<1> SUFFICES ASSUME TypeOK, Owned, NEW n \in Conn
             PROVE  LET users == {p \in Active : pcb[p].arg = n}
                    IN  IF es[n].state \in Held
                        THEN \E p \in users : users = {p} /\ pcb[p].peer = n
                        ELSE users = {}
  BY DEF EsConserved, Held
<1> DEFINE users == {p \in Active : pcb[p].arg = n}
<1>1. n # NULL
  BY Sizes
<1>2. ASSUME es[n].state \in Held PROVE \E p \in users : users = {p} /\ pcb[p].peer = n
  <2>1. PICK p \in Active : pcb[p].arg = n
    BY <1>2 DEF Owned
  <2>2. users = {p} /\ pcb[p].peer = n
    BY <1>1, <2>1 DEF Owned
  <2>3. QED
    BY <2>1, <2>2
<1>3. ASSUME es[n].state \notin Held PROVE users = {}
  BY <1>1, <1>3 DEF Owned
<1>4. QED
  BY <1>2, <1>3

(* No client turns new again. *)
Known == \A n \in Conn : cl'[n] \in {"new", "syn"} => cl[n] \in {"new", "syn"}

(* p loses its es, if it had one, which is freed. *)
Drops(p) ==
  /\ \A q \in Pcb \ {p} : pcb'[q] = pcb[q]
  /\ \/ pcb'[p].state = "CLOSED"
     \/ /\ pcb'[p].state = "LAST_ACK" /\ pcb'[p].arg = NULL
        /\ pcb'[p].peer = pcb[p].peer
  /\ \A n \in Conn : es'[n].state = IF n = pcb[p].arg THEN "FREED" ELSE es[n].state
  /\ p \in Active \/ (pcb[p].arg = NULL /\ pcb'[p].state = "CLOSED")
  /\ Known

LEMMA DropsStep ==
  ASSUME TypeOK, EsInv, NEW p \in Pcb, Drops(p)
  PROVE  EsInv'
<1>1. pcb \in [Pcb -> PcbRecord] /\ NULL \notin Conn
  BY Types, Sizes
<1>2. \A q \in Pcb : pcb[q].arg \in Conn \cup {NULL}
  BY <1>1 DEF PcbRecord
<1>3. \A q \in Active' : q \in Pcb /\ (q # p => q \in Active /\ pcb'[q] = pcb[q])
  BY DEF Drops, Active
<1>4. \A q \in Active : q # p => q \in Active' /\ pcb'[q] = pcb[q]
  BY DEF Drops, Active
<1>5. p \in Active' => pcb'[p].arg = NULL /\ pcb'[p].peer = pcb[p].peer /\ p \in Active
  BY DEF Drops, Active
<1>6. ASSUME NEW q \in Active', pcb'[q].arg # NULL
      PROVE  /\ es'[pcb'[q].arg].state \in Held /\ pcb'[q].peer = pcb'[q].arg
             /\ \A r \in Active' : pcb'[r].arg = pcb'[q].arg => r = q
  <2>1. q # p /\ q \in Active /\ pcb'[q] = pcb[q] /\ q \in Pcb
    BY <1>3, <1>5, <1>6
  <2>2. pcb[q].arg \in Conn /\ es[pcb[q].arg].state \in Held /\ pcb[q].peer = pcb[q].arg
    BY <1>2, <1>6, <2>1 DEF EsInv, Owned
  <2>3. pcb[p].arg # pcb[q].arg
    BY <1>6, <2>1 DEF EsInv, Owned, Drops
  <2>4. es'[pcb[q].arg].state \in Held
    BY <2>2, <2>3 DEF Drops
  <2>5. ASSUME NEW r \in Active', pcb'[r].arg = pcb'[q].arg PROVE r = q
    BY <1>3, <1>5, <1>6, <2>1, <2>5 DEF EsInv, Owned
  <2>6. QED
    BY <2>1, <2>2, <2>4, <2>5
<1>7. ASSUME NEW n \in Conn, es'[n].state \in Held PROVE \E q \in Active' : pcb'[q].arg = n
  <2>1. n # pcb[p].arg /\ es[n].state \in Held
    BY <1>7 DEF Drops, Held
  <2>2. PICK q \in Active : pcb[q].arg = n
    BY <2>1 DEF EsInv, Owned
  <2>3. QED
    BY <1>4, <2>1, <2>2
<1>8. Owned'
  BY <1>6, <1>7 DEF Owned, Held
<1>9. \A q \in Active' : pcb'[q].peer \in Conn
  BY <1>3, <1>5 DEF EsInv
<1>10. \A q \in Pcb : pcb'[q].state \in {"SYN_RCVD", "LAST_ACK"} => pcb'[q].arg = NULL
  BY DEF EsInv, Drops
<1>11. ASSUME NEW n \in Conn, cl'[n] \in {"new", "syn"} PROVE es'[n].state = "NONE"
  <2>1. es[n].state = "NONE"
    BY <1>11 DEF EsInv, Drops, Known
  <2>2. n # pcb[p].arg
    BY <1>1, <2>1 DEF EsInv, Owned, Drops, Held
  <2>3. QED
    BY <2>1, <2>2 DEF Drops
<1>12. QED
  BY <1>8, <1>9, <1>10, <1>11 DEF EsInv

(* Every pcb keeps its es, and every es its user. *)
Uses ==
  /\ Active' = Active
  /\ \A q \in Pcb : pcb'[q].arg = pcb[q].arg /\ pcb'[q].peer = pcb[q].peer
  /\ \A q \in Pcb : pcb'[q].state \in {"SYN_RCVD", "LAST_ACK"} => pcb'[q].state = pcb[q].state
  /\ \A n \in Conn : es'[n].state = es[n].state \/ {es'[n].state, es[n].state} \subseteq Held
  /\ Known

LEMMA UsesStep ==
  ASSUME TypeOK, EsInv, Uses
  PROVE  EsInv'
<1>1. \A q \in Pcb : pcb[q].arg \in Conn \cup {NULL}
  BY Types DEF PcbRecord
<1>2. Active \subseteq Pcb
  BY DEF Active
<1>3. Owned'
  <2>1. ASSUME NEW q \in Active', pcb'[q].arg # NULL
        PROVE  /\ es'[pcb'[q].arg].state \in Held /\ pcb'[q].peer = pcb'[q].arg
               /\ \A r \in Active' : pcb'[r].arg = pcb'[q].arg => r = q
    BY <1>1, <1>2, <2>1 DEF EsInv, Owned, Uses
  <2>2. ASSUME NEW n \in Conn, es'[n].state \in Held PROVE \E q \in Active' : pcb'[q].arg = n
    BY <1>2, <2>2 DEF EsInv, Owned, Uses
  <2>3. QED
    BY <2>1, <2>2 DEF Owned, Held
<1>4. \A q \in Active' : pcb'[q].peer \in Conn
  BY <1>2 DEF EsInv, Uses
<1>5. \A q \in Pcb : pcb'[q].state \in {"SYN_RCVD", "LAST_ACK"} => pcb'[q].arg = NULL
  BY DEF EsInv, Uses
<1>6. \A n \in Conn : cl'[n] \in {"new", "syn"} => es'[n].state = "NONE"
  BY DEF EsInv, Uses, Known, Held
<1>7. QED
  BY <1>3, <1>4, <1>5, <1>6 DEF EsInv

LEMMA ListenEs ==
  ASSUME TypeOK, EsInv, NEW n \in Conn, tcp_listen_input(n)
  PROVE  EsInv'
<1>1. /\ pcb \in [Pcb -> PcbRecord] /\ free \in Pcb /\ cl[n] = "new" /\ es' = es
      /\ cl \in [Conn -> {"new", "syn", "open", "closing", "closed", "reset"}]
      /\ NULL \notin Conn
  BY Types, Sizes DEF tcp_listen_input
<1>2. CASE free \in Active
  <2>1. UNCHANGED <<pcb, cl>>
    BY <1>2 DEF tcp_listen_input
  <2>2. Uses
    BY <1>1, <2>1 DEF Uses, Active, Known
  <2>3. QED
    BY <2>2, UsesStep
<1>3. CASE free \notin Active
  <2> DEFINE r == [Blank EXCEPT !.state = "SYN_RCVD", !.peer = n]
  <2>1. pcb' = [pcb EXCEPT ![free] = r] /\ cl' = [cl EXCEPT ![n] = "syn"]
    BY <1>3 DEF tcp_listen_input
  <2>2. r.state = "SYN_RCVD" /\ r.arg = NULL /\ r.peer = n
    BY BlankType DEF Blank
  <2> HIDE DEF r
  <2>3. pcb'[free] = r /\ \A q \in Pcb : q # free => pcb'[q] = pcb[q]
    BY <1>1, <2>1
  <2>4. Active' = Active \cup {free}
    BY <1>1, <2>2, <2>3 DEF Active
  <2>5. Active \subseteq Pcb /\ \A q \in Active : pcb'[q] = pcb[q]
    BY <1>3, <2>3 DEF Active
  <2>6. Owned'
    <3>1. ASSUME NEW q \in Active', pcb'[q].arg # NULL
          PROVE  /\ es'[pcb'[q].arg].state \in Held /\ pcb'[q].peer = pcb'[q].arg
                 /\ \A s \in Active' : pcb'[s].arg = pcb'[q].arg => s = q
      BY <1>1, <2>2, <2>3, <2>4, <2>5, <3>1 DEF EsInv, Owned
    <3>2. ASSUME NEW m \in Conn, es'[m].state \in Held PROVE \E q \in Active' : pcb'[q].arg = m
      BY <1>1, <2>4, <2>5, <3>2 DEF EsInv, Owned
    <3>3. QED
      BY <3>1, <3>2 DEF Owned, Held
  <2>7. \A q \in Active' : pcb'[q].peer \in Conn
    BY <2>2, <2>3, <2>4, <2>5 DEF EsInv
  <2>8. \A q \in Pcb : pcb'[q].state \in {"SYN_RCVD", "LAST_ACK"} => pcb'[q].arg = NULL
    BY <2>2, <2>3 DEF EsInv
  <2>9. \A m \in Conn : cl'[m] \in {"new", "syn"} => es'[m].state = "NONE"
    BY <1>1, <2>1 DEF EsInv
  <2>10. QED
    BY <2>6, <2>7, <2>8, <2>9 DEF EsInv
<1>4. QED
  BY <1>2, <1>3

LEMMA AbortDrops ==
  ASSUME TypeOK, NEW p \in Pcb, tcp_abort(p), p \in Active \/ pcb[p].arg = NULL, Known,
         \A n \in Conn : es'[n].state = IF n = pcb[p].arg THEN "FREED" ELSE es[n].state
  PROVE  Drops(p)
BY Aborts DEF Frees, Drops

LEMMA CloseDrops ==
  ASSUME TypeOK, EsInv, NEW p \in Active, tcp_echoserver_connection_close(p), Known
  PROVE  Drops(p)
<1>1. p \in Pcb /\ pcb \in [Pcb -> PcbRecord]
  BY Types DEF Active
<1>2. CASE Frees(p)
  BY <1>1, <1>2, ConnectionCloses DEF Frees, Drops
<1>3. CASE Stays(p) /\ pcb'[p].state = "LAST_ACK" /\ pcb'[p].arg = NULL
  <2>1. pcb'[p].peer = pcb[p].peer
    <3>1. ~CloseReset(p, NULL)
      <4>1. SUFFICES ASSUME CloseReset(p, NULL) PROVE pcb'[p].state = "CLOSED"
        BY <1>3
      <4>2. pcb'[p] = Released(NULL)
        BY <1>1, <4>1 DEF CloseReset
      <4>3. QED
        BY <4>2, ReleasedType
    <3>2. pcb' = [pcb EXCEPT ![p].state = "LAST_ACK", ![p].arg = NULL]
      BY <3>1 DEF tcp_echoserver_connection_close, ArgCleared, CloseFin
    <3>3. QED
      BY <1>1, <3>2 DEF PcbRecord
  <2>2. QED
    BY <1>1, <1>3, <2>1, ConnectionCloses DEF Stays, Drops
<1>4. QED
  BY <1>2, <1>3, ConnectionCloses

LEMMA AcceptEs ==
  ASSUME TypeOK, EsInv, NEW p \in Pcb, tcp_echoserver_accept(p)
  PROVE  EsInv'
<1> DEFINE n == pcb[p].peer
<1>1. /\ p \in Active /\ pcb \in [Pcb -> PcbRecord] /\ es \in [Conn -> EsRecord]
      /\ pcb[p].state = "SYN_RCVD" /\ cl[n] = "syn"
      /\ cl \in [Conn -> {"new", "syn", "open", "closing", "closed", "reset"}]
  BY Types DEF tcp_echoserver_accept, Active
<1>2. n \in Conn /\ pcb[p].arg = NULL /\ NULL \notin Conn /\ es[n].state = "NONE"
  BY <1>1, Sizes DEF EsInv
<1>3. cl' = [cl EXCEPT ![n] = "open"]
  BY DEF tcp_echoserver_accept
<1>4. Known
  BY <1>1, <1>2, <1>3 DEF Known
<1>5. CASE tcp_abort(p) /\ es' = es
  <2>1. Drops(p)
    BY <1>1, <1>2, <1>4, <1>5, AbortDrops
  <2>2. QED
    BY <2>1, DropsStep
<1>6. CASE /\ es' = [es EXCEPT ![n] = [state |-> "ACCEPTED", p |-> "NULL"]]
           /\ pcb' = [pcb EXCEPT ![p].state = "ESTABLISHED", ![p].arg = n]
  <2>1. /\ pcb'[p].state = "ESTABLISHED" /\ pcb'[p].arg = n /\ pcb'[p].peer = n
        /\ \A q \in Pcb : q # p => pcb'[q] = pcb[q]
    BY <1>1, <1>6 DEF PcbRecord
  <2>2. /\ es'[n].state = "ACCEPTED" /\ \A m \in Conn : m # n => es'[m] = es[m]
    BY <1>1, <1>2, <1>6
  <2>3. Active' = Active /\ Active \subseteq Pcb
    BY <1>1, <2>1 DEF Active
  <2>4. \A q \in Active : pcb[q].arg # n
    BY <1>2 DEF EsInv, Owned, Held
  <2> HIDE DEF n
  <2>5. ASSUME NEW q \in Active, pcb'[q].arg # NULL
        PROVE  /\ es'[pcb'[q].arg].state \in Held /\ pcb'[q].peer = pcb'[q].arg
               /\ \A r \in Active : pcb'[r].arg = pcb'[q].arg => r = q
    <3>1. CASE q = p
      BY <1>2, <2>1, <2>2, <2>3, <2>4, <3>1 DEF Held
    <3>2. CASE q # p
      <4>1. pcb'[q] = pcb[q] /\ pcb[q].arg \in Conn /\ pcb[q].arg # n
        BY <1>1, <2>1, <2>3, <2>4, <2>5, <3>2 DEF PcbRecord
      <4>2. QED
        BY <2>1, <2>2, <2>3, <2>5, <4>1 DEF EsInv, Owned
    <3>3. QED
      BY <3>1, <3>2
  <2>6. ASSUME NEW m \in Conn, es'[m].state \in Held PROVE \E q \in Active : pcb'[q].arg = m
    <3>1. CASE m = n
      BY <1>1, <2>1, <3>1
    <3>2. CASE m # n
      BY <1>2, <2>1, <2>2, <2>3, <2>6, <3>2, Sizes DEF EsInv, Owned
    <3>3. QED
      BY <3>1, <3>2
  <2>7. Owned'
    BY <2>3, <2>5, <2>6 DEF Owned, Held
  <2>8. \A q \in Active' : pcb'[q].peer \in Conn
    BY <1>2, <2>1, <2>3 DEF EsInv
  <2>9. \A q \in Pcb : pcb'[q].state \in {"SYN_RCVD", "LAST_ACK"} => pcb'[q].arg = NULL
    BY <2>1 DEF EsInv
  <2>10. \A m \in Conn : cl'[m] \in {"new", "syn"} => es'[m].state = "NONE"
    BY <1>1, <1>2, <1>3, <2>2 DEF EsInv
  <2>11. QED
    BY <2>7, <2>8, <2>9, <2>10 DEF EsInv
<1>7. QED
  BY <1>5, <1>6 DEF tcp_echoserver_accept

LEMMA ReceiveEs ==
  ASSUME TypeOK, EsInv, NEW p \in Pcb, ReceiveData(p) \/ ReceiveFin(p)
  PROVE  EsInv'
<1> DEFINE n == pcb[p].arg
<1>1. /\ p \in Active /\ pcb \in [Pcb -> PcbRecord] /\ es \in [Conn -> EsRecord]
      /\ pcb[p].state = "ESTABLISHED" /\ cl' = cl /\ NULL \notin Conn
  BY Types, Sizes DEF ReceiveData, ReceiveFin, Active
<1>2. Known
  BY <1>1 DEF Known
<1>3. CASE ReceiveData(p)
  <2>1. PICK owed \in {pcb[p].owed, TRUE} : pcb' = [pcb EXCEPT ![p].owed = owed]
    BY <1>3 DEF ReceiveData
  <2>2. \A q \in Pcb : /\ pcb'[q].state = pcb[q].state /\ pcb'[q].arg = pcb[q].arg
                       /\ pcb'[q].peer = pcb[q].peer
    BY <1>1, <2>1 DEF PcbRecord
  <2>3. Uses
    BY <1>2, <1>3, <2>2 DEF ReceiveData, Uses, Active
  <2>4. QED
    BY <2>3, UsesStep
<1>4. CASE tcp_echoserver_connection_close(p)
  BY <1>1, <1>2, <1>4, CloseDrops, DropsStep
<1>5. CASE /\ es' = [es EXCEPT ![n].state = "CLOSING"]
           /\ pcb' = [pcb EXCEPT ![p].state = "CLOSE_WAIT"]
  <2>1. /\ pcb'[p].state = "CLOSE_WAIT"
        /\ \A q \in Pcb : /\ q # p => pcb'[q] = pcb[q]
                          /\ pcb'[q].arg = pcb[q].arg /\ pcb'[q].peer = pcb[q].peer
    BY <1>1, <1>5 DEF PcbRecord
  <2>2. Active' = Active
    BY <1>1, <2>1 DEF Active
  <2>3. n \in Conn => es[n].state \in Held
    BY <1>1 DEF EsInv, Owned
  <2>4. \A m \in Conn : /\ m # n => es'[m].state = es[m].state
                        /\ m = n => es'[m].state = "CLOSING"
    BY <1>1, <1>5 DEF EsRecord
  <2>5. \A m \in Conn : es'[m].state = es[m].state \/ {es'[m].state, es[m].state} \subseteq Held
    BY <2>3, <2>4 DEF Held
  <2>6. Uses
    BY <1>2, <2>1, <2>2, <2>5 DEF Uses
  <2>7. QED
    BY <2>6, UsesStep
<1>6. QED
  BY <1>3, <1>4, <1>5 DEF ReceiveFin

LEMMA SendEs ==
  ASSUME TypeOK, EsInv, tcp_server_usersent
  PROVE  EsInv'
<1> DEFINE p == tcppcbnew
           n == pcb[p].arg
<1>1. /\ p \in Pcb /\ pcb \in [Pcb -> PcbRecord] /\ es \in [Conn -> EsRecord]
      /\ NULL \notin Conn
  BY Types, Sizes
<1>2. Known
  BY DEF Known, tcp_server_usersent
<1>3. CASE n = NULL /\ tcp_abort(p) /\ es' = es
  <2>1. Drops(p)
    BY <1>1, <1>2, <1>3, AbortDrops
  <2>2. QED
    BY <1>1, <2>1, DropsStep
<1>4. CASE UNCHANGED <<pcb, es>>
  <2>1. Uses
    BY <1>2, <1>4 DEF Uses, Active
  <2>2. QED
    BY <2>1, UsesStep
<1>5. CASE tcp_echoserver_send(p)
  <2>1. \A m \in Conn : es'[m].state = es[m].state
    BY <1>1, <1>5 DEF tcp_echoserver_send, EsRecord
  <2>2. \A q \in Pcb : /\ pcb'[q].state = pcb[q].state /\ pcb'[q].arg = pcb[q].arg
                       /\ pcb'[q].peer = pcb[q].peer
    <3>1. CASE \E owed \in {FALSE, pcb[p].owed} :
                  pcb' = [pcb EXCEPT ![p].queued = @ + 1, ![p].owed = owed]
      <4>1. PICK owed \in {FALSE, pcb[p].owed} :
              pcb' = [pcb EXCEPT ![p].queued = @ + 1, ![p].owed = owed]
        BY <3>1
      <4> HIDE DEF p
      <4>2. QED
        BY <1>1, <4>1 DEF PcbRecord
    <3>2. QED
      BY <1>5, <3>1 DEF tcp_echoserver_send
  <2>3. Uses
    BY <1>2, <2>1, <2>2 DEF Uses, Active
  <2>4. QED
    BY <2>3, UsesStep
<1>6. QED
  BY <1>3, <1>4, <1>5 DEF tcp_server_usersent

LEMMA TimerEs ==
  ASSUME TypeOK, EsInv, NEW p \in Pcb, tcp_echoserver_sent(p) \/ tcp_echoserver_poll(p)
  PROVE  EsInv'
<1>1. /\ p \in Active /\ pcb \in [Pcb -> PcbRecord]
  BY Types DEF tcp_echoserver_sent, tcp_echoserver_poll
<1>2. Known
  BY DEF Known, tcp_echoserver_sent, tcp_echoserver_poll
<1>3. CASE es' = es /\ (pcb' = pcb \/ pcb' = [pcb EXCEPT ![p].queued = 0])
  <2>1. \A q \in Pcb : /\ pcb'[q].state = pcb[q].state /\ pcb'[q].arg = pcb[q].arg
                       /\ pcb'[q].peer = pcb[q].peer
    BY <1>1, <1>3 DEF PcbRecord
  <2>2. Uses
    BY <1>2, <1>3, <2>1 DEF Uses, Active
  <2>3. QED
    BY <2>2, UsesStep
<1>4. CASE tcp_echoserver_connection_close(p)
  BY <1>1, <1>2, <1>4, CloseDrops, DropsStep
<1>5. QED
  BY <1>3, <1>4 DEF tcp_echoserver_sent, tcp_echoserver_poll

LEMMA EndEs ==
  ASSUME TypeOK, EsInv, NEW p \in Pcb, tcp_echoserver_error(p) \/ LastAck(p)
  PROVE  EsInv'
<1>1. /\ p \in Active /\ pcb \in [Pcb -> PcbRecord] /\ es \in [Conn -> EsRecord]
      /\ NULL \notin Conn
      /\ cl \in [Conn -> {"new", "syn", "open", "closing", "closed", "reset"}]
  BY Types, Sizes DEF tcp_echoserver_error, LastAck, Active
<1>2. Known
  BY <1>1 DEF Known, tcp_echoserver_error, LastAck
<1>3. ASSUME tcp_echoserver_error(p) PROVE EsInv'
  <2>1. \A n \in Conn : es'[n].state = IF n = pcb[p].arg THEN "FREED" ELSE es[n].state
    BY <1>1, <1>3 DEF tcp_echoserver_error, EsRecord
  <2>2. Drops(p)
    BY <1>1, <1>2, <1>3, <2>1, AbortDrops DEF tcp_echoserver_error
  <2>3. QED
    BY <2>2, DropsStep
<1>4. ASSUME LastAck(p) PROVE EsInv'
  <2>1. pcb[p].arg = NULL /\ es' = es
    BY <1>4 DEF LastAck, EsInv
  <2>2. CASE tcp_abort(p)
    <3>1. Drops(p)
      BY <1>1, <1>2, <2>1, <2>2, AbortDrops
    <3>2. QED
      BY <3>1, DropsStep
  <2>3. CASE pcb' = pcb
    <3>1. Uses
      BY <1>2, <2>1, <2>3 DEF Uses, Active
    <3>2. QED
      BY <3>1, UsesStep
  <2>4. QED
    BY <1>4, <2>2, <2>3 DEF LastAck
<1>5. QED
  BY <1>3, <1>4

LEMMA StepEs == TypeOK /\ EsInv /\ [Next]_vars => EsInv'
<1> SUFFICES ASSUME TypeOK, EsInv, [Next]_vars PROVE EsInv'
  OBVIOUS
<1>1. CASE UNCHANGED vars
  BY <1>1, UsesStep DEF vars, Uses, Active, Known
<1>2. ASSUME NEW n \in Conn, ClientClose(n) \/ ClientReset(n) PROVE EsInv'
  <2>1. cl \in [Conn -> {"new", "syn", "open", "closing", "closed", "reset"}]
    BY Types
  <2>2. UNCHANGED <<pcb, es>> /\ Known
    BY <1>2, <2>1 DEF ClientClose, ClientReset, Known
  <2>3. QED
    BY <2>2, UsesStep DEF Uses, Active
<1>3. QED
  BY <1>1, <1>2, SendEs, ListenEs, AcceptEs, ReceiveEs, TimerEs, EndEs DEF Next, Segment

LEMMA InitEs == Init => EsInv
<1> SUFFICES ASSUME Init PROVE EsInv
  OBVIOUS
<1>1. Active = {} /\ \A p \in Pcb : pcb[p].arg = NULL
  BY BlankType DEF Init, Active
<1>2. \A n \in Conn : es[n].state = "NONE"
  BY DEF Init
<1>3. QED
  BY <1>1, <1>2 DEF EsInv, Owned, Held

(* No es is lost and none is freed twice, with any number of connections   *)
(* and pcbs, whatever breaks and however often tcp_server_usersent aborts  *)
(* a pcb that is not in use.                                               *)
THEOREM EsConservedCorrect == Spec => []EsConserved
<1>1. TypeOK /\ EsInv => EsConserved
  BY OwnedConserves DEF EsInv
<1>2. QED
  BY InitType, TypeStep, InitEs, StepEs, <1>1, PTL DEF Spec
=============================================================================
