----------------------------- MODULE TcpConsole -----------------------------
(***************************************************************************)
(* The TCP console of Src/tcp_echoserver.c, port 5678, over the pcbs of    *)
(* lwIP's tcp.c and tcp_in.c.                                              *)
(*                                                                         *)
(* tcp_listen has freed the pcb that tcppcbnew points to, and              *)
(* tcp_server_usersent writes to whatever connection has that memory.  So  *)
(* the pool of pcbs is modelled as memp.c keeps it, a list through the     *)
(* free elements, and freeing an element twice has the effect it has there.*)
(* A connection is known by a number that is also its es structure's; the  *)
(* segments that change no pcb are left out, and a message is one pbuf.    *)
(* The model stops, with fault set, at the first step whose effect the     *)
(* code no longer determines.                                              *)
(***************************************************************************)
EXTENDS Integers, FiniteSets

CONSTANTS
  MEMP_NUM_TCP_PCB,
  TCP_SND_QUEUELEN,  \* messages that may wait for an acknowledgement
  Breaks,            \* TRUE: connections are reset or time out
  Shortage,          \* TRUE: tcp_write may find no memory or a full queue
  MaxAtOnce,         \* bound: connections at the same time
  MaxConns           \* bound: connections opened

ASSUME TcpAssumption ==
  /\ MEMP_NUM_TCP_PCB \in Nat /\ TCP_SND_QUEUELEN \in Nat \ {0}
  /\ Breaks \in BOOLEAN /\ Shortage \in BOOLEAN
  /\ MaxAtOnce \in 1 .. MEMP_NUM_TCP_PCB - 1 /\ MaxConns \in Nat

VARIABLES
  pcb,        \* the memory of the pcbs, in use or free
  free, link, \* the pool: its first element, and the one behind each
  es,         \* connection -> its tcp_echoserver_struct
  connected,  \* bit 5 of tcp_server_flag
  fault,      \* "none" or what the model stopped at
  cl,         \* connection -> the client's view of it
  most        \* history: the most connections there were at once

pool == <<free, link>>
vars == <<pcb, pool, es, connected, fault, cl, most>>

Pcb  == 1 .. MEMP_NUM_TCP_PCB
Conn == 1 .. MaxConns
NULL == 0

(* The pcb tcp_new gave to tcp_echoserver_init, freed by tcp_listen.  The  *)
(* listening pcb is of another pool.                                       *)
tcppcbnew == 1

(* The free element that lies first after tcp_listen, and a pool in which  *)
(* it does not.                                                            *)
SecondInPool == 2
FirstInPool  == tcppcbnew

(* peer is the connection, arg its es or NULL, queued what tcp_write took  *)
(* and the client has not acknowledged; owed says that rcv_wnd is below    *)
(* TCP_WND, for data that was received and never given to tcp_recved.      *)
Blank == [state |-> "CLOSED", peer |-> 0, arg |-> NULL, queued |-> 0, owed |-> FALSE]

Init ==
  /\ pcb = [p \in Pcb |-> Blank]
  /\ free = FirstInPool
  /\ link = [p \in Pcb |-> IF p = MEMP_NUM_TCP_PCB THEN NULL ELSE p + 1]
  /\ es = [n \in Conn |-> [state |-> "NONE", p |-> "NULL"]]
  /\ connected = FALSE
  /\ fault = "none"
  /\ cl = [n \in Conn |-> "new"]
  /\ most = 0

Active == {p \in Pcb : pcb[p].state # "CLOSED"}

-----------------------------------------------------------------------------
(* memp.c, tcp.c and tcp_in.c. *)

memp_free(p) == free' = p /\ link' = [link EXCEPT ![p] = free]

(* Of a pcb that is freed the argument stays, and nothing else that is     *)
(* read again.                                                             *)
Released(a) == [Blank EXCEPT !.arg = a]

(* tcp_abandon and tcp_pcb_remove: also a pcb that is free already goes    *)
(* back to the pool (tcp.c:497-524).                                       *)
tcp_abort(p) ==
  /\ pcb' = [pcb EXCEPT ![p] = Released(pcb[p].arg)]
  /\ memp_free(p)

(* A SYN: the new pcb is cleared and registered as active.  When it is     *)
(* active already the list becomes a circle, and the next walk along it    *)
(* does not end.                                                           *)
tcp_listen_input(n) ==
  /\ cl[n] = "new" /\ \A m \in 1 .. n - 1 : cl[m] # "new"
  /\ Cardinality(Active) < MaxAtOnce
  /\ free # NULL
  /\ IF free \in Active
     THEN fault' = "registered twice" /\ UNCHANGED <<pcb, pool, cl, most>>
     ELSE /\ pcb' = [pcb EXCEPT ![free] = [Blank EXCEPT !.state = "SYN_RCVD", !.peer = n]]
          /\ free' = link[free]
          /\ cl' = [cl EXCEPT ![n] = "syn"]
          /\ most' = IF Cardinality(Active) = most THEN most + 1 ELSE most
          /\ UNCHANGED <<link, fault>>
  /\ UNCHANGED <<es, connected>>

(* tcp_close, 264-327, called in a callback for this pcb or from the timer:*)
(* a reset when data is owed, else a FIN.  a is what tcp_arg left.         *)
CloseReset(p, a) ==
  /\ pcb[p].owed
  /\ pcb' = [pcb EXCEPT ![p] = Released(a)]
  /\ memp_free(p)

CloseFinFrees(p, a) ==
  /\ ~pcb[p].owed
  /\ pcb' = [pcb EXCEPT ![p].state = "LAST_ACK", ![p].arg = a]
  /\ memp_free(p)

CloseFin(p, a) ==
  /\ ~pcb[p].owed
  /\ pcb' = [pcb EXCEPT ![p].state = "LAST_ACK", ![p].arg = a]
  /\ UNCHANGED pool

-----------------------------------------------------------------------------
(* tcp_echoserver_connection_close, lines 398-416. *)

ArgKept(n)    == n
ArgCleared(n) == NULL

tcp_echoserver_connection_close(p) ==
  LET n == pcb[p].arg
      a == ArgCleared(n)
  IN  /\ es' = [es EXCEPT ![n].state = "FREED"]
      /\ CloseReset(p, a) \/ CloseFin(p, a)

(* tcp_echoserver_accept, lines 151-197, when the client has acknowledged  *)
(* the SYN.  Without memory the connection is closed, and for ERR_MEM lwIP *)
(* aborts it (tcp_in.c:861-868).                                           *)
tcp_echoserver_accept(p) ==
  LET n == pcb[p].peer
  IN  /\ pcb[p].state = "SYN_RCVD" /\ cl[n] = "syn"
      /\ \/ /\ es' = [es EXCEPT ![n] = [state |-> "ACCEPTED", p |-> "NULL"]]
            /\ pcb' = [pcb EXCEPT ![p].state = "ESTABLISHED", ![p].arg = n]
            /\ connected' = TRUE
            /\ UNCHANGED pool
         \/ /\ tcp_abort(p)
            /\ UNCHANGED <<es, connected>>
      /\ cl' = [cl EXCEPT ![n] = "open"]
      /\ UNCHANGED <<fault, most>>

(* tcp_echoserver_recv with data, lines 251-267: the pbuf is not freed and *)
(* the window not opened again, but for the byte that the FIN will give    *)
(* back (tcp_in.c:470-474).                                                *)
ReceiveData(p) ==
  /\ pcb[p].state = "ESTABLISHED" /\ cl[pcb[p].peer] = "open"
  /\ \E owed \in {pcb[p].owed, TRUE} : pcb' = [pcb EXCEPT ![p].owed = owed]
  /\ UNCHANGED <<pool, es, connected, fault, cl, most>>

(* The same with the client's FIN, lines 220-239. *)
ReceiveFin(p) ==
  LET n == pcb[p].arg
  IN  /\ pcb[p].state = "ESTABLISHED" /\ cl[pcb[p].peer] = "closing"
      /\ IF es[n].p = "NULL"
         THEN tcp_echoserver_connection_close(p)
         ELSE /\ es' = [es EXCEPT ![n].state = "CLOSING"]
              /\ pcb' = [pcb EXCEPT ![p].state = "CLOSE_WAIT"]
              /\ UNCHANGED pool
      /\ UNCHANGED <<connected, fault, cl, most>>

NotOver(p) == pcb[p].queued <= TCP_SND_QUEUELEN
HasRoom(p) == pcb[p].queued < TCP_SND_QUEUELEN

(* tcp_echoserver_send, lines 370-390, of a message just allocated: it     *)
(* opens the window by its length, whatever was received, as far as        *)
(* TCP_WND.  If the queue is full, or the heap, which the whole program    *)
(* shares, the pbuf stays in es->p.                                        *)
tcp_echoserver_send(p) ==
  LET n == pcb[p].arg
  IN  \/ /\ HasRoom(p)
         /\ \E owed \in {FALSE, pcb[p].owed} :
               pcb' = [pcb EXCEPT ![p].queued = @ + 1, ![p].owed = owed]
         /\ es' = [es EXCEPT ![n].p = "NULL"]
      \/ /\ Shortage
         /\ es' = [es EXCEPT ![n].p = "freed"]
         /\ UNCHANGED pcb

(* tcp_server_usersent, lines 123-141, called by main while bit 5 is set:  *)
(* line 133 frees the pbuf that could not be sent and leaves es->p.        *)
tcp_server_usersent ==
  LET n == pcb[tcppcbnew].arg
  IN  /\ connected
      /\ \/ /\ n = NULL
            /\ tcp_abort(tcppcbnew)
            /\ UNCHANGED <<es, fault>>
         \/ /\ n # NULL /\ es[n].state = "FREED"
            /\ fault' = "freed es"
            /\ UNCHANGED <<pcb, pool, es>>
         \/ /\ n # NULL /\ es[n].state # "FREED"
            /\ tcp_echoserver_send(tcppcbnew)
            /\ UNCHANGED <<pool, fault>>
      /\ UNCHANGED <<connected, cl, most>>

(* The client acknowledges what was sent; tcp_echoserver_sent, lines       *)
(* 354-361, is called while there is an es.                                *)
tcp_echoserver_sent(p) ==
  LET n == pcb[p].arg
  IN  /\ p \in Active /\ pcb[p].queued > 0
      /\ cl[pcb[p].peer] \in {"open", "closing"}
      /\ IF n # NULL /\ es[n].p = "freed"
         THEN fault' = "freed pbuf" /\ UNCHANGED pcb
         ELSE pcb' = [pcb EXCEPT ![p].queued = 0] /\ UNCHANGED fault
      /\ UNCHANGED <<pool, es, connected, cl, most>>

(* tcp_echoserver_poll, lines 314-346, twice a second while there is an    *)
(* es, so that line 342 is never reached.                                  *)
PollIgnores(p) == FALSE
PollCloses(p)  == es[pcb[p].arg].state = "CLOSING"

tcp_echoserver_poll(p) ==
  LET n == pcb[p].arg
  IN  /\ p \in Active /\ n # NULL
      /\ \/ /\ es[n].p = "freed"
            /\ fault' = "freed pbuf"
            /\ UNCHANGED <<pcb, pool, es>>
         \/ /\ es[n].p = "NULL" /\ PollCloses(p)
            /\ tcp_echoserver_connection_close(p)
            /\ UNCHANGED fault
      /\ UNCHANGED <<connected, cl, most>>

(* A RST, or a segment repeated too often: tcp_echoserver_error, lines     *)
(* 294-306, frees the es; the argument stays in the freed pcb.             *)
tcp_echoserver_error(p) ==
  LET n == pcb[p].arg
  IN  /\ p \in Active /\ (n # NULL => Breaks)
      /\ es' = IF n = NULL THEN es ELSE [es EXCEPT ![n].state = "FREED"]
      /\ tcp_abort(p)
      /\ UNCHANGED <<connected, fault, cl, most>>

(* The acknowledgement of the board's FIN (tcp_in.c:949-955); when it is   *)
(* lost the pcb is there until it times out, an error without an es.       *)
LastAck(p) ==
  /\ pcb[p].state = "LAST_ACK" /\ cl[pcb[p].peer] = "closing"
  /\ cl' = [cl EXCEPT ![pcb[p].peer] = "closed"]
  /\ tcp_abort(p) \/ UNCHANGED <<pcb, pool>>
  /\ UNCHANGED <<es, connected, fault, most>>

-----------------------------------------------------------------------------
ClientClose(n) ==
  /\ cl[n] = "open"
  /\ cl' = [cl EXCEPT ![n] = "closing"]
  /\ UNCHANGED <<pcb, pool, es, connected, fault, most>>

(* The board has no pcb for the connection and answers with a RST. *)
ClientReset(n) ==
  /\ cl[n] \in {"syn", "open", "closing"}
  /\ \A p \in Active : pcb[p].peer # n
  /\ cl' = [cl EXCEPT ![n] = "reset"]
  /\ UNCHANGED <<pcb, pool, es, connected, fault, most>>

Segment(p) ==
  \/ tcp_echoserver_accept(p) \/ ReceiveData(p) \/ ReceiveFin(p)
  \/ tcp_echoserver_sent(p) \/ tcp_echoserver_poll(p) \/ tcp_echoserver_error(p)
  \/ LastAck(p)

Next ==
  /\ fault = "none"
  /\ \/ tcp_server_usersent
     \/ \E n \in Conn : tcp_listen_input(n) \/ ClientClose(n) \/ ClientReset(n)
     \/ \E p \in Pcb : Segment(p)

Spec == Init /\ [][Next]_vars

(* The timers run, and the client repeats what is not answered. *)
FairSpec ==
  /\ Spec
  /\ \A n \in Conn : WF_vars(fault = "none" /\ ClientReset(n))
  /\ \A p \in Pcb : /\ WF_vars(fault = "none" /\ ReceiveFin(p))
                    /\ WF_vars(fault = "none" /\ LastAck(p))
                    /\ WF_vars(fault = "none" /\ tcp_echoserver_poll(p))

-----------------------------------------------------------------------------
TypeOK ==
  /\ pcb \in [Pcb -> [state : {"CLOSED", "SYN_RCVD", "ESTABLISHED", "CLOSE_WAIT",
                               "LAST_ACK"},
                      peer : Conn \cup {0}, arg : Conn \cup {NULL},
                      queued : 0 .. TCP_SND_QUEUELEN, owed : BOOLEAN]]
  /\ free \in Pcb \cup {NULL} /\ link \in [Pcb -> Pcb \cup {NULL}]
  /\ es \in [Conn -> [state : {"NONE", "ACCEPTED", "CLOSING", "FREED"},
                      p : {"NULL", "freed"}]]
  /\ connected \in BOOLEAN
  /\ fault \in {"none", "registered twice", "freed es", "freed pbuf"}
  /\ cl \in [Conn -> {"new", "syn", "open", "closing", "closed", "reset"}]
  /\ most \in 0 .. MaxAtOnce

(* The es structures in the heap are those of the connections that were    *)
(* accepted and are there, each connection's its own: none is lost, and    *)
(* none is freed twice by closing, polling, aborting and errors.           *)
EsConserved ==
  \A n \in Conn :
     LET users == {p \in Active : pcb[p].arg = n}
     IN  IF es[n].state \in {"ACCEPTED", "CLOSING"}
         THEN \E p \in users : users = {p} /\ pcb[p].peer = n
         ELSE users = {}

(* While there was never more than one connection at a time, every         *)
(* connection has the memory tcppcbnew points to, so that it is the one    *)
(* main writes to, in spite of all the aborts of a free pcb                *)
(* (tcp_echoserver.c:127, 137).                                            *)
OnlyOneIsServed == most <= 1 => Active \subseteq {tcppcbnew}

(* Aborting a free pcb every second (line 137) puts that pcb, and no other,*)
(* into the pool more than once: only its memory is ever given to two      *)
(* connections.                                                            *)
OnlyTheFirstIsShared ==
  [][fault' = "registered twice" => free = tcppcbnew]_vars

(* A client that closes is not left waiting: its connection ends, at once  *)
(* or through the poll timer (lines 224-237, 331-335).                     *)
CloseCompletes ==
  \A n \in Conn :
     cl[n] = "closing" ~> (cl[n] \in {"closed", "reset"} \/ fault # "none")

(* "TCP_REG: already registered" (tcp_priv.h:349). *)
NeverRegisteredTwice == fault # "registered twice"

(* "bit5: 0, no client is connected; 1, a client is connected"             *)
(* (tcp_echoserver.c:42).                                                  *)
FlagTells == connected => \E n \in Conn : es[n].state \in {"ACCEPTED", "CLOSING"}
=============================================================================
