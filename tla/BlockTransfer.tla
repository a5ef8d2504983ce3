--------------------------- MODULE BlockTransfer ----------------------------
(***************************************************************************)
(* What TFTP promises its two ends, whatever the network does: a file goes *)
(* over block by block.  The receiver takes the block after the last one   *)
(* it has, each once, and only when the sender knows that it has all       *)
(* before; nobody takes the file for complete before all of it is there.   *)
(*                                                                         *)
(* TftpServer and RrqServer implement it: there the board receives and a   *)
(* client sends, here a client receives and the board sends.  A transfer   *)
(* that breaks off is one that takes no further step.                      *)
(***************************************************************************)
EXTENDS Integers

CONSTANTS
  Transfer,
  Blocks    \* transfer -> the numbers of its blocks, from 1 on

VARIABLES
  taken,    \* transfer -> blocks the receiver has
  known,    \* transfer -> blocks the sender knows the receiver to have
  done      \* transfers that were taken for complete

vars == <<taken, known, done>>

Init ==
  /\ taken = [x \in Transfer |-> {}]
  /\ known = [x \in Transfer |-> {}]
  /\ done = {}

Take(x) ==
  /\ taken[x] = known[x]
  /\ \E b \in Blocks[x] : /\ taken[x] = 1 .. b - 1
                          /\ taken' = [taken EXCEPT ![x] = 1 .. b]
  /\ UNCHANGED known

Learn(x) ==
  /\ known' = [known EXCEPT ![x] = taken[x]]
  /\ UNCHANGED taken

(* The end that takes the last step may take the file for complete. *)
Settle(x) ==
  \/ UNCHANGED done
  \/ taken'[x] = Blocks[x] /\ done' = done \cup {x}

Next == \E x \in Transfer : (Take(x) \/ Learn(x)) /\ Settle(x)

Spec == Init /\ [][Next]_vars
=============================================================================
