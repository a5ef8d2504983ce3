---------------------------- MODULE MCBootloader ----------------------------
(* Two clients, one after the other, and a reset at any time.              *)
EXTENDS Bootloader, TLC

CONSTANTS c1, c2

BothClients == {c1, c2}
Applications == [c \in BothClients |-> "ok"]
=============================================================================
