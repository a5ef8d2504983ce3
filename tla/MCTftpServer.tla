---------------------------- MODULE MCTftpServer ----------------------------
(* Two client endpoints that may upload one after the other or together.   *)
EXTENDS TftpServer, TLC

CONSTANTS c1, c2

BothClients == {c1, c2}
=============================================================================
