---------------------------- MODULE MCTcpConsole ----------------------------
(* Three pcbs, three connections, up to two at once.                       *)
EXTENDS TcpConsole, TLC
=============================================================================
