---------------------------- MODULE MCRrqServer -----------------------------
(* A client endpoint that reads a file.                                    *)
EXTENDS RrqServer, TLC

CONSTANTS c1

OneClient == {c1}
=============================================================================
