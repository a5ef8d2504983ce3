---------------------------- MODULE MCEthernetIf ----------------------------
(* Rings of three descriptors and a pool of two.                           *)
EXTENDS EthernetIf, TLC
=============================================================================
