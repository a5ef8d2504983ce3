--------------------------- MODULE MCFlashWriter ---------------------------
(* Small geometry: flash words of two words, bank 1 of three sectors, the  *)
(* bootloader in the first.                                                *)
EXTENDS FlashWriter, TLC

(* Sectors of four words, and of two, six and four; bank 2 behind them. *)
Sectors4 == [s \in 0 .. 3 |-> 4 * s]
Sectors6 == 0 :> 0 @@ 1 :> 2 @@ 2 :> 8 @@ 3 :> 12

(* Word values: Zero stands for every word that is not erased. *)
Words     == {Zero, Blank}
HeadWords == {Zero}
=============================================================================
