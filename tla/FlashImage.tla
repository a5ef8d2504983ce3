---------------------------- MODULE FlashImage -----------------------------
(***************************************************************************)
(* What STMFLASH_Write promises its caller: the application image is a log *)
(* of flash words.  A call queues the words of a buffer, they are appended *)
(* one flash word at a time and in order, a failing call drops the rest,   *)
(* and a reset starts a new image.  Nothing already appended ever changes, *)
(* until a program operation reports an error after it wrote: from then on *)
(* nothing is promised of what the image holds, of a later image neither.  *)
(***************************************************************************)
EXTENDS Integers, Sequences

CONSTANTS Data, FlashWord

VARIABLES
  image,    \* the words stored since the last reset
  pending,  \* the words of the current call still to be stored
  broken    \* a program operation has failed after it wrote

vars == <<image, pending, broken>>

Init == image = << >> /\ pending = << >> /\ broken = FALSE

Submit ==
  /\ pending = << >>
  /\ pending' \in Seq(Data) \ {<< >>}
  /\ image' = image

Append1 ==
  /\ Len(pending) >= FlashWord
  /\ image' = image \o SubSeq(pending, 1, FlashWord)
  /\ pending' = SubSeq(pending, FlashWord + 1, Len(pending))

Abandon ==
  /\ pending' = << >>
  /\ image' = image

Restart == image' = << >> /\ pending' = << >>

(* The failing call itself still leaves the image as it was. *)
Break == ~broken /\ broken' /\ Abandon

Next ==
  \/ ~broken /\ ~broken' /\ (Submit \/ Append1 \/ Abandon \/ Restart)
  \/ Break
  \/ broken /\ broken'

Spec == Init /\ [][Next]_vars
=============================================================================
