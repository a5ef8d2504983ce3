----------------------------- MODULE FrameQueue -----------------------------
(***************************************************************************)
(* What the ring of send descriptors promises the stack: a queue of a      *)
(* fixed size.  A frame whose parts all fit is queued whole, any other is  *)
(* not queued at all; the parts leave one by one, in order, and none that  *)
(* was queued is lost unless the hardware breaks down.                     *)
(***************************************************************************)
EXTENDS Integers, Sequences

CONSTANT Size   \* parts that fit into the queue, and pbufs a frame may have

VARIABLES
  queue,    \* the parts still to leave, the next one first
  sent,     \* the part that left last
  given,    \* frames given so far
  down      \* TRUE after a breakdown

vars == <<queue, sent, given, down>>

Init == queue = << >> /\ given = 0 /\ ~down

(* A part carries two of the k pbufs of a frame. *)
Parts(k) == (k + 1) \div 2

FrameParts(f, k) == [i \in 1 .. Parts(k) |-> [f |-> f, p |-> i, of |-> Parts(k)]]

Fits(k) == k <= Size /\ ~down /\ Len(queue) + Parts(k) <= Size

Give(k) ==
  /\ given' = given + 1
  /\ queue' = IF Fits(k) THEN queue \o FrameParts(given + 1, k) ELSE queue
  /\ UNCHANGED <<sent, down>>

Leave ==
  /\ ~down /\ queue # << >>
  /\ sent' = Head(queue) /\ queue' = Tail(queue)
  /\ UNCHANGED <<given, down>>

Break ==
  /\ queue # << >> /\ down' = TRUE
  /\ UNCHANGED <<queue, sent, given>>

Next == (\E k \in 1 .. Size + 1 : Give(k)) \/ Leave \/ Break

Spec == Init /\ [][Next]_vars
=============================================================================
