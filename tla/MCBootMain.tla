----------------------------- MODULE MCBootMain -----------------------------
(* The main loop with three passes to a second and a counter that wraps.   *)
EXTENDS BootMain

Application == {"ok"}
BadStack == {"badsp"}
Anything == Vectors
=============================================================================
