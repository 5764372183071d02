---------------------------- MODULE SenderDelay ----------------------------
(* The delay of the sender, in microseconds: sendPacket() sleeps so long   *)
(* after every packet.  adaptPacing() moves it, in one of two forms:       *)
(* Pacing (built without USE_MPC) or MpcControl (with it).                 *)
EXTENDS Integers

VARIABLE pacing_delay_us
=============================================================================
