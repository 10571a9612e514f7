---------------------------- MODULE MCOutBuffer -----------------------------
(* A ring of four bytes and a stream of nine, so that both pointers wrap      *)
(* twice; frames of one or two bytes fill the ring exactly or not.            *)
EXTENDS OutBuffer

MCFrames == 1 .. 2
MCHosts  == {"gap", "turns"}
=============================================================================
