----------------------------- MODULE MCInBuffer -----------------------------
(* A ring of four bytes and a stream of nine, so that both pointers wrap      *)
(* twice; frames of one, two or three bytes.                                  *)
EXTENDS InBuffer

MCFrames == 1 .. 3
MCHosts  == {"gap", "turns"}

\* A host that fills the ring while the DSP is at work, one that never does, and
\* a frame that is longer than the ring.
MCBrim == {"brim"}
MCGap  == {"gap"}
MCLong == {5}
=============================================================================
