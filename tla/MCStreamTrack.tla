---------------------------- MODULE MCStreamTrack ----------------------------
(* An instance of StreamTrack for TLC: sequence numbers wrap after five    *)
(* packets, two of which the ring of three slots is sure to hold; words    *)
(* have five bits, and all the 32-bit times of the code wrap one           *)
(* millisecond after the start.  A packet is presented exactly two seconds *)
(* after the one before it, or before it (B-frames).                       *)
EXTENDS StreamTrack

MCFrameSteps == {-1, 4}
=============================================================================
