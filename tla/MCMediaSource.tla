---------------------------- MODULE MCMediaSource ----------------------------
(* An instance of MediaSource for TLC: two transports, at most three packets *)
(* and two Opus packets in an audio frame, with and without the GOP cache. *)
EXTENDS MediaSource
=============================================================================
