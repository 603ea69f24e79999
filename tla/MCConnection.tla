---------------------------- MODULE MCConnection ----------------------------
(* An instance of Connection for TLC: two addresses that can each be       *)
(* nominated, so that DTLS is restarted in any state, and one timeout that *)
(* repeats the flight.                                                     *)
EXTENDS Connection
=============================================================================
