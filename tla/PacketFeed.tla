------------------------------ MODULE PacketFeed ------------------------------
(***************************************************************************)
(* What a media source promises the transports that play it: the packets   *)
(* of the stream form one log, and every observer reads the log in order   *)
(* through a cursor of its own, with no gap and no repetition.  With the   *)
(* GOP cache a reader starts at the last key frame (at the first packet of *)
(* the stream while there has been none), so that a decoder can start at   *)
(* once; without it a reader starts at the next packet.  The log does not  *)
(* run ahead of its readers: a packet is published only when every reader  *)
(* has had the one before.                                                 *)
(***************************************************************************)
EXTENDS Integers

CONSTANT Observers   \* the transports

VARIABLES enabled,  \* the GOP cache is, in config.toml
          length,   \* number of packets published, numbered 1..length
          keyed,    \* those that are key video frames
          cursor    \* next packet of each observer, 0 for one that does not read

feedVars == <<enabled, length, keyed, cursor>>

(* The packet a new reader starts with. *)
StartPoint ==
  IF ~enabled \/ length = 0 THEN length + 1
  ELSE IF keyed = {} THEN 1
  ELSE CHOOSE k \in keyed : \A l \in keyed : l <= k

FeedInit ==
  /\ enabled \in BOOLEAN
  /\ length = 0
  /\ keyed = {}
  /\ cursor = [o \in Observers |-> 0]

Publish ==
  /\ \A o \in Observers : cursor[o] \in {0, length + 1}
  /\ length' = length + 1
  /\ keyed' \in {keyed, keyed \cup {length + 1}}
  /\ UNCHANGED cursor

Join(o) ==
  /\ cursor[o] = 0
  /\ cursor' = [cursor EXCEPT ![o] = StartPoint]
  /\ UNCHANGED <<length, keyed>>

Read(o) ==
  /\ cursor[o] \in 1..length
  /\ cursor' = [cursor EXCEPT ![o] = @ + 1]
  /\ UNCHANGED <<length, keyed>>

(* A reader that leaves may come back later, as a new transport at the     *)
(* address of a destroyed one.                                             *)
Leave(o) ==
  /\ cursor[o] # 0
  /\ cursor' = [cursor EXCEPT ![o] = 0]
  /\ UNCHANGED <<length, keyed>>

FeedNext ==
  /\ Publish \/ \E o \in Observers : Join(o) \/ Read(o) \/ Leave(o)
  /\ UNCHANGED enabled

FeedSpec == FeedInit /\ [][FeedNext]_feedVars
=============================================================================
