---------------------------- MODULE MCStreamServer ----------------------------
(* Instances of StreamServer for TLC.  All sources pull the same url, so   *)
(* that one is added again after another was removed.                      *)
EXTENDS StreamServer, TLC
MCUrl == [s \in Sources |-> "u"]
MCUrls == {"u"}
MCSymmetry == Permutations(Transports)
=============================================================================
