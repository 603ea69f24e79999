-------------------------------- MODULE MCMedia --------------------------------
(***************************************************************************)
(* The media of a stream for TLC: the transcoder of its source, and the    *)
(* MediaStream of a transport, outgoing and incoming.  The three share no  *)
(* state, so an execution drives one of them.                              *)
(***************************************************************************)
EXTENDS MediaStream, OpusTranscoder

(* NAL units of one byte and more, with zeros and ones that are no start   *)
(* code, and long ones that make two and three fragments.                  *)
Units == {<<1>>, <<2>>, <<2, 1>>, <<1, 0, 1>>, <<2, 1, 1, 0, 2>>,
          <<2, 0, 0, 2, 1>>, <<2, 1, 0, 0, 2, 0, 2>>}
MCFrames ==
  {<<[unit |-> u, long |-> l]>> : u \in Units, l \in BOOLEAN} \cup
  {<<[unit |-> u, long |-> TRUE], [unit |-> v, long |-> l]>> :
     u \in Units, v \in Units, l \in BOOLEAN}

Block(ssrc, last_sr) == [source_ssrc |-> ssrc, last_sr |-> <<1, last_sr>>]
MCReports ==
  {<<>>, <<Block(video_h264_ssrc, 1)>>,
   <<Block(video_h264_rtx_ssrc, 2), Block(audio_opus_ssrc, 3)>>}
(* Numbers before and after the wrap; the first and the last bit of blp.   *)
MCItems == {<<>>, <<<<3, 0>>>>, <<<<65534, 5>>, <<7, 32768>>>>}
MCPackets ==
  {[kind |-> "rr", blocks |-> blocks] : blocks \in MCReports} \cup
  {[kind |-> "nack", ssrc |-> ssrc, items |-> items] :
     ssrc \in {video_h264_ssrc, audio_opus_ssrc, video_h264_rtx_ssrc}, items \in MCItems} \cup
  {[kind |-> "other", format |-> 1, type |-> kRtcpTypeSdes, length |-> 2],
   [kind |-> "other", format |-> 15, type |-> kRtcpTypeRtpfb, length |-> 4],
   [kind |-> "other", format |-> 1, type |-> kRtcpTypePsfb, length |-> 2]}
MCCompounds == {<<p>> : p \in MCPackets} \cup {<<p, q>> : p, q \in MCPackets}

(* SRTCP: what follows the first two words is encrypted, with a cipher     *)
(* that happens to give the same word again and again; then come the index *)
(* and the ten bytes of the tag, cut anywhere.  The words pass for headers *)
(* of packets without content, for the ssrc of video, for a NACK.          *)
Ciphers == {<<1, 0>>, video_h264_ssrc, HeaderWord(1, kRtcpTypeRtpfb, 2)}
Srtcp(compound, c) ==
  LET plain == Datagram(compound).words
  IN  [k \in DOMAIN plain |-> IF k <= 2 THEN plain[k] ELSE c] \o <<<<32768, 1>>, c, c>>
MCRefused ==
  UNION {{[words |-> SubSeq(Srtcp(<<p>>, c), 1, n), tail |-> t] :
            n \in 1 .. Len(Srtcp(<<p>>, c)), t \in 0 .. 3} : p \in MCPackets, c \in Ciphers}

VARIABLE driven

MCInit ==
  /\ Init /\ driven \in {"outgoing", "incoming", "transcoder"}
  /\ InitTranscoder /\ (driven = "transcoder" \/ opened)
MCOutgoing == driven = "outgoing" /\ Outgoing /\ UNCHANGED <<transcoderVars, driven>>
MCIncoming == driven = "incoming" /\ Incoming /\ UNCHANGED <<transcoderVars, driven>>
MCTranscoder == driven = "transcoder" /\ NextTranscoder /\ UNCHANGED <<vars, driven>>
MCNext == MCOutgoing \/ MCIncoming \/ MCTranscoder
MCSpec == MCInit /\ [][MCNext]_<<vars, transcoderVars, driven>>
=============================================================================
