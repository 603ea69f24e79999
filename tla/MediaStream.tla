------------------------------- MODULE MediaStream -------------------------------
(***************************************************************************)
(* The MediaStream of a transport: frames go out as RTP packets, RTCP      *)
(* comes in and reaches the tracks.  Its handlers run on the transport's   *)
(* thread, one at a time.  What a track does with a call is the business   *)
(* of StreamTrack; here it matters which track gets which call.            *)
(***************************************************************************)
EXTENDS RtpPacketizer, RtcpCompound

CONSTANTS
  Frames,       \* frames of the source: sequences of NAL units, each with
                \* the length of the start code in front of it
  Compounds,    \* compound packets a receiver sends, as RtcpCompound has them
  Refused,      \* datagrams that UnprotectRtcp refuses, as they arrive
  MaxFrames,    \* bound on the frames of each kind
  MaxDatagrams  \* bound on the datagrams received

ASSUME FramesAssumption ==
  \A frame \in Frames :
    /\ frame \in Seq([unit : Seq(Octet), long : BOOLEAN]) /\ frame # <<>>
    /\ \A i \in DOMAIN frame : IsNalUnit(frame[i].unit)
ASSUME CompoundsAssumption ==
  \A compound \in Compounds :
    /\ compound = [k \in 1 .. Len(compound) |-> compound[k]] /\ Len(compound) \in Nat
    /\ \A k \in 1 .. Len(compound) : WellFormed(compound[k])
ASSUME RefusedAssumption ==
  \A datagram \in Refused : datagram.words \in Seq(Word) /\ datagram.tail \in 0 .. 3
ASSUME BoundsAssumption == MaxFrames \in Nat /\ MaxDatagrams \in Nat

(* The numbers of CreateAnswer, as words. *)
video_h264_ssrc == <<188, 24910>>
video_h264_rtx_ssrc == <<0, 9527>>
audio_opus_ssrc == <<1337, 32689>>

(* The ssrcs of the tracks: AddStreamTrack has been called for video and   *)
(* for audio.                                                              *)
stream_tracks_ == {video_h264_ssrc, audio_opus_ssrc}

VARIABLES
  h264_seqnum_, opus_seqnum_,
  sent,             \* history: the RTP packets of each kind, in order
  frames,           \* history: the frames the source gave, in order
  received,         \* the last datagram: which, whether it was authentic, its
                    \* packets if so, and the bytes after its last word
  calls,            \* what it had the tracks do
  foreign,          \* history: a NACK named an ssrc that has no track
  undecrypted,      \* history: a refused datagram was walked that may end well
  crashed           \* a null track was used

rtpVars == <<h264_seqnum_, opus_seqnum_, sent, frames>>
rtcpVars == <<received, calls, foreign, undecrypted, crashed>>
vars == <<rtpVars, rtcpVars>>

Init ==
  /\ h264_seqnum_ = 0 /\ opus_seqnum_ = 0
  /\ sent = [video |-> <<>>, audio |-> <<>>]
  /\ frames = [video |-> <<>>, audio |-> 0]
  /\ received = [nth |-> 0, authentic |-> TRUE, packets |-> <<>>, tail |-> 0]
  /\ calls = <<>> /\ foreign = FALSE /\ undecrypted = FALSE /\ crashed = FALSE

-----------------------------------------------------------------------------
(* A frame of video: its packets go to the observer and to the track.      *)
ReceiveH264Packet(frame) ==
  /\ ~crashed /\ Len(frames.video) < MaxFrames
  /\ LET packets == Numbered(PackFrame(ByteStream(frame)), h264_seqnum_,
                             Len(frames.video) + 1)
     IN  /\ sent' = [sent EXCEPT !.video = @ \o packets]
         /\ h264_seqnum_' = (h264_seqnum_ + Len(packets)) % SeqModulus
  /\ frames' = [frames EXCEPT !.video = Append(@, frame)]
  /\ UNCHANGED <<opus_seqnum_, rtcpVars>>

(* A packet of audio is one RTP packet, whatever its size, with a marker.  *)
ReceiveOpusPacket ==
  /\ ~crashed /\ frames.audio < MaxFrames
  /\ sent' = [sent EXCEPT !.audio = @ \o
       Numbered(PackSingNalu(<<frames.audio + 1>>, TRUE), opus_seqnum_,
                frames.audio + 1)]
  /\ opus_seqnum_' = (opus_seqnum_ + 1) % SeqModulus
  /\ frames' = [frames EXCEPT !.audio = @ + 1]
  /\ UNCHANGED <<h264_seqnum_, rtcpVars>>

-----------------------------------------------------------------------------
(* The packets of a compound, in turn.  d: the calls made, and whether one *)
(* was made through a null pointer.                                        *)

(* stream_tracks_[ssrc] puts a null pointer in the map when there is none, *)
(* and ReceiveNack reads params_.ssrc through it before anything else: the *)
(* process ends there, so that no later handler meets that pointer.        *)
DispatchNack(d, packet) ==
  IF packet.media_ssrc \in stream_tracks_
  THEN [d EXCEPT !.calls = Append(@, [track |-> packet.media_ssrc,
                                      lost |-> Range(packet.lost)])]
  ELSE [d EXCEPT !.crashed = TRUE]

(* A bug the properties have to catch: the track is looked up as for NACKs. *)
DispatchBlockInserts(d, block) ==
  IF block.source_ssrc \in stream_tracks_
  THEN [d EXCEPT !.calls = Append(@, [track |-> block.source_ssrc,
                                      last_sr |-> block.last_sr])]
  ELSE [d EXCEPT !.crashed = TRUE]

(* A report about an ssrc that has no track, as RTX, is ignored.           *)
DispatchBlock(d, block) ==
  IF block.source_ssrc \in stream_tracks_
  THEN [d EXCEPT !.calls = Append(@, [track |-> block.source_ssrc,
                                      last_sr |-> block.last_sr])]
  ELSE d

Dispatch(d, packet) ==
  CASE d.crashed -> d
    [] ~d.crashed /\ packet.kind = "nack" -> DispatchNack(d, packet)
    [] ~d.crashed /\ packet.kind = "rr" -> FoldLeft(DispatchBlock, d, packet.blocks)
    [] OTHER -> d

(* A datagram that cannot be parsed to its end is dropped as a whole.      *)
ReceiveRctp(datagram) ==
  LET parsed == ParseCompound(datagram)
      d == FoldLeft(Dispatch, [calls |-> <<>>, crashed |-> FALSE],
                    IF parsed.ok THEN parsed.packets ELSE <<>>)
  IN  calls' = d.calls /\ crashed' = d.crashed

(* What OnUdpSocketDataReceive does with an RTCP datagram that UnprotectRtcp *)
(* accepts: ReceiveRctp has the bytes that the receiver protected.         *)
ReceiveAuthentic(compound) ==
  /\ ~crashed /\ received.nth < MaxDatagrams /\ IsRtcp(Datagram(compound))
  /\ ReceiveRctp(Datagram(compound))
  /\ received' = [nth |-> received.nth + 1, authentic |-> TRUE,
                  packets |-> compound, tail |-> 0]
  /\ foreign' = (foreign \/ \E i \in DOMAIN compound :
                   compound[i].kind = "nack" /\ compound[i].ssrc \notin stream_tracks_)
  /\ UNCHANGED <<rtpVars, undecrypted>>

(* One that it refuses, as damaged, of other keys or a duplicate: that is  *)
(* logged, and ReceiveRctp has the bytes all the same, undecrypted.  Their *)
(* number is 0 as long as there is no session.                             *)
ReceiveRefused(datagram, session) ==
  /\ ~crashed /\ received.nth < MaxDatagrams /\ IsRtcp(datagram)
  /\ ReceiveRctp(IF session THEN datagram ELSE [words |-> <<>>, tail |-> 0])
  /\ received' = [nth |-> received.nth + 1, authentic |-> FALSE,
                  packets |-> <<>>, tail |-> datagram.tail]
  /\ undecrypted' = (undecrypted \/ (session /\ datagram.tail < 2))
  /\ UNCHANGED <<rtpVars, foreign>>

Outgoing == (\E frame \in Frames : ReceiveH264Packet(frame)) \/ ReceiveOpusPacket

Incoming ==
  \/ \E compound \in Compounds : ReceiveAuthentic(compound)
  \/ \E datagram \in Refused, session \in BOOLEAN : ReceiveRefused(datagram, session)

Next == Outgoing \/ Incoming

Spec == Init /\ [][Next]_vars

-----------------------------------------------------------------------------
(* What a receiver reassembles from the RTP packets, in order, is the very *)
(* frames of the source, unit by unit: no start code is missed or made up  *)
(* by the search, no byte is lost between fragments, every packet fits,    *)
(* markers are where frames end, and numbers follow each other, across the *)
(* wrap of uint16_t (H264RtpPacketizer::Pack and what it calls).           *)
FramesSurvive ==
  LET r == Received(sent.video)
      a == Received(sent.audio)
  IN  /\ r.ok /\ r.part = <<>> /\ r.units = <<>>
      /\ r.frames = [k \in DOMAIN frames.video |->
                       [i \in DOMAIN frames.video[k] |-> frames.video[k][i].unit]]
      /\ a.ok /\ a.frames = [k \in 1 .. frames.audio |-> <<<<k>>>>]

(* What the packets of a receiver mean: calls of the tracks.               *)
MeantBlock(block) ==
  IF block.source_ssrc \in stream_tracks_
  THEN <<[track |-> block.source_ssrc, last_sr |-> block.last_sr]>> ELSE <<>>

Meant(m) ==
  CASE m.kind = "nack" /\ m.ssrc \in stream_tracks_ ->
         <<[track |-> m.ssrc, lost |-> Asked(m.items)]>>
    [] m.kind = "rr" ->
         FlattenSeq([k \in 1 .. Len(m.blocks) |-> MeantBlock(m.blocks[k])])
    [] OTHER -> <<>>

(* A compound packet has the tracks do what its packets mean, in order:    *)
(* each NACK is for its track and asks for the numbers that pids and bits  *)
(* stand for, modulo 2^16, and each report about a track reaches it.  And  *)
(* a refused datagram that ends two or three bytes after a word has no     *)
(* effect, whatever its bytes are taken for on the walk.  So ends every    *)
(* whole one of the suites with HMAC-SHA1, whose tag has ten bytes: it is  *)
(* the tag's length that keeps a duplicate, which libsrtp refuses as       *)
(* replayed, from the tracks.                                              *)
CompoundMeaning ==
  /\ received.authentic /\ ~crashed =>
       calls = FlattenSeq([k \in DOMAIN received.packets |-> Meant(received.packets[k])])
  /\ ~received.authentic /\ received.tail >= 2 => calls = <<>>

(* The process meets a null track (media_stream.cpp:209) only in a NACK    *)
(* that an authentic receiver sends for an ssrc the answer has no track    *)
(* for, or in undecrypted bytes: nothing that a receiver says about the    *)
(* streams the answer offers leads there, RTX included, as long as its     *)
(* datagrams are accepted, and none that ends two or three bytes after a   *)
(* word does when it is refused.                                           *)
OnlyForeignNacksCrash == crashed => foreign \/ undecrypted
=============================================================================
