------------------------------ MODULE OpusTranscoder ------------------------------
(***************************************************************************)
(* The audio of a MediaSource on its way from the packets of the source to *)
(* Opus packets (opus_transcoder.cpp, media_source.cpp:199), all of it on  *)
(* the reader's thread.  A sample is the time at which the source has it,  *)
(* counted in samples from the first packet.  FFmpeg and libopus are       *)
(* external: a decoder may hold packets back, a resampler samples, and     *)
(* each call may fail.                                                     *)
(***************************************************************************)
EXTENDS Integers, Sequences, SequencesExt

CONSTANTS
  kFrameSize,       \* samples in an Opus packet: 960 in the code, 20 ms
  SampleMillis,     \* what a sample lasts: 1/48 in the code
  FirstMillis,      \* the presentation time of the first packet
  PacketSizes,      \* the samples of a packet of the source
  MaxDecoding,      \* packets the decoder holds back at most
  MaxHeld,          \* samples the resampler holds back at most
  MaxSamples        \* bound on the samples of the source

ASSUME FrameAssumption ==
  kFrameSize \in Nat \ {0} /\ SampleMillis \in Nat \ {0} /\ FirstMillis \in Nat
ASSUME ExternalAssumption ==
  /\ PacketSizes \subseteq Nat \ {0}
  /\ MaxDecoding \in Nat /\ MaxHeld \in Nat /\ MaxSamples \in Nat

VARIABLES
  members,          \* decode_context_, opus_, resample_context_, audio_fifo_
  decoding,         \* packets in the decoder
  held,             \* samples in the resampler
  buffer,           \* whether resample_output_buffer_ is there, and the size
                    \* the code has for it
  audio_fifo_,
  audio_pts_ms_,
  clock,            \* samples the source has given
  output,           \* history: the Opus packets given to the transports
  opened,           \* whether Open succeeded
  failed,           \* history: Transcode has returned false
  dereferenced      \* a null or freed member was used

audioVars == <<decoding, held, buffer, audio_fifo_, audio_pts_ms_, clock, output>>
transcoderVars == <<members, opened, audioVars, failed, dereferenced>>

(* What Open leaves, by the call that failed in it: nobody looks at its    *)
(* result.  A failure that releases all resources leaves opus_ dangling.   *)
Members(decoder, opus, resampler, fifo) ==
  [decoder |-> decoder, opus |-> opus, resampler |-> resampler, fifo |-> fifo]

(* A bug the properties have to catch: the FIFO is not made.               *)
OpenedWithoutFifo == Members("open", "live", TRUE, FALSE)

Opened == Members("open", "live", TRUE, TRUE)

OpenFailures ==
  {Members("none", "none", FALSE, FALSE),    \* no codec, or it does not open
   Members("closed", "none", FALSE, FALSE),  \* its parameters are refused
   Members("open", "none", FALSE, FALSE),    \* opus_encoder_create
   Members("open", "live", FALSE, FALSE),    \* swr_alloc_set_opts
   Members("none", "freed", FALSE, FALSE),   \* swr_init
   Members("open", "live", TRUE, FALSE)}     \* av_audio_fifo_alloc

InitTranscoder ==
  /\ opened \in BOOLEAN
  /\ members \in IF opened THEN {Opened} ELSE OpenFailures
  /\ decoding = <<>> /\ held = <<>> /\ buffer = [present |-> FALSE, size |-> 0]
  /\ audio_fifo_ = <<>> /\ audio_pts_ms_ = 0
  /\ clock = 0 /\ output = <<>> /\ failed = FALSE /\ dereferenced = FALSE

-----------------------------------------------------------------------------
(* Transcode of a packet, one action for each way it can go.               *)

Packet(size) == [i \in 1 .. size |-> clock + i - 1]

(* The source gives a packet. *)
Submit(size) ==
  /\ ~dereferenced /\ clock + size <= MaxSamples
  /\ clock' = clock + size
  /\ UNCHANGED <<members, opened>>

(* avcodec_send_packet fails, as it does for a decoder that is not open.   *)
SubmitFails(size) ==
  /\ Submit(size) /\ members.decoder # "none"
  /\ failed' = TRUE
  /\ UNCHANGED <<decoding, held, buffer, audio_fifo_, audio_pts_ms_, output, dereferenced>>

(* avcodec_receive_frame has no frame yet: Transcode returns true.         *)
NoFrame(size) ==
  /\ Submit(size) /\ members.decoder = "open"
  /\ Len(decoding) < MaxDecoding
  /\ decoding' = Append(decoding, Packet(size))
  /\ UNCHANGED <<held, buffer, audio_fifo_, audio_pts_ms_, output, failed, dereferenced>>

(* A packet is in the decoder and a frame comes out.                       *)
Decode(size) ==
  /\ Submit(size) /\ members.decoder = "open"
  /\ decoding' = Tail(Append(decoding, Packet(size)))

DecodeFails(size) ==
  /\ Decode(size)
  /\ failed' = TRUE
  /\ UNCHANGED <<held, buffer, audio_fifo_, audio_pts_ms_, output, dereferenced>>

(* What the resampler has then, and the size the code wants for it.        *)
Resampled(size) == held \o Head(Append(decoding, Packet(size)))

(* av_samples_alloc fails: the old buffer is freed, its size is kept.      *)
AllocFails(size) ==
  /\ Decode(size) /\ members.resampler
  /\ Len(Resampled(size)) > buffer.size
  /\ buffer' = [buffer EXCEPT !.present = FALSE]
  /\ failed' = TRUE
  /\ UNCHANGED <<held, audio_fifo_, audio_pts_ms_, output, dereferenced>>

Allocated(size) ==
  IF Len(Resampled(size)) > buffer.size
  THEN [present |-> TRUE, size |-> Len(Resampled(size))] ELSE buffer

(* A call on a member that is not there: on a decoder, a resampler, a      *)
(* buffer or a FIFO that is null.                                          *)
Crash(size) ==
  /\ Submit(size)
  /\ \/ members.decoder = "none"
     \/ /\ members.decoder = "open"
        /\ ~members.resampler \/ ~members.fifo \/ ~Allocated(size).present
  /\ dereferenced' = TRUE
  /\ UNCHANGED <<decoding, held, buffer, audio_fifo_, audio_pts_ms_, output, failed>>

(* swr_convert gives n samples and keeps the others.                       *)
Convert(size, n) ==
  /\ Decode(size) /\ members.resampler /\ members.fifo
  /\ Allocated(size).present
  /\ n <= Len(Resampled(size)) /\ Len(Resampled(size)) - n <= MaxHeld
  /\ buffer' = Allocated(size)
  /\ held' = SubSeq(Resampled(size), n + 1, Len(Resampled(size)))

(* swr_convert or av_audio_fifo_write fails: the samples are lost.         *)
ConvertFails(size, n) ==
  /\ Convert(size, n)
  /\ failed' = TRUE
  /\ UNCHANGED <<audio_fifo_, audio_pts_ms_, output, dereferenced>>

(* A bug the properties have to catch: the time is that of the next one.   *)
EncodedAhead(frames) ==
  [k \in 1 .. Len(frames) |->
     [pts |-> audio_pts_ms_ + k * kFrameSize * SampleMillis + FirstMillis,
      samples |-> frames[k]]]

(* Opus packets of frames, numbered from the present time on; the callback *)
(* adds the time of the first packet.                                      *)
Encoded(frames) ==
  [k \in 1 .. Len(frames) |->
     [pts |-> audio_pts_ms_ + (k - 1) * kFrameSize * SampleMillis + FirstMillis,
      samples |-> frames[k]]]

(* The loop takes whole frames out of the FIFO.  When the k-th of them     *)
(* cannot be encoded, it is lost and the others wait for the next call.    *)
Transcode(size, n, k) ==
  /\ Convert(size, n)
  /\ LET fifo == audio_fifo_ \o SubSeq(Resampled(size), 1, n)
         whole == Len(fifo) \div kFrameSize
         encoded == [j \in 1 .. (IF k = 0 THEN whole ELSE k - 1) |->
                       SubSeq(fifo, (j - 1) * kFrameSize + 1, j * kFrameSize)]
         taken == IF k = 0 THEN whole ELSE k
     IN  /\ k <= whole
         /\ output' = output \o Encoded(encoded)
         /\ audio_pts_ms_' = audio_pts_ms_ + Len(encoded) * kFrameSize * SampleMillis
         /\ audio_fifo_' = SubSeq(fifo, taken * kFrameSize + 1, Len(fifo))
  /\ failed' = (failed \/ k > 0)
  /\ UNCHANGED dereferenced

(* The transcoder goes with its MediaSource, and releases what it has:     *)
(* opus_ is not set to null by an earlier release.                         *)
ReleaseResources ==
  /\ ~dereferenced /\ members.opus # "gone"
  /\ dereferenced' = (members.opus = "freed")
  /\ members' = Members("closed", "gone", FALSE, FALSE)
  /\ UNCHANGED <<opened, audioVars, failed>>

NextTranscoder ==
  \/ members.opus # "gone" /\ \E size \in PacketSizes :
       \/ SubmitFails(size) \/ NoFrame(size) \/ DecodeFails(size)
       \/ AllocFails(size) \/ Crash(size)
       \/ \E n \in 0 .. MaxSamples :
            \/ ConvertFails(size, n)
            \/ \E k \in 0 .. MaxSamples : Transcode(size, n, k)
  \/ ReleaseResources

SpecTranscoder == InitTranscoder /\ [][NextTranscoder]_transcoderVars

-----------------------------------------------------------------------------
(* The audio keeps its time: Opus packets are whole, their samples come in *)
(* the order of the source, and their times are 20 ms apart, so that no    *)
(* packet is presented later than it was recorded, whatever is lost on the *)
(* way.  As long as nothing failed, nothing is lost and every packet has   *)
(* the time of its first sample.                                           *)
AudioKeepsTime ==
  LET all == FlattenSeq([k \in DOMAIN output |-> output[k].samples]) \o audio_fifo_
               \o held \o FlattenSeq(decoding)
      Recorded(k) == FirstMillis + Head(output[k].samples) * SampleMillis
  IN  /\ \A i \in 1 .. Len(all) - 1 : all[i] < all[i + 1]
      /\ \A k \in DOMAIN output :
           /\ Len(output[k].samples) = kFrameSize
           /\ output[k].pts = FirstMillis + (k - 1) * kFrameSize * SampleMillis
           /\ output[k].pts <= Recorded(k)
      /\ ~failed /\ ~dereferenced =>
           /\ all = [i \in 1 .. clock |-> i - 1]
           /\ \A k \in DOMAIN output : output[k].pts = Recorded(k)
           /\ Len(audio_fifo_) < kFrameSize

(* A member that is not there is used, or released again, only when Open   *)
(* failed, which MediaSource does not look at (media_source.cpp:198), or   *)
(* when a buffer could not be allocated, of which the size is kept.        *)
OnlyAfterFailure ==
  dereferenced => ~opened \/ (buffer.size > 0 /\ ~buffer.present)
=============================================================================
