------------------------------ MODULE StreamTrack ------------------------------
(***************************************************************************)
(* One track of a MediaStream, video or audio: what it sends, the ring of  *)
(* sent packets with which it answers NACKs, the round-trip time that      *)
(* spaces retransmissions out, and the sender reports of the RTCP timer.   *)
(* All of it runs on the transport's thread, one handler at a time.        *)
(*                                                                         *)
(* A packet on the wire is its sequence number and its payload, a sequence *)
(* of cells: <<k>> for the k-th packet of the track, and <<osn, k>> for    *)
(* its retransmission as RFC 4588 has it.  Times are natural numbers that  *)
(* the code reduces to 32 bits where it stores them in a uint32_t.         *)
(***************************************************************************)
EXTENDS Integers, Sequences, SequencesExt

CONSTANTS
  SeqModulus,       \* a sequence number is a uint16_t: 65536 in the code
  WordModulus,      \* timestamps and compact NTP times are uint32_t: 2^32
  kSendBufferCapacity, kDefaultRttMillis,
  MillisPerSecond,  \* 1000
  CompactPerSecond, \* units of compact NTP time in a second: 65536
  clock_rate,       \* of the track: 90000 or 48000
  StartMillis,      \* the steady clock when the track is created
  FrameSteps,       \* steps between the presentation times of packets
  MaxMillis,        \* bound on the time that passes
  MaxPackets,       \* bound on the packets sent
  MaxResent         \* bound on the sequence numbers in NACKs

ASSUME ModulusAssumption ==
  /\ SeqModulus \in Nat \ {0} /\ WordModulus \in Nat \ {0}
  /\ kSendBufferCapacity \in 1..SeqModulus
ASSUME TimeAssumption ==
  /\ MillisPerSecond \in Nat \ {0} /\ CompactPerSecond \in Nat \ {0}
  /\ kDefaultRttMillis \in Nat /\ StartMillis \in Nat \ {0}
  /\ 2 * MillisPerSecond <= CompactPerSecond   \* finer than half a millisecond
ASSUME ClockAssumption ==
  clock_rate \in Nat \ {0} /\ clock_rate % MillisPerSecond = 0
ASSUME FrameStepsAssumption == FrameSteps \subseteq Int
ASSUME BoundsAssumption ==
  MaxMillis \in Nat /\ MaxPackets \in Nat /\ MaxResent \in Nat

SeqNum == 0..(SeqModulus - 1)
Word == 0..(WordModulus - 1)
max_resend_delay_in_clock_rate_ == clock_rate * 2

VARIABLES
  now,              \* TimeMillis()
  pts,              \* presentation time of the last packet, in milliseconds
  is_rtx_enabled,   \* of params_: TRUE for video, FALSE for audio
  seqnum_,          \* of the packetizer
  max_rtp_timestamp_, max_packet_millis_,
  rtt_, send_packet_count_, rtx_sequence_number_,
  send_buffer_,     \* partial function from slots to stored packets
  sent,             \* history: the packets sent, in order
  resent,           \* history: the retransmissions, in order
  nacked,           \* sequence numbers in the NACKs received so far
  reports,          \* times of the sender reports sent
  overshot          \* a receiver reported a delay longer than what passed

trackVars == <<max_rtp_timestamp_, max_packet_millis_, rtt_, send_packet_count_,
               rtx_sequence_number_, send_buffer_>>
vars == <<now, pts, is_rtx_enabled, seqnum_, trackVars, sent, resent, nacked,
          reports, overshot>>

Init ==
  /\ now = StartMillis /\ pts = 0 /\ is_rtx_enabled \in BOOLEAN
  /\ seqnum_ = 0
  /\ max_rtp_timestamp_ = 0 /\ max_packet_millis_ = 0
  /\ rtt_ = kDefaultRttMillis
  /\ send_packet_count_ = 0 /\ rtx_sequence_number_ = 0
  /\ send_buffer_ = << >>
  /\ sent = <<>> /\ resent = <<>> /\ nacked = 0
  /\ reports = {} /\ overshot = FALSE

-----------------------------------------------------------------------------
(* utils.cpp: NTP time in its compact form, and back to milliseconds,      *)
(* rounded to the nearest.                                                 *)
ToCompactNtp(millis) ==
  ((millis * CompactPerSecond) \div MillisPerSecond) % WordModulus

ToMillis(compact) ==
  (2 * compact * MillisPerSecond + CompactPerSecond) \div (2 * CompactPerSecond)

RtpTimestamp(millis) ==
  ((millis * clock_rate) \div MillisPerSecond) % WordModulus

Slot(seq_num) == seq_num % kSendBufferCapacity

(* RtpStoragePacket: the bytes as they go on the wire, their number without *)
(* the extra ones of an RTX packet, and the state of its retransmission.    *)
Stored(packet) ==
  [seq |-> packet.seq, payload |-> packet.payload, size |-> Len(packet.payload),
   timestamp |-> packet.timestamp, resent_millisecs |-> 0, is_rtx |-> FALSE]

Size(pkt) == IF pkt.is_rtx THEN pkt.size + 1 ELSE pkt.size

(* The ring with a packet put into a slot, over the one that was there.   *)
Put(slot, pkt) ==
  [s \in DOMAIN send_buffer_ \cup {slot} |-> IF s = slot THEN pkt ELSE send_buffer_[s]]

-----------------------------------------------------------------------------
(* Bugs the properties have to catch: forms that definitions below would   *)
(* have if the code were slightly wrong.  Nothing uses them.               *)

(* A second resend inserts the sequence number again. *)
MakeRtxPacketAgain(pkt, sequence_number) ==
  [pkt EXCEPT !.payload = <<pkt.seq>> \o pkt.payload,
              !.seq = sequence_number, !.is_rtx = TRUE]

(* Exactly the round-trip time is enough. *)
TooSoonOffByOne(pkt) ==
  pkt.resent_millisecs # 0 /\ now - pkt.resent_millisecs < rtt_

(* The slot is that of the next sequence number. *)
ReceivePacketNextSlot(packet) ==
  /\ send_packet_count_' = (send_packet_count_ + 1) % WordModulus
  /\ max_rtp_timestamp_' = packet.timestamp
  /\ max_packet_millis_' = now % WordModulus
  /\ send_buffer_' = Put(Slot(packet.seq + 1), Stored(packet))

(* The timestamp kept is the largest one, as its name says. *)
ReceivePacketMax(packet) ==
  /\ send_packet_count_' = (send_packet_count_ + 1) % WordModulus
  /\ max_rtp_timestamp_' = IF packet.timestamp > max_rtp_timestamp_
                           THEN packet.timestamp ELSE max_rtp_timestamp_
  /\ max_packet_millis_' = now % WordModulus
  /\ send_buffer_' = Put(Slot(packet.seq), Stored(packet))

(* A receiver that has had no sender report yet is not told apart. *)
RttAlways(last_sr, delay_since_last_sr) ==
  ToMillis((ToCompactNtp(now) - delay_since_last_sr - last_sr) % WordModulus)

(* The difference is taken in a signed type. *)
RttSigned(last_sr, delay_since_last_sr) ==
  IF last_sr # 0
  THEN ToMillis(ToCompactNtp(now) - delay_since_last_sr - last_sr)
  ELSE rtt_

-----------------------------------------------------------------------------
(* The first time, the payload moves back and the original sequence number *)
(* goes in front of it; later only the sequence number changes.            *)
MakeRtxPacket(pkt, sequence_number) ==
  IF pkt.is_rtx
  THEN [pkt EXCEPT !.seq = sequence_number]
  ELSE [pkt EXCEPT !.payload = <<pkt.seq>> \o pkt.payload,
                   !.seq = sequence_number, !.is_rtx = TRUE]

SetResendMillisecs(pkt) == [pkt EXCEPT !.resent_millisecs = now]

TooOld(pkt) ==
  (max_rtp_timestamp_ - pkt.timestamp) % WordModulus
    > max_resend_delay_in_clock_rate_

TooSoon(pkt) ==
  pkt.resent_millisecs # 0 /\ now - pkt.resent_millisecs <= rtt_

(* One sequence number of a NACK; t holds what its handling may change.    *)
ResendLost(t, seq_num) ==
  LET slot == Slot(seq_num)
      marked == SetResendMillisecs(t.send_buffer_[slot])
      pkt == IF is_rtx_enabled
             THEN MakeRtxPacket(marked, t.rtx_sequence_number_) ELSE marked
  IN  IF \/ slot \notin DOMAIN t.send_buffer_
         \/ TooOld(t.send_buffer_[slot])
         \/ TooSoon(t.send_buffer_[slot])
      THEN t
      ELSE [send_buffer_ |-> [t.send_buffer_ EXCEPT ![slot] = pkt],
            rtx_sequence_number_ |->
              IF is_rtx_enabled THEN (t.rtx_sequence_number_ + 1) % SeqModulus
              ELSE t.rtx_sequence_number_,
            resent |-> Append(t.resent,
              [seq |-> pkt.seq, payload |-> SubSeq(pkt.payload, 1, Size(pkt)),
               millis |-> now, rtt |-> rtt_])]

ResendAll(lost_packets) ==
  FoldLeft(ResendLost,
           [send_buffer_ |-> send_buffer_,
            rtx_sequence_number_ |-> rtx_sequence_number_, resent |-> resent],
           lost_packets)

(* A packet that was sent is counted, timed and stored.                    *)
ReceivePacket(packet) ==
  /\ send_packet_count_' = (send_packet_count_ + 1) % WordModulus
  /\ max_rtp_timestamp_' = packet.timestamp
  /\ max_packet_millis_' = now % WordModulus
  /\ send_buffer_' = Put(Slot(packet.seq), Stored(packet))

(* A receiver that has had no sender report yet sets last_sr to zero.      *)
Rtt(last_sr, delay_since_last_sr) ==
  IF last_sr # 0
  THEN ToMillis((ToCompactNtp(now) - delay_since_last_sr - last_sr)
                  % WordModulus)
  ELSE rtt_

-----------------------------------------------------------------------------
(* The packetizer makes a packet of a frame: OnRtpPacketGenerated sends it, *)
(* and the track stores it.  Packets of one frame share their time, and a   *)
(* source with B-frames presents some packets before earlier ones.          *)
OnRtpPacketGenerated(step) ==
  /\ Len(sent) < MaxPackets
  /\ pts + step >= 0
  /\ pts' = pts + step
  /\ seqnum_' = (seqnum_ + 1) % SeqModulus
  /\ LET packet == [seq |-> seqnum_, payload |-> <<Len(sent) + 1>>,
                    timestamp |-> RtpTimestamp(pts'), pts |-> pts',
                    millis |-> now]
     IN  sent' = Append(sent, packet) /\ ReceivePacket(packet)
  /\ UNCHANGED <<now, is_rtx_enabled, rtt_, rtx_sequence_number_, resent,
                 nacked, reports, overshot>>

ReceiveNack(lost_packets) ==
  /\ nacked + Len(lost_packets) <= MaxResent
  /\ nacked' = nacked + Len(lost_packets)
  /\ LET t == ResendAll(lost_packets)
     IN  /\ send_buffer_' = t.send_buffer_
         /\ rtx_sequence_number_' = t.rtx_sequence_number_
         /\ resent' = t.resent
  /\ UNCHANGED <<now, pts, is_rtx_enabled, seqnum_, max_rtp_timestamp_,
                 max_packet_millis_, rtt_, send_packet_count_, sent, reports,
                 overshot>>

ReceiveReceiverReport(last_sr, delay_since_last_sr) ==
  /\ rtt_' = Rtt(last_sr, delay_since_last_sr)
  /\ UNCHANGED <<now, pts, is_rtx_enabled, seqnum_, max_rtp_timestamp_,
                 max_packet_millis_, send_packet_count_, rtx_sequence_number_,
                 send_buffer_, sent, resent, nacked, reports>>

(* External: the receiver measures the time since it got the report; as    *)
(* ToCompactNtp rounds down here, that may be a unit more than what passed. *)
ReceiverReports ==
  \/ ReceiveReceiverReport(0, 0) /\ UNCHANGED overshot
  \/ \E t \in reports :
       LET last_sr == ToCompactNtp(t)
           passed == (ToCompactNtp(now) - last_sr) % WordModulus
       IN  \E delay \in 0..(passed + 1) :
             /\ ReceiveReceiverReport(last_sr, delay)
             /\ overshot' = (overshot \/ (last_sr # 0 /\ delay > passed))

(* The RTP time of a sender report made now.                               *)
SenderReportTimestamp ==
  LET diff_in_millis == now - max_packet_millis_
  IN  (max_rtp_timestamp_ + (diff_in_millis * clock_rate) \div MillisPerSecond)
        % WordModulus

(* The RTCP timer.  A track that has sent nothing makes no report.         *)
OnTimerTimeout ==
  /\ send_packet_count_ # 0
  /\ reports' = reports \cup {now}
  /\ UNCHANGED <<now, pts, is_rtx_enabled, seqnum_, trackVars, sent, resent,
                 nacked, overshot>>

(* External: time passes.                                                  *)
Tick ==
  /\ now < StartMillis + MaxMillis
  /\ now' = now + 1
  /\ UNCHANGED <<pts, is_rtx_enabled, seqnum_, trackVars, sent, resent, nacked,
                 reports, overshot>>

(* What the bits of a NACK stand for: one sequence number or several.      *)
LostPackets == {<<s>> : s \in SeqNum} \cup {<<s, t>> : s, t \in SeqNum}

Next ==
  \/ \E step \in FrameSteps : OnRtpPacketGenerated(step)
  \/ \E lost_packets \in LostPackets : ReceiveNack(lost_packets)
  \/ ReceiverReports
  \/ OnTimerTimeout
  \/ Tick

Spec == Init /\ [][Next]_vars

-----------------------------------------------------------------------------
(* The packet a retransmission repeats.                                    *)
Repeats(r) == Last(r.payload)

TypeOK ==
  /\ now \in StartMillis..(StartMillis + MaxMillis) /\ pts \in Nat
  /\ is_rtx_enabled \in BOOLEAN /\ seqnum_ \in SeqNum
  /\ max_rtp_timestamp_ \in Word /\ max_packet_millis_ \in Word
  /\ rtt_ \in Nat /\ send_packet_count_ \in Word
  /\ rtx_sequence_number_ \in SeqNum
  /\ DOMAIN send_buffer_ \subseteq 0..(kSendBufferCapacity - 1)
  /\ \A slot \in DOMAIN send_buffer_ :
       /\ send_buffer_[slot].seq \in SeqNum
       /\ send_buffer_[slot].timestamp \in Word
       /\ send_buffer_[slot].resent_millisecs \in 0..now
  /\ Len(sent) \in 0..MaxPackets /\ Len(resent) \in 0..nacked
  /\ nacked \in 0..MaxResent

(* How many of the last packets the ring is sure to hold: when the sequence *)
(* number wraps, the slots of the first ones are taken early.               *)
Recent ==
  IF SeqModulus % kSendBufferCapacity = 0 THEN kSendBufferCapacity
  ELSE SeqModulus % kSendBufferCapacity

(* A NACK for a recent packet is answered with that packet, and with no    *)
(* other, if it was presented at most two seconds before the newest one    *)
(* (and not after it) and was not sent again within the round-trip time.   *)
NackAnswered ==
  \A k \in 1..Len(sent) :
    /\ k > Len(sent) - Recent
    /\ sent[Len(sent)].pts - sent[k].pts \in 0..(2 * MillisPerSecond)
    /\ \A j \in 1..Len(resent) :
         Repeats(resent[j]) = k => now - resent[j].millis > rtt_
    => LET answer == ResendAll(<<sent[k].seq>>).resent
       IN  Len(answer) = Len(resent) + 1 /\ Repeats(Last(answer)) = k

(* However many NACKs ask for it, a packet is sent again only when more    *)
(* than the round-trip time has passed since the last time.                *)
ResendsPaced ==
  \A i, j \in 1..Len(resent) :
    i < j /\ Repeats(resent[i]) = Repeats(resent[j]) =>
      resent[j].millis - resent[i].millis > resent[j].rtt

(* What is sent again can be put back in place: without RTX it is the      *)
(* packet itself; with RTX it is its payload behind its original sequence  *)
(* number, also the second time, and the RTX packets are numbered without  *)
(* a gap, so that their receiver sees no loss that did not happen.         *)
ResendsWellFormed ==
  \A j \in 1..Len(resent) :
    LET r == resent[j]
        packet == sent[Repeats(r)]
    IN  /\ Repeats(r) \in 1..Len(sent)
        /\ IF is_rtx_enabled
           THEN /\ r.payload = <<packet.seq>> \o packet.payload
                /\ r.seq = (j - 1) % SeqModulus
           ELSE r.payload = packet.payload /\ r.seq = packet.seq

(* A sender report maps the time it is made to the RTP time that the       *)
(* newest packet's timestamp has advanced to since that packet was sent,   *)
(* although the track keeps only 32 bits of the time of sending.           *)
SenderReportExact ==
  sent # <<>> =>
    LET newest == Last(sent)
    IN  SenderReportTimestamp = RtpTimestamp(newest.pts + (now - newest.millis))

(* The round-trip time is never longer than the time since some sender     *)
(* report, across the wrap of compact NTP times and without a report, as   *)
(* long as no receiver overstates its delay; a single unit too much makes  *)
(* it as long as compact NTP time can express.                             *)
RttBounded ==
  ~overshot /\ rtt_ # kDefaultRttMillis => \E t \in reports : rtt_ <= now - t
=============================================================================
