------------------------------ MODULE RtpPacketizer ------------------------------
(***************************************************************************)
(* How an H264 frame in the Annex B byte stream becomes RTP packets        *)
(* (rtp_packet.cpp), and, to compare with, what a receiver makes of them.  *)
(* The search for start codes tells only 0, 1 and larger bytes apart.  A   *)
(* packet is what its header and its payload headers say; payload holds    *)
(* the bytes of the NAL unit in it.                                        *)
(***************************************************************************)
EXTENDS Integers, Sequences, SequencesExt

CONSTANTS
  kMaxRtpPayloadSize,  \* 1200
  SeqModulus           \* a sequence number is a uint16_t: 65536 in the code

ASSUME PacketizerAssumption ==
  /\ kMaxRtpPayloadSize \in Nat /\ kMaxRtpPayloadSize > 2
  /\ SeqModulus \in Nat \ {0}

StartCode == <<0, 0, 1>>

(* Where NAL units start and how long they are; positions count from 0, as *)
(* in the code.  starts[i] are the start codes that the scan finds from i  *)
(* on: it looks at the third byte first, and skips what cannot be part.    *)
PositionsUpTo(buffer, end) ==
  LET Byte(i) == buffer[i + 1]
      starts[i \in 0 .. Len(buffer) + 3] ==
        IF i >= end THEN <<>>
        ELSE IF Byte(i + 2) = 0 THEN starts[i + 1]
        ELSE IF <<Byte(i), Byte(i + 1), Byte(i + 2)>> = StartCode
             THEN <<i>> \o starts[i + 3]
        ELSE starts[i + 3]
      found == starts[0]
      StartOffset(k) ==  \* of the k-th start code, of three or four bytes
        IF found[k] > 0 /\ Byte(found[k] - 1) = 0 THEN found[k] - 1 ELSE found[k]
  IN  [k \in 1 .. Len(found) |->
         [first |-> found[k] + 3,
          length |-> (IF k = Len(found) THEN Len(buffer) ELSE StartOffset(k + 1))
                       - (found[k] + 3)]]

(* A bug the properties have to catch: the scan ends one byte too early.   *)
ParseNaluPositionsShort(buffer) ==
  IF Len(buffer) < 4 THEN <<>> ELSE PositionsUpTo(buffer, Len(buffer) - 4)

ParseNaluPositions(buffer) ==
  IF Len(buffer) < 3 THEN <<>> ELSE PositionsUpTo(buffer, Len(buffer) - 3)

PackSingNalu(data, frame_end_marker) ==
  <<[fu |-> FALSE, marker |-> frame_end_marker, payload |-> data]>>

(* Fragments share the NAL header, and hold two bytes less than a packet.  *)
PackFuA(data, frame_end_marker) ==
  LET room == kMaxRtpPayloadSize - 2
      body == Tail(data)
      last == (Len(body) + room - 1) \div room
  IN  [k \in 1 .. last |->
         [fu |-> TRUE, nal |-> Head(data), start |-> k = 1, end |-> k = last,
          marker |-> k = last /\ frame_end_marker,
          payload |-> SubSeq(body, (k - 1) * room + 1,
                             IF k = last THEN Len(body) ELSE k * room)]]

(* Only the last packet of the last NAL unit has the marker.               *)
PackFrame(buffer) ==
  LET nalus == ParseNaluPositions(buffer)
      Pack(i) ==
        LET data == SubSeq(buffer, nalus[i].first + 1,
                           nalus[i].first + nalus[i].length)
        IN  IF Len(data) <= kMaxRtpPayloadSize
            THEN PackSingNalu(data, i = Len(nalus))
            ELSE PackFuA(data, i = Len(nalus))
  IN  FlattenSeq([i \in 1 .. Len(nalus) |-> Pack(i)])

(* seqnum_++ for each packet, and one timestamp for all.                   *)
Numbered(packets, seqnum, timestamp) ==
  [i \in 1 .. Len(packets) |->
     [seq |-> (seqnum + i - 1) % SeqModulus, timestamp |-> timestamp,
      packet |-> packets[i]]]

-----------------------------------------------------------------------------
(* The reference: the byte stream that a frame is (ITU-T H.264, Annex B),  *)
(* a sequence of NAL units behind start codes of three or four bytes, and  *)
(* what a receiver reassembles from packets that come in order (RFC 6184). *)

Octet == 0 .. 255

(* Emulation prevention keeps these three bytes out of a NAL unit, which   *)
(* never ends with 0.                                                      *)
IsNalUnit(unit) ==
  /\ unit \in Seq(Octet) /\ unit # <<>> /\ Head(unit) # 0 /\ Last(unit) # 0
  /\ \A i \in 1 .. Len(unit) - 2 :
       SubSeq(unit, i, i + 2) \notin {<<0, 0, 0>>, StartCode}

ByteStream(frame) ==
  FlattenSeq([i \in 1 .. Len(frame) |->
                (IF frame[i].long THEN <<0>> ELSE <<>>) \o StartCode
                  \o frame[i].unit])

(* r: the frames complete so far, the NAL units of the one being received, *)
(* the fragments of the unit being received, the number and timestamp that *)
(* came last, and whether all that came was in order.                      *)
Receive(r, p) ==
  LET inPart == r.part # <<>>
      unit == IF ~p.packet.fu THEN p.packet.payload
              ELSE (IF p.packet.start THEN <<p.packet.nal>> ELSE r.part)
                     \o p.packet.payload
      whole == ~p.packet.fu \/ p.packet.end
      units == IF whole THEN Append(r.units, unit) ELSE r.units
      sameFrame == r.units # <<>> \/ inPart
  IN  [ok |-> /\ r.ok
              /\ p.seq = (r.seq + 1) % SeqModulus
              /\ sameFrame => p.timestamp = r.timestamp
              /\ inPart <=> (p.packet.fu /\ ~p.packet.start)
              /\ Len(p.packet.payload) + (IF p.packet.fu THEN 2 ELSE 0)
                   \in 1 .. kMaxRtpPayloadSize
              /\ p.packet.fu => ~(p.packet.start /\ p.packet.end),
       seq |-> p.seq, timestamp |-> p.timestamp,
       part |-> IF whole THEN <<>> ELSE unit,
       units |-> IF p.packet.marker THEN <<>> ELSE units,
       frames |-> IF p.packet.marker THEN Append(r.frames, units) ELSE r.frames]

Received(wire) ==
  FoldLeft(Receive,
           [ok |-> TRUE, seq |-> SeqModulus - 1, timestamp |-> 0, part |-> <<>>,
            units |-> <<>>, frames |-> <<>>], wire)
=============================================================================
