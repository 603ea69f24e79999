------------------------------- MODULE RtcpCompound -------------------------------
(***************************************************************************)
(* The walk over a compound RTCP packet (rtcp_packet.cpp), byte for byte   *)
(* where lengths decide.  A datagram is a sequence of 32-bit words, each a *)
(* pair of 16-bit halves, and the 0..3 bytes that follow the last of them: *)
(* whatever word the walk takes for a header is read as one.               *)
(***************************************************************************)
EXTENDS Integers, Sequences, SequencesExt

kRtcpTypeRr == 201
kRtcpTypeSdes == 202
kRtcpTypeRtpfb == 205
kRtcpTypePsfb == 206
kRtcpExpectedVersion == 2

Half == 0 .. 65535
Word == Half \X Half

(* The common header: version, padding, count or format and type; length.  *)
HeaderWord(count_or_format, packet_type, length) ==
  <<kRtcpExpectedVersion * 16384 + count_or_format * 256 + packet_type, length>>

Version(word) == word[1] \div 16384
CountOrFormat(word) == (word[1] \div 256) % 32
PacketType(word) == word[1] % 256

(* Is this a datagram of RTCP, as far as its first bytes tell? *)
IsRtcp(datagram) ==
  /\ datagram.words # <<>>
  /\ Version(Head(datagram.words)) = kRtcpExpectedVersion
  /\ PacketType(Head(datagram.words)) \in {192, 195} \cup 200 .. 207

(* The sequence numbers one item of a NACK asks for: pid is a uint16_t.    *)
LostNumbers(pid, blp) ==
  <<pid>> \o FlattenSeq([k \in 1 .. 16 |->
                 IF (blp \div 2 ^ (k - 1)) % 2 = 1 THEN <<(pid + k) % 65536>> ELSE <<>>])

(* A bug the properties have to catch: the first bit of blp is for pid     *)
(* itself.                                                                 *)
NackItemAtPid(word) == LostNumbers((word[1] - 1) % 65536, word[2])

NackItem(word) == LostNumbers(word[1], word[2])

(* What Parse of the packet whose header is words[i] makes of it: next is  *)
(* the index of the next header, 0 when Parse returns false.               *)
Failed == [next |-> 0]

(* NackPacket::Parse.  With a length below two words the number of items   *)
(* wraps round, and the reader runs out of bytes.                          *)
ParseNack(words, i) ==
  LET length == words[i][2]
  IN  IF length < 2 \/ i + length > Len(words) THEN Failed
      ELSE [next |-> i + 1 + length, kind |-> "nack",
            media_ssrc |-> words[i + 2],
            lost |-> FlattenSeq([k \in 1 .. length - 2 |->
                                   NackItem(words[i + 2 + k])])]

(* ReceiverReportPacket::Parse reads what the count says, not the length.  *)
ParseReceiverReport(words, i) ==
  LET count == CountOrFormat(words[i])
      Block(k) == i + 2 + 6 * (k - 1)
  IN  IF i + 1 + 6 * count > Len(words) THEN Failed
      ELSE [next |-> i + 2 + 6 * count, kind |-> "rr",
            blocks |-> [k \in 1 .. count |->
                          [source_ssrc |-> words[Block(k)],
                           last_sr |-> words[Block(k) + 4]]]]

ParseOther(words, i) ==
  LET length == words[i][2]
  IN  IF i + length > Len(words) THEN Failed
      ELSE [next |-> i + 1 + length, kind |-> "other"]

ParsePacket(words, i) ==
  CASE PacketType(words[i]) = kRtcpTypeRtpfb /\ CountOrFormat(words[i]) = 1
         -> ParseNack(words, i)
    [] PacketType(words[i]) = kRtcpTypeRr -> ParseReceiverReport(words, i)
    [] OTHER -> ParseOther(words, i)

(* RtcpCompound::Parse: a packet that fails fails the whole, as do two or  *)
(* three bytes after the last one; a single byte is left alone.            *)
ParseCompound(datagram) ==
  LET words == datagram.words
      walk[i \in 1 .. Len(words) + 1] ==
        IF i > Len(words)
        THEN [ok |-> datagram.tail < 2, packets |-> <<>>]
        ELSE LET packet == ParsePacket(words, i)
             IN  IF packet.next = 0 THEN [ok |-> FALSE, packets |-> <<>>]
                 ELSE [walk[packet.next] EXCEPT
                         !.packets = IF walk[packet.next].ok
                                     THEN <<packet>> \o @ ELSE <<>>]
  IN  walk[1]

-----------------------------------------------------------------------------
(* The reference: compound packets as a receiver of media writes them (RFC *)
(* 3550, RFC 4585), without padding and profile-specific extensions.       *)

NoReport == <<0, 0>>

ReportBlocks == [source_ssrc : Word, last_sr : Word]

(* m.kind is "rr" with m.blocks, "nack" with m.ssrc and m.items, or "other" *)
(* with m.format, m.type and m.length words of content.                    *)
PacketWords(m) ==
  CASE m.kind = "rr" ->
         <<HeaderWord(Len(m.blocks), kRtcpTypeRr, 1 + 6 * Len(m.blocks)), <<0, 1>>>>
           \o FlattenSeq([k \in 1 .. Len(m.blocks) |->
                <<m.blocks[k].source_ssrc, NoReport, NoReport, NoReport,
                  m.blocks[k].last_sr, NoReport>>])
    [] m.kind = "nack" ->
         <<HeaderWord(1, kRtcpTypeRtpfb, 2 + Len(m.items)), <<0, 1>>, m.ssrc>>
           \o m.items
    [] m.kind = "other" ->
         <<HeaderWord(m.format, m.type, m.length)>>
           \o [k \in 1 .. m.length |-> <<0, k>>]

(* What fits the fields of a packet, and is of another kind when it says so. *)
WellFormed(m) ==
  \/ m.kind = "rr" /\ m.blocks \in Seq(ReportBlocks) /\ Len(m.blocks) < 32
  \/ m.kind = "nack" /\ m.ssrc \in Word /\ m.items \in Seq(Word) /\ 2 + Len(m.items) \in Half
  \/ /\ m.kind = "other"
     /\ m.format \in 0 .. 31 /\ m.type \in 200 .. 207 \ {kRtcpTypeRr}
     /\ m.type = kRtcpTypeRtpfb => m.format # 1
     /\ m.length \in Half

(* The bytes that the packets of m are.                                    *)
Datagram(m) ==
  [words |-> FlattenSeq([k \in 1 .. Len(m) |-> PacketWords(m[k])]), tail |-> 0]

(* A sequence number is asked for when it is the pid of an item, or when   *)
(* its distance from the pid is one whose bit is set.                      *)
Asked(items) ==
  {n \in UNION {{(items[j][1] + k) % 65536 : k \in 0 .. 16} : j \in DOMAIN items} :
     \E j \in DOMAIN items :
       LET distance == (n - items[j][1]) % 65536
       IN  \/ distance = 0
           \/ distance \in 1 .. 16 /\ (items[j][2] \div 2 ^ (distance - 1)) % 2 = 1}
=============================================================================
