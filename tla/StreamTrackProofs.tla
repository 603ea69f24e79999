--------------------------- MODULE StreamTrackProofs ---------------------------
(***************************************************************************)
(* Proofs about StreamTrack, for any width of sequence numbers and words,  *)
(* any ring, any clock rate that is a multiple of the milliseconds in a    *)
(* second, any times and any number of packets, NACKs and reports.         *)
(*                                                                         *)
(* Sender reports and the round-trip time are arithmetic: what the code    *)
(* keeps is congruent to what it stands for, and congruent numbers stay so *)
(* when they are multiplied and added; a difference of compact times is at *)
(* most a unit longer than the time itself, which the rounding back to     *)
(* milliseconds takes off.  Retransmissions rest on what the ring holds:   *)
(* the newest packet of each slot, in one of two forms, with the time of   *)
(* its last retransmission (HeldInv); a NACK is a fold over its numbers,   *)
(* each of which keeps that (ResendLostKeeps, FoldProofs).                 *)
(***************************************************************************)
EXTENDS StreamTrack, SequenceTheorems, TLAPS

R == INSTANCE FoldProofs WITH Op <- ResendLost

(* The times are in order, and what the track keeps of its newest packet   *)
(* is what it has of it, modulo the width of a word.                       *)
TimesInv ==
  /\ now \in Nat /\ pts \in Nat
  /\ reports \subseteq 0..now
  /\ seqnum_ \in SeqNum /\ rtt_ \in Int /\ overshot \in BOOLEAN
  /\ sent \in Seq([seq : SeqNum, payload : Seq(Nat), timestamp : Word,
                   pts : Nat, millis : Nat])

KeptInv ==
  sent # <<>> =>
    LET newest == sent[Len(sent)]
    IN  /\ max_rtp_timestamp_ = RtpTimestamp(newest.pts)
        /\ max_packet_millis_ = newest.millis % WordModulus

(* The inductive invariant. *)
IInv == TimesInv /\ KeptInv /\ RttBounded

(* What is sent is numbered and counted.                                   *)
SentInv ==
  /\ seqnum_ = Len(sent) % SeqModulus
  /\ \A k \in 1..Len(sent) :
       /\ sent[k].seq = (k - 1) % SeqModulus /\ sent[k].payload = <<k>>
       /\ sent[k].timestamp = RtpTimestamp(sent[k].pts)

StoredPackets ==
  [seq : SeqNum, payload : Seq(Nat), size : {1}, timestamp : Word,
   resent_millisecs : Nat, is_rtx : BOOLEAN]
Rings == UNION {[slots -> StoredPackets] : slots \in SUBSET (0..(kSendBufferCapacity - 1))}
Resends == [seq : SeqNum, payload : Seq(Nat), millis : Nat \ {0}, rtt : Nat]

(* What a NACK changes, as ResendLost has it.                              *)
Tracks == [send_buffer_ : Rings, rtx_sequence_number_ : SeqNum, resent : Seq(Resends)]
Track ==
  [send_buffer_ |-> send_buffer_, rtx_sequence_number_ |-> rtx_sequence_number_,
   resent |-> resent]

(* The slot holds the k-th packet, the newest one of that slot, in its     *)
(* place or behind its number, and the time it was last sent again.        *)
Holds(t, slot, k) ==
  LET pkt == t.send_buffer_[slot]
  IN  /\ Slot(sent[k].seq) = slot
      /\ \A m \in (k + 1)..Len(sent) : Slot(sent[m].seq) # slot
      /\ pkt.timestamp = sent[k].timestamp
      /\ IF pkt.is_rtx THEN is_rtx_enabled /\ pkt.payload = <<sent[k].seq, k>>
         ELSE pkt.payload = <<k>> /\ pkt.seq = sent[k].seq
      /\ pkt.resent_millisecs <= now
      /\ \A j \in 1..Len(t.resent) :
           Repeats(t.resent[j]) = k => t.resent[j].millis <= pkt.resent_millisecs
      /\ pkt.resent_millisecs # 0 =>
           \E j \in 1..Len(t.resent) :
             Repeats(t.resent[j]) = k /\ t.resent[j].millis = pkt.resent_millisecs

HeldInv(t) ==
  /\ \A slot \in DOMAIN t.send_buffer_ : \E k \in 1..Len(sent) : Holds(t, slot, k)
  /\ \A k \in 1..Len(sent) : Slot(sent[k].seq) \in DOMAIN t.send_buffer_

(* ResendsPaced and ResendsWellFormed, of what a NACK has made so far.     *)
Paced(t) ==
  \A i, j \in 1..Len(t.resent) :
    i < j /\ Repeats(t.resent[i]) = Repeats(t.resent[j]) =>
      t.resent[j].millis - t.resent[i].millis > t.resent[j].rtt

WellFormed(t) ==
  /\ is_rtx_enabled => t.rtx_sequence_number_ = Len(t.resent) % SeqModulus
  /\ \A j \in 1..Len(t.resent) :
       LET r == t.resent[j]
           k == Repeats(r)
       IN  /\ k \in 1..Len(sent)
           /\ IF is_rtx_enabled
              THEN r.payload = <<sent[k].seq, k>> /\ r.seq = (j - 1) % SeqModulus
              ELSE r.payload = <<k>> /\ r.seq = sent[k].seq

TrackInv(t) == t \in Tracks /\ HeldInv(t) /\ Paced(t) /\ WellFormed(t)

(* The bounds, and the rest of the types.                                  *)
CountsInv ==
  /\ now \in StartMillis..(StartMillis + MaxMillis) /\ is_rtx_enabled \in BOOLEAN
  /\ max_rtp_timestamp_ \in Word /\ max_packet_millis_ \in Word
  /\ rtt_ \in Nat /\ send_packet_count_ \in Word
  /\ Len(sent) <= MaxPackets /\ Len(resent) <= nacked /\ nacked \in 0..MaxResent

RingInv == SentInv /\ CountsInv /\ TrackInv(Track)
-----------------------------------------------------------------------------
(* Division with remainder. *)

(* A number is its quotient times the divisor, and the remainder. *)
LEMMA DivMod ==
  ASSUME NEW a \in Int, NEW n \in Nat \ {0}
  PROVE  /\ a = n * (a \div n) + (a % n)
         /\ a % n \in 0..(n - 1) /\ a \div n \in Int
OBVIOUS

(* A multiple of at least one is at least the number. *)
LEMMA TimesAtLeast ==
  ASSUME NEW n \in Nat \ {0}, NEW k \in Int, k >= 1
  PROVE  n * k >= n
OBVIOUS

(* No other quotient and remainder will do. *)
LEMMA ModUnique ==
  ASSUME NEW a \in Int, NEW n \in Nat \ {0}, NEW k \in Int, NEW r \in 0..(n - 1), a = n * k + r
  PROVE  a % n = r /\ a \div n = k
<1> DEFINE q == a \div n
           s == a % n
<1>1. a = n * q + s /\ s \in 0..(n - 1) /\ q \in Int
  BY DivMod
<1> HIDE DEF q, s
<1>2. n * (q - k) = r - s
  BY <1>1
<1>3. ~(q - k >= 1)
  <2> SUFFICES ASSUME q - k >= 1 PROVE FALSE
    OBVIOUS
  <2>1. n * (q - k) >= n
    BY <1>1, TimesAtLeast
  <2> QED BY <2>1, <1>1, <1>2
<1>4. ~(k - q >= 1)
  <2> SUFFICES ASSUME k - q >= 1 PROVE FALSE
    OBVIOUS
  <2>1. n * (k - q) >= n
    BY <1>1, TimesAtLeast
  <2>2. n * (k - q) = s - r
    BY <1>1
  <2> QED BY <2>1, <1>1, <2>2
<1>5. q = k
  BY <1>1, <1>3, <1>4
<1>6. s = r
  BY <1>1, <1>5
<1> QED BY <1>5, <1>6 DEF q, s

(* Multiples of the modulus do not count. *)
LEMMA ModPlus ==
  ASSUME NEW a \in Int, NEW b \in Int, NEW n \in Nat \ {0}, NEW k \in Int, a = b + n * k
  PROVE  a % n = b % n
<1> DEFINE q == b \div n
           s == b % n
<1>1. b = n * q + s /\ s \in 0..(n - 1) /\ q \in Int
  BY DivMod
<1> HIDE DEF q, s
<1>2. a = n * (q + k) + s
  BY <1>1
<1>3. q + k \in Int
  BY <1>1
<1>4. a % n = s
  BY <1>1, <1>2, <1>3, ModUnique
<1> QED BY <1>4 DEF s

(* The number after a remainder. *)
LEMMA NextNumber ==
  ASSUME NEW a \in Nat, NEW n \in Nat \ {0}
  PROVE  ((a % n) + 1) % n = (a + 1) % n
<1> DEFINE q == a \div n
           b == (a % n) + 1
           c == a + 1
<1>1. c = b + n * q /\ b \in Int /\ c \in Int /\ q \in Int
  <2>1. a = n * q + (a % n) /\ a % n \in 0..(n - 1) /\ q \in Int
    BY DivMod
  <2> HIDE DEF q
  <2> QED BY <2>1
<1> HIDE DEF q, b, c
<1>2. c % n = b % n
  BY <1>1, ModPlus
<1> QED BY <1>2 DEF b, c

(* A number that is not negative is not less than its remainder.           *)
LEMMA ModAtMost ==
  ASSUME NEW a \in Nat, NEW n \in Nat \ {0}
  PROVE  a % n <= a
<1>1. a % n \in 0..(n - 1) /\ (a < n => a % n = a)
  OBVIOUS
<1> QED BY <1>1

(* A clock rate is a whole number of ticks in a millisecond.               *)
LEMMA TicksPerMillisecond ==
  \E d \in Nat : /\ clock_rate = MillisPerSecond * d
                 /\ \A x \in Int : (x * clock_rate) \div MillisPerSecond = x * d
<1> DEFINE d == clock_rate \div MillisPerSecond
<1>1. clock_rate = MillisPerSecond * d /\ d \in Int
  BY ClockAssumption, TimeAssumption, DivMod
<1>2. d \in Nat
  BY ClockAssumption, TimeAssumption
<1> HIDE DEF d
<1>3. ASSUME NEW x \in Int PROVE (x * clock_rate) \div MillisPerSecond = x * d
  <2>1. x * clock_rate = MillisPerSecond * (x * d) + 0
    BY <1>1, TimeAssumption
  <2>2. x * clock_rate \in Int /\ x * d \in Int /\ 0 \in 0..(MillisPerSecond - 1)
    BY <1>2, ClockAssumption, TimeAssumption
  <2> QED BY <2>1, <2>2, ModUnique, TimeAssumption
<1> QED BY <1>1, <1>2, <1>3

(* What the newest packet's timestamp and time are congruent to is enough  *)
(* to tell the time of a report.                                           *)
LEMMA ReportTime ==
  ASSUME NEW p \in Nat, NEW m \in Nat, NEW x \in Nat
  PROVE  (RtpTimestamp(p)
            + ((x - (m % WordModulus)) * clock_rate) \div MillisPerSecond)
            % WordModulus
         = RtpTimestamp(p + (x - m))
<1>1. PICK d \in Nat :
        \A y \in Int : (y * clock_rate) \div MillisPerSecond = y * d
  BY TicksPerMillisecond
<1> DEFINE W == WordModulus
           u == (p * d) % W
           v == m % W
           q == (p * d) \div W
           r == m \div W
<1>2. W \in Nat \ {0}
  BY ModulusAssumption
<1>3. p * d = W * q + u /\ u \in Int /\ q \in Int
  BY <1>2, DivMod
<1>4. m = W * r + v /\ v \in Int /\ r \in Int
  BY <1>2, DivMod
<1>5. /\ RtpTimestamp(p) = u
      /\ RtpTimestamp(p + (x - m)) = ((p + (x - m)) * d) % W
      /\ ((x - v) * clock_rate) \div MillisPerSecond = (x - v) * d
  BY <1>1, <1>4 DEF RtpTimestamp
<1> HIDE DEF W, u, v, q, r
<1>6. u + (x - v) * d = (p + (x - m)) * d + W * (r * d - q)
  <2>1. (p + (x - m)) * d = p * d + x * d - m * d
    OBVIOUS
  <2>2. (x - v) * d = x * d - v * d
    BY <1>4
  <2>3. m * d = W * (r * d) + v * d
    BY <1>2, <1>4
  <2>4. W * (r * d - q) = W * (r * d) - W * q
    BY <1>2, <1>3, <1>4
  <2>5. x * d \in Int /\ v * d \in Int /\ W * (r * d) \in Int /\ W * q \in Int
    BY <1>2, <1>3, <1>4
  <2> QED BY <2>1, <2>2, <2>3, <2>4, <2>5, <1>3
<1>7. (u + (x - v) * d) % W = ((p + (x - m)) * d) % W
  <2> DEFINE a == u + (x - v) * d
             b == (p + (x - m)) * d
             k == r * d - q
  <2>1. a \in Int /\ b \in Int /\ k \in Int /\ a = b + W * k
    BY <1>3, <1>4, <1>6
  <2> HIDE DEF a, b, k
  <2>2. a % W = b % W
    BY ONLY <2>1, <1>2, ModPlus
  <2> QED BY <2>2 DEF a, b
<1> QED BY <1>5, <1>7 DEF v, W

(* A compact time is a number. *)
LEMMA CompactIsInt ==
  ASSUME NEW x \in Nat
  PROVE  ToCompactNtp(x) \in Int
<1> DEFINE a == (x * CompactPerSecond) \div MillisPerSecond
<1>1. a \in Int
  BY TimeAssumption
<1> HIDE DEF a
<1>2. a % WordModulus \in Int
  BY <1>1, ModulusAssumption
<1> QED BY <1>2 DEF a, ToCompactNtp

(* The compact NTP time between two times is at most their difference, and *)
(* a unit less one.                                                        *)
LEMMA CompactPassed ==
  ASSUME NEW x \in Nat, NEW t \in Nat, t <= x
  PROVE  LET passed == (ToCompactNtp(x) - ToCompactNtp(t)) % WordModulus
         IN  /\ passed \in 0..(WordModulus - 1)
             /\ passed * MillisPerSecond
                  <= (x - t) * CompactPerSecond + MillisPerSecond - 1
<1> DEFINE W == WordModulus
           K == MillisPerSecond
           P == CompactPerSecond
           fx == (x * P) \div K
           ft == (t * P) \div K
           rx == (x * P) % K
           rt == (t * P) % K
           passed == ((fx % W) - (ft % W)) % W
<1>1. W \in Nat \ {0} /\ K \in Nat \ {0} /\ P \in Nat \ {0}
  BY ModulusAssumption, TimeAssumption
<1>2. passed = (ToCompactNtp(x) - ToCompactNtp(t)) % WordModulus
  BY DEF ToCompactNtp
<1>3. x * P = K * fx + rx /\ rx \in 0..(K - 1) /\ fx \in Int
  BY <1>1, DivMod
<1>4. t * P = K * ft + rt /\ rt \in 0..(K - 1) /\ ft \in Int
  BY <1>1, DivMod
<1> HIDE DEF W, K, P, fx, ft, rx, rt
<1>5. K * (fx - ft) = (x - t) * P + rt - rx
  <2>1. (x - t) * P = x * P - t * P
    BY <1>1
  <2>2. K * (fx - ft) = K * fx - K * ft
    BY <1>1, <1>3, <1>4
  <2> QED BY <2>1, <2>2, <1>1, <1>3, <1>4
<1>6. fx - ft \in Nat
  <2>1. (x - t) * P >= 0
    BY <1>1
  <2>2. K * (fx - ft) > 0 - K
    BY <2>1, <1>1, <1>3, <1>4, <1>5
  <2>3. ~(ft - fx >= 1)
    <3> SUFFICES ASSUME ft - fx >= 1 PROVE FALSE
      OBVIOUS
    <3>1. K * (ft - fx) >= K
      BY <1>1, <1>3, <1>4, TimesAtLeast
    <3>2. K * (ft - fx) = 0 - K * (fx - ft)
      BY <1>1, <1>3, <1>4
    <3> QED BY <3>1, <3>2, <2>2, <1>1, <1>3, <1>4
  <2> QED BY <2>3, <1>3, <1>4
<1>7. passed = (fx - ft) % W
  <2>1. /\ fx = W * (fx \div W) + (fx % W) /\ fx % W \in Int /\ fx \div W \in Int
        /\ ft = W * (ft \div W) + (ft % W) /\ ft % W \in Int /\ ft \div W \in Int
    BY <1>1, <1>3, <1>4, DivMod
  <2> DEFINE i == fx \div W
             j == ft \div W
             a == fx % W
             b == ft % W
  <2>2. a - b = (fx - ft) + W * (j - i)
    <3> HIDE DEF i, j, a, b
    <3>1. /\ fx = W * i + a /\ a \in Int /\ i \in Int
          /\ ft = W * j + b /\ b \in Int /\ j \in Int
      BY <2>1 DEF i, j, a, b
    <3>2. W * (j - i) = W * j - W * i
      BY <3>1, <1>1
    <3>3. W * j \in Int /\ W * i \in Int
      BY <3>1, <1>1
    <3> QED BY <3>1, <3>2, <3>3, <1>3, <1>4
  <2>3. a - b \in Int /\ fx - ft \in Int /\ j - i \in Int
    BY <2>1, <1>3, <1>4
  <2>4. (a - b) % W = (fx - ft) % W
    <3> DEFINE c == a - b
               e == fx - ft
               k == j - i
    <3>1. c \in Int /\ e \in Int /\ k \in Int /\ c = e + W * k
      BY <2>2, <2>3
    <3> HIDE DEF c, e, k
    <3>2. c % W = e % W
      BY ONLY <3>1, <1>1, ModPlus
    <3> QED BY <3>2 DEF c, e
  <2> QED BY <2>4
<1>8. passed \in 0..(W - 1) /\ passed <= fx - ft
  <2> DEFINE e == fx - ft
  <2>1. e \in Nat /\ passed = e % W
    BY <1>6, <1>7
  <2> HIDE DEF e, passed
  <2>2. e % W \in 0..(W - 1)
    BY ONLY <2>1, <1>1
  <2>3. e % W <= e
    BY ONLY <2>1, <1>1, ModAtMost
  <2> QED BY <2>1, <2>2, <2>3 DEF e
<1> HIDE DEF passed
<1>9. passed * K <= K * (fx - ft)
  <2>1. \A k \in Nat : k * K >= 0
    BY <1>1
  <2>2. fx - ft - passed \in Nat /\ passed \in Nat
    BY <1>1, <1>6, <1>8
  <2>3. (fx - ft - passed) * K = K * (fx - ft) - passed * K
    BY <2>2, <1>1, <1>6
  <2>4. K * (fx - ft) \in Int /\ passed * K \in Int
    BY <2>2, <1>1, <1>6
  <2> QED BY <2>1, <2>2, <2>3, <2>4
<1>10. passed * K <= (x - t) * P + K - 1
  <2>1. passed * K \in Int /\ (x - t) * P \in Int /\ K * (fx - ft) \in Int
    BY <1>1, <1>6, <1>8
  <2> QED BY <2>1, <1>1, <1>3, <1>4, <1>5, <1>9
<1> QED BY <1>2, <1>8, <1>10 DEF W, K, P

(* Rounding back to milliseconds takes that unit off again.                *)
LEMMA RoundedBack ==
  ASSUME NEW y \in Nat, NEW d \in Nat,
         y * MillisPerSecond <= d * CompactPerSecond + MillisPerSecond - 1
  PROVE  ToMillis(y) \in Int /\ ToMillis(y) <= d
<1> DEFINE K == MillisPerSecond
           P == CompactPerSecond
           a == 2 * y * K + P
           n == 2 * P
           z == a \div n
<1>1. K \in Nat \ {0} /\ P \in Nat \ {0} /\ 2 * K <= P
  BY TimeAssumption
<1>2. a \in Int /\ n \in Nat \ {0}
  BY <1>1
<1>3. a = n * z + (a % n) /\ a % n \in 0..(n - 1) /\ z \in Int
  <2> HIDE DEF a, n, z
  <2> QED BY <1>2, DivMod DEF z
<1>4. y * K <= d * P + K - 1
  OBVIOUS
<1>5. a < n * d + n
  <2>1. 2 * y * K = 2 * (y * K) /\ n * d = 2 * (d * P)
    BY <1>1
  <2>2. y * K \in Int /\ d * P \in Int
    BY <1>1
  <2> QED BY <2>1, <2>2, <1>1, <1>4
<1>6. ToMillis(y) = z
  BY DEF ToMillis
<1> HIDE DEF K, P, a, n, z
<1>7. ~(z - d >= 1)
  <2> SUFFICES ASSUME z - d >= 1 PROVE FALSE
    OBVIOUS
  <2>1. n * (z - d) >= n
    BY <1>2, <1>3, TimesAtLeast
  <2>2. n * (z - d) = n * z - n * d
    BY <1>2, <1>3
  <2>3. n * z \in Int /\ n * d \in Int
    BY <1>2, <1>3
  <2> QED BY <2>1, <2>2, <2>3, <1>2, <1>3, <1>5
<1> QED BY <1>3, <1>6, <1>7

(* A round-trip time from a report of time t, received now.                *)
LEMMA RttAtMost ==
  ASSUME NEW t \in Nat, now \in Nat, t <= now,
         NEW delay \in Nat,
         delay <= (ToCompactNtp(now) - ToCompactNtp(t)) % WordModulus
  PROVE  ToMillis((ToCompactNtp(now) - delay - ToCompactNtp(t)) % WordModulus)
           <= now - t
<1> DEFINE W == WordModulus
           x == ToCompactNtp(now)
           y == ToCompactNtp(t)
           passed == (x - y) % W
<1>1. W \in Nat \ {0}
  BY ModulusAssumption
<1>2. x \in Int /\ y \in Int
  BY ModulusAssumption, TimeAssumption DEF ToCompactNtp
<1>3. /\ passed \in 0..(W - 1)
      /\ passed * MillisPerSecond
           <= (now - t) * CompactPerSecond + MillisPerSecond - 1
  BY CompactPassed
<1>4. delay <= passed
  OBVIOUS
<1> HIDE DEF W, x, y
<1>5. (x - delay - y) % W = passed - delay
  <2>1. x - y = W * ((x - y) \div W) + passed /\ (x - y) \div W \in Int
    BY <1>1, <1>2, DivMod
  <2>2. passed - delay \in 0..(W - 1)
    BY <1>1, <1>3, <1>4
  <2> HIDE DEF passed
  <2>3. x - delay - y = W * ((x - y) \div W) + (passed - delay)
    <3>1. W * ((x - y) \div W) \in Int /\ passed \in Int
      BY <2>1, <1>1, <1>3
    <3> QED BY <3>1, <2>1, <1>2
  <2> DEFINE a == x - delay - y
             k == (x - y) \div W
             r == passed - delay
  <2>4. a \in Int /\ k \in Int /\ r \in 0..(W - 1) /\ a = W * k + r
    BY <2>1, <2>2, <2>3, <1>2
  <2> HIDE DEF a, k, r
  <2>5. a % W = r
    BY ONLY <2>4, <1>1, ModUnique
  <2> QED BY <2>5 DEF a, r
<1> HIDE DEF passed
<1>6. (passed - delay) * MillisPerSecond
        <= (now - t) * CompactPerSecond + MillisPerSecond - 1
  <2>1. (passed - delay) * MillisPerSecond
          = passed * MillisPerSecond - delay * MillisPerSecond
    BY <1>1, <1>3, TimeAssumption
  <2>2. /\ delay * MillisPerSecond >= 0 /\ delay * MillisPerSecond \in Int
        /\ passed * MillisPerSecond \in Int
        /\ (now - t) * CompactPerSecond \in Int
    BY <1>1, <1>3, TimeAssumption
  <2> QED BY <2>1, <2>2, <1>3, TimeAssumption
<1>7. passed - delay \in Nat /\ now - t \in Nat
  BY <1>1, <1>3, <1>4
<1>8. ToMillis(passed - delay) <= now - t
  BY <1>6, <1>7, RoundedBack
<1> QED BY <1>5, <1>8 DEF x, y, W
-----------------------------------------------------------------------------
(* The invariant. *)

(* The track starts with it. *)
LEMMA IInvInit == Init => IInv
<1> SUFFICES ASSUME Init PROVE IInv
  OBVIOUS
<1>1. TimesInv
  <2>1. now \in Nat /\ pts \in Nat /\ rtt_ \in Int
    BY TimeAssumption DEF Init
  <2>2. overshot \in BOOLEAN /\ reports \subseteq 0..now
    BY DEF Init
  <2>3. seqnum_ \in SeqNum
    BY ModulusAssumption DEF Init, SeqNum
  <2> DEFINE Packets == [seq : SeqNum, payload : Seq(Nat), timestamp : Word,
                         pts : Nat, millis : Nat]
  <2>4. sent \in Seq(Packets)
    <3> HIDE DEF Packets
    <3> QED BY DEF Init
  <2> QED BY <2>1, <2>2, <2>3, <2>4 DEF TimesInv
<1>2. KeptInv /\ RttBounded
  BY DEF Init, KeptInv, RttBounded
<1> QED BY <1>1, <1>2 DEF IInv

(* A packet that is sent is the newest one.                                *)
LEMMA KeptBySending ==
  ASSUME IInv, NEW step \in FrameSteps, OnRtpPacketGenerated(step)
  PROVE  IInv'
<1> DEFINE packet == [seq |-> seqnum_, payload |-> <<Len(sent) + 1>>,
                      timestamp |-> RtpTimestamp(pts'), pts |-> pts',
                      millis |-> now]
           Packets == [seq : SeqNum, payload : Seq(Nat), timestamp : Word,
                       pts : Nat, millis : Nat]
<1>1. /\ pts' \in Nat /\ now' = now /\ now \in Nat
      /\ sent' = Append(sent, packet)
      /\ max_rtp_timestamp_' = RtpTimestamp(pts')
      /\ max_packet_millis_' = now % WordModulus
      /\ UNCHANGED <<rtt_, reports, overshot>>
  BY FrameStepsAssumption
  DEF OnRtpPacketGenerated, ReceivePacket, IInv, TimesInv
<1>2. /\ sent \in Seq(Packets) /\ seqnum_ \in SeqNum /\ reports \subseteq 0..now
      /\ rtt_ \in Int /\ overshot \in BOOLEAN
  BY DEF IInv, TimesInv
<1>3. packet \in Packets
  <2>1. RtpTimestamp(pts') \in Word
    <3> DEFINE a == (pts' * clock_rate) \div MillisPerSecond
    <3>1. a \in Int
      BY <1>1, ClockAssumption, TimeAssumption
    <3> HIDE DEF a
    <3>2. a % WordModulus \in Word
      BY <3>1, ModulusAssumption DEF Word
    <3> QED BY <3>2 DEF a, RtpTimestamp
  <2>2. <<Len(sent) + 1>> \in Seq(Nat)
    BY <1>2
  <2> QED BY <2>1, <2>2, <1>1, <1>2
<1>4. seqnum_' \in SeqNum
  BY <1>2, ModulusAssumption DEF OnRtpPacketGenerated, SeqNum
<1>5. /\ sent' \in Seq(Packets) /\ sent' # <<>>
      /\ sent'[Len(sent')] = packet
  <2> HIDE DEF packet, Packets
  <2> QED BY <1>1, <1>2, <1>3
<1>6. TimesInv'
  BY <1>1, <1>2, <1>4, <1>5 DEF TimesInv
<1>7. KeptInv'
  BY <1>1, <1>5 DEF KeptInv, RtpTimestamp
<1>8. RttBounded'
  BY <1>1 DEF RttBounded, IInv
<1> QED BY <1>6, <1>7, <1>8 DEF IInv

(* A report changes nothing but the round-trip time, which it bounds       *)
(* unless the receiver overstates its delay.                               *)
LEMMA KeptByReports ==
  ASSUME IInv, ReceiverReports
  PROVE  IInv'
<1>1. PICK last_sr \in Int, delay \in Int :
        /\ ReceiveReceiverReport(last_sr, delay)
        /\ overshot' \in BOOLEAN
  <2>1. CASE ReceiveReceiverReport(0, 0) /\ UNCHANGED overshot
    BY <2>1 DEF IInv, TimesInv
  <2>2. ASSUME NEW t \in reports,
               NEW d \in 0..(((ToCompactNtp(now) - ToCompactNtp(t)) % WordModulus) + 1),
               ReceiveReceiverReport(ToCompactNtp(t), d),
               overshot' = (overshot \/
                 (ToCompactNtp(t) # 0
                  /\ d > (ToCompactNtp(now) - ToCompactNtp(t)) % WordModulus))
        PROVE  \E l, e \in Int : ReceiveReceiverReport(l, e) /\ overshot' \in BOOLEAN
    <3>1. t \in Nat /\ now \in Nat /\ d \in Int
      BY DEF IInv, TimesInv
    <3>2. ToCompactNtp(t) \in Int
      BY <3>1, CompactIsInt
    <3> QED BY <2>2, <3>1, <3>2
  <2> QED BY <2>1, <2>2 DEF ReceiverReports
<1>2. UNCHANGED <<now, pts, seqnum_, reports, sent, max_rtp_timestamp_,
                  max_packet_millis_>>
  BY <1>1 DEF ReceiveReceiverReport
<1>3. TimesInv'
  <2>1. rtt_' = Rtt(last_sr, delay)
    BY <1>1 DEF ReceiveReceiverReport
  <2>2. rtt_' \in Int
    <3>1. ToCompactNtp(now) \in Int
      BY CompactIsInt DEF IInv, TimesInv
    <3> DEFINE a == ToCompactNtp(now) - delay - last_sr
    <3>2. a \in Int
      BY <3>1
    <3> HIDE DEF a
    <3>3. a % WordModulus \in Int
      BY <3>2, ModulusAssumption
    <3>4. ToMillis(a % WordModulus) \in Int
      BY <3>3, TimeAssumption DEF ToMillis
    <3> QED BY <2>1, <3>4 DEF Rtt, a, IInv, TimesInv
  <2> QED BY <1>1, <1>2, <2>2 DEF IInv, TimesInv
<1>4. KeptInv'
  BY <1>2 DEF IInv, KeptInv, RtpTimestamp
<1>5. RttBounded'
  <2>1. CASE ReceiveReceiverReport(0, 0) /\ UNCHANGED overshot
    <3>1. rtt_' = rtt_
      BY <2>1 DEF ReceiveReceiverReport, Rtt
    <3> QED BY <3>1, <2>1, <1>2 DEF IInv, RttBounded
  <2>2. ASSUME NEW t \in reports,
               NEW d \in 0..(((ToCompactNtp(now) - ToCompactNtp(t)) % WordModulus) + 1),
               ReceiveReceiverReport(ToCompactNtp(t), d),
               overshot' = (overshot \/
                 (ToCompactNtp(t) # 0
                  /\ d > (ToCompactNtp(now) - ToCompactNtp(t)) % WordModulus))
        PROVE  RttBounded'
    <3> DEFINE passed == (ToCompactNtp(now) - ToCompactNtp(t)) % WordModulus
    <3>1. rtt_' = Rtt(ToCompactNtp(t), d)
      BY <2>2 DEF ReceiveReceiverReport
    <3>2. CASE ToCompactNtp(t) = 0
      <4>1. rtt_' = rtt_ /\ overshot' = overshot
        <5>1. rtt_' = rtt_
          BY <3>1, <3>2 DEF Rtt
        <5>2. (overshot' = (overshot \/ FALSE)) => overshot' = overshot
          BY DEF IInv, TimesInv
        <5> QED BY <5>1, <5>2, <2>2, <3>2
      <4> QED BY <4>1, <1>2 DEF IInv, RttBounded
    <3>3. CASE ToCompactNtp(t) # 0 /\ d > passed
      BY <2>2, <3>3 DEF RttBounded
    <3>4. CASE ToCompactNtp(t) # 0 /\ ~(d > passed)
      <4>1. t \in Nat /\ now \in Nat /\ t <= now
        BY DEF IInv, TimesInv
      <4>2. ToCompactNtp(now) \in Int /\ ToCompactNtp(t) \in Int
        BY <4>1, ModulusAssumption, TimeAssumption DEF ToCompactNtp
      <4>3. passed \in 0..(WordModulus - 1)
        BY <4>2, ModulusAssumption
      <4>4. d \in Nat /\ d <= passed
        BY <2>2, <3>4, <4>3
      <4>5. rtt_' = ToMillis((ToCompactNtp(now) - d - ToCompactNtp(t)) % WordModulus)
        BY <3>1, <3>4 DEF Rtt
      <4>6. rtt_' <= now - t
        BY <4>1, <4>4, <4>5, RttAtMost
      <4> QED BY <4>6, <1>2 DEF RttBounded
    <3> QED BY <3>2, <3>3, <3>4
  <2> QED BY <2>1, <2>2 DEF ReceiverReports
<1> QED BY <1>3, <1>4, <1>5 DEF IInv

(* The other handlers, and time itself, leave it alone.                    *)
LEMMA IInvStep == IInv /\ [Next]_vars => IInv'
<1> SUFFICES ASSUME IInv, [Next]_vars PROVE IInv'
  OBVIOUS
<1>1. ASSUME NEW step \in FrameSteps, OnRtpPacketGenerated(step) PROVE IInv'
  BY <1>1, KeptBySending
<1>2. ASSUME NEW lost_packets \in LostPackets, ReceiveNack(lost_packets) PROVE IInv'
  <2>1. UNCHANGED <<now, pts, seqnum_, reports, sent, max_rtp_timestamp_,
                    max_packet_millis_, rtt_, overshot>>
    BY <1>2 DEF ReceiveNack
  <2> QED BY <2>1 DEF IInv, TimesInv, KeptInv, RttBounded, RtpTimestamp
<1>3. CASE ReceiverReports
  BY <1>3, KeptByReports
<1>4. CASE OnTimerTimeout
  <2>1. /\ UNCHANGED <<now, pts, seqnum_, sent, max_rtp_timestamp_,
                       max_packet_millis_, rtt_, overshot>>
        /\ reports' = reports \cup {now}
    BY <1>4 DEF OnTimerTimeout, trackVars
  <2>2. TimesInv'
    BY <2>1 DEF IInv, TimesInv
  <2>3. KeptInv'
    BY <2>1 DEF IInv, KeptInv, RtpTimestamp
  <2>4. RttBounded'
    BY <2>1 DEF IInv, RttBounded
  <2> QED BY <2>2, <2>3, <2>4 DEF IInv
<1>5. CASE Tick
  <2>1. /\ UNCHANGED <<pts, seqnum_, reports, sent, max_rtp_timestamp_,
                       max_packet_millis_, rtt_, overshot>>
        /\ now' = now + 1
    BY <1>5 DEF Tick, trackVars
  <2>2. TimesInv'
    BY <2>1 DEF IInv, TimesInv
  <2>3. KeptInv'
    BY <2>1 DEF IInv, KeptInv, RtpTimestamp
  <2>4. RttBounded'
    <3> SUFFICES ASSUME ~overshot', rtt_' # kDefaultRttMillis
                 PROVE  \E t \in reports' : rtt_' <= now' - t
      BY DEF RttBounded
    <3>1. PICK t \in reports : rtt_ <= now - t
      BY <2>1 DEF IInv, RttBounded
    <3>2. now \in Nat /\ t \in Nat /\ rtt_ \in Int
      BY DEF IInv, TimesInv
    <3>3. rtt_' <= now' - t /\ t \in reports'
      BY <2>1, <3>1, <3>2
    <3> QED BY <3>3
  <2> QED BY <2>2, <2>3, <2>4 DEF IInv
<1>6. CASE UNCHANGED vars
  BY <1>6 DEF vars, trackVars, IInv, TimesInv, KeptInv, RttBounded, RtpTimestamp
<1> QED BY <1>1, <1>2, <1>3, <1>4, <1>5, <1>6 DEF Next

(* The inductive invariant holds of every behaviour of a track.            *)
THEOREM Invariance == Spec => []IInv
BY IInvInit, IInvStep, PTL DEF Spec

(* CreateSenderReport: a report maps its time to the RTP time that the     *)
(* newest packet's timestamp has advanced to, however often the 32 bits of *)
(* the stored time and of the timestamp have wrapped.                      *)
THEOREM ReportsExact == Spec => []SenderReportExact
<1>1. IInv => SenderReportExact
  <2> SUFFICES ASSUME IInv, sent # <<>>
               PROVE  SenderReportTimestamp
                        = RtpTimestamp(sent[Len(sent)].pts
                                         + (now - sent[Len(sent)].millis))
    BY DEF SenderReportExact, Last
  <2> DEFINE newest == sent[Len(sent)]
  <2>1. newest.pts \in Nat /\ newest.millis \in Nat /\ now \in Nat
    <3> DEFINE Packets == [seq : SeqNum, payload : Seq(Nat), timestamp : Word,
                           pts : Nat, millis : Nat]
    <3>1. sent \in Seq(Packets) /\ sent # <<>> /\ now \in Nat
      BY DEF IInv, TimesInv
    <3>2. newest \in Packets
      <4> HIDE DEF Packets
      <4> QED BY <3>1
    <3> QED BY <3>1, <3>2
  <2>2. /\ max_rtp_timestamp_ = RtpTimestamp(newest.pts)
        /\ max_packet_millis_ = newest.millis % WordModulus
    BY DEF IInv, KeptInv
  <2> HIDE DEF newest
  <2>3. SenderReportTimestamp = RtpTimestamp(newest.pts + (now - newest.millis))
    BY <2>1, <2>2, ReportTime DEF SenderReportTimestamp
  <2> QED BY <2>3 DEF newest
<1> QED BY <1>1, Invariance, PTL

(* ReceiveReceiverReport: the round-trip time is never longer than the     *)
(* time since some sender report, across every wrap of compact NTP time,   *)
(* as long as no receiver overstates its delay.                            *)
THEOREM RoundTripBounded == Spec => []RttBounded
<1>1. IInv => RttBounded
  BY DEF IInv
<1> QED BY <1>1, Invariance, PTL
-----------------------------------------------------------------------------
(* ResendAll, number by number. *)

(* The fold is that of the lemmas about folds. *)
LEMMA ResendAllIsFold ==
  ASSUME NEW t, NEW lost_packets
  PROVE  FoldLeft(ResendLost, t, lost_packets) = R!Folded(t, lost_packets)
BY DEF R!Folded, FoldLeft, R!FoldLeft, MapThenFoldSet, R!MapThenFoldSet, Max, R!Max

(* What a NACK does to the packet of a slot, and what it sends. *)
Again(t, slot) ==
  LET marked == SetResendMillisecs(t.send_buffer_[slot])
  IN  IF is_rtx_enabled THEN MakeRtxPacket(marked, t.rtx_sequence_number_) ELSE marked

(* A payload of one cell, and of two. *)
LEMMA ShortPayloads ==
  ASSUME NEW x \in Nat, NEW k \in Nat
  PROVE  /\ <<k>> \in Seq(Nat) /\ <<x, k>> \in Seq(Nat)
         /\ <<x>> \o <<k>> = <<x, k>>
         /\ SubSeq(<<k>>, 1, 1) = <<k>> /\ SubSeq(<<x, k>>, 1, 2) = <<x, k>>
<1>1. <<k>> \in Seq(Nat) /\ <<x>> \in Seq(Nat) /\ <<x, k>> \in Seq(Nat)
  OBVIOUS
<1>2. Len(<<k>>) = 1 /\ Len(<<x>>) = 1 /\ Len(<<x, k>>) = 2
  OBVIOUS
<1>3. SubSeq(<<k>>, 1, 1) = <<k>>
  BY <1>1, <1>2, SubSeqFull
<1>4. SubSeq(<<x, k>>, 1, 2) = <<x, k>>
  BY <1>1, <1>2, SubSeqFull
<1>5. <<x>> \o <<k>> = <<x, k>>
  <2> DEFINE a == <<x>>
             b == <<k>>
             c == <<x, k>>
  <2>1. a[1] = x /\ b[1] = k /\ c[1] = x /\ c[2] = k
    OBVIOUS
  <2>2. a \in Seq(Nat) /\ b \in Seq(Nat) /\ c \in Seq(Nat) /\ Len(a) = 1 /\ Len(b) = 1 /\ Len(c) = 2
    BY <1>1, <1>2
  <2> HIDE DEF a, b, c
  <2>3. /\ a \o b \in Seq(Nat) /\ Len(a \o b) = 2
        /\ \A i \in 1..2 : (a \o b)[i] = IF i <= 1 THEN a[i] ELSE b[i - 1]
    <3>1. /\ a \o b \in Seq(Nat) /\ Len(a \o b) = Len(a) + Len(b)
          /\ \A i \in 1..Len(a) + Len(b) :
               (a \o b)[i] = IF i <= Len(a) THEN a[i] ELSE b[i - Len(a)]
      BY <2>2, ConcatProperties
    <3> QED BY <2>2, <3>1
  <2>4. \A i \in 1..2 : (a \o b)[i] = c[i]
    BY <2>1, <2>3
  <2>5. a \o b = c
    BY <2>2, <2>3, <2>4, SeqEqual
  <2> QED BY <2>5 DEF a, b, c
<1> QED BY <1>1, <1>3, <1>4, <1>5

(* The packet is sent again as the receiver expects it. *)
LEMMA AgainIs ==
  ASSUME NEW t \in Tracks, NEW slot \in DOMAIN t.send_buffer_, NEW k \in 1..Len(sent),
         Holds(t, slot, k), now \in Nat, is_rtx_enabled \in BOOLEAN, SentInv, TimesInv
  PROVE  /\ Again(t, slot) \in StoredPackets
         /\ Again(t, slot).resent_millisecs = now
         /\ Again(t, slot).timestamp = sent[k].timestamp
         /\ SubSeq(Again(t, slot).payload, 1, Size(Again(t, slot))) = Again(t, slot).payload
         /\ IF is_rtx_enabled
            THEN /\ Again(t, slot).payload = <<sent[k].seq, k>>
                 /\ Again(t, slot).seq = t.rtx_sequence_number_
                 /\ Again(t, slot).is_rtx
            ELSE /\ Again(t, slot).payload = <<k>> /\ Again(t, slot).seq = sent[k].seq
                 /\ ~Again(t, slot).is_rtx
<1> DEFINE pkt == t.send_buffer_[slot]
           marked == SetResendMillisecs(pkt)
           again == Again(t, slot)
<1>1. pkt \in StoredPackets /\ t.rtx_sequence_number_ \in SeqNum
  BY DEF Tracks, Rings
<1>2. /\ pkt.timestamp = sent[k].timestamp
      /\ pkt.is_rtx => is_rtx_enabled /\ pkt.payload = <<sent[k].seq, k>>
      /\ ~pkt.is_rtx => pkt.payload = <<k>> /\ pkt.seq = sent[k].seq
  BY DEF Holds
<1>3. sent[k].seq \in SeqNum /\ SeqNum \subseteq Nat /\ k \in Nat
  <2> DEFINE P == [seq : SeqNum, payload : Seq(Nat), timestamp : Word, pts : Nat,
                   millis : Nat]
  <2>1. sent \in Seq(P)
    BY DEF TimesInv
  <2>2. sent[k] \in P
    <3> HIDE DEF P
    <3> QED BY <2>1
  <2> QED BY <2>2 DEF SeqNum
<1> HIDE DEF pkt
<1>4. /\ marked \in StoredPackets /\ marked.resent_millisecs = now
      /\ marked.timestamp = pkt.timestamp /\ marked.payload = pkt.payload
      /\ marked.seq = pkt.seq /\ marked.is_rtx = pkt.is_rtx /\ marked.size = 1
  BY <1>1 DEF SetResendMillisecs, StoredPackets
<1> HIDE DEF marked
<1>5. CASE ~is_rtx_enabled
  <2>1. again = marked
    BY <1>5 DEF Again, marked, pkt
  <2>2. marked.is_rtx = FALSE
    BY <1>1, <1>2, <1>4, <1>5 DEF StoredPackets
  <2>3. Size(marked) = 1 /\ marked.payload = <<k>>
    BY <1>2, <1>4, <2>2 DEF Size
  <2>4. SubSeq(<<k>>, 1, 1) = <<k>>
    BY <1>3, ShortPayloads
  <2> QED BY <1>2, <1>4, <1>5, <2>1, <2>2, <2>3, <2>4
<1>6. CASE is_rtx_enabled /\ pkt.is_rtx
  <2>1. again = [marked EXCEPT !.seq = t.rtx_sequence_number_]
    BY <1>4, <1>6 DEF Again, MakeRtxPacket, marked, pkt
  <2>2. /\ again \in StoredPackets /\ again.resent_millisecs = now
        /\ again.timestamp = pkt.timestamp /\ again.payload = marked.payload
        /\ again.seq = t.rtx_sequence_number_ /\ again.is_rtx = marked.is_rtx /\ again.size = 1
    BY <1>1, <1>4, <2>1 DEF StoredPackets
  <2> HIDE DEF again
  <2>3. Size(again) = 2 /\ again.payload = <<sent[k].seq, k>>
    BY <1>2, <1>4, <1>6, <2>2 DEF Size
  <2>4. SubSeq(<<sent[k].seq, k>>, 1, 2) = <<sent[k].seq, k>>
    BY <1>3, ShortPayloads
  <2> QED BY <1>2, <1>4, <1>6, <2>2, <2>3, <2>4 DEF again
<1>7. CASE is_rtx_enabled /\ ~pkt.is_rtx
  <2>1. again = [marked EXCEPT !.payload = <<marked.seq>> \o marked.payload,
                 !.seq = t.rtx_sequence_number_, !.is_rtx = TRUE]
    BY <1>4, <1>7 DEF Again, MakeRtxPacket, marked, pkt
  <2>2. <<marked.seq>> \o marked.payload = <<sent[k].seq, k>>
    <3>1. marked.seq = sent[k].seq /\ marked.payload = <<k>>
      BY <1>2, <1>4, <1>7
    <3> QED BY <1>3, <3>1, ShortPayloads
  <2>3. <<sent[k].seq, k>> \in Seq(Nat)
    BY <1>3, ShortPayloads
  <2>4. /\ again \in StoredPackets /\ again.resent_millisecs = now
        /\ again.timestamp = pkt.timestamp /\ again.payload = <<sent[k].seq, k>>
        /\ again.seq = t.rtx_sequence_number_ /\ again.is_rtx = TRUE /\ again.size = 1
    BY <1>1, <1>4, <2>1, <2>2, <2>3 DEF StoredPackets
  <2> HIDE DEF again
  <2>5. Size(again) = 2
    BY <2>4 DEF Size
  <2>6. SubSeq(<<sent[k].seq, k>>, 1, 2) = <<sent[k].seq, k>>
    BY <1>3, ShortPayloads
  <2> QED BY <1>2, <1>4, <1>7, <2>4, <2>5, <2>6 DEF again
<1> QED BY <1>5, <1>6, <1>7
(* One number of a NACK: the packet goes out, or nothing changes.          *)
LEMMA ResendLostIs ==
  ASSUME NEW t \in Tracks, NEW seq_num,
         LET slot == Slot(seq_num)
         IN  /\ slot \in DOMAIN t.send_buffer_
             /\ ~TooOld(t.send_buffer_[slot]) /\ ~TooSoon(t.send_buffer_[slot])
  PROVE  LET slot == Slot(seq_num)
             again == Again(t, slot)
         IN  ResendLost(t, seq_num) =
               [send_buffer_ |-> [t.send_buffer_ EXCEPT ![slot] = again],
                rtx_sequence_number_ |->
                  IF is_rtx_enabled THEN (t.rtx_sequence_number_ + 1) % SeqModulus
                  ELSE t.rtx_sequence_number_,
                resent |-> Append(t.resent,
                  [seq |-> again.seq, payload |-> SubSeq(again.payload, 1, Size(again)),
                   millis |-> now, rtt |-> rtt_])]
BY DEF ResendLost, Again

(* Whatever number a NACK has, it leaves the ring and what was sent again  *)
(* as they should be, and one packet at most is sent for it.               *)
LEMMA ResendLostKeeps ==
  ASSUME TimesInv, SentInv, CountsInv, NEW t, TrackInv(t), NEW seq_num \in SeqNum
  PROVE  /\ TrackInv(ResendLost(t, seq_num))
         /\ Len(ResendLost(t, seq_num).resent) <= Len(t.resent) + 1
<1> DEFINE slot == Slot(seq_num)
           again == Again(t, slot)
           u == ResendLost(t, seq_num)
<1>0. /\ t \in Tracks /\ now \in Nat \ {0} /\ rtt_ \in Nat /\ is_rtx_enabled \in BOOLEAN
      /\ t.resent \in Seq(Resends) /\ Len(t.resent) \in Nat /\ Len(sent) \in Nat
      /\ t.send_buffer_ \in Rings /\ t.rtx_sequence_number_ \in SeqNum
  BY TimeAssumption DEF TimesInv, CountsInv, TrackInv, Tracks
<1>1. CASE u = t
  BY <1>0, <1>1
<1>2. CASE /\ slot \in DOMAIN t.send_buffer_
           /\ ~TooOld(t.send_buffer_[slot]) /\ ~TooSoon(t.send_buffer_[slot])
  <2>1. PICK k \in 1..Len(sent) : Holds(t, slot, k)
    BY <1>2 DEF TrackInv, HeldInv
  <2> DEFINE r == [seq |-> again.seq, payload |-> again.payload,
                   millis |-> now, rtt |-> rtt_]
             n == Len(t.resent) + 1
  <2>2. /\ again \in StoredPackets /\ again.resent_millisecs = now
        /\ again.timestamp = sent[k].timestamp
        /\ SubSeq(again.payload, 1, Size(again)) = again.payload
        /\ is_rtx_enabled => /\ again.payload = <<sent[k].seq, k>>
                             /\ again.seq = t.rtx_sequence_number_ /\ again.is_rtx
        /\ ~is_rtx_enabled => /\ again.payload = <<k>> /\ again.seq = sent[k].seq
                              /\ ~again.is_rtx
    BY <1>0, <1>2, <2>1, AgainIs
  <2>3. u = [send_buffer_ |-> [t.send_buffer_ EXCEPT ![slot] = again],
             rtx_sequence_number_ |->
               IF is_rtx_enabled THEN (t.rtx_sequence_number_ + 1) % SeqModulus
               ELSE t.rtx_sequence_number_,
             resent |-> Append(t.resent, r)]
    BY <1>0, <1>2, <2>2, ResendLostIs
  <2> HIDE DEF again
  <2>4. r \in Resends /\ r.millis = now /\ r.rtt = rtt_ /\ r.payload = again.payload
        /\ r.seq = again.seq
    BY <1>0, <2>2 DEF Resends, StoredPackets
  <2>5. Repeats(r) = k
    <3>1. <<k>>[1] = k /\ <<sent[k].seq, k>>[2] = k
          /\ Len(<<k>>) = 1 /\ Len(<<sent[k].seq, k>>) = 2
      OBVIOUS
    <3>2. again.payload = <<k>> \/ again.payload = <<sent[k].seq, k>>
      BY <2>2
    <3>3. again.payload[Len(again.payload)] = k
      BY <3>1, <3>2
    <3> QED BY <2>4, <3>3 DEF Repeats, Last
  <2> HIDE DEF u, r, slot
  <2>6. /\ u.resent \in Seq(Resends) /\ Len(u.resent) = n /\ u.resent[n] = r
        /\ \A j \in 1..Len(t.resent) : u.resent[j] = t.resent[j]
    BY <1>0, <2>3, <2>4, AppendProperties
  <2>7. /\ DOMAIN u.send_buffer_ = DOMAIN t.send_buffer_
        /\ u.send_buffer_[slot] = again
        /\ \A s \in DOMAIN t.send_buffer_ : s # slot => u.send_buffer_[s] = t.send_buffer_[s]
    BY <1>0, <1>2, <2>3 DEF Rings, slot
  <2>8. u \in Tracks
    <3>1. u.send_buffer_ \in Rings
      BY <1>0, <1>2, <2>2, <2>3 DEF Rings, slot
    <3>2. u.rtx_sequence_number_ \in SeqNum
      BY <1>0, <2>3, ModulusAssumption DEF SeqNum
    <3> QED BY <2>3, <2>6, <3>1, <3>2 DEF Tracks
  <2>9. ASSUME NEW j \in 1..n PROVE \/ j \in 1..Len(t.resent) /\ u.resent[j] = t.resent[j]
                                    \/ j = n /\ u.resent[j] = r
    BY <1>0, <2>6
  <2> HIDE DEF n
  <2>10. HeldInv(u)
    <3>1. ASSUME NEW s \in DOMAIN u.send_buffer_
          PROVE  \E m \in 1..Len(sent) : Holds(u, s, m)
      <4>1. CASE s = slot
        <5>1. \A j \in 1..n : Repeats(u.resent[j]) = k => u.resent[j].millis <= now
          <6> SUFFICES ASSUME NEW j \in 1..n, Repeats(u.resent[j]) = k
                       PROVE  u.resent[j].millis <= now
            OBVIOUS
          <6>1. CASE j \in 1..Len(t.resent) /\ u.resent[j] = t.resent[j]
            <7>1. t.resent[j].millis \in Nat
              <8>1. t.resent[j] \in Resends
                BY <1>0, <6>1
              <8> QED BY <8>1 DEF Resends
            <7>2. PICK x \in Nat : t.resent[j].millis <= x /\ x <= now
              <8>1. t.send_buffer_[slot].resent_millisecs \in Nat
                BY <1>0, <1>2 DEF Rings, StoredPackets, slot
              <8> QED BY <2>1, <6>1, <8>1 DEF Holds
            <7> QED BY <6>1, <7>1, <7>2, <1>0
          <6> QED BY <2>4, <2>9, <6>1, <1>0
        <5>2. n \in 1..Len(u.resent) /\ Len(u.resent) = n
          BY <1>0, <2>6 DEF n
        <5>3. Repeats(u.resent[n]) = k /\ u.resent[n].millis = now
          BY <2>4, <2>5, <2>6
        <5> QED BY <1>0, <2>1, <2>2, <2>7, <4>1, <5>1, <5>2, <5>3 DEF Holds
      <4>2. CASE s # slot
        <5>1. s \in DOMAIN t.send_buffer_ /\ u.send_buffer_[s] = t.send_buffer_[s]
          BY <2>7, <4>2
        <5>2. PICK m \in 1..Len(sent) : Holds(t, s, m)
          BY <5>1 DEF TrackInv, HeldInv
        <5>3. m # k
          BY <2>1, <4>2, <5>2 DEF Holds
        <5>4. \A j \in 1..n : Repeats(u.resent[j]) = m => j \in 1..Len(t.resent)
          BY <2>5, <2>9, <5>3
        <5>5. /\ Len(u.resent) = n /\ 1..Len(t.resent) \subseteq 1..n
              /\ \A j \in 1..Len(t.resent) : u.resent[j] = t.resent[j]
          BY <1>0, <2>6 DEF n
        <5> QED BY <5>1, <5>2, <5>4, <5>5 DEF Holds
      <4> QED BY <4>1, <4>2
    <3>2. \A m \in 1..Len(sent) : Slot(sent[m].seq) \in DOMAIN u.send_buffer_
      BY <2>7 DEF TrackInv, HeldInv
    <3> QED BY <3>1, <3>2 DEF HeldInv
  <2>11. Paced(u)
    <3> SUFFICES ASSUME NEW i \in 1..n, NEW j \in 1..n, i < j,
                        Repeats(u.resent[i]) = Repeats(u.resent[j])
                 PROVE  u.resent[j].millis - u.resent[i].millis > u.resent[j].rtt
      BY <2>6 DEF Paced, n
    <3>1. i \in 1..Len(t.resent) /\ u.resent[i] = t.resent[i]
      BY <1>0, <2>9 DEF n
    <3>2. CASE j \in 1..Len(t.resent) /\ u.resent[j] = t.resent[j]
      BY <3>1, <3>2 DEF TrackInv, Paced
    <3>3. CASE j = n /\ u.resent[j] = r
      <4>1. Repeats(t.resent[i]) = k
        BY <2>5, <3>1, <3>3
      <4> DEFINE x == t.send_buffer_[slot].resent_millisecs
                 y == t.resent[i].millis
      <4>2. x \in Nat /\ y \in Nat \ {0}
        <5>1. t.resent[i] \in Resends
          BY <1>0, <3>1
        <5>2. t.send_buffer_[slot] \in StoredPackets
          BY <1>0, <1>2 DEF Rings, slot
        <5> QED BY <5>1, <5>2 DEF Resends, StoredPackets
      <4>3. y <= x
        BY <2>1, <3>1, <4>1 DEF Holds
      <4>4. ~(x # 0 /\ now - x <= rtt_)
        BY <1>2 DEF TooSoon, slot
      <4> HIDE DEF x, y
      <4>5. now - y > rtt_
        BY <4>2, <4>3, <4>4, <1>0
      <4> QED BY <2>4, <3>1, <3>3, <4>5 DEF y
    <3> QED BY <2>9, <3>2, <3>3
  <2>12. WellFormed(u)
    <3>1. is_rtx_enabled => u.rtx_sequence_number_ = Len(u.resent) % SeqModulus
      <4> SUFFICES ASSUME is_rtx_enabled
                   PROVE  u.rtx_sequence_number_ = Len(u.resent) % SeqModulus
        OBVIOUS
      <4>1. t.rtx_sequence_number_ = Len(t.resent) % SeqModulus
        BY DEF TrackInv, WellFormed
      <4>2. u.rtx_sequence_number_ = (t.rtx_sequence_number_ + 1) % SeqModulus
        BY <2>3
      <4>3. Len(u.resent) = Len(t.resent) + 1
        BY <2>6 DEF n
      <4> QED BY <4>1, <4>2, <4>3, <1>0, ModulusAssumption, NextNumber
    <3>2. ASSUME NEW j \in 1..n
          PROVE  LET q == u.resent[j]
                     m == Repeats(q)
                 IN  /\ m \in 1..Len(sent)
                     /\ IF is_rtx_enabled
                        THEN q.payload = <<sent[m].seq, m>> /\ q.seq = (j - 1) % SeqModulus
                        ELSE q.payload = <<m>> /\ q.seq = sent[m].seq
      <4>1. CASE j \in 1..Len(t.resent) /\ u.resent[j] = t.resent[j]
        BY <4>1 DEF TrackInv, WellFormed
      <4>2. CASE j = n /\ u.resent[j] = r
        <5>1. Repeats(u.resent[j]) = k
          BY <2>5, <4>2
        <5>2. is_rtx_enabled => t.rtx_sequence_number_ = (j - 1) % SeqModulus
          <6>1. j - 1 = Len(t.resent)
            BY <4>2, <1>0 DEF n
          <6> QED BY <6>1 DEF TrackInv, WellFormed
        <5>3. /\ u.resent[j].payload = again.payload /\ u.resent[j].seq = again.seq
          BY <2>4, <4>2
        <5> QED BY <2>2, <5>1, <5>2, <5>3
      <4> QED BY <2>9, <4>1, <4>2
    <3>3. Len(u.resent) = n
      BY <2>6 DEF n
    <3> QED BY <3>1, <3>2, <3>3 DEF WellFormed
  <2>13. Len(u.resent) <= Len(t.resent) + 1
    BY <1>0, <2>6 DEF n
  <2> QED BY <2>8, <2>10, <2>11, <2>12, <2>13 DEF TrackInv, u
<1>3. u = t \/ /\ slot \in DOMAIN t.send_buffer_
               /\ ~TooOld(t.send_buffer_[slot]) /\ ~TooSoon(t.send_buffer_[slot])
  BY DEF ResendLost
<1> QED BY <1>1, <1>2, <1>3
-----------------------------------------------------------------------------
(* The invariant of the ring. *)

(* A NACK, number by number. *)
LEMMA ResendAllKeeps ==
  ASSUME TimesInv, SentInv, CountsInv, TrackInv(Track), NEW n \in Nat,
         NEW lost_packets, DOMAIN lost_packets = 1..n,
         \A i \in 1..n : lost_packets[i] \in SeqNum
  PROVE  /\ TrackInv(ResendAll(lost_packets))
         /\ Len(ResendAll(lost_packets).resent) <= Len(resent) + n
<1> DEFINE D == [i \in 0..n |-> {t \in Tracks : TrackInv(t) /\ Len(t.resent) <= Len(resent) + i}]
<1>0. Len(resent) \in Nat
  BY DEF TrackInv, Track, Tracks
<1>1. Track \in D[0]
  BY <1>0 DEF TrackInv, Track
<1>2. ASSUME NEW i \in 1..n, NEW d \in D[i - 1] PROVE ResendLost(d, lost_packets[i]) \in D[i]
  <2> DEFINE u == ResendLost(d, lost_packets[i])
  <2>1. TrackInv(d) /\ Len(d.resent) <= Len(resent) + (i - 1)
    BY <1>2
  <2>2. TrackInv(u) /\ Len(u.resent) <= Len(d.resent) + 1
    BY <2>1, ResendLostKeeps
  <2>3. u \in Tracks /\ Len(u.resent) \in Nat /\ Len(d.resent) \in Nat
    <3> HIDE DEF u
    <3> QED BY <2>1, <2>2 DEF TrackInv, Tracks
  <2> HIDE DEF u
  <2>4. Len(u.resent) <= Len(resent) + i
    BY <1>0, <2>1, <2>2, <2>3
  <2> QED BY <2>2, <2>3, <2>4 DEF u
<1> HIDE DEF D
<1>3. R!Folded(Track, lost_packets) \in D[n]
  BY <1>1, <1>2, R!FoldedIn
<1>4. ResendAll(lost_packets) \in D[n]
  BY <1>3, ResendAllIsFold DEF ResendAll, Track
<1> QED BY <1>4 DEF D

(* A track that has sent nothing. *)
LEMMA RingInvInit == Init => RingInv
<1> SUFFICES ASSUME Init PROVE RingInv
  OBVIOUS
<1>1. sent = <<>> /\ resent = <<>> /\ send_buffer_ = <<>> /\ rtx_sequence_number_ = 0
  BY DEF Init
<1>2. Len(sent) = 0 /\ Len(resent) = 0 /\ 1..0 = {}
  BY <1>1
<1>3. SentInv
  BY <1>2, ModulusAssumption DEF Init, SentInv
<1>4. CountsInv
  BY <1>2, ModulusAssumption, TimeAssumption, BoundsAssumption
  DEF Init, CountsInv, Word
<1>5. TrackInv(Track)
  <2>1. Track \in Tracks
    <3>1. send_buffer_ \in [{} -> StoredPackets] /\ {} \in SUBSET (0..(kSendBufferCapacity - 1))
      BY <1>1
    <3>2. send_buffer_ \in Rings
      BY <3>1 DEF Rings
    <3>3. resent \in Seq(Resends)
      BY <1>1
    <3>4. rtx_sequence_number_ \in SeqNum
      BY <1>1, ModulusAssumption DEF SeqNum
    <3> QED BY <3>2, <3>3, <3>4 DEF Track, Tracks
  <2>2. Len(Track.resent) = 0 /\ DOMAIN Track.send_buffer_ = {} /\ Track.rtx_sequence_number_ = 0
    BY <1>1 DEF Track
  <2>3. 0 = 0 % SeqModulus
    BY ModulusAssumption
  <2> QED BY <1>2, <2>1, <2>2, <2>3 DEF TrackInv, HeldInv, Paced, WellFormed
<1> QED BY <1>3, <1>4, <1>5 DEF RingInv

(* A packet that is sent takes the slot of its number.                     *)
LEMMA RingBySending ==
  ASSUME TimesInv, RingInv, NEW step \in FrameSteps, OnRtpPacketGenerated(step)
  PROVE  RingInv'
<1>0. Len(sent) \in Nat
  <2> DEFINE P == [seq : SeqNum, payload : Seq(Nat), timestamp : Word, pts : Nat, millis : Nat]
  <2>1. sent \in Seq(P)
    BY DEF TimesInv
  <2> HIDE DEF P
  <2> QED BY <2>1
<1> PICK n \in Nat : n = Len(sent) + 1
  BY <1>0
<1> PICK s : s = Slot(seqnum_)
  OBVIOUS
<1> DEFINE packet == [seq |-> seqnum_, payload |-> <<n>>,
                      timestamp |-> RtpTimestamp(pts'), pts |-> pts', millis |-> now]
           P == [seq : SeqNum, payload : Seq(Nat), timestamp : Word, pts : Nat, millis : Nat]
<1>1. /\ sent \in Seq(P) /\ seqnum_ \in SeqNum /\ Len(sent) \in Nat /\ n \in Nat
      /\ pts' \in Nat /\ now \in Nat /\ now' = now
  BY FrameStepsAssumption DEF TimesInv, OnRtpPacketGenerated
<1>2. /\ sent' = Append(sent, packet) /\ Len(sent) < MaxPackets
      /\ send_buffer_' = Put(s, Stored(packet))
      /\ seqnum_' = (seqnum_ + 1) % SeqModulus
      /\ max_rtp_timestamp_' = RtpTimestamp(pts') /\ max_packet_millis_' = now % WordModulus
      /\ send_packet_count_' = (send_packet_count_ + 1) % WordModulus
      /\ UNCHANGED <<is_rtx_enabled, rtt_, rtx_sequence_number_, resent, nacked>>
  BY DEF OnRtpPacketGenerated, ReceivePacket
<1>3. RtpTimestamp(pts') \in Word
  <2> DEFINE a == (pts' * clock_rate) \div MillisPerSecond
  <2>1. a \in Int
    BY <1>1, ClockAssumption, TimeAssumption
  <2> HIDE DEF a
  <2>2. a % WordModulus \in Word
    BY <2>1, ModulusAssumption DEF Word
  <2> QED BY <2>2 DEF a, RtpTimestamp
<1>4. packet \in P
  BY <1>1, <1>3
<1>5. /\ Len(sent') = n /\ sent'[n] = packet
      /\ \A k \in 1..Len(sent) : sent'[k] = sent[k]
  <2> HIDE DEF P, packet
  <2> QED BY <1>1, <1>2, <1>4, AppendProperties
<1>6. ASSUME NEW k \in 1..n PROVE \/ k \in 1..Len(sent) /\ sent'[k] = sent[k]
                                  \/ k = n /\ sent'[k] = packet
  <2>1. k \in 1..Len(sent) \/ k = n
    BY <1>0
  <2> HIDE DEF packet
  <2> QED BY <1>5, <2>1
<1>7. s \in 0..(kSendBufferCapacity - 1)
  BY <1>1, ModulusAssumption DEF Slot, SeqNum
<1>8. /\ Stored(packet) \in StoredPackets /\ Stored(packet).timestamp = packet.timestamp
      /\ Stored(packet).payload = <<n>> /\ Stored(packet).seq = seqnum_
      /\ Stored(packet).resent_millisecs = 0 /\ Stored(packet).is_rtx = FALSE
  <2>1. Len(<<n>>) = 1 /\ <<n>> \in Seq(Nat)
    BY <1>1
  <2> QED BY <1>1, <1>3, <2>1 DEF Stored, StoredPackets
<1>9. packet.seq = seqnum_ /\ packet.payload = <<n>> /\ packet.timestamp = RtpTimestamp(packet.pts)
  OBVIOUS
<1> HIDE DEF packet, P
<1>10. /\ DOMAIN send_buffer_' = DOMAIN send_buffer_ \cup {s}
       /\ send_buffer_'[s] = Stored(packet)
       /\ \A i \in DOMAIN send_buffer_ : i # s => send_buffer_'[i] = send_buffer_[i]
  <2> QED BY <1>2 DEF Put
<1>11. SentInv'
  <2>1. seqnum_ = Len(sent) % SeqModulus
    BY DEF RingInv, SentInv
  <2>2. seqnum_' = n % SeqModulus
    BY <1>1, <1>2, <2>1, ModulusAssumption, NextNumber
  <2>3. ASSUME NEW k \in 1..n
        PROVE  /\ sent'[k].seq = (k - 1) % SeqModulus /\ sent'[k].payload = <<k>>
               /\ sent'[k].timestamp = RtpTimestamp(sent'[k].pts)
    <3>1. CASE k \in 1..Len(sent) /\ sent'[k] = sent[k]
      BY <3>1 DEF RingInv, SentInv
    <3>2. CASE k = n /\ sent'[k] = packet
      <4>1. k - 1 = Len(sent)
        BY <3>2, <1>1
      <4> QED BY <1>9, <2>1, <3>2, <4>1
    <3> QED BY <1>6, <3>1, <3>2
  <2> QED BY <1>5, <2>2, <2>3 DEF SentInv, RtpTimestamp
<1>12. CountsInv'
  <2>1. now % WordModulus \in Word
    BY <1>1, ModulusAssumption DEF Word
  <2>2. (send_packet_count_ + 1) % WordModulus \in Word
    BY ModulusAssumption DEF Word, RingInv, CountsInv
  <2>3. n <= MaxPackets
    BY <1>1, <1>2, BoundsAssumption
  <2> QED BY <1>1, <1>2, <1>3, <1>5, <2>1, <2>2, <2>3 DEF RingInv, CountsInv
<1>13. TrackInv(Track)'
  <2>0. /\ TrackInv(Track) /\ send_buffer_ \in Rings /\ resent \in Seq(Resends)
        /\ rtx_sequence_number_ \in SeqNum
    BY DEF RingInv, TrackInv, Track, Tracks
  <2>1. Track' \in Tracks
    <3>1. send_buffer_' \in Rings
      <4> DEFINE slots == DOMAIN send_buffer_ \cup {s}
      <4>1. slots \in SUBSET (0..(kSendBufferCapacity - 1))
        BY <1>7, <2>0 DEF Rings
      <4>2. \A i \in slots : send_buffer_'[i] \in StoredPackets
        BY <1>8, <1>10, <2>0 DEF Rings
      <4>3. send_buffer_' = [i \in slots |-> send_buffer_'[i]]
        <5> QED BY <1>2 DEF Put
      <4> HIDE DEF slots
      <4>4. send_buffer_' \in [slots -> StoredPackets]
        BY <4>2, <4>3
      <4> QED BY <4>1, <4>4 DEF Rings
    <3> QED BY <1>2, <2>0, <3>1 DEF Track, Tracks
  <2>2. /\ Track'.resent = resent /\ Track.resent = resent
        /\ Track'.send_buffer_ = send_buffer_' /\ Track.send_buffer_ = send_buffer_
        /\ Track'.rtx_sequence_number_ = rtx_sequence_number_
        /\ Track.rtx_sequence_number_ = rtx_sequence_number_
    BY <1>2 DEF Track
  <2>3. \A j \in 1..Len(resent) : Repeats(resent[j]) \in 1..Len(sent)
    BY <2>0, <2>2 DEF TrackInv, WellFormed
  <2>4. HeldInv(Track)'
    <3>1. ASSUME NEW i \in DOMAIN send_buffer_', i # s
          PROVE  \E k \in 1..n : Holds(Track, i, k)'
      <4>1. i \in DOMAIN send_buffer_ /\ send_buffer_'[i] = send_buffer_[i]
        BY <1>10, <3>1
      <4>2. PICK k \in 1..Len(sent) : Holds(Track, i, k)
        BY <2>0, <2>2, <4>1 DEF TrackInv, HeldInv
      <4>3. ASSUME NEW m \in (k + 1)..n PROVE Slot(sent'[m].seq) # i
        <5>1. m \in 1..n
          BY <1>1
        <5>2. CASE m \in 1..Len(sent) /\ sent'[m] = sent[m]
          <6>1. m \in (k + 1)..Len(sent)
            BY <5>2
          <6> QED BY <4>2, <5>2, <6>1 DEF Holds
        <5>3. CASE m = n /\ sent'[m] = packet
          BY <3>1, <5>3, <1>9
        <5> QED BY <5>1, <5>2, <5>3, <1>6
      <4>4. sent'[k] = sent[k] /\ k \in 1..n
        BY <1>1, <1>5
      <4>5. Holds(Track, i, k)'
        BY <1>1, <1>2, <1>5, <2>2, <4>1, <4>2, <4>3, <4>4 DEF Holds, Slot, Repeats
      <4> QED BY <4>4, <4>5
    <3>2. Holds(Track, s, n)'
      <4>1. Slot(sent'[n].seq) = s
        BY <1>5, <1>9
      <4>2. (n + 1)..n = {}
        BY <1>1
      <4>3. \A j \in 1..Len(resent) : Repeats(resent[j]) # n
        <5>1. n \notin 1..Len(sent)
          BY <1>1
        <5> QED BY <2>3, <5>1
      <4>4. sent'[n] = packet /\ Len(sent') = n
        BY <1>5
      <4>5. 0 <= now
        BY <1>1
      <4> QED BY <1>1, <1>2, <1>8, <1>9, <1>10, <2>2, <4>1, <4>2, <4>3, <4>4, <4>5
          DEF Holds, Slot, Repeats
    <3>3. n \in 1..n
      BY <1>1
    <3>4. \A i \in DOMAIN send_buffer_' : \E k \in 1..n : Holds(Track, i, k)'
      BY <3>1, <3>2, <3>3
    <3>5. ASSUME NEW k \in 1..n PROVE Slot(sent'[k].seq) \in DOMAIN send_buffer_'
      <4>1. CASE k \in 1..Len(sent) /\ sent'[k] = sent[k]
        BY <4>1, <2>0, <2>2, <1>10 DEF TrackInv, HeldInv
      <4>2. CASE k = n /\ sent'[k] = packet
        BY <4>2, <1>9, <1>10
      <4> QED BY <4>1, <4>2, <1>6
    <3> QED BY <1>5, <2>2, <3>4, <3>5 DEF HeldInv, Slot
  <2>5. Paced(Track)'
    BY <1>2, <2>0, <2>2 DEF TrackInv, Paced, Repeats
  <2>6. WellFormed(Track)'
    <3>1. ASSUME NEW j \in 1..Len(resent)
          PROVE  /\ Repeats(resent[j]) \in 1..n
                 /\ sent'[Repeats(resent[j])] = sent[Repeats(resent[j])]
      BY <1>1, <1>5, <2>3
    <3> QED BY <1>2, <1>5, <2>0, <2>2, <3>1 DEF TrackInv, WellFormed, Repeats
  <2> QED BY <2>1, <2>4, <2>5, <2>6 DEF TrackInv
<1> QED BY <1>11, <1>12, <1>13 DEF RingInv

(* A NACK goes through ResendLost, number by number. *)
LEMMA RingByNack ==
  ASSUME TimesInv, RingInv, NEW lost_packets \in LostPackets, ReceiveNack(lost_packets)
  PROVE  RingInv'
<1>1. PICK n \in 1..2 : /\ Len(lost_packets) = n /\ DOMAIN lost_packets = 1..n
                        /\ \A i \in 1..n : lost_packets[i] \in SeqNum
  <2>1. CASE \E s \in SeqNum : lost_packets = <<s>>
    <3>1. Len(lost_packets) = 1 /\ DOMAIN lost_packets = 1..1 /\ lost_packets[1] \in SeqNum
      BY <2>1
    <3>2. \A i \in 1..1 : i = 1
      OBVIOUS
    <3> QED BY <3>1, <3>2
  <2>2. CASE \E s, t \in SeqNum : lost_packets = <<s, t>>
    <3>1. /\ Len(lost_packets) = 2 /\ DOMAIN lost_packets = 1..2
          /\ lost_packets[1] \in SeqNum /\ lost_packets[2] \in SeqNum
      BY <2>2
    <3>2. \A i \in 1..2 : i = 1 \/ i = 2
      OBVIOUS
    <3> QED BY <3>1, <3>2
  <2> QED BY <2>1, <2>2 DEF LostPackets
<1> PICK t : t = ResendAll(lost_packets)
  OBVIOUS
<1>2. TrackInv(t) /\ Len(t.resent) <= Len(resent) + n
  BY <1>1, ResendAllKeeps DEF RingInv
<1>3. /\ nacked + n <= MaxResent /\ nacked' = nacked + n
      /\ send_buffer_' = t.send_buffer_ /\ rtx_sequence_number_' = t.rtx_sequence_number_
      /\ resent' = t.resent
      /\ UNCHANGED <<now, pts, is_rtx_enabled, seqnum_, max_rtp_timestamp_,
                     max_packet_millis_, rtt_, send_packet_count_, sent, reports, overshot>>
  BY <1>1 DEF ReceiveNack
<1>4. SentInv'
  BY <1>3 DEF RingInv, SentInv, RtpTimestamp
<1>5. Track' = t
  <2>1. t \in Tracks
    BY <1>2 DEF TrackInv
  <2> QED BY <1>3, <2>1 DEF Track, Tracks
<1>6. CountsInv'
  <2>1. Len(resent) <= nacked /\ nacked \in 0..MaxResent
    BY DEF RingInv, CountsInv
  <2>2. Len(resent) \in Nat /\ Len(t.resent) \in Nat
    BY <1>2 DEF RingInv, TrackInv, Track, Tracks
  <2>3. Len(resent') <= nacked' /\ nacked' \in 0..MaxResent
    BY <1>2, <1>3, <2>1, <2>2, BoundsAssumption
  <2> QED BY <1>3, <2>3 DEF RingInv, CountsInv
<1>7. TrackInv(Track)'
  <2>1. HeldInv(Track)'
    BY <1>2, <1>3, <1>5 DEF TrackInv, HeldInv, Holds, Slot, Repeats
  <2>2. Paced(Track)'
    BY <1>2, <1>5 DEF TrackInv, Paced, Repeats
  <2>3. WellFormed(Track)'
    BY <1>2, <1>3, <1>5 DEF TrackInv, WellFormed, Repeats
  <2> QED BY <1>2, <1>5, <2>1, <2>2, <2>3 DEF TrackInv
<1> QED BY <1>4, <1>6, <1>7 DEF RingInv

(* As long as a step leaves alone what was sent, in whatever direction,    *)
(* only the time and the bounds count.                                     *)
LEMMA RingUnchanged ==
  ASSUME RingInv, now \in Nat, now' \in Nat, now <= now',
         UNCHANGED <<is_rtx_enabled, seqnum_, rtx_sequence_number_, send_buffer_, sent, resent>>,
         CountsInv'
  PROVE  RingInv'
<1>1. SentInv'
  BY DEF RingInv, SentInv, RtpTimestamp
<1>2. Track' = Track /\ Track \in Tracks /\ Track' \in Tracks
  BY DEF Track, RingInv, TrackInv
<1>3. HeldInv(Track)'
  <2>1. ASSUME NEW i \in DOMAIN Track.send_buffer_, NEW k \in 1..Len(sent), Holds(Track, i, k)
        PROVE  Holds(Track, i, k)'
    <3>1. Track.send_buffer_[i].resent_millisecs \in Nat
      BY <1>2 DEF Tracks, Rings, StoredPackets
    <3>2. Track.send_buffer_[i].resent_millisecs <= now'
      BY <2>1, <3>1 DEF Holds
    <3> QED BY <1>2, <2>1, <3>2 DEF Holds, Slot, Repeats
  <2>2. \A i \in DOMAIN Track.send_buffer_ : \E k \in 1..Len(sent) : Holds(Track, i, k)'
    BY <2>1 DEF RingInv, TrackInv, HeldInv
  <2>3. \A k \in 1..Len(sent) : Slot(sent[k].seq) \in DOMAIN Track.send_buffer_
    BY DEF RingInv, TrackInv, HeldInv
  <2> QED BY <1>2, <2>2, <2>3 DEF HeldInv, Slot
<1>4. Paced(Track)' /\ WellFormed(Track)'
  BY <1>2 DEF RingInv, TrackInv, Paced, WellFormed, Repeats
<1> QED BY <1>1, <1>2, <1>3, <1>4 DEF RingInv, TrackInv

(* A report that is received sets a round-trip time that is not negative.  *)
LEMMA RttIsNat ==
  ASSUME now \in Nat, rtt_ \in Nat, NEW last_sr \in Int, NEW delay \in Int
  PROVE  Rtt(last_sr, delay) \in Nat
<1> DEFINE a == ToCompactNtp(now) - delay - last_sr
<1>1. a \in Int
  BY ModulusAssumption, TimeAssumption DEF ToCompactNtp
<1> HIDE DEF a
<1>2. a % WordModulus \in Nat
  BY <1>1, ModulusAssumption
<1>3. ASSUME NEW x \in Nat PROVE ToMillis(x) \in Nat
  <2> DEFINE b == 2 * x * MillisPerSecond + CompactPerSecond
             c == 2 * CompactPerSecond
  <2>1. b \in Nat /\ c \in Nat \ {0}
    BY TimeAssumption
  <2> HIDE DEF b, c
  <2>2. b \div c \in Nat
    BY <2>1
  <2> QED BY <2>2 DEF b, c, ToMillis
<1>4. ToMillis(a % WordModulus) \in Nat
  BY <1>2, <1>3
<1> QED BY <1>4 DEF Rtt, a

(* Every step keeps the ring in order. *)
LEMMA RingInvStep == TimesInv /\ RingInv /\ [Next]_vars => RingInv'
<1> SUFFICES ASSUME TimesInv, RingInv, [Next]_vars PROVE RingInv'
  OBVIOUS
<1>0. now \in Nat
  BY DEF TimesInv
<1>1. ASSUME NEW step \in FrameSteps, OnRtpPacketGenerated(step) PROVE RingInv'
  BY <1>1, RingBySending
<1>2. ASSUME NEW lost_packets \in LostPackets, ReceiveNack(lost_packets) PROVE RingInv'
  BY <1>2, RingByNack
<1>3. CASE ReceiverReports
  <2>1. PICK last_sr \in Int, delay \in Int : ReceiveReceiverReport(last_sr, delay)
    <3>1. CASE ReceiveReceiverReport(0, 0)
      BY <3>1
    <3>2. ASSUME NEW t \in reports,
                 NEW d \in 0..(((ToCompactNtp(now) - ToCompactNtp(t)) % WordModulus) + 1),
                 ReceiveReceiverReport(ToCompactNtp(t), d)
          PROVE  \E l, e \in Int : ReceiveReceiverReport(l, e)
      <4>1. t \in Nat /\ d \in Int
        BY DEF TimesInv
      <4>2. ToCompactNtp(t) \in Int
        BY <4>1, CompactIsInt
      <4> QED BY <3>2, <4>1, <4>2
    <3> QED BY <1>3, <3>1, <3>2 DEF ReceiverReports
  <2>2. UNCHANGED <<now, pts, is_rtx_enabled, seqnum_, max_rtp_timestamp_,
                 max_packet_millis_, send_packet_count_, rtx_sequence_number_,
                 send_buffer_, sent, resent, nacked>>
        /\ rtt_' = Rtt(last_sr, delay)
    BY <2>1 DEF ReceiveReceiverReport
  <2>3. rtt_' \in Nat
    BY <1>0, <2>2, RttIsNat DEF RingInv, CountsInv
  <2>4. CountsInv'
    BY <2>2, <2>3 DEF RingInv, CountsInv
  <2> QED BY <1>0, <2>2, <2>4, RingUnchanged
<1>4. CASE OnTimerTimeout
  <2>1. UNCHANGED <<now, is_rtx_enabled, seqnum_, trackVars, sent, resent, nacked>>
    BY <1>4 DEF OnTimerTimeout
  <2>2. CountsInv'
    BY <2>1 DEF RingInv, CountsInv, trackVars
  <2> QED BY <1>0, <2>1, <2>2, RingUnchanged DEF trackVars
<1>5. CASE Tick
  <2>1. /\ now < StartMillis + MaxMillis /\ now' = now + 1
        /\ UNCHANGED <<is_rtx_enabled, seqnum_, trackVars, sent, resent, nacked>>
    BY <1>5 DEF Tick
  <2>2. now' \in StartMillis..(StartMillis + MaxMillis)
    BY <1>0, <2>1, TimeAssumption, BoundsAssumption DEF RingInv, CountsInv
  <2>3. CountsInv'
    BY <2>1, <2>2 DEF RingInv, CountsInv, trackVars
  <2>4. now' \in Nat /\ now <= now'
    BY <1>0, <2>1
  <2> QED BY <1>0, <2>1, <2>3, <2>4, RingUnchanged DEF trackVars
<1>6. CASE UNCHANGED vars
  <2>1. UNCHANGED <<now, is_rtx_enabled, seqnum_, trackVars, sent, resent, nacked>>
    BY <1>6 DEF vars
  <2>2. CountsInv'
    BY <2>1 DEF RingInv, CountsInv, trackVars
  <2> QED BY <1>0, <2>1, <2>2, RingUnchanged DEF trackVars
<1> QED BY <1>1, <1>2, <1>3, <1>4, <1>5, <1>6 DEF Next
(* The inductive invariant of the ring holds of every behaviour.           *)
THEOREM RingInvariance == Spec => [](IInv /\ RingInv)
<1>1. Init => RingInv
  BY RingInvInit
<1>2. IInv /\ RingInv /\ [Next]_vars => RingInv'
  BY RingInvStep DEF IInv
<1> QED BY <1>1, <1>2, IInvInit, IInvStep, PTL DEF Spec

(* Every variable is what its type in the code can hold, the ring has its  *)
(* slots, and no more is sent again than was asked for.                    *)
THEOREM TypeCorrect == Spec => []TypeOK
<1>1. IInv /\ RingInv => TypeOK
  <2> SUFFICES ASSUME IInv, RingInv PROVE TypeOK
    OBVIOUS
  <2>1. /\ pts \in Nat /\ seqnum_ \in SeqNum /\ Len(sent) \in Nat /\ now \in Nat
    BY DEF IInv, TimesInv
  <2>2. /\ send_buffer_ \in Rings /\ rtx_sequence_number_ \in SeqNum
        /\ resent \in Seq(Resends)
    BY DEF RingInv, TrackInv, Track, Tracks
  <2>3. Len(sent) \in 0..MaxPackets /\ Len(resent) \in 0..nacked
    BY <2>1, <2>2, BoundsAssumption DEF RingInv, CountsInv
  <2>4. ASSUME NEW slot \in DOMAIN send_buffer_
        PROVE  /\ send_buffer_[slot].seq \in SeqNum /\ send_buffer_[slot].timestamp \in Word
               /\ send_buffer_[slot].resent_millisecs \in 0..now
    <3>1. send_buffer_[slot] \in StoredPackets
      BY <2>2 DEF Rings
    <3>2. send_buffer_[slot].resent_millisecs <= now
      BY DEF RingInv, TrackInv, HeldInv, Holds, Track
    <3> QED BY <2>1, <3>1, <3>2 DEF StoredPackets
  <2>5. DOMAIN send_buffer_ \subseteq 0..(kSendBufferCapacity - 1)
    BY <2>2 DEF Rings
  <2> QED BY <2>1, <2>2, <2>3, <2>4, <2>5 DEF TypeOK, RingInv, CountsInv
<1> QED BY <1>1, RingInvariance, PTL

(* ResendPacket: however many NACKs ask for it, a packet goes out again    *)
(* only when more than the round-trip time has passed since the last time. *)
THEOREM Pacing == Spec => []ResendsPaced
<1>1. RingInv => ResendsPaced
  BY DEF RingInv, TrackInv, Track, Paced, ResendsPaced
<1> QED BY <1>1, RingInvariance, PTL

(* MakeRtxPacket: what is sent again can be put back in place, the first   *)
(* time and every later one, and RTX packets are numbered without a gap.   *)
THEOREM WellFormedResends == Spec => []ResendsWellFormed
<1>1. IInv /\ RingInv => ResendsWellFormed
  <2> SUFFICES ASSUME IInv, RingInv, NEW j \in 1..Len(resent)
               PROVE  LET r == resent[j]
                          packet == sent[Repeats(r)]
                      IN  /\ Repeats(r) \in 1..Len(sent)
                          /\ IF is_rtx_enabled
                             THEN /\ r.payload = <<packet.seq>> \o packet.payload
                                  /\ r.seq = (j - 1) % SeqModulus
                             ELSE r.payload = packet.payload /\ r.seq = packet.seq
    BY DEF ResendsWellFormed
  <2> PICK k : k = Repeats(resent[j])
    OBVIOUS
  <2>1. /\ k \in 1..Len(sent)
        /\ IF is_rtx_enabled
           THEN resent[j].payload = <<sent[k].seq, k>> /\ resent[j].seq = (j - 1) % SeqModulus
           ELSE resent[j].payload = <<k>> /\ resent[j].seq = sent[k].seq
    BY DEF RingInv, TrackInv, Track, WellFormed
  <2>2. sent[k].payload = <<k>> /\ sent[k].seq = (k - 1) % SeqModulus
    BY <2>1 DEF RingInv, SentInv
  <2>3. sent[k].seq \in Nat /\ k \in Nat
    <3>1. k - 1 \in Nat
      BY <2>1
    <3> QED BY <2>1, <2>2, <3>1, ModulusAssumption
  <2>4. <<sent[k].seq>> \o sent[k].payload = <<sent[k].seq, k>>
    BY <2>2, <2>3, ShortPayloads
  <2> QED BY <2>1, <2>2, <2>4
<1> QED BY <1>1, RingInvariance, PTL
-----------------------------------------------------------------------------
(* Answers. *)

(* Nothing between one and a number is a multiple of it. *)
LEMMA NoMultiple ==
  ASSUME NEW n \in Nat \ {0}, NEW d \in 1..(n - 1), NEW k \in Int
  PROVE  d # n * k
<1> SUFFICES ASSUME d = n * k PROVE FALSE
  OBVIOUS
<1>1. ~(k >= 1)
  BY TimesAtLeast
<1>2. ~(k <= 0)
  <2> SUFFICES ASSUME k <= 0 PROVE FALSE
    OBVIOUS
  <2>1. n * (1 - k) >= n
    BY TimesAtLeast
  <2>2. n * (1 - k) = n - n * k
    OBVIOUS
  <2> QED BY <2>1, <2>2
<1> QED BY <1>1, <1>2

(* So few packets apart, two numbers have different slots, also across the *)
(* wrap of the sequence number.                                            *)
LEMMA SlotsApart ==
  ASSUME NEW a \in Nat, NEW d \in 1..(Recent - 1)
  PROVE  Slot((a + d) % SeqModulus) # Slot(a % SeqModulus)
<1> DEFINE M == SeqModulus
           C == kSendBufferCapacity
           m == M \div C
           e == M % C
           x == a % M
           y == (a + d) % M
           p == x \div C
           q == y \div C
<1>1. M \in Nat \ {0} /\ C \in Nat \ {0} /\ C <= M
  BY ModulusAssumption
<1>2. M = C * m + e /\ e \in 0..(C - 1) /\ m \in Int
  <2> HIDE DEF M, C
  <2> QED BY <1>1, DivMod
<1>3. d \in 1..(C - 1) /\ (e # 0 => d \in 1..(e - 1))
  <2>1. Recent = IF e = 0 THEN C ELSE e
    BY DEF Recent
  <2> HIDE DEF e, C
  <2> QED BY <1>1, <1>2, <2>1
<1>4. x \in 0..(M - 1) /\ (y = x + d \/ y = x + d - M)
  <2> DEFINE b == a \div M
  <2>1. a = M * b + x /\ x \in 0..(M - 1) /\ b \in Int
    <3> HIDE DEF M
    <3> QED BY <1>1, DivMod
  <2> HIDE DEF M, x, b
  <2>2. CASE x + d < M
    <3> DEFINE f == a + d
               g == x + d
    <3>1. f = M * b + g /\ g \in 0..(M - 1) /\ f \in Int
      BY <1>1, <1>3, <2>1, <2>2
    <3> HIDE DEF f, g
    <3>2. f % M = g
      BY <1>1, <2>1, <3>1, ModUnique
    <3> QED BY <2>1, <3>2 DEF f, g
  <2>3. CASE x + d >= M
    <3> DEFINE f == a + d
               g == x + d - M
               h == b + 1
    <3>1. g \in 0..(M - 1) /\ f \in Int /\ h \in Int
      BY <1>1, <1>3, <2>1, <2>3
    <3>2. f = M * h + g
      BY <1>1, <1>3, <2>1
    <3> HIDE DEF f, g, h
    <3>3. f % M = g
      BY <1>1, <3>1, <3>2, ModUnique
    <3> QED BY <2>1, <3>3 DEF f, g
  <2>4. x + d < M \/ x + d >= M
    BY <1>1, <1>3, <2>1
  <2> QED BY <2>1, <2>2, <2>3, <2>4
<1>5. y \in Int
  BY <1>1, <1>3, <1>4
<1>6. Slot(x) = x % C /\ Slot(y) = y % C
  BY DEF Slot
<1> HIDE DEF M, C, m, e, x, y
<1>7. x = C * p + (x % C) /\ y = C * q + (y % C) /\ p \in Int /\ q \in Int
      /\ x % C \in Int /\ y % C \in Int
  <2>1. x \in Int
    BY <1>1, <1>4
  <2> QED BY <1>1, <1>5, <2>1, DivMod
<1> HIDE DEF p, q
<1> SUFFICES ASSUME x % C = y % C PROVE FALSE
  BY <1>6 DEF x, y, M
<1>8. y - x = C * (q - p)
  BY <1>1, <1>7
<1>9. CASE y = x + d
  <2>1. d = C * (q - p) /\ q - p \in Int
    BY <1>3, <1>4, <1>7, <1>8, <1>9
  <2> QED BY <1>1, <1>3, <2>1, NoMultiple
<1>10. CASE y = x + d - M
  <2>1. d - M = C * (q - p)
    BY <1>1, <1>3, <1>4, <1>8, <1>10
  <2>2. d - e = C * (q - p + m)
    <3>1. C * (q - p + m) = C * (q - p) + C * m
      BY <1>1, <1>2, <1>7
    <3>2. C * (q - p) \in Int /\ C * m \in Int
      BY <1>1, <1>2, <1>7
    <3> QED BY <1>1, <1>2, <1>3, <2>1, <3>1, <3>2
  <2>3. CASE e = 0
    <3>1. d = C * (q - p + m) /\ q - p + m \in Int
      BY <1>2, <1>3, <1>7, <2>2, <2>3
    <3> QED BY <1>1, <1>3, <3>1, NoMultiple
  <2>4. CASE e # 0
    <3> DEFINE k == q - p + m
    <3>1. k \in Int /\ d - e = C * k /\ e - d \in 1..(C - 1)
      BY <1>1, <1>2, <1>3, <1>7, <2>2, <2>4
    <3> HIDE DEF k
    <3>2. e - d = C * (0 - k) /\ 0 - k \in Int
      BY <1>1, <1>2, <1>3, <3>1
    <3> QED BY <1>1, <3>1, <3>2, NoMultiple
  <2> QED BY <2>3, <2>4
<1> QED BY <1>4, <1>9, <1>10

(* What was presented at most two seconds before the newest packet is not  *)
(* too old.                                                                *)
LEMMA NotTooOld ==
  ASSUME NEW x \in Nat, NEW y \in Nat, x - y \in 0..(2 * MillisPerSecond)
  PROVE  ~((RtpTimestamp(x) - RtpTimestamp(y)) % WordModulus > max_resend_delay_in_clock_rate_)
<1> DEFINE W == WordModulus
<1>1. W \in Nat \ {0} /\ MillisPerSecond \in Nat \ {0} /\ clock_rate \in Nat
  BY ModulusAssumption, TimeAssumption, ClockAssumption
<1>2. PICK d \in Nat : /\ clock_rate = MillisPerSecond * d
                       /\ \A z \in Int : (z * clock_rate) \div MillisPerSecond = z * d
  BY TicksPerMillisecond
<1> DEFINE a == x * d
           b == y * d
           c == (a % W) - (b % W)
           k == (b \div W) - (a \div W)
           f == a - b
<1>3. RtpTimestamp(x) = a % W /\ RtpTimestamp(y) = b % W
  BY <1>2 DEF RtpTimestamp
<1>4. a \in Nat /\ b \in Nat
  BY <1>2
<1>5. f \in Nat /\ f <= clock_rate * 2
  <2> DEFINE u == x - y
             v == 2 * MillisPerSecond - u
  <2>1. u \in Nat /\ v \in Nat
    BY <1>1
  <2>2. f = u * d
    BY <1>2
  <2>3. clock_rate * 2 = u * d + v * d
    <3>1. v * d = 2 * MillisPerSecond * d - u * d
      BY <1>1, <1>2
    <3>2. clock_rate * 2 = 2 * MillisPerSecond * d
      BY <1>1, <1>2
    <3>3. u * d \in Int /\ 2 * MillisPerSecond * d \in Int
      BY <1>1, <1>2, <2>1
    <3> QED BY <3>1, <3>2, <3>3
  <2>4. u * d \in Nat /\ v * d \in Nat
    <3> HIDE DEF u, v
    <3> QED BY <1>2, <2>1
  <2> QED BY <2>2, <2>3, <2>4
<1>6. c = f + W * k /\ c \in Int /\ k \in Int
  <2>1. a = W * (a \div W) + (a % W) /\ a % W \in Int /\ a \div W \in Int
    <3> HIDE DEF a, W
    <3> QED BY <1>1, <1>4, DivMod
  <2>2. b = W * (b \div W) + (b % W) /\ b % W \in Int /\ b \div W \in Int
    <3> HIDE DEF b, W
    <3> QED BY <1>1, <1>4, DivMod
  <2> HIDE DEF a, b, W
  <2> QED BY <1>1, <1>4, <2>1, <2>2
<1> HIDE DEF W, f, k, c
<1>7. c % W = f % W
  <2>1. f \in Int
    BY <1>5
  <2> QED BY <1>1, <1>6, <2>1, ModPlus
<1>8. f % W <= f /\ f % W \in Int
  BY <1>1, <1>5, ModAtMost
<1>9. clock_rate * 2 \in Int
  BY <1>1
<1> QED BY <1>3, <1>5, <1>7, <1>8, <1>9 DEF c, W, max_resend_delay_in_clock_rate_

(* ReceiveNack: a packet that is recent, was presented at most two seconds *)
(* before the newest one and was not sent again within the round-trip time *)
(* is the answer to a NACK for its number, for every size of the ring and  *)
(* wherever the sequence number wraps.                                     *)
THEOREM Answers == Spec => []NackAnswered
<1>1. IInv /\ RingInv => NackAnswered
  <2> SUFFICES ASSUME IInv, RingInv, NEW k \in 1..Len(sent),
                      k > Len(sent) - Recent,
                      sent[Len(sent)].pts - sent[k].pts \in 0..(2 * MillisPerSecond),
                      \A j \in 1..Len(resent) :
                        Repeats(resent[j]) = k => now - resent[j].millis > rtt_
               PROVE  LET answer == ResendAll(<<sent[k].seq>>).resent
                      IN  Len(answer) = Len(resent) + 1 /\ Repeats(Last(answer)) = k
    BY DEF NackAnswered
  <2> DEFINE P == [seq : SeqNum, payload : Seq(Nat), timestamp : Word, pts : Nat, millis : Nat]
             q == sent[k].seq
             slot == Slot(q)
             pkt == send_buffer_[slot]
             n == Len(sent)
  <2>1. sent \in Seq(P) /\ n \in Nat /\ sent # <<>> /\ k \in Nat /\ now \in Nat /\ rtt_ \in Nat
    BY DEF IInv, TimesInv, RingInv, CountsInv
  <2>2. \A i \in 1..n : sent[i] \in P
    <3> HIDE DEF P
    <3> QED BY <2>1
  <2>3. \A i \in 1..n : sent[i].seq = (i - 1) % SeqModulus
                        /\ sent[i].timestamp = RtpTimestamp(sent[i].pts)
    BY DEF RingInv, SentInv
  <2>4. /\ TrackInv(Track) /\ Track \in Tracks /\ Track.send_buffer_ = send_buffer_
        /\ Track.resent = resent /\ resent \in Seq(Resends)
    BY DEF RingInv, TrackInv, Track, Tracks
  <2>5. slot \in DOMAIN send_buffer_
    BY <2>4 DEF TrackInv, HeldInv
  <2>6. Holds(Track, slot, k)
    <3>1. PICK m \in 1..n : Holds(Track, slot, m)
      BY <2>4, <2>5 DEF TrackInv, HeldInv
    <3>2. ~(k < m)
      <4> SUFFICES ASSUME k < m PROVE FALSE
        OBVIOUS
      <4>1. k - 1 \in Nat /\ (k - 1) + (m - k) = m - 1
        BY <2>1
      <4>2. m - k \in 1..(Recent - 1)
        <5>1. Recent \in Int
          BY ModulusAssumption DEF Recent
        <5> QED BY <2>1, <5>1
      <4>3. Slot((m - 1) % SeqModulus) # Slot((k - 1) % SeqModulus)
        BY <4>1, <4>2, SlotsApart
      <4> QED BY <2>3, <3>1, <4>3 DEF Holds
    <3>3. ~(m < k)
      <4> SUFFICES ASSUME m < k PROVE FALSE
        OBVIOUS
      <4>1. k \in (m + 1)..n
        BY <2>1
      <4> QED BY <3>1, <4>1 DEF Holds
    <3>4. m = k
      BY <2>1, <3>2, <3>3
    <3> QED BY <3>1, <3>4
  <2>7. ~TooOld(pkt)
    <3>1. max_rtp_timestamp_ = RtpTimestamp(sent[n].pts)
      BY <2>1 DEF IInv, KeptInv
    <3>2. pkt.timestamp = RtpTimestamp(sent[k].pts)
      BY <2>3, <2>4, <2>6 DEF Holds
    <3>3. sent[n].pts \in Nat /\ sent[k].pts \in Nat
      <4>1. sent[n] \in P /\ sent[k] \in P
        <5>1. n \in 1..n
          BY <2>1
        <5> HIDE DEF P
        <5> QED BY <2>2, <5>1
      <4> QED BY <4>1
    <3>4. ~((RtpTimestamp(sent[n].pts) - RtpTimestamp(sent[k].pts)) % WordModulus
              > max_resend_delay_in_clock_rate_)
      BY <3>3, NotTooOld
    <3> QED BY <3>1, <3>2, <3>4 DEF TooOld
  <2>8. ~TooSoon(pkt)
    <3>1. SUFFICES ASSUME pkt.resent_millisecs # 0 PROVE ~(now - pkt.resent_millisecs <= rtt_)
      BY DEF TooSoon
    <3>2. PICK j \in 1..Len(resent) :
            Repeats(resent[j]) = k /\ resent[j].millis = pkt.resent_millisecs
      BY <2>4, <2>6, <3>1 DEF Holds
    <3>3. now - resent[j].millis > rtt_
      BY <3>2
    <3>4. resent[j].millis \in Nat
      <4>1. resent[j] \in Resends
        BY <2>4
      <4> QED BY <4>1 DEF Resends
    <3>5. ~(now - resent[j].millis <= rtt_)
      <4> DEFINE x == resent[j].millis
      <4>1. now \in Nat /\ rtt_ \in Nat /\ x \in Nat /\ now - x > rtt_
        BY <2>1, <3>3, <3>4
      <4> HIDE DEF x
      <4>2. ~(now - x <= rtt_)
        BY ONLY <4>1
      <4> QED BY <4>2 DEF x
    <3> QED BY <3>2, <3>5
  <2> DEFINE again == Again(Track, slot)
             r == [seq |-> again.seq, payload |-> again.payload, millis |-> now, rtt |-> rtt_]
             answer == ResendAll(<<q>>).resent
  <2>9. /\ again \in StoredPackets
        /\ SubSeq(again.payload, 1, Size(again)) = again.payload
        /\ again.payload = <<q, k>> \/ again.payload = <<k>>
    <3>1. is_rtx_enabled \in BOOLEAN /\ SentInv /\ TimesInv
      BY DEF RingInv, CountsInv, IInv
    <3> QED BY <2>1, <2>4, <2>5, <2>6, <3>1, AgainIs
  <2>10. ResendAll(<<q>>) = ResendLost(Track, q)
    <3>1. ResendAll(<<q>>) = FoldLeft(ResendLost, Track, <<q>>)
      BY DEF ResendAll, Track
    <3>2. FoldLeft(ResendLost, Track, <<q>>) = R!Folded(Track, <<q>>)
      BY ResendAllIsFold
    <3>3. R!Folded(Track, <<q>>) = ResendLost(Track, q)
      BY R!FoldedOne
    <3> QED BY <3>1, <3>2, <3>3
  <2>11. answer = Append(resent, r)
    <3>1. ResendLost(Track, q).resent
            = Append(Track.resent,
                     [seq |-> again.seq, payload |-> SubSeq(again.payload, 1, Size(again)),
                      millis |-> now, rtt |-> rtt_])
      <4> HIDE DEF again
      <4> QED BY <2>4, <2>5, <2>7, <2>8, ResendLostIs DEF again
    <3> QED BY <2>4, <2>9, <2>10, <3>1
  <2> HIDE DEF again, answer
  <2>12. Repeats(r) = k
    <3>1. <<k>>[1] = k /\ <<q, k>>[2] = k /\ Len(<<k>>) = 1 /\ Len(<<q, k>>) = 2
      OBVIOUS
    <3>2. again.payload[Len(again.payload)] = k
      BY <2>9, <3>1
    <3> QED BY <3>2 DEF Repeats, Last
  <2> HIDE DEF r
  <2>13. Len(answer) = Len(resent) + 1 /\ answer[Len(answer)] = r
    BY <2>4, <2>11
  <2> QED BY <2>12, <2>13 DEF answer, Last
<1> QED BY <1>1, RingInvariance, PTL
=============================================================================
