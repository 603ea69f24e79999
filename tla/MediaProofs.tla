------------------------------ MODULE MediaProofs ------------------------------
(***************************************************************************)
(* Theorems about media on its way through a transport: the OpusTranscoder *)
(* (opus_transcoder.cpp), which makes Opus packets of the audio, and the   *)
(* MediaStream (media_stream.cpp), which hands the RTCP of the receiver to *)
(* its tracks after the walk of RtcpCompound (rtcp_packet.cpp), and sends  *)
(* frames as RTP packets (rtp_packet.cpp).  They hold for every size of a  *)
(* frame and of a packet, every way FFmpeg holds packets and samples back  *)
(* or fails, every well-formed compound packet, every datagram that is     *)
(* refused and walked undecrypted, and every frame of NAL units: the named *)
(* assumptions of the modules are all that is used of their constants.     *)
(*                                                                         *)
(* 1. Sequences: what FlattenSeq makes of a sequence of sequences.  It is  *)
(*    defined by a recursion over the whole sequence, of which            *)
(*    FlattenSteps takes the steps; all else about it follows by induction *)
(*    over Nat (FoldProofs!NatInd).                                        *)
(* 2. The transcoder.  The inductive invariant says that what was given    *)
(*    out, what is in the FIFO, in the resampler and in the decoder, one   *)
(*    after the other, are samples of the source in their order.  An       *)
(*    action only moves the borders between them, or cuts out a piece.     *)
(* 3. The MediaStream.  The words of a packet are parsed to what was       *)
(*    written (Parses), so that the walk over the datagram of a compound   *)
(*    gives its packets (WalkWhole).  A walk with two or three bytes left  *)
(*    after the last word fails whatever the words are (WalkFails).  What  *)
(*    the packets do is a fold over them, which goes as their meanings go, *)
(*    one after the other (PacketsDo).                                     *)
(* 4. The packetizer.  The scan finds the start codes there are            *)
(*    (SearchFinds), those of a frame are the ones in front of its units   *)
(*    (FrameCodes, from emulation prevention), and so what is between them *)
(*    are the units (UnitsFound).  A receiver that takes the packets, as a *)
(*    fold of Receive, comes with those of a unit to the unit              *)
(*    (UnitArrives), with those of a frame to the frame (FrameArrives),    *)
(*    and with those of all frames to the frames so far (FramesInv).       *)
(***************************************************************************)
EXTENDS MediaStream, OpusTranscoder, SequenceTheorems, TLAPS

(* \o under a name, which a step expands only where it has to.             *)
Concat(s, t) == s \o t

(* Induction, and what FoldLeft does. *)
Loop == INSTANCE FoldProofs WITH Op <- Concat

-----------------------------------------------------------------------------
(* FlattenSeq is the last of the results of one sequence after the other.  *)
Flattens(f, seqs, n) ==
  /\ f[1] = seqs[1]
  /\ \A i \in 2 .. n : f[i] = Concat(f[i - 1], seqs[i])
  /\ FlattenSeq(seqs) = f[n]

(* The recursion of FlattenSeq: for every sequence that is not empty     *)
(* there are such results.                                               *)
LEMMA FlattenSteps ==
  ASSUME NEW seqs, Len(seqs) \in Nat, Len(seqs) # 0
  PROVE  \E f : Flattens(f, seqs, Len(seqs))
<1> PICK n : n = Len(seqs)
  OBVIOUS
<1> DEFINE Eq(f, k) == f = [i \in 1 .. k |-> IF i = 1 THEN seqs[i] ELSE f[i - 1] \o seqs[i]]
           T == {k \in Nat : \E f : Eq(f, k)}
<1>1. 0 \in T
  <2>1. Eq([i \in 1 .. 0 |-> 0], 0)
    OBVIOUS
  <2> QED BY <2>1
<1>2. ASSUME NEW k \in Nat, k \in T PROVE k + 1 \in T
  <2>1. PICK f : Eq(f, k)
    BY <1>2
  <2> DEFINE g == [i \in 1 .. k + 1 |->
                     IF i = k + 1 THEN IF i = 1 THEN seqs[i] ELSE f[i - 1] \o seqs[i] ELSE f[i]]
  <2>2. ASSUME NEW i \in 1 .. k + 1
        PROVE g[i] = IF i = 1 THEN seqs[i] ELSE g[i - 1] \o seqs[i]
    <3>1. CASE i = k + 1
      <4>1. i # 1 => i - 1 \in 1 .. k + 1 /\ i - 1 # k + 1
        BY <3>1
      <4> QED BY <3>1, <4>1
    <3>2. CASE i # k + 1
      <4>1. i \in 1 .. k /\ i - 1 # k + 1 /\ (i # 1 => i - 1 \in 1 .. k + 1)
        BY <3>2
      <4>2. f[i] = IF i = 1 THEN seqs[i] ELSE f[i - 1] \o seqs[i]
        BY <2>1, <4>1
      <4> QED BY <3>2, <4>1, <4>2
    <3> QED BY <3>1, <3>2
  <2>3. g = [i \in 1 .. k + 1 |-> g[i]]
    OBVIOUS
  <2> HIDE DEF g
  <2>4. Eq(g, k + 1)
    BY ONLY <2>2, <2>3
  <2> HIDE DEF Eq
  <2> QED BY <2>4
<1>3. n \in T
  <2> HIDE DEF T
  <2> QED BY <1>1, <1>2, Loop!NatInd, Zenon
<1> DEFINE h == CHOOSE f : Eq(f, n)
<1>4. Eq(h, n)
  BY <1>3, Zenon
<1>5. FlattenSeq(seqs) = h[n]
  BY DEF FlattenSeq
<1> HIDE DEF h
<1>6. h[1] = seqs[1]
  BY <1>4
<1>7. ASSUME NEW i \in 2 .. n PROVE h[i] = h[i - 1] \o seqs[i]
  <2>1. i \in 1 .. n /\ i # 1
    OBVIOUS
  <2> QED BY <1>4, <2>1
<1> QED BY <1>5, <1>6, <1>7 DEF Flattens, Concat

(* Of no sequence it is empty, of one that sequence. *)
LEMMA FlattenNone == FlattenSeq(<<>>) = <<>>
BY DEF FlattenSeq

(* Of one sequence it is that sequence. *)
LEMMA FlattenOne ==
  ASSUME NEW s
  PROVE  FlattenSeq(<<s>>) = s
<1> PICK w : w = <<s>>
  OBVIOUS
<1>1. Len(w) = 1 /\ w[1] = s
  OBVIOUS
<1>2. PICK f : Flattens(f, w, Len(w))
  <2>1. Len(w) \in Nat /\ Len(w) # 0
    BY <1>1
  <2> QED BY <2>1, FlattenSteps
<1>3. FlattenSeq(w) = s
  BY <1>1, <1>2 DEF Flattens
<1> QED BY <1>3

(* With one sequence more, it has that one at its end. *)
LEMMA FlattenAppend ==
  ASSUME NEW S, NEW seqs \in Seq(Seq(S)), NEW s \in Seq(S)
  PROVE  FlattenSeq(Append(seqs, s)) = FlattenSeq(seqs) \o s
<1> DEFINE longer == Append(seqs, s)
           n == Len(seqs)
<1>1. n \in Nat /\ Len(longer) = n + 1 /\ longer[n + 1] = s
      /\ \A i \in 1 .. n : longer[i] = seqs[i]
  OBVIOUS
<1>2. CASE n = 0
  <2>1. seqs = <<>>
    BY <1>2
  <2>2. longer = <<s>>
    BY <2>1
  <2>3. <<>> \o s = s
    BY ConcatEmptySeq
  <2> QED BY <2>1, <2>2, <2>3, FlattenNone, FlattenOne
<1>3. CASE n # 0
  <2> HIDE DEF n, longer
  <2>1. PICK f : Flattens(f, seqs, n)
    BY <1>1, <1>3, FlattenSteps DEF n
  <2>2. PICK g : Flattens(g, longer, n + 1)
    <3>1. Len(longer) \in Nat /\ Len(longer) # 0
      BY <1>1
    <3>2. \E g : Flattens(g, longer, Len(longer))
      BY <3>1, FlattenSteps
    <3> QED BY <1>1, <3>2
  <2> DEFINE T == {k \in Nat : k + 1 <= n => f[k + 1] = g[k + 1]}
  <2>3. 0 \in T
    BY <1>1, <1>3, <2>1, <2>2 DEF Flattens
  <2>4. ASSUME NEW k \in Nat, k \in T PROVE k + 1 \in T
    <3> SUFFICES ASSUME k + 2 <= n PROVE f[k + 2] = g[k + 2]
      OBVIOUS
    <3>1. k + 2 \in 2 .. n /\ k + 2 \in 2 .. n + 1 /\ k + 2 - 1 = k + 1 /\ k + 1 <= n
          /\ k + 2 \in 1 .. n
      BY <1>1
    <3>2. f[k + 1] = g[k + 1]
      BY <2>4, <3>1
    <3>3. f[k + 2] = Concat(f[k + 1], seqs[k + 2])
      BY <2>1, <3>1 DEF Flattens
    <3>4. g[k + 2] = Concat(g[k + 1], longer[k + 2])
      BY <2>2, <3>1 DEF Flattens
    <3> QED BY <1>1, <3>1, <3>2, <3>3, <3>4
  <2>5. n - 1 \in T /\ n - 1 + 1 = n
    <3> HIDE DEF T
    <3>1. n - 1 \in Nat /\ n - 1 + 1 = n
      BY <1>1, <1>3
    <3> QED BY <2>3, <2>4, <3>1, Loop!NatInd
  <2>6. f[n] = g[n]
    BY <1>1, <2>5
  <2>7. n + 1 \in 2 .. n + 1 /\ n + 1 - 1 = n
    BY <1>1, <1>3
  <2>8. g[n + 1] = Concat(g[n], s)
    BY <1>1, <2>2, <2>7 DEF Flattens
  <2> QED BY <2>1, <2>2, <2>6, <2>8 DEF longer, Flattens, Concat
<1> QED BY <1>2, <1>3

(* Sequences of sequences, built one by one. *)
LEMMA SeqsInduction ==
  ASSUME NEW S, NEW T, <<>> \in T, \A s \in Seq(S), e \in S : s \in T => Append(s, e) \in T
  PROVE  Seq(S) \subseteq T
<1> DEFINE N == {n \in Nat : \A s \in Seq(S) : Len(s) = n => s \in T}
<1>1. 0 \in N
  OBVIOUS
<1>2. ASSUME NEW n \in Nat, n \in N PROVE n + 1 \in N
  <2> SUFFICES ASSUME NEW s \in Seq(S), Len(s) = n + 1 PROVE s \in T
    OBVIOUS
  <2>1. s # <<>>
    OBVIOUS
  <2>2. PICK p \in Seq(S), e \in S : s = Append(p, e)
    BY <2>1, SequenceEmptyOrAppend
  <2>3. Len(p) = n
    BY <2>2
  <2>4. p \in T
    BY <1>2, <2>3
  <2> QED BY <2>2, <2>4
<1>3. Nat \subseteq N
  <2> HIDE DEF N
  <2> QED BY <1>1, <1>2, Loop!NatInd
<1>4. ASSUME NEW s \in Seq(S) PROVE s \in T
  <2>1. Len(s) \in N
    BY <1>3
  <2> QED BY <2>1
<1> QED BY <1>4

(* It is a sequence of the elements of the sequences. *)
LEMMA FlattenIsSeq ==
  ASSUME NEW S, NEW seqs \in Seq(Seq(S))
  PROVE  FlattenSeq(seqs) \in Seq(S)
<1> DEFINE T == {t \in Seq(Seq(S)) : FlattenSeq(t) \in Seq(S)}
<1>1. <<>> \in T
  <2>1. <<>> \in Seq(Seq(S)) /\ <<>> \in Seq(S)
    BY EmptySeq
  <2> QED BY <2>1, FlattenNone
<1>2. ASSUME NEW t \in Seq(Seq(S)), NEW s \in Seq(S), t \in T PROVE Append(t, s) \in T
  <2>1. FlattenSeq(Append(t, s)) = FlattenSeq(t) \o s
    BY FlattenAppend
  <2>2. FlattenSeq(t) \o s \in Seq(S)
    BY <1>2, ConcatProperties
  <2>3. Append(t, s) \in Seq(Seq(S))
    OBVIOUS
  <2> QED BY <2>1, <2>2, <2>3
<1> QED
  <2> HIDE DEF T
  <2>1. Seq(Seq(S)) \subseteq T
    BY <1>1, <1>2, SeqsInduction
  <2> QED BY <2>1 DEF T

(* Of two sequences of sequences, it is the one after the other. *)
LEMMA FlattenConcat ==
  ASSUME NEW S, NEW s \in Seq(Seq(S)), NEW t \in Seq(Seq(S))
  PROVE  FlattenSeq(s \o t) = FlattenSeq(s) \o FlattenSeq(t)
<1> DEFINE T == {u \in Seq(Seq(S)) : FlattenSeq(s \o u) = FlattenSeq(s) \o FlattenSeq(u)}
<1>1. <<>> \in T
  <2>1. s \o <<>> = s /\ FlattenSeq(s) \o <<>> = FlattenSeq(s)
    <3>1. FlattenSeq(s) \in Seq(S)
      BY FlattenIsSeq
    <3> QED BY <3>1, ConcatEmptySeq
  <2>2. <<>> \in Seq(Seq(S))
    BY EmptySeq
  <2> QED BY <2>1, <2>2, FlattenNone
<1>2. ASSUME NEW u \in Seq(Seq(S)), NEW e \in Seq(S), u \in T PROVE Append(u, e) \in T
  <2>1. s \o Append(u, e) = Append(s \o u, e) /\ s \o u \in Seq(Seq(S))
        /\ Append(u, e) \in Seq(Seq(S))
    <3>1. s \o u \in Seq(Seq(S)) /\ Append(u, e) \in Seq(Seq(S)) /\ <<e>> \in Seq(Seq(S))
      OBVIOUS
    <3>2. ASSUME NEW Q, s \in Seq(Q), u \in Seq(Q), e \in Q
          PROVE  s \o Append(u, e) = Append(s \o u, e)
      BY ONLY <3>2
    <3> QED BY <3>1, <3>2
  <2>2. FlattenSeq(s \o Append(u, e)) = (FlattenSeq(s) \o FlattenSeq(u)) \o e
    BY <1>2, <2>1, FlattenAppend
  <2>3. FlattenSeq(Append(u, e)) = FlattenSeq(u) \o e
    BY FlattenAppend
  <2>4. (FlattenSeq(s) \o FlattenSeq(u)) \o e = FlattenSeq(s) \o (FlattenSeq(u) \o e)
    <3>1. FlattenSeq(s) \in Seq(S) /\ FlattenSeq(u) \in Seq(S)
      BY FlattenIsSeq
    <3>2. ASSUME NEW a \in Seq(S), NEW b \in Seq(S), NEW c \in Seq(S)
          PROVE  (a \o b) \o c = a \o (b \o c)
      BY ONLY a \in Seq(S), b \in Seq(S), c \in Seq(S), ConcatAssociative, SMTT(30)
    <3> QED BY <3>1, <3>2
  <2> QED BY <2>1, <2>2, <2>3, <2>4
<1> QED
  <2> HIDE DEF T
  <2>1. Seq(Seq(S)) \subseteq T
    BY <1>1, <1>2, SeqsInduction
  <2> QED BY <2>1 DEF T

(* The first sequence comes first. *)
LEMMA FlattenHead ==
  ASSUME NEW S, NEW s \in Seq(Seq(S)), s # <<>>
  PROVE  FlattenSeq(s) = Head(s) \o FlattenSeq(Tail(s))
<1>1. Head(s) \in Seq(S) /\ Tail(s) \in Seq(Seq(S)) /\ <<Head(s)>> \in Seq(Seq(S))
      /\ Len(Tail(s)) = Len(s) - 1 /\ \A i \in 1 .. Len(Tail(s)) : Tail(s)[i] = s[i + 1]
  BY HeadTailProperties
<1>2. s = <<Head(s)>> \o Tail(s)
  OBVIOUS
<1>3. FlattenSeq(<<Head(s)>> \o Tail(s)) = FlattenSeq(<<Head(s)>>) \o FlattenSeq(Tail(s))
  BY <1>1, FlattenConcat
<1> QED BY <1>2, <1>3, FlattenOne

(* Where the k-th sequence is in the whole. *)
LEMMA FlattenAt ==
  ASSUME NEW S, NEW s \in Seq(Seq(S)), NEW k \in 1 .. Len(s)
  PROVE  LET at == Len(FlattenSeq(SubSeq(s, 1, k - 1)))
             all == FlattenSeq(s)
         IN  /\ at \in Nat /\ s[k] \in Seq(S) /\ all \in Seq(S)
             /\ Len(FlattenSeq(SubSeq(s, 1, k))) = at + Len(s[k])
             /\ at + Len(s[k]) <= Len(all)
             /\ \A j \in 1 .. Len(s[k]) : all[at + j] = s[k][j]
<1> DEFINE Before == SubSeq(s, 1, k - 1)
           First == SubSeq(s, 1, k)
           Rest == SubSeq(s, k + 1, Len(s))
<1>1. s[k] \in Seq(S) /\ Len(s) \in Nat /\ k \in Nat
  OBVIOUS
<1>2. Before \in Seq(Seq(S)) /\ First \in Seq(Seq(S)) /\ Rest \in Seq(Seq(S))
  <2>1. ASSUME NEW Q, s \in Seq(Q)
        PROVE  Before \in Seq(Q) /\ First \in Seq(Q) /\ Rest \in Seq(Q)
    BY <2>1
  <2> QED BY <2>1
<1>3. First = Append(Before, s[k]) /\ s = First \o Rest
  <2>1. ASSUME NEW Q, s \in Seq(Q)
        PROVE  First = Append(Before, s[k]) /\ s = First \o Rest
    BY ONLY <2>1, k \in 1 .. Len(s)
  <2> QED BY <2>1
<1> HIDE DEF Before, First, Rest
<1>4. FlattenSeq(First) = FlattenSeq(Before) \o s[k]
  BY <1>1, <1>2, <1>3, FlattenAppend
<1>5. FlattenSeq(s) = FlattenSeq(First) \o FlattenSeq(Rest)
  BY <1>2, <1>3, FlattenConcat
<1>6. FlattenSeq(Before) \in Seq(S) /\ FlattenSeq(First) \in Seq(S) /\ FlattenSeq(Rest) \in Seq(S)
  BY <1>2, FlattenIsSeq
<1>7. ASSUME NEW a \in Seq(S), NEW b \in Seq(S), NEW c \in Seq(S)
      PROVE  /\ Len(a) \in Nat /\ (a \o b) \o c \in Seq(S)
             /\ Len(a \o b) = Len(a) + Len(b) /\ Len(a) + Len(b) <= Len((a \o b) \o c)
             /\ \A j \in 1 .. Len(b) : ((a \o b) \o c)[Len(a) + j] = b[j]
  OBVIOUS
<1> PICK a, b, c : a = FlattenSeq(Before) /\ b = s[k] /\ c = FlattenSeq(Rest)
  OBVIOUS
<1>8. /\ Len(FlattenSeq(Before)) \in Nat
      /\ (FlattenSeq(Before) \o s[k]) \o FlattenSeq(Rest) \in Seq(S)
      /\ Len(FlattenSeq(Before) \o s[k]) = Len(FlattenSeq(Before)) + Len(s[k])
      /\ Len(FlattenSeq(Before)) + Len(s[k])
           <= Len((FlattenSeq(Before) \o s[k]) \o FlattenSeq(Rest))
      /\ \A j \in 1 .. Len(s[k]) :
           ((FlattenSeq(Before) \o s[k]) \o FlattenSeq(Rest))[Len(FlattenSeq(Before)) + j] = s[k][j]
  <2>1. a \in Seq(S) /\ b \in Seq(S) /\ c \in Seq(S)
    BY <1>1, <1>6
  <2>2. /\ Len(a) \in Nat /\ (a \o b) \o c \in Seq(S)
        /\ Len(a \o b) = Len(a) + Len(b) /\ Len(a) + Len(b) <= Len((a \o b) \o c)
        /\ \A j \in 1 .. Len(b) : ((a \o b) \o c)[Len(a) + j] = b[j]
    BY ONLY <1>7, <2>1
  <2> QED BY <2>2
<1> QED BY <1>1, <1>4, <1>5, <1>8 DEF Before, First

(* Sequences of the same length. *)
LEMMA FlattenEven ==
  ASSUME NEW S, NEW n \in Nat, NEW s \in Seq(Seq(S)), \A k \in 1 .. Len(s) : Len(s[k]) = n
  PROVE  Len(FlattenSeq(s)) = Len(s) * n
<1> DEFINE T == {t \in Seq(Seq(S)) : (\A k \in 1 .. Len(t) : Len(t[k]) = n) =>
                                        Len(FlattenSeq(t)) = Len(t) * n}
<1>1. <<>> \in T
  <2>1. <<>> \in Seq(Seq(S)) /\ Len(<<>>) = 0
    BY EmptySeq
  <2> QED BY <2>1, FlattenNone
<1>2. ASSUME NEW t \in Seq(Seq(S)), NEW e \in Seq(S), t \in T PROVE Append(t, e) \in T
  <2>1. Append(t, e) \in Seq(Seq(S)) /\ Len(t) \in Nat /\ Len(Append(t, e)) = Len(t) + 1
        /\ Append(t, e)[Len(t) + 1] = e /\ \A k \in 1 .. Len(t) : Append(t, e)[k] = t[k]
    OBVIOUS
  <2>2. ASSUME \A k \in 1 .. Len(t) + 1 : Len(Append(t, e)[k]) = n
        PROVE  Len(FlattenSeq(Append(t, e))) = (Len(t) + 1) * n
    <3>1. \A k \in 1 .. Len(t) : Len(t[k]) = n
      BY <2>1, <2>2
    <3>2. Len(FlattenSeq(t)) = Len(t) * n
      BY <1>2, <3>1
    <3>3. Len(e) = n
      BY <2>1, <2>2
    <3>4. FlattenSeq(Append(t, e)) = FlattenSeq(t) \o e /\ FlattenSeq(t) \in Seq(S)
      BY FlattenAppend, FlattenIsSeq
    <3>5. ASSUME NEW a \in Seq(S) PROVE Len(a \o e) = Len(a) + Len(e)
      OBVIOUS
    <3>6. Len(FlattenSeq(Append(t, e))) = Len(t) * n + n
      BY <3>2, <3>3, <3>4, <3>5
    <3> QED BY <2>1, <3>6
  <2> QED BY <2>1, <2>2
<1>3. s \in T
  <2> HIDE DEF T
  <2>1. Seq(Seq(S)) \subseteq T
    BY <1>1, <1>2, SeqsInduction
  <2> QED BY <2>1
<1> QED BY <1>3

(* What is in it is in one of the sequences. *)
Contents(s) == UNION {Range(s[k]) : k \in DOMAIN s}
(* FlattenSeq neither loses nor makes up an element. *)
LEMMA FlattenRange ==
  ASSUME NEW S, NEW s \in Seq(Seq(S))
  PROVE  Range(FlattenSeq(s)) = Contents(s)
<1> DEFINE T == {t \in Seq(Seq(S)) : Range(FlattenSeq(t)) = Contents(t)}
<1>1. <<>> \in T
  <2>1. <<>> \in Seq(Seq(S)) /\ DOMAIN <<>> = {}
    BY EmptySeq
  <2>2. Range(<<>>) = {} /\ Contents(<<>>) = {}
    BY <2>1 DEF Range, Contents
  <2> QED BY <2>1, <2>2, FlattenNone
<1>2. ASSUME NEW t \in Seq(Seq(S)), NEW e \in Seq(S), t \in T PROVE Append(t, e) \in T
  <2>1. Append(t, e) \in Seq(Seq(S)) /\ Len(t) \in Nat /\ DOMAIN t = 1 .. Len(t)
        /\ DOMAIN Append(t, e) = 1 .. Len(t) + 1
        /\ Append(t, e)[Len(t) + 1] = e /\ \A k \in 1 .. Len(t) : Append(t, e)[k] = t[k]
    OBVIOUS
  <2>2. FlattenSeq(Append(t, e)) = FlattenSeq(t) \o e /\ FlattenSeq(t) \in Seq(S)
    BY FlattenAppend, FlattenIsSeq
  <2>3. Range(FlattenSeq(t) \o e) = Range(FlattenSeq(t)) \cup Range(e)
    <3>1. ASSUME NEW a \in Seq(S) PROVE Range(a \o e) = Range(a) \cup Range(e)
      BY RangeConcatenation
    <3> QED BY <2>2, <3>1
  <2>4. Contents(Append(t, e)) = Contents(t) \cup Range(e)
    <3> DEFINE longer == Append(t, e)
    <3>1. DOMAIN longer = DOMAIN t \cup {Len(t) + 1}
      BY <2>1
    <3>2. \A k \in DOMAIN t : longer[k] = t[k]
      BY <2>1
    <3>3. longer[Len(t) + 1] = e
      BY <2>1
    <3> HIDE DEF longer
    <3>4. ASSUME NEW x PROVE x \in Contents(longer) <=> x \in Contents(t) \cup Range(e)
      <4>1. x \in Contents(longer) <=> \E k \in DOMAIN longer : x \in Range(longer[k])
        BY DEF Contents
      <4>2. x \in Contents(t) <=> \E k \in DOMAIN t : x \in Range(t[k])
        BY DEF Contents
      <4> QED BY <3>1, <3>2, <3>3, <4>1, <4>2
    <3> QED BY <3>4 DEF longer
  <2>5. Range(FlattenSeq(t)) = Contents(t)
    BY <1>2
  <2> QED BY <2>1, <2>2, <2>3, <2>4, <2>5
<1>3. s \in T
  <2> HIDE DEF T
  <2>1. Seq(Seq(S)) \subseteq T
    BY <1>1, <1>2, SeqsInduction
  <2> QED BY <2>1
<1> QED BY <1>3

(* The first pieces of equal length of a sequence. *)
Piece(s, n, j) == SubSeq(s, (j - 1) * n + 1, j * n)
Pieces(s, n, k) == [j \in 1 .. k |-> Piece(s, n, j)]

(* The pieces, one after the other, are what they were cut from. *)
LEMMA FlattenPieces ==
  ASSUME NEW S, NEW s \in Seq(S), NEW n \in Nat, NEW k \in Nat, k * n <= Len(s)
  PROVE  /\ Pieces(s, n, k) \in Seq(Seq(S))
         /\ \A j \in 1 .. k : Len(Pieces(s, n, k)[j]) = n
         /\ FlattenSeq(Pieces(s, n, k)) = SubSeq(s, 1, k * n)
<1> DEFINE Good(i) == /\ Pieces(s, n, i) \in Seq(Seq(S))
                      /\ \A j \in 1 .. i : Len(Pieces(s, n, i)[j]) = n
                      /\ FlattenSeq(Pieces(s, n, i)) = SubSeq(s, 1, i * n)
           T == {i \in Nat : i * n <= Len(s) => Good(i)}
<1>1. 0 \in T
  <2>1. Pieces(s, n, 0) = <<>>
    BY DEF Pieces
  <2>2. SubSeq(s, 1, 0 * n) = <<>>
    OBVIOUS
  <2>3. <<>> \in Seq(Seq(S))
    BY EmptySeq
  <2>4. FlattenSeq(Pieces(s, n, 0)) = SubSeq(s, 1, 0 * n)
    BY <2>1, <2>2, FlattenNone
  <2>5. Pieces(s, n, 0) \in Seq(Seq(S)) /\ \A j \in 1 .. 0 : Len(Pieces(s, n, 0)[j]) = n
    <3>1. 1 .. 0 = {}
      OBVIOUS
    <3> QED BY <2>1, <2>3, <3>1
  <2> QED BY <2>4, <2>5
<1>2. ASSUME NEW i \in Nat, i \in T PROVE i + 1 \in T
  <2> SUFFICES ASSUME (i + 1) * n <= Len(s) PROVE Good(i + 1)
    OBVIOUS
  <2> DEFINE a == i * n
             b == (i + 1) * n
             old == Pieces(s, n, i)
             piece == Piece(s, n, i + 1)
  <2>1. a \in Nat /\ b = a + n /\ b <= Len(s) /\ a <= b /\ Len(s) \in Nat
    OBVIOUS
  <2>2. Good(i)
    BY <1>2, <2>1
  <2>3. piece = SubSeq(s, a + 1, b)
    BY DEF Piece
  <2> HIDE DEF a, b
  <2>4. piece \in Seq(S) /\ Len(piece) = n /\ SubSeq(s, 1, a) \o piece = SubSeq(s, 1, b)
    <3>2. ASSUME NEW x \in Nat, NEW y \in Nat, x <= y, y <= Len(s)
          PROVE  /\ SubSeq(s, x + 1, y) \in Seq(S) /\ Len(SubSeq(s, x + 1, y)) = y - x
                 /\ SubSeq(s, 1, x) \o SubSeq(s, x + 1, y) = SubSeq(s, 1, y)
      <4>1. 1 \in 1 .. Len(s) + 1 /\ x \in 0 .. Len(s) /\ y \in x .. Len(s) /\ x \in 1 - 1 .. Len(s)
        BY <3>2
      <4> QED BY <3>2, <4>1, ConcatAdjacentSubSeq
    <3>3. b \in Nat /\ b - a = n
      BY <2>1
    <3>4. /\ SubSeq(s, a + 1, b) \in Seq(S) /\ Len(SubSeq(s, a + 1, b)) = b - a
          /\ SubSeq(s, 1, a) \o SubSeq(s, a + 1, b) = SubSeq(s, 1, b)
      BY ONLY <2>1, <3>2, <3>3
    <3> QED BY ONLY <2>3, <3>3, <3>4
  <2>5. Pieces(s, n, i + 1) = Append(old, piece)
    <3>1. old \in Seq(Seq(S)) /\ Len(old) = i
      BY <2>2 DEF Pieces
    <3>2. \A j \in 1 .. i : Pieces(s, n, i + 1)[j] = old[j]
      BY DEF Pieces
    <3>3. Pieces(s, n, i + 1)[i + 1] = piece
      BY DEF Pieces
    <3>4. Pieces(s, n, i + 1) = [j \in 1 .. i + 1 |-> Pieces(s, n, i + 1)[j]]
      BY DEF Pieces
    <3> HIDE DEF old, piece
    <3> QED BY <3>1, <3>2, <3>3, <3>4
  <2> HIDE DEF old, piece
  <2>6. old \in Seq(Seq(S)) /\ Len(old) = i /\ FlattenSeq(old) = SubSeq(s, 1, a)
        /\ \A j \in 1 .. i : Len(old[j]) = n
    BY <2>2 DEF old, a, Pieces
  <2>7. FlattenSeq(Append(old, piece)) = FlattenSeq(old) \o piece
    BY <2>4, <2>6, FlattenAppend
  <2>8. \A j \in 1 .. i + 1 : Len(Append(old, piece)[j]) = n
    BY <2>4, <2>6
  <2>9. Append(old, piece) \in Seq(Seq(S))
    BY <2>4, <2>6
  <2> QED BY <2>4, <2>5, <2>6, <2>7, <2>8, <2>9 DEF b
<1>3. k \in T
  <2> HIDE DEF T
  <2> QED BY <1>1, <1>2, Loop!NatInd
<1> QED BY <1>3

Increasing(s) == \A i, j \in 1 .. Len(s) : i < j => s[i] < s[j]
Ramp(n) == [i \in 1 .. n |-> i - 1]

(* Sound(s, c): samples of the source in the order of the source, which has *)
(* given c of them.                                                        *)
Sound(s, c) == s \in Seq(Nat) /\ Increasing(s) /\ \A i \in 1 .. Len(s) : s[i] < c

(* A gap leaves the order as it is. *)
LEMMA Gap ==
  ASSUME NEW x \in Seq(Nat), NEW y \in Seq(Nat), NEW z \in Seq(Nat), NEW c \in Nat,
         Sound((x \o y) \o z, c)
  PROVE  Sound(x \o z, c)
<1> DEFINE w == (x \o y) \o z
           v == x \o z
           At(i) == IF i <= Len(x) THEN i ELSE i + Len(y)
<1>1. Len(x) \in Nat /\ Len(y) \in Nat /\ Len(z) \in Nat
  OBVIOUS
<1>2. v \in Seq(Nat) /\ Len(v) = Len(x) + Len(z) /\ Len(w) = Len(x) + Len(y) + Len(z)
  OBVIOUS
<1>3. \A i \in 1 .. Len(v) : v[i] = w[At(i)]
  <2>1. ASSUME NEW i \in 1 .. Len(x) PROVE v[i] = x[i] /\ w[i] = x[i]
    OBVIOUS
  <2>2. ASSUME NEW i \in 1 .. Len(z)
        PROVE  v[Len(x) + i] = z[i] /\ w[(Len(x) + Len(y)) + i] = z[i]
    OBVIOUS
  <2>3. ASSUME NEW i \in 1 .. Len(v), ~(i <= Len(x))
        PROVE  i - Len(x) \in 1 .. Len(z) /\ Len(x) + (i - Len(x)) = i
               /\ (Len(x) + Len(y)) + (i - Len(x)) = i + Len(y)
    BY ONLY <1>1, <1>2, <2>3
  <2> SUFFICES ASSUME NEW i \in 1 .. Len(v) PROVE v[i] = w[At(i)]
    OBVIOUS
  <2>4. i <= Len(x) => i \in 1 .. Len(x)
    BY ONLY <1>1, <1>2, i \in 1 .. Len(v)
  <2> HIDE DEF v, w, At
  <2>5. CASE i <= Len(x)
    <3>1. At(i) = i
      BY <2>5 DEF At
    <3> QED BY ONLY <2>1, <2>4, <2>5, <3>1
  <2>6. CASE ~(i <= Len(x))
    <3>1. At(i) = i + Len(y)
      BY <2>6 DEF At
    <3> DEFINE k == i - Len(x)
    <3>2. k \in 1 .. Len(z) /\ Len(x) + k = i /\ (Len(x) + Len(y)) + k = i + Len(y)
      BY <2>3, <2>6
    <3> HIDE DEF k
    <3>3. v[Len(x) + k] = z[k] /\ w[(Len(x) + Len(y)) + k] = z[k]
      BY ONLY <2>2, <3>2
    <3> QED BY ONLY <3>1, <3>2, <3>3
  <2> QED BY ONLY <2>5, <2>6
<1>4. \A i \in 1 .. Len(v) : At(i) \in 1 .. Len(w)
  BY <1>1, <1>2
<1>5. \A i, j \in 1 .. Len(v) : i < j => At(i) < At(j)
  BY <1>1, <1>2
<1>6. Sound(w, c)
  OBVIOUS
<1> HIDE DEF v, w, At
<1>7. Increasing(v)
  <2> SUFFICES ASSUME NEW i \in 1 .. Len(v), NEW j \in 1 .. Len(v), i < j PROVE v[i] < v[j]
    BY DEF Increasing
  <2>1. w[At(i)] < w[At(j)]
    BY <1>4, <1>5, <1>6 DEF Sound, Increasing
  <2> QED BY <1>3, <2>1
<1>8. \A i \in 1 .. Len(v) : v[i] < c
  BY <1>3, <1>4, <1>6 DEF Sound
<1>9. Sound(v, c)
  BY <1>2, <1>7, <1>8 DEF Sound
<1> QED BY <1>9 DEF v

(* Nothing is missing when the gap is empty. *)
LEMMA NoGap ==
  ASSUME NEW x \in Seq(Nat), NEW y \in Seq(Nat), NEW z \in Seq(Nat), y = <<>>
  PROVE  x \o z = (x \o y) \o z
<1>1. x \o <<>> = x
  BY ConcatEmptySeq
<1> QED BY <1>1

(* A packet more of the source. *)
LEMMA Given ==
  ASSUME NEW s, NEW c \in Nat, NEW n \in Nat, Sound(s, c)
  PROVE  LET packet == [i \in 1 .. n |-> c + i - 1]
         IN  /\ packet \in Seq(Nat) /\ Len(packet) = n
             /\ Sound(s \o packet, c + n)
             /\ s = Ramp(c) => s \o packet = Ramp(c + n)
<1> DEFINE p == [i \in 1 .. n |-> c + i - 1]
           w == s \o p
<1>1. p \in Seq(Nat) /\ Len(p) = n /\ \A i \in 1 .. n : p[i] = c + i - 1
  OBVIOUS
<1>2. s \in Seq(Nat) /\ Len(s) \in Nat /\ \A i \in 1 .. Len(s) : s[i] \in Nat /\ s[i] < c
  BY DEF Sound
<1> HIDE DEF p
<1>3. w \in Seq(Nat) /\ Len(w) = Len(s) + n
      /\ \A i \in 1 .. Len(w) : /\ i <= Len(s) => w[i] = s[i]
                                /\ i > Len(s) => /\ i - Len(s) \in 1 .. n
                                                 /\ w[i] = p[i - Len(s)]
  <2>1. w \in Seq(Nat) /\ Len(w) = Len(s) + n
    BY <1>1, <1>2, ConcatProperties
  <2>2. ASSUME NEW i \in 1 .. Len(s) + n, i <= Len(s) PROVE w[i] = s[i]
    BY <1>1, <1>2, <2>2
  <2>3. ASSUME NEW i \in 1 .. Len(s) + n, i > Len(s)
        PROVE  i - Len(s) \in 1 .. n /\ w[i] = p[i - Len(s)]
    BY <1>1, <1>2, <2>3
  <2> QED BY <2>1, <2>2, <2>3
<1> HIDE DEF w
<1>4. \A i \in 1 .. Len(w) : i > Len(s) => w[i] = c + (i - Len(s)) - 1
  BY <1>1, <1>2, <1>3
<1>5. Increasing(w)
  <2> SUFFICES ASSUME NEW i \in 1 .. Len(w), NEW j \in 1 .. Len(w), i < j PROVE w[i] < w[j]
    BY DEF Increasing
  <2>1. CASE j <= Len(s)
    <3>1. i \in 1 .. Len(s) /\ j \in 1 .. Len(s) /\ w[i] = s[i] /\ w[j] = s[j]
      <4>1. i \in 1 .. Len(s) /\ j \in 1 .. Len(s) /\ i <= Len(s)
        BY ONLY <1>2, <2>1, i \in 1 .. Len(w), j \in 1 .. Len(w), i < j
      <4> QED BY <1>3, <2>1, <4>1
    <3> QED BY <3>1 DEF Sound, Increasing
  <2>2. CASE i <= Len(s) /\ j > Len(s)
    <3>1. i \in 1 .. Len(s) /\ w[i] = s[i]
      BY <1>2, <1>3, <2>2
    <3>2. s[i] \in Nat /\ s[i] < c
      BY <1>2, <3>1
    <3>3. w[j] = c + (j - Len(s)) - 1
      BY <1>4, <2>2
    <3>4. w[i] < c /\ c <= w[j] /\ w[i] \in Nat /\ w[j] \in Int
      BY <1>2, <2>2, <3>1, <3>2, <3>3
    <3> QED BY <3>4
  <2>3. CASE i > Len(s)
    <3>1. j > Len(s)
      BY <1>2, <2>3
    <3>2. w[i] = c + (i - Len(s)) - 1 /\ w[j] = c + (j - Len(s)) - 1
      BY <1>4, <2>3, <3>1
    <3> QED BY <1>2, <3>2
  <2> QED BY <1>2, <1>3, <2>1, <2>2, <2>3
<1>6. \A i \in 1 .. Len(w) : w[i] < c + n
  <2> SUFFICES ASSUME NEW i \in 1 .. Len(w) PROVE w[i] < c + n
    OBVIOUS
  <2>1. CASE i <= Len(s)
    <3>1. i \in 1 .. Len(s) /\ w[i] = s[i]
      BY <1>2, <1>3, <2>1
    <3> QED BY <1>2, <3>1
  <2>2. CASE i > Len(s)
    BY <1>2, <1>3, <1>4, <2>2
  <2> QED BY <1>2, <1>3, <2>1, <2>2
<1>7. ASSUME s = Ramp(c) PROVE w = Ramp(c + n)
  <2>1. Len(s) = c /\ \A i \in 1 .. c : s[i] = i - 1
    BY <1>7 DEF Ramp
  <2>2. Ramp(c + n) \in Seq(Nat) /\ Len(Ramp(c + n)) = c + n
        /\ \A i \in 1 .. c + n : Ramp(c + n)[i] = i - 1
    BY DEF Ramp
  <2>3. \A i \in 1 .. c + n : w[i] = i - 1
    BY <1>3, <1>4, <2>1
  <2>4. Len(w) = c + n
    BY <1>3, <2>1
  <2> QED BY <1>3, <2>2, <2>3, <2>4, SeqEqual
<1> QED BY <1>1, <1>3, <1>5, <1>6, <1>7 DEF w, p, Sound

(* A sample has at least as many before it as come before it in the order. *)
LEMMA NoSooner ==
  ASSUME NEW s, NEW c, Sound(s, c), NEW i \in 1 .. Len(s)
  PROVE  s[i] >= i - 1
<1>1. s \in Seq(Nat) /\ Len(s) \in Nat /\ \A k \in 1 .. Len(s) : s[k] \in Nat
  BY DEF Sound
<1> DEFINE T == {k \in Nat : k + 1 <= Len(s) => s[k + 1] >= k}
<1>2. 0 \in T
  BY <1>1
<1>3. ASSUME NEW k \in Nat, k \in T PROVE k + 1 \in T
  <2> SUFFICES ASSUME k + 2 <= Len(s) PROVE s[k + 2] >= k + 1
    BY <1>1
  <2>1. k + 1 \in 1 .. Len(s) /\ k + 2 \in 1 .. Len(s) /\ k + 1 < k + 2
    BY <1>1
  <2>2. s[k + 1] < s[k + 2]
    BY <2>1 DEF Sound, Increasing
  <2>3. s[k + 1] >= k
    BY <1>1, <1>3, <2>1
  <2> QED BY <1>1, <2>1, <2>2, <2>3
<1>4. i - 1 \in T
  <2> HIDE DEF T
  <2>1. i - 1 \in Nat
    BY <1>1
  <2> QED BY <1>2, <1>3, <2>1, Loop!NatInd
<1>5. i - 1 + 1 = i
  BY <1>1
<1> QED BY <1>1, <1>4, <1>5

(* Concat, so that the provers take it as it is. *)
LEMMA ConcatIs ==
  ASSUME NEW S, NEW a \in Seq(S), NEW b \in Seq(S)
  PROVE  Concat(a, b) \in Seq(S)
BY DEF Concat

(* Concat is associative. *)
LEMMA ConcatGroups ==
  ASSUME NEW S, NEW a \in Seq(S), NEW b \in Seq(S), NEW c \in Seq(S)
  PROVE  Concat(Concat(a, b), c) = Concat(a, Concat(b, c))
BY ConcatAssociative DEF Concat

-----------------------------------------------------------------------------
(* All samples that the transcoder has given or still holds.               *)
Samples == [k \in DOMAIN output |-> output[k].samples]
All == Concat(Concat(Concat(FlattenSeq(Samples), audio_fifo_), held), FlattenSeq(decoding))

(* The members of a transcoder that was opened are all there or all      *)
(* gone; no packet in the decoder is empty.                              *)
TypeInv ==
  /\ clock \in Nat /\ opened \in BOOLEAN /\ failed \in BOOLEAN /\ dereferenced \in BOOLEAN
  /\ opened => members \in {Opened, Members("closed", "gone", FALSE, FALSE)}
  /\ decoding \in Seq(Seq(Nat)) /\ \A i \in 1 .. Len(decoding) : decoding[i] # <<>>
  /\ held \in Seq(Nat) /\ audio_fifo_ \in Seq(Nat)
  /\ Samples \in Seq(Seq(Nat))
  /\ buffer \in [present : BOOLEAN, size : Nat]
(* The Opus packets given out: whole, and with the times of what is      *)
(* before them.                                                          *)
OpusPackets == [pts : Nat, samples : Seq(Nat)]
TimesInv ==
  /\ output \in Seq(OpusPackets)
  /\ audio_pts_ms_ = Len(output) * kFrameSize * SampleMillis
  /\ \A k \in 1 .. Len(output) :
       /\ Len(output[k].samples) = kFrameSize
       /\ output[k].pts = FirstMillis + (k - 1) * kFrameSize * SampleMillis
(* Samples are in the order of the source; without a failure they are    *)
(* all there, and the FIFO has less than a frame.                        *)
SamplesInv ==
  /\ Sound(All, clock)
  /\ ~failed /\ ~dereferenced => All = Ramp(clock) /\ Len(audio_fifo_) < kFrameSize
(* The inductive invariant of the transcoder. *)
TranscoderInv == TypeInv /\ TimesInv /\ SamplesInv /\ OnlyAfterFailure

(* It holds of what Open leaves, whether it succeeded or not. *)
LEMMA InitTranscoderInv ==
  ASSUME InitTranscoder
  PROVE  TranscoderInv
<1>1. TypeInv
  <2>1. Samples = <<>>
    BY DEF InitTranscoder, Samples
  <2>2. <<>> \in Seq(Seq(Nat)) /\ <<>> \in Seq(Nat) /\ Len(<<>>) = 0
    BY EmptySeq
  <2>3. 1 .. 0 = {}
    OBVIOUS
  <2> QED BY <2>1, <2>2, <2>3 DEF InitTranscoder, TypeInv
<1>2. TimesInv
  <2>1. <<>> \in Seq(OpusPackets) /\ Len(<<>>) = 0 /\ 1 .. 0 = {}
    BY EmptySeq
  <2>2. 0 * kFrameSize * SampleMillis = 0
    BY FrameAssumption
  <2> QED BY <2>1, <2>2 DEF InitTranscoder, TimesInv
<1>3. SamplesInv
  <2>1. Samples = <<>> /\ held = <<>> /\ audio_fifo_ = <<>> /\ decoding = <<>> /\ clock = 0
    BY DEF InitTranscoder, Samples
  <2>2. All = <<>>
    BY <2>1, FlattenNone DEF All, Concat
  <2>3. Ramp(0) = <<>>
    BY DEF Ramp
  <2>4. Sound(<<>>, 0)
    BY DEF Sound, Increasing
  <2>5. 0 < kFrameSize /\ Len(<<>>) = 0
    BY FrameAssumption
  <2> QED BY <2>1, <2>2, <2>3, <2>4, <2>5 DEF SamplesInv
<1>4. OnlyAfterFailure
  BY DEF InitTranscoder, OnlyAfterFailure
<1> QED BY <1>1, <1>2, <1>3, <1>4 DEF TranscoderInv

-----------------------------------------------------------------------------
(* What is there when the source gives a packet. *)
AllGiven(size) == Concat(All, Packet(size))

(* The packet that Transcode is called with goes on where the last one   *)
(* ended.                                                                *)
LEMMA SourceGives ==
  ASSUME TranscoderInv, NEW size \in PacketSizes, Submit(size)
  PROVE  /\ size \in Nat /\ size # 0 /\ clock' \in Nat /\ ~dereferenced
         /\ members' = members /\ opened' = opened
         /\ Packet(size) \in Seq(Nat) /\ Packet(size) # <<>>
         /\ Sound(AllGiven(size), clock')
         /\ ~failed => AllGiven(size) = Ramp(clock')
<1>1. size \in Nat /\ size # 0 /\ clock \in Nat /\ clock' = clock + size /\ ~dereferenced
  BY ExternalAssumption DEF Submit, TranscoderInv, TypeInv
<1>2. Sound(All, clock) /\ (~failed => All = Ramp(clock))
  BY <1>1 DEF TranscoderInv, SamplesInv
<1>3. Packet(size) = [i \in 1 .. size |-> clock + i - 1]
  BY DEF Packet
<1>4. ASSUME NEW s, Sound(s, clock)
      PROVE  /\ Packet(size) \in Seq(Nat) /\ Len(Packet(size)) = size
             /\ Sound(s \o Packet(size), clock')
             /\ s = Ramp(clock) => s \o Packet(size) = Ramp(clock')
  <2> PICK c, n, p : c = clock /\ n = size /\ p = Packet(size)
    OBVIOUS
  <2>1. c \in Nat /\ n \in Nat /\ Sound(s, c) /\ p = [i \in 1 .. n |-> c + i - 1]
    BY <1>1, <1>3, <1>4
  <2>2. p \in Seq(Nat) /\ Len(p) = n /\ Sound(s \o p, c + n) /\ (s = Ramp(c) => s \o p = Ramp(c + n))
    BY ONLY <2>1, Given
  <2> QED BY <1>1, <2>2
<1>5. Packet(size) # <<>>
  BY <1>1, <1>2, <1>4
<1> QED BY <1>1, <1>2, <1>4, <1>5 DEF AllGiven, Concat, Submit

(* What comes out of the decoder, and what stays in it. *)
Frame(size) == Head(Append(decoding, Packet(size)))
Decoding(size) == Tail(Append(decoding, Packet(size)))

(* What avcodec_receive_frame gives comes first, and the packet is added *)
(* behind what the decoder holds.                                        *)
LEMMA DecoderGives ==
  ASSUME TypeInv, NEW size, Packet(size) \in Seq(Nat), Packet(size) # <<>>
  PROVE  /\ Frame(size) \in Seq(Nat) /\ Frame(size) # <<>>
         /\ Decoding(size) \in Seq(Seq(Nat))
         /\ \A i \in 1 .. Len(Decoding(size)) : Decoding(size)[i] # <<>>
         /\ FlattenSeq(Append(decoding, Packet(size)))
              = Concat(FlattenSeq(decoding), Packet(size))
         /\ FlattenSeq(Append(decoding, Packet(size)))
              = Concat(Frame(size), FlattenSeq(Decoding(size)))
<1> DEFINE d == Append(decoding, Packet(size))
<1>1. decoding \in Seq(Seq(Nat)) /\ \A i \in 1 .. Len(decoding) : decoding[i] # <<>>
  BY DEF TypeInv
<1>2. d \in Seq(Seq(Nat)) /\ d # <<>> /\ Len(d) \in Nat /\ Len(d) # 0
      /\ \A i \in 1 .. Len(d) : d[i] # <<>>
  <2> PICK p : p = Packet(size)
    OBVIOUS
  <2>1. ASSUME NEW Q, decoding \in Seq(Q), p \in Q
        PROVE  /\ Append(decoding, p) \in Seq(Q) /\ Append(decoding, p) # <<>>
               /\ Len(Append(decoding, p)) = Len(decoding) + 1 /\ Len(decoding) \in Nat
               /\ \A i \in 1 .. Len(decoding) : Append(decoding, p)[i] = decoding[i]
               /\ Append(decoding, p)[Len(decoding) + 1] = p
    BY ONLY <2>1, AppendProperties, LenProperties
  <2>2. p \in Seq(Nat) /\ p # <<>> /\ d = Append(decoding, p)
    OBVIOUS
  <2>3. /\ d \in Seq(Seq(Nat)) /\ d # <<>> /\ Len(d) = Len(decoding) + 1
        /\ Len(decoding) \in Nat
        /\ \A i \in 1 .. Len(decoding) : d[i] = decoding[i]
        /\ d[Len(decoding) + 1] = p
    BY <1>1, <2>1, <2>2
  <2> HIDE DEF d
  <2>4. ASSUME NEW i \in 1 .. Len(d) PROVE d[i] # <<>>
    BY <1>1, <2>2, <2>3
  <2> QED BY <2>3, <2>4
<1>3. FlattenSeq(d) = FlattenSeq(decoding) \o Packet(size)
  BY <1>1, FlattenAppend
<1> HIDE DEF d
<1>4. Head(d) \in Seq(Nat) /\ Tail(d) \in Seq(Seq(Nat)) /\ Len(Tail(d)) = Len(d) - 1
      /\ \A i \in 1 .. Len(Tail(d)) : Tail(d)[i] = d[i + 1]
  BY <1>2, HeadTailProperties
<1>5. Head(d) = d[1] /\ Head(d) # <<>>
  BY <1>2
<1>6. \A i \in 1 .. Len(Tail(d)) : Tail(d)[i] # <<>>
  BY <1>2, <1>4
<1>7. FlattenSeq(d) = Head(d) \o FlattenSeq(Tail(d))
  BY <1>2, FlattenHead
<1> QED BY <1>3, <1>4, <1>5, <1>6, <1>7 DEF d, Frame, Decoding, Concat

(* The three ways in which samples go on: all of them; without some; as     *)
(* Opus packets, without some.                                             *)
LEMMA GoesOn ==
  ASSUME NEW a \in Seq(Nat), NEW d \in Seq(Nat), NEW p \in Seq(Nat), NEW f \in Seq(Nat),
         NEW e \in Seq(Nat), Concat(d, p) = Concat(f, e)
  PROVE  /\ Concat(Concat(a, d), p) = Concat(a, Concat(d, p))
         /\ Concat(Concat(a, d), p) = Concat(Concat(a, f), e)
<1>1. Concat(Concat(a, d), p) = Concat(a, Concat(d, p))
  BY ConcatGroups
<1>2. Concat(Concat(a, f), e) = Concat(a, Concat(f, e))
  BY ConcatGroups
<1> QED BY <1>1, <1>2

(* Gap and NoGap, in terms of Concat. *)
LEMMA GapKept ==
  ASSUME NEW x \in Seq(Nat), NEW y \in Seq(Nat), NEW z \in Seq(Nat), NEW c \in Nat,
         Sound(Concat(Concat(x, y), z), c)
  PROVE  /\ Sound(Concat(x, z), c)
         /\ y = <<>> => Concat(x, z) = Concat(Concat(x, y), z)
<1>1. Sound(x \o z, c)
  BY Gap DEF Concat
<1>2. y = <<>> => x \o z = (x \o y) \o z
  BY NoGap
<1> QED BY <1>1, <1>2 DEF Concat

(* Resampled samples are lost. *)
LEMMA LostResampled ==
  ASSUME NEW a \in Seq(Nat), NEW h \in Seq(Nat), NEW f \in Seq(Nat), NEW e \in Seq(Nat),
         NEW r1 \in Seq(Nat), NEW r2 \in Seq(Nat), Concat(h, f) = Concat(r1, r2),
         NEW c \in Nat, Sound(Concat(Concat(Concat(a, h), f), e), c)
  PROVE  Sound(Concat(Concat(a, r2), e), c)
<1>1. Concat(Concat(a, h), f) = Concat(Concat(a, r1), r2)
  BY GoesOn
<1>2. Concat(a, r1) \in Seq(Nat) /\ Concat(r2, e) \in Seq(Nat)
  BY ConcatIs
<1>3. Concat(Concat(Concat(a, r1), r2), e) = Concat(Concat(a, r1), Concat(r2, e))
  BY <1>2, ConcatGroups
<1>4. Sound(Concat(a, Concat(r2, e)), c)
  BY <1>1, <1>2, <1>3, GapKept
<1>5. Concat(Concat(a, r2), e) = Concat(a, Concat(r2, e))
  BY ConcatGroups
<1> QED BY <1>4, <1>5

(* Of the samples in the FIFO, those of p are encoded, those of l are lost. *)
StillSound(o, b, h, f, e, r1, r2, p, l, q, c) ==
  /\ Sound(Concat(Concat(Concat(Concat(o, p), q), r2), e), c)
  /\ l = <<>> => Concat(Concat(Concat(Concat(o, p), q), r2), e)
                  = Concat(Concat(Concat(Concat(o, b), h), f), e)

(* Samples that go from the resampler and the FIFO into Opus packets     *)
(* keep their order, and what is lost on the way is a gap.               *)
LEMMA Encodes ==
  ASSUME NEW o \in Seq(Nat), NEW b \in Seq(Nat), NEW h \in Seq(Nat), NEW f \in Seq(Nat),
         NEW e \in Seq(Nat), NEW r1 \in Seq(Nat), NEW r2 \in Seq(Nat),
         Concat(h, f) = Concat(r1, r2),
         NEW p \in Seq(Nat), NEW l \in Seq(Nat), NEW q \in Seq(Nat),
         Concat(b, r1) = Concat(Concat(p, l), q),
         NEW c \in Nat, Sound(Concat(Concat(Concat(Concat(o, b), h), f), e), c)
  PROVE  StillSound(o, b, h, f, e, r1, r2, p, l, q, c)
<1> DEFINE t == Concat(Concat(q, r2), e)
           op == Concat(o, p)
<1>1. /\ Concat(o, b) \in Seq(Nat) /\ Concat(o, p) \in Seq(Nat)
      /\ Concat(Concat(o, p), l) \in Seq(Nat)
      /\ Concat(q, r2) \in Seq(Nat) /\ t \in Seq(Nat) /\ Concat(p, l) \in Seq(Nat)
  BY ConcatIs
<1>2. Concat(Concat(Concat(o, b), h), f) = Concat(Concat(Concat(o, b), r1), r2)
  <2>1. ASSUME NEW x \in Seq(Nat) PROVE Concat(Concat(x, h), f) = Concat(Concat(x, r1), r2)
    BY ONLY x \in Seq(Nat), h \in Seq(Nat), f \in Seq(Nat), r1 \in Seq(Nat), r2 \in Seq(Nat),
            Concat(h, f) = Concat(r1, r2), GoesOn, SMTT(30)
  <2> QED BY <1>1, <2>1
<1>3. Concat(Concat(o, b), r1) = Concat(Concat(o, Concat(p, l)), q)
  <2>1. ASSUME NEW x \in Seq(Nat), Concat(b, r1) = Concat(x, q)
        PROVE  Concat(Concat(o, b), r1) = Concat(Concat(o, x), q)
    <3>1. /\ Concat(Concat(o, b), r1) = Concat(o, Concat(b, r1))
          /\ Concat(Concat(o, x), q) = Concat(o, Concat(x, q))
      BY ONLY <2>1, o \in Seq(Nat), b \in Seq(Nat), r1 \in Seq(Nat), q \in Seq(Nat), ConcatGroups
    <3> QED BY ONLY <2>1, <3>1
  <2> QED BY <1>1, <2>1
<1>4. Concat(o, Concat(p, l)) = Concat(op, l)
  BY ConcatGroups
<1>5. ASSUME NEW x \in Seq(Nat)
      PROVE  Concat(Concat(Concat(x, q), r2), e) = Concat(x, t)
  <2>1. Concat(Concat(x, q), r2) = Concat(x, Concat(q, r2))
    BY <1>5, ConcatGroups
  <2>2. Concat(Concat(x, Concat(q, r2)), e) = Concat(x, t)
    BY ONLY <1>1, <1>5, e \in Seq(Nat), ConcatGroups
  <2> QED BY <2>1, <2>2
<1>6. Concat(Concat(Concat(Concat(o, b), h), f), e) = Concat(Concat(op, l), t)
  BY <1>1, <1>2, <1>3, <1>4, <1>5
<1>7. Concat(Concat(Concat(op, q), r2), e) = Concat(op, t)
  BY <1>1, <1>5
<1> HIDE DEF t, op
<1>8. op \in Seq(Nat) /\ t \in Seq(Nat)
  BY <1>1 DEF op
<1>9. Sound(Concat(op, t), c) /\ (l = <<>> => Concat(op, t) = Concat(Concat(op, l), t))
  BY <1>6, <1>8, GapKept
<1> QED BY <1>6, <1>7, <1>9 DEF op, StillSound

-----------------------------------------------------------------------------
(* The pieces that a packet and what is there are made of. *)
LEMMA GivenGroups ==
  ASSUME TypeInv, NEW size, Packet(size) \in Seq(Nat), Packet(size) # <<>>
  PROVE  /\ FlattenSeq(Samples) \in Seq(Nat) /\ FlattenSeq(decoding) \in Seq(Nat)
         /\ FlattenSeq(Decoding(size)) \in Seq(Nat)
         /\ Concat(FlattenSeq(Samples), audio_fifo_) \in Seq(Nat)
         /\ Concat(Concat(FlattenSeq(Samples), audio_fifo_), held) \in Seq(Nat)
         /\ AllGiven(size)
              = Concat(Concat(Concat(FlattenSeq(Samples), audio_fifo_), held),
                       FlattenSeq(Append(decoding, Packet(size))))
         /\ AllGiven(size)
              = Concat(Concat(Concat(Concat(FlattenSeq(Samples), audio_fifo_), held),
                              Frame(size)), FlattenSeq(Decoding(size)))
<1>1. held \in Seq(Nat) /\ audio_fifo_ \in Seq(Nat) /\ decoding \in Seq(Seq(Nat))
      /\ Samples \in Seq(Seq(Nat))
  BY DEF TypeInv
<1>2. /\ Frame(size) \in Seq(Nat) /\ Decoding(size) \in Seq(Seq(Nat))
      /\ FlattenSeq(Append(decoding, Packet(size))) = Concat(FlattenSeq(decoding), Packet(size))
      /\ FlattenSeq(Append(decoding, Packet(size))) = Concat(Frame(size), FlattenSeq(Decoding(size)))
  BY DecoderGives
<1>3. FlattenSeq(Samples) \in Seq(Nat) /\ FlattenSeq(decoding) \in Seq(Nat)
      /\ FlattenSeq(Decoding(size)) \in Seq(Nat)
  BY <1>1, <1>2, FlattenIsSeq
<1>4. Concat(FlattenSeq(Samples), audio_fifo_) \in Seq(Nat)
  BY <1>1, <1>3, ConcatIs
<1>5. Concat(Concat(FlattenSeq(Samples), audio_fifo_), held) \in Seq(Nat)
  BY <1>1, <1>4, ConcatIs
<1> PICK a, d, p, f, e : /\ a = Concat(Concat(FlattenSeq(Samples), audio_fifo_), held)
                         /\ d = FlattenSeq(decoding) /\ p = Packet(size) /\ f = Frame(size)
                         /\ e = FlattenSeq(Decoding(size))
  OBVIOUS
<1>6. a \in Seq(Nat) /\ d \in Seq(Nat) /\ p \in Seq(Nat) /\ f \in Seq(Nat) /\ e \in Seq(Nat)
      /\ Concat(d, p) = Concat(f, e)
  BY <1>2, <1>3, <1>5
<1>7. /\ Concat(Concat(a, d), p) = Concat(a, Concat(d, p))
      /\ Concat(Concat(a, d), p) = Concat(Concat(a, f), e)
  BY ONLY <1>6, GoesOn
<1>8. AllGiven(size) = Concat(Concat(a, d), p)
  BY DEF AllGiven, All
<1>9. AllGiven(size) = Concat(a, Concat(d, p)) /\ AllGiven(size) = Concat(Concat(a, f), e)
  BY <1>7, <1>8
<1> QED BY <1>2, <1>3, <1>4, <1>5, <1>9

(* What a packet must leave. *)
LEMMA SamplesKept ==
  ASSUME TranscoderInv, NEW size \in PacketSizes, Submit(size),
         Sound(All', clock'), failed => failed',
         ~failed' /\ ~dereferenced' => All' = AllGiven(size) /\ Len(audio_fifo_') < kFrameSize
  PROVE  SamplesInv'
<1>1. ~failed => AllGiven(size) = Ramp(clock')
  BY SourceGives
<1> QED BY <1>1 DEF SamplesInv

(* Whoever does not touch the samples only lets time pass. *)
LEMMA SamplesUntouched ==
  ASSUME TranscoderInv, NEW size \in PacketSizes, Submit(size), failed => failed',
         UNCHANGED <<decoding, held, audio_fifo_, output>>, failed' \/ dereferenced'
  PROVE  SamplesInv'
<1>1. All' = All
  BY DEF All, Samples
<1>2. Sound(All, clock) /\ clock \in Nat /\ clock' = clock + size /\ size \in Nat
  BY ExternalAssumption DEF TranscoderInv, SamplesInv, TypeInv, Submit
<1>3. ASSUME NEW s, Sound(s, clock) PROVE Sound(s, clock + size)
  <2>1. s \in Seq(Nat) /\ \A i \in 1 .. Len(s) : s[i] \in Nat /\ s[i] < clock
    BY <1>3 DEF Sound
  <2>2. \A i \in 1 .. Len(s) : s[i] < clock + size
    BY <1>2, <2>1
  <2> QED BY <1>3, <2>2 DEF Sound
<1>4. Sound(All', clock')
  BY <1>1, <1>2, <1>3
<1> QED BY <1>4, SamplesKept

(* What has been given out stays. *)
LEMMA OutputStays ==
  ASSUME TimesInv, UNCHANGED <<output, audio_pts_ms_>>
  PROVE  TimesInv' /\ Samples' = Samples
BY DEF TimesInv, Samples

(* avcodec_send_packet fails: the packet is lost. *)
LEMMA SubmitFailsKeeps ==
  ASSUME TranscoderInv, NEW size \in PacketSizes, SubmitFails(size)
  PROVE  TranscoderInv'
<1> USE DEF SubmitFails
<1>1. /\ clock' \in Nat /\ ~dereferenced /\ members' = members /\ opened' = opened
  BY SourceGives
<1>2. TimesInv' /\ Samples' = Samples
  BY OutputStays DEF TranscoderInv
<1>3. TypeInv'
  BY <1>1, <1>2 DEF TranscoderInv, TypeInv
<1>4. SamplesInv'
  BY SamplesUntouched
<1>5. OnlyAfterFailure'
  BY <1>1 DEF OnlyAfterFailure
<1> QED BY <1>2, <1>3, <1>4, <1>5 DEF TranscoderInv

(* The decoder holds the packet back. *)
LEMMA NoFrameKeeps ==
  ASSUME TranscoderInv, NEW size \in PacketSizes, NoFrame(size)
  PROVE  TranscoderInv'
<1> USE DEF NoFrame
<1>1. /\ clock' \in Nat /\ ~dereferenced /\ members' = members /\ opened' = opened
      /\ Packet(size) \in Seq(Nat) /\ Packet(size) # <<>> /\ Sound(AllGiven(size), clock')
  BY SourceGives
<1>2. TimesInv' /\ Samples' = Samples
  BY OutputStays DEF TranscoderInv
<1>3. TypeInv'
  <2>1. decoding \in Seq(Seq(Nat)) /\ \A i \in 1 .. Len(decoding) : decoding[i] # <<>>
    BY DEF TranscoderInv, TypeInv
  <2>2. decoding' \in Seq(Seq(Nat)) /\ \A i \in 1 .. Len(decoding') : decoding'[i] # <<>>
    <3> PICK p : p = Packet(size)
      OBVIOUS
    <3>1. ASSUME NEW Q, decoding \in Seq(Q), p \in Q
          PROVE  /\ Append(decoding, p) \in Seq(Q)
                 /\ Len(Append(decoding, p)) = Len(decoding) + 1 /\ Len(decoding) \in Nat
                 /\ \A i \in 1 .. Len(decoding) : Append(decoding, p)[i] = decoding[i]
                 /\ Append(decoding, p)[Len(decoding) + 1] = p
      BY ONLY <3>1, AppendProperties, LenProperties
    <3>2. p \in Seq(Nat) /\ p # <<>> /\ decoding' = Append(decoding, p)
      BY <1>1
    <3>3. /\ decoding' \in Seq(Seq(Nat)) /\ Len(decoding') = Len(decoding) + 1
          /\ Len(decoding) \in Nat
          /\ \A i \in 1 .. Len(decoding) : decoding'[i] = decoding[i]
          /\ decoding'[Len(decoding) + 1] = p
      BY <2>1, <3>1, <3>2
    <3>4. ASSUME NEW i \in 1 .. Len(decoding') PROVE decoding'[i] # <<>>
      BY <2>1, <3>2, <3>3
    <3> QED BY <3>3, <3>4
  <2> QED BY <1>1, <1>2, <2>2 DEF TranscoderInv, TypeInv
<1>4. All' = AllGiven(size)
  <2>1. AllGiven(size) = Concat(Concat(Concat(FlattenSeq(Samples), audio_fifo_), held),
                                FlattenSeq(Append(decoding, Packet(size))))
    BY <1>1, GivenGroups DEF TranscoderInv
  <2> QED BY <1>2, <2>1 DEF All
<1>5. SamplesInv'
  <2>1. ~failed => Len(audio_fifo_) < kFrameSize
    BY <1>1 DEF TranscoderInv, SamplesInv
  <2>2. Sound(All', clock')
    BY <1>1, <1>4
  <2> QED BY <1>4, <2>1, <2>2, SamplesKept
<1>6. OnlyAfterFailure'
  BY <1>1 DEF OnlyAfterFailure
<1> QED BY <1>2, <1>3, <1>5, <1>6 DEF TranscoderInv

(* A frame is lost behind the decoder. *)
LEMMA FrameLost ==
  ASSUME TranscoderInv, NEW size \in PacketSizes, Decode(size), failed',
         UNCHANGED <<held, audio_fifo_, output>>
  PROVE  SamplesInv'
<1>1. Submit(size) /\ decoding' = Decoding(size)
  BY DEF Decode, Decoding
<1>2. /\ clock' \in Nat /\ Sound(AllGiven(size), clock')
      /\ Packet(size) \in Seq(Nat) /\ Packet(size) # <<>>
  BY <1>1, SourceGives
<1>3. TypeInv
  BY DEF TranscoderInv
<1> PICK a, e : /\ a = Concat(Concat(FlattenSeq(Samples), audio_fifo_), held)
                /\ e = FlattenSeq(Decoding(size))
  OBVIOUS
<1>4. /\ a \in Seq(Nat) /\ e \in Seq(Nat) /\ Frame(size) \in Seq(Nat)
      /\ Sound(Concat(Concat(a, Frame(size)), e), clock')
  BY <1>2, <1>3, GivenGroups, DecoderGives
<1>5. ASSUME NEW f \in Seq(Nat), NEW c \in Nat, Sound(Concat(Concat(a, f), e), c)
      PROVE  Sound(Concat(a, e), c)
  BY ONLY <1>4, <1>5, GapKept
<1>6. Sound(Concat(a, e), clock')
  BY <1>2, <1>4, <1>5
<1>7. All' = Concat(a, e)
  BY <1>1 DEF All, Samples
<1> QED BY <1>1, <1>6, <1>7, SamplesKept

(* avcodec_receive_frame fails: the frame that came out is lost. *)
LEMMA DecodeFailsKeeps ==
  ASSUME TranscoderInv, NEW size \in PacketSizes, DecodeFails(size)
  PROVE  TranscoderInv'
<1> USE DEF DecodeFails
<1>0. Submit(size) /\ decoding' = Decoding(size)
  BY DEF Decode, Decoding
<1>1. /\ clock' \in Nat /\ ~dereferenced /\ members' = members /\ opened' = opened
      /\ Packet(size) \in Seq(Nat) /\ Packet(size) # <<>>
  BY <1>0, SourceGives
<1>2. TimesInv' /\ Samples' = Samples
  BY OutputStays DEF TranscoderInv
<1>3. TypeInv'
  <2>1. decoding' \in Seq(Seq(Nat)) /\ \A i \in 1 .. Len(decoding') : decoding'[i] # <<>>
    BY <1>0, <1>1, DecoderGives DEF TranscoderInv
  <2> QED BY <1>1, <1>2, <2>1 DEF TranscoderInv, TypeInv
<1>4. SamplesInv'
  BY FrameLost
<1>5. OnlyAfterFailure'
  BY <1>1 DEF OnlyAfterFailure
<1> QED BY <1>2, <1>3, <1>4, <1>5 DEF TranscoderInv

(* av_samples_alloc fails: the frame is lost, and there is no buffer any *)
(* more for the size the code keeps.                                     *)
LEMMA AllocFailsKeeps ==
  ASSUME TranscoderInv, NEW size \in PacketSizes, AllocFails(size)
  PROVE  TranscoderInv'
<1> USE DEF AllocFails
<1>0. Submit(size) /\ decoding' = Decoding(size)
  BY DEF Decode, Decoding
<1>1. /\ clock' \in Nat /\ ~dereferenced /\ members' = members /\ opened' = opened
      /\ Packet(size) \in Seq(Nat) /\ Packet(size) # <<>>
  BY <1>0, SourceGives
<1>2. TimesInv' /\ Samples' = Samples
  BY OutputStays DEF TranscoderInv
<1>3. TypeInv'
  <2>1. decoding' \in Seq(Seq(Nat)) /\ \A i \in 1 .. Len(decoding') : decoding'[i] # <<>>
    BY <1>0, <1>1, DecoderGives DEF TranscoderInv
  <2>2. buffer' \in [present : BOOLEAN, size : Nat]
    BY DEF TranscoderInv, TypeInv
  <2> QED BY <1>1, <1>2, <2>1, <2>2 DEF TranscoderInv, TypeInv
<1>4. SamplesInv'
  BY FrameLost
<1>5. OnlyAfterFailure'
  BY <1>1 DEF OnlyAfterFailure
<1> QED BY <1>2, <1>3, <1>4, <1>5 DEF TranscoderInv

(* A member that is not there is used: only after a failure of Open or   *)
(* of av_samples_alloc.                                                  *)
LEMMA CrashKeeps ==
  ASSUME TranscoderInv, NEW size \in PacketSizes, Crash(size)
  PROVE  TranscoderInv'
<1> USE DEF Crash
<1>1. /\ clock' \in Nat /\ ~dereferenced /\ members' = members /\ opened' = opened
      /\ Packet(size) \in Seq(Nat) /\ Packet(size) # <<>>
  BY SourceGives
<1>2. TimesInv' /\ Samples' = Samples
  BY OutputStays DEF TranscoderInv
<1>3. TypeInv'
  BY <1>1, <1>2 DEF TranscoderInv, TypeInv
<1>4. SamplesInv'
  BY SamplesUntouched
<1>5. OnlyAfterFailure'
  <2> SUFFICES ASSUME opened, members.opus # "gone" PROVE buffer.size > 0 /\ ~buffer.present
    <3>1. members.opus = "gone" => members = Members("closed", "gone", FALSE, FALSE) \/ ~opened
      BY DEF TranscoderInv, TypeInv, Opened, Members
    <3>2. members = Members("closed", "gone", FALSE, FALSE) => FALSE
      BY DEF Members
    <3> QED BY <1>1, <3>1, <3>2 DEF OnlyAfterFailure
  <2>1. members = Opened
    BY DEF TranscoderInv, TypeInv, Members
  <2>2. ~Allocated(size).present
    BY <2>1 DEF Opened, Members
  <2>3. ~buffer.present /\ Len(Resampled(size)) <= buffer.size
    <3>1. buffer \in [present : BOOLEAN, size : Nat]
      BY DEF TranscoderInv, TypeInv
    <3>2. Len(Resampled(size)) \in Nat
      <4>1. held \in Seq(Nat) /\ Frame(size) \in Seq(Nat)
        BY <1>1, DecoderGives DEF TranscoderInv, TypeInv
      <4> QED BY <4>1, ConcatProperties, LenProperties DEF Resampled, Frame
    <3> QED BY <2>2, <3>1, <3>2 DEF Allocated
  <2>4. Len(Resampled(size)) > 0
    <3>1. held \in Seq(Nat) /\ Frame(size) \in Seq(Nat) /\ Frame(size) # <<>>
      BY <1>1, DecoderGives DEF TranscoderInv, TypeInv
    <3>2. ASSUME NEW f \in Seq(Nat), f # <<>> PROVE Len(held \o f) > 0
      BY <3>1, <3>2
    <3> QED BY <3>1, <3>2 DEF Resampled, Frame
  <2>5. buffer.size \in Nat /\ Len(Resampled(size)) \in Int
    <3>1. held \in Seq(Nat) /\ Frame(size) \in Seq(Nat)
      BY <1>1, DecoderGives DEF TranscoderInv, TypeInv
    <3>2. Len(Resampled(size)) \in Nat
      BY <3>1, ConcatProperties, LenProperties DEF Resampled, Frame
    <3> QED BY <3>2 DEF TranscoderInv, TypeInv
  <2> QED BY <2>3, <2>4, <2>5
<1> QED BY <1>2, <1>3, <1>4, <1>5 DEF TranscoderInv

(* ReleaseResources frees what there is: opus_ twice only after a        *)
(* failure of Open.                                                      *)
LEMMA ReleaseKeeps ==
  ASSUME TranscoderInv, ReleaseResources
  PROVE  TranscoderInv'
<1> USE DEF ReleaseResources
<1>1. TimesInv' /\ Samples' = Samples
  BY OutputStays DEF TranscoderInv, audioVars
<1>2. All' = All /\ clock' = clock
  BY <1>1 DEF All, audioVars
<1>3. dereferenced' => ~opened
  BY DEF TranscoderInv, TypeInv, Opened, Members
<1>4. TypeInv'
  BY <1>1 DEF TranscoderInv, TypeInv, audioVars
<1>5. SamplesInv'
  BY <1>2 DEF TranscoderInv, SamplesInv, audioVars
<1>6. OnlyAfterFailure'
  BY <1>3 DEF OnlyAfterFailure
<1> QED BY <1>1, <1>4, <1>5, <1>6 DEF TranscoderInv

(* What the resampler gives and what it keeps make up what it had. *)
LEMMA ConverterGives ==
  ASSUME TranscoderInv, NEW size \in PacketSizes, NEW n \in Nat, Convert(size, n)
  PROVE  LET given == SubSeq(Resampled(size), 1, n)
         IN  /\ Submit(size) /\ decoding' = Decoding(size)
             /\ given \in Seq(Nat) /\ held' \in Seq(Nat)
             /\ Concat(held, Frame(size)) = Concat(given, held')
             /\ buffer' \in [present : BOOLEAN, size : Nat]
<1>1. Submit(size) /\ decoding' = Decoding(size)
  BY DEF Convert, Decode, Decoding
<1>2. /\ held \in Seq(Nat) /\ buffer \in [present : BOOLEAN, size : Nat]
      /\ Frame(size) \in Seq(Nat)
  BY <1>1, SourceGives, DecoderGives, Zenon DEF TranscoderInv, TypeInv
<1> DEFINE r == Resampled(size)
<1>3. r = Concat(held, Frame(size))
  BY DEF Resampled, Frame, Concat
<1>4. r \in Seq(Nat)
  BY <1>2, <1>3, ConcatIs
<1>5. Len(r) \in Nat
  BY <1>4, LenProperties
<1>6. n <= Len(r) /\ held' = SubSeq(r, n + 1, Len(r)) /\ buffer' = Allocated(size)
  BY Zenon DEF Convert
<1> HIDE DEF r
<1>7. /\ SubSeq(r, 1, n) \in Seq(Nat) /\ SubSeq(r, n + 1, Len(r)) \in Seq(Nat)
      /\ SubSeq(r, 1, n) \o SubSeq(r, n + 1, Len(r)) = r
  <2>1. n \in Nat /\ n <= Len(r)
    BY ONLY <1>6
  <2>2. /\ 1 \in 1 .. Len(r) + 1 /\ n \in 1 - 1 .. Len(r) /\ Len(r) \in n .. Len(r)
        /\ SubSeq(r, 1, Len(r)) = r
    BY ONLY <1>4, <1>5, <2>1, SubSeqFull, Z3
  <2>3. SubSeq(r, 1, n) \o SubSeq(r, n + 1, Len(r)) = SubSeq(r, 1, Len(r))
    BY ONLY <1>4, <2>2, ConcatAdjacentSubSeq, Zenon
  <2>4. SubSeq(r, 1, n) \in Seq(Nat) /\ SubSeq(r, n + 1, Len(r)) \in Seq(Nat)
    BY ONLY <1>4, <1>5, <2>1
  <2> QED BY <2>2, <2>3, <2>4, Zenon
<1>8. Concat(held, Frame(size)) = Concat(SubSeq(r, 1, n), held')
  BY <1>3, <1>6, <1>7 DEF Concat
<1>9. buffer' \in [present : BOOLEAN, size : Nat]
  BY <1>2, <1>5, <1>6 DEF Allocated, r
<1> QED BY <1>1, <1>6, <1>7, <1>8, <1>9 DEF r

(* swr_convert or av_audio_fifo_write fails: the samples are lost. *)
LEMMA ConvertFailsKeeps ==
  ASSUME TranscoderInv, NEW size \in PacketSizes, NEW n \in Nat, ConvertFails(size, n)
  PROVE  TranscoderInv'
<1> USE DEF ConvertFails
<1> DEFINE given == SubSeq(Resampled(size), 1, n)
<1>0. /\ Submit(size) /\ decoding' = Decoding(size)
      /\ given \in Seq(Nat) /\ held' \in Seq(Nat)
      /\ Concat(held, Frame(size)) = Concat(given, held')
      /\ buffer' \in [present : BOOLEAN, size : Nat]
  BY ConverterGives
<1> HIDE DEF given
<1>1. /\ clock' \in Nat /\ ~dereferenced /\ members' = members /\ opened' = opened
      /\ Packet(size) \in Seq(Nat) /\ Packet(size) # <<>>
      /\ Sound(AllGiven(size), clock')
  BY <1>0, SourceGives
<1>2. TimesInv' /\ Samples' = Samples
  BY OutputStays DEF TranscoderInv
<1>3. TypeInv'
  <2>1. decoding' \in Seq(Seq(Nat)) /\ \A i \in 1 .. Len(decoding') : decoding'[i] # <<>>
    BY <1>0, <1>1, DecoderGives DEF TranscoderInv
  <2> QED BY <1>0, <1>1, <1>2, <2>1 DEF TranscoderInv, TypeInv
<1>4. SamplesInv'
  <2> PICK a, e : /\ a = Concat(FlattenSeq(Samples), audio_fifo_)
                  /\ e = FlattenSeq(Decoding(size))
    OBVIOUS
  <2>1. /\ a \in Seq(Nat) /\ e \in Seq(Nat) /\ Frame(size) \in Seq(Nat)
        /\ Sound(Concat(Concat(Concat(a, held), Frame(size)), e), clock')
    BY <1>1, GivenGroups, DecoderGives DEF TranscoderInv
  <2>2. held \in Seq(Nat)
    BY DEF TranscoderInv, TypeInv
  <2>3. ASSUME NEW r2 \in Seq(Nat), NEW c \in Nat, Concat(held, Frame(size)) = Concat(given, r2),
               Sound(Concat(Concat(Concat(a, held), Frame(size)), e), c)
        PROVE  Sound(Concat(Concat(a, r2), e), c)
    BY ONLY <1>0, <2>1, <2>2, <2>3, LostResampled
  <2>4. Sound(Concat(Concat(a, held'), e), clock')
    BY <1>0, <1>1, <2>1, <2>3
  <2>5. All' = Concat(Concat(a, held'), e)
    BY <1>0, <1>2 DEF All
  <2> QED BY <1>0, <2>4, <2>5, SamplesKept
<1>5. OnlyAfterFailure'
  BY <1>1 DEF OnlyAfterFailure
<1> QED BY <1>2, <1>3, <1>4, <1>5 DEF TranscoderInv

-----------------------------------------------------------------------------
(* How many frames are in n samples. *)
LEMMA Wholes ==
  ASSUME NEW F \in Nat \ {0}, NEW n \in Nat
  PROVE  /\ n \div F \in Nat
         /\ (n \div F) * F <= n /\ n < (n \div F) * F + F
<1>1. n = F * (n \div F) + (n % F) /\ n % F \in 0 .. F - 1 /\ n \div F \in Int
  OBVIOUS
<1>2. n \div F \in Nat
  OBVIOUS
<1> QED BY <1>1, <1>2

(* Fewer frames have fewer samples. *)
LEMMA Monotone ==
  ASSUME NEW F \in Nat, NEW a \in Nat, NEW b \in Nat, a <= b
  PROVE  a * F \in Nat /\ a * F <= b * F
<1>1. b - a \in Nat /\ (b - a) * F \in Nat
  OBVIOUS
<1>2. b * F = a * F + (b - a) * F
  OBVIOUS
<1> QED BY <1>1, <1>2

(* The frames of the FIFO that are encoded, what is lost and what stays.   *)
Cut(s, F, e, t) ==
         LET parts == Pieces(s, F, e)
             lost == SubSeq(s, e * F + 1, t * F)
             rest == SubSeq(s, t * F + 1, Len(s))
         IN  /\ parts \in Seq(Seq(Nat)) /\ Len(parts) = e
             /\ \A j \in 1 .. e : Len(parts[j]) = F
             /\ FlattenSeq(parts) \in Seq(Nat) /\ lost \in Seq(Nat) /\ rest \in Seq(Nat)
             /\ s = Concat(Concat(FlattenSeq(parts), lost), rest)
             /\ e = t => lost = <<>>
             /\ Len(rest) = Len(s) - t * F

(* The cut of a FIFO of at least t frames, of which the first e are      *)
(* encoded.                                                              *)
LEMMA FifoCut ==
  ASSUME NEW s \in Seq(Nat), NEW F \in Nat, NEW e \in Nat, NEW t \in Nat,
         e <= t, t * F <= Len(s)
  PROVE  Cut(s, F, e, t)
<1> DEFINE x == e * F
           y == t * F
<1>1. x \in Nat /\ y \in Nat /\ x <= y /\ y <= Len(s) /\ (e = t => x = y)
  BY Monotone
<1>2. /\ Pieces(s, F, e) \in Seq(Seq(Nat)) /\ \A j \in 1 .. e : Len(Pieces(s, F, e)[j]) = F
      /\ FlattenSeq(Pieces(s, F, e)) = SubSeq(s, 1, x)
  <2>1. e * F <= Len(s)
    BY <1>1, LenProperties
  <2> QED BY <2>1, FlattenPieces
<1>3. Len(Pieces(s, F, e)) = e
  BY DEF Pieces
<1> HIDE DEF x, y
<1>4. ASSUME NEW u \in Nat, NEW v \in Nat, u <= v, v <= Len(s)
      PROVE  /\ SubSeq(s, u + 1, v) \in Seq(Nat) /\ Len(SubSeq(s, u + 1, v)) = v - u
             /\ SubSeq(s, 1, u) \o SubSeq(s, u + 1, v) = SubSeq(s, 1, v)
             /\ u = v => SubSeq(s, u + 1, v) = <<>>
  <2>1. 1 \in 1 .. Len(s) + 1 /\ u \in 0 .. Len(s) /\ v \in u .. Len(s) /\ u \in 1 - 1 .. Len(s)
    BY <1>4
  <2>2. SubSeq(s, 1, u) \o SubSeq(s, u + 1, v) = SubSeq(s, 1, v)
    BY <2>1, ConcatAdjacentSubSeq
  <2>3. SubSeq(s, u + 1, v) \in Seq(Nat) /\ Len(SubSeq(s, u + 1, v)) = v - u
    BY <1>4
  <2>4. u = v => SubSeq(s, u + 1, v) = <<>>
    BY ONLY <2>3
  <2> QED BY <2>2, <2>3, <2>4
<1>5. Len(s) \in Nat /\ Len(s) <= Len(s) /\ SubSeq(s, 1, Len(s)) = s
  BY ONLY SubSeqFull
<1>6. s = Concat(Concat(SubSeq(s, 1, x), SubSeq(s, x + 1, y)), SubSeq(s, y + 1, Len(s)))
  <2>1. SubSeq(s, 1, x) \o SubSeq(s, x + 1, y) = SubSeq(s, 1, y)
    BY <1>1, <1>4, Zenon
  <2>2. SubSeq(s, 1, y) \o SubSeq(s, y + 1, Len(s)) = SubSeq(s, 1, Len(s))
    BY <1>1, <1>4, <1>5, Zenon
  <2> QED BY ONLY <1>5, <2>1, <2>2 DEF Concat
<1>7. FlattenSeq(Pieces(s, F, e)) \in Seq(Nat)
  BY <1>2, FlattenIsSeq
<1>8. /\ SubSeq(s, x + 1, y) \in Seq(Nat) /\ SubSeq(s, y + 1, Len(s)) \in Seq(Nat)
      /\ x = y => SubSeq(s, x + 1, y) = <<>>
      /\ Len(SubSeq(s, y + 1, Len(s))) = Len(s) - y
  BY <1>1, <1>4, <1>5, Zenon
<1> QED BY <1>1, <1>2, <1>3, <1>6, <1>7, <1>8 DEF x, y, Cut

(* The samples of packets, and of packets one after the other. *)
LEMMA SamplesOf ==
  ASSUME NEW out \in Seq(OpusPackets)
  PROVE  LET s == [k \in DOMAIN out |-> out[k].samples]
         IN  /\ s \in Seq(Seq(Nat)) /\ Len(s) = Len(out)
             /\ \A k \in 1 .. Len(out) : s[k] = out[k].samples
<1>1. DOMAIN out = 1 .. Len(out) /\ Len(out) \in Nat
      /\ \A k \in 1 .. Len(out) : out[k] \in OpusPackets
  OBVIOUS
<1>2. \A k \in 1 .. Len(out) : out[k].samples \in Seq(Nat)
  BY <1>1 DEF OpusPackets
<1> QED BY <1>1, <1>2

IsAfter(c, a, b, m, n) ==
  /\ Len(c) = m + n
  /\ \A k \in 1 .. m : c[k] = a[k]
  /\ \A k \in m + 1 .. m + n : k - m \in 1 .. n /\ c[k] = b[k - m]

(* The elements of two sequences one after the other. *)
LEMMA After ==
  ASSUME NEW Q, NEW a \in Seq(Q), NEW b \in Seq(Q), NEW m \in Nat, NEW n \in Nat,
         Len(a) = m, Len(b) = n
  PROVE  a \o b \in Seq(Q) /\ IsAfter(a \o b, a, b, m, n)
<1>1. a \o b \in Seq(Q) /\ Len(a \o b) = m + n
  OBVIOUS
<1>2. \A k \in 1 .. m : (a \o b)[k] = a[k]
  OBVIOUS
<1>3. ASSUME NEW k \in m + 1 .. m + n
      PROVE  k - m \in 1 .. n /\ (a \o b)[k] = b[k - m]
  OBVIOUS
<1> QED BY <1>1, <1>2, <1>3 DEF IsAfter

(* The times of the next packets. *)
LEMMA TimesGoOn ==
  ASSUME TimesInv, NEW parts \in Seq(Seq(Nat)),
         \A j \in 1 .. Len(parts) : Len(parts[j]) = kFrameSize,
         output' = output \o Encoded(parts),
         audio_pts_ms_' = audio_pts_ms_ + Len(parts) * kFrameSize * SampleMillis
  PROVE  TimesInv' /\ Samples' = Samples \o parts
<1> PICK m, n : m = Len(output) /\ n = Len(parts)
  OBVIOUS
<1> DEFINE T(k) == k * kFrameSize * SampleMillis
           more == Encoded(parts)
<1>1. /\ m = Len(output) /\ n = Len(parts) /\ parts \in Seq(Seq(Nat)) /\ m \in Nat /\ n \in Nat
      /\ kFrameSize \in Nat /\ SampleMillis \in Nat /\ FirstMillis \in Nat
      /\ output \in Seq(OpusPackets)
  BY FrameAssumption DEF TimesInv
<1>2. ASSUME NEW i \in Nat, NEW j \in Nat
      PROVE  T(i) \in Nat /\ T(i) + T(j) = T(i + j)
  <2>1. kFrameSize * SampleMillis \in Nat
    BY <1>1
  <2>2. T(i) = i * (kFrameSize * SampleMillis) /\ T(j) = j * (kFrameSize * SampleMillis)
        /\ T(i + j) = (i + j) * (kFrameSize * SampleMillis)
    BY <1>1
  <2> QED BY <2>1, <2>2
<1>3. audio_pts_ms_ = T(m) /\ audio_pts_ms_' = T(m) + T(n)
      /\ \A k \in 1 .. m : Len(output[k].samples) = kFrameSize
                           /\ output[k].pts = FirstMillis + T(k - 1)
  BY DEF TimesInv
<1>4a. \A j \in 1 .. n : Len(parts[j]) = kFrameSize
  OBVIOUS
<1>4. more = [k \in 1 .. n |-> [pts |-> audio_pts_ms_ + T(k - 1) + FirstMillis,
                                samples |-> parts[k]]]
  BY DEF Encoded
<1>5. output' = output \o more
  OBVIOUS
<1> HIDE DEF T, more
<1>6. \A k \in 1 .. n : /\ parts[k] \in Seq(Nat)
                        /\ more[k].pts = FirstMillis + T(m + k - 1) /\ more[k] \in OpusPackets
                        /\ more[k].samples = parts[k]
  <2> SUFFICES ASSUME NEW k \in 1 .. n
               PROVE  /\ parts[k] \in Seq(Nat)
                      /\ more[k].pts = FirstMillis + T(m + k - 1) /\ more[k] \in OpusPackets
                      /\ more[k].samples = parts[k]
    OBVIOUS
  <2>1. k - 1 \in Nat /\ m + (k - 1) = m + k - 1
    BY <1>1
  <2>2. T(m) + T(k - 1) = T(m + k - 1) /\ T(m) \in Nat /\ T(k - 1) \in Nat
    BY <1>1, <1>2, <2>1
  <2>3. parts[k] \in Seq(Nat)
    OBVIOUS
  <2>4. more[k] = [pts |-> T(m) + T(k - 1) + FirstMillis, samples |-> parts[k]]
    BY <1>3, <1>4
  <2>5. T(m) + T(k - 1) + FirstMillis = FirstMillis + T(m + k - 1)
        /\ T(m) + T(k - 1) + FirstMillis \in Nat
    <3> PICK a, b, c : a = T(m) /\ b = T(k - 1) /\ c = T(m + k - 1)
      OBVIOUS
    <3>1. a + b = c /\ a \in Nat /\ b \in Nat /\ FirstMillis \in Nat
      BY <1>1, <2>2
    <3>2. a + b + FirstMillis = FirstMillis + c /\ a + b + FirstMillis \in Nat
      BY ONLY <3>1
    <3> QED BY <3>2
  <2> QED BY <2>3, <2>4, <2>5 DEF OpusPackets
<1>7. more \in Seq(OpusPackets) /\ Len(more) = n
  BY <1>1, <1>4, <1>6
<1>8. /\ output' \in Seq(OpusPackets) /\ Len(output') = m + n
      /\ \A k \in 1 .. m : output'[k] = output[k]
      /\ \A k \in m + 1 .. m + n : k - m \in 1 .. n /\ output'[k] = more[k - m]
  <2>1. output \o more \in Seq(OpusPackets) /\ IsAfter(output \o more, output, more, m, n)
    BY ONLY <1>1, <1>7, After
  <2> QED BY ONLY <1>5, <2>1 DEF IsAfter
<1>9. ASSUME NEW k \in m + 1 .. m + n
      PROVE  k - m \in 1 .. n /\ output'[k] = more[k - m] /\ m + (k - m) - 1 = k - 1
  <2>1. m + (k - m) - 1 = k - 1
    BY ONLY <1>1, <1>9
  <2> QED BY ONLY <1>8, <1>9, <2>1
<1>10. TimesInv'
  <2>1. audio_pts_ms_' = T(Len(output'))
    BY <1>1, <1>2, <1>3, <1>8
  <2>2. \A k \in 1 .. m + n : Len(output'[k].samples) = kFrameSize
                              /\ output'[k].pts = FirstMillis + T(k - 1)
    <3> SUFFICES ASSUME NEW k \in 1 .. m + n
                 PROVE  Len(output'[k].samples) = kFrameSize
                        /\ output'[k].pts = FirstMillis + T(k - 1)
      OBVIOUS
    <3>1. CASE k <= m
      BY ONLY <1>1, <1>3, <1>8, <3>1, k \in 1 .. m + n
    <3>2. CASE k \in m + 1 .. m + n
      <4> PICK i : i = k - m
        OBVIOUS
      <4>1. i \in 1 .. n /\ output'[k] = more[i] /\ m + i - 1 = k - 1
        BY <1>9, <3>2
      <4>2. Len(parts[i]) = kFrameSize /\ more[i].samples = parts[i]
            /\ more[i].pts = FirstMillis + T(m + i - 1)
        BY <1>4a, <1>6, <4>1
      <4> QED BY <4>1, <4>2
    <3> QED BY ONLY <1>1, <3>1, <3>2, k \in 1 .. m + n
  <2> QED BY <1>8, <2>1, <2>2 DEF TimesInv, T
<1>11. Samples' = Samples \o parts
  <2>1. /\ Samples \in Seq(Seq(Nat)) /\ Len(Samples) = m
        /\ \A k \in 1 .. m : Samples[k] = output[k].samples
    BY <1>1, SamplesOf DEF Samples
  <2>2. Samples' \in Seq(Seq(Nat)) /\ Len(Samples') = m + n
        /\ \A k \in 1 .. m + n : Samples'[k] = output'[k].samples
    <3>1. ASSUME NEW out \in Seq(OpusPackets), Len(out) = m + n
          PROVE  LET s == [k \in DOMAIN out |-> out[k].samples]
                 IN  /\ s \in Seq(Seq(Nat)) /\ Len(s) = m + n
                     /\ \A k \in 1 .. m + n : s[k] = out[k].samples
      BY <3>1, SamplesOf
    <3> QED BY <1>8, <3>1 DEF Samples
  <2>3. /\ Samples \o parts \in Seq(Seq(Nat)) /\ Len(Samples \o parts) = m + n
        /\ \A k \in 1 .. m : (Samples \o parts)[k] = Samples[k]
        /\ \A k \in m + 1 .. m + n : k - m \in 1 .. n /\ (Samples \o parts)[k] = parts[k - m]
    <3>1. ASSUME NEW Q, Samples \in Seq(Q), parts \in Seq(Q)
          PROVE  /\ Samples \o parts \in Seq(Q)
                 /\ IsAfter(Samples \o parts, Samples, parts, m, n)
      BY ONLY <1>1, <2>1, <3>1, After
    <3>2. /\ Samples \o parts \in Seq(Seq(Nat))
          /\ IsAfter(Samples \o parts, Samples, parts, m, n)
      BY ONLY <1>1, <2>1, <3>1
    <3> QED BY ONLY <3>2 DEF IsAfter
  <2>4. ASSUME NEW k \in 1 .. m + n PROVE Samples'[k] = (Samples \o parts)[k]
    <3>1. CASE k <= m
      <4>1. k \in 1 .. m
        BY <1>1, <3>1
      <4> QED BY ONLY <1>1, <1>8, <2>1, <2>2, <2>3, <4>1
    <3>2. CASE k \in m + 1 .. m + n
      <4> PICK i : i = k - m
        OBVIOUS
      <4>1. i \in 1 .. n /\ output'[k] = more[i]
        BY <1>9, <3>2
      <4>2. more[i].samples = parts[i]
        BY <1>6, <4>1
      <4>3. Samples'[k] = output'[k].samples
        BY <2>2
      <4>4. (Samples \o parts)[k] = parts[i]
        BY <2>3, <3>2
      <4> QED BY ONLY <4>1, <4>2, <4>3, <4>4
    <3>3. k <= m \/ k \in m + 1 .. m + n
      BY ONLY <1>1, k \in 1 .. m + n
    <3> QED BY ONLY <3>1, <3>2, <3>3
  <2> HIDE DEF Samples
  <2> QED BY <2>2, <2>3, <2>4, SeqEqual
<1> QED BY <1>10, <1>11

(* What goes out of the FIFO as Opus packets, what is lost, what stays.    *)
Encoding(given, k) ==
  \E parts \in Seq(Seq(Nat)), lost \in Seq(Nat) :
    /\ \A j \in 1 .. Len(parts) : Len(parts[j]) = kFrameSize
    /\ output' = output \o Encoded(parts)
    /\ audio_pts_ms_' = audio_pts_ms_ + Len(parts) * kFrameSize * SampleMillis
    /\ audio_fifo_' \in Seq(Nat) /\ FlattenSeq(parts) \in Seq(Nat)
    /\ Concat(audio_fifo_, given) = Concat(Concat(FlattenSeq(parts), lost), audio_fifo_')
    /\ k = 0 => lost = <<>> /\ Len(audio_fifo_') < kFrameSize

(* The loop of Transcode over the FIFO makes such an Encoding of what    *)
(* the resampler gives.                                                  *)
LEMMA EncoderGives ==
  ASSUME TypeInv, NEW size, NEW n, NEW k \in Nat, Transcode(size, n, k),
         NEW given \in Seq(Nat), given = SubSeq(Resampled(size), 1, n)
  PROVE  Encoding(given, k)
<1> PICK F : F = kFrameSize
  OBVIOUS
<1> PICK fifo : fifo = audio_fifo_ \o given
  OBVIOUS
<1> DEFINE whole == Len(fifo) \div F
           e == IF k = 0 THEN whole ELSE k - 1
           t == IF k = 0 THEN whole ELSE k
           parts == Pieces(fifo, F, e)
           lost == SubSeq(fifo, e * F + 1, t * F)
           rest == SubSeq(fifo, t * F + 1, Len(fifo))
<1>1. F \in Nat \ {0} /\ fifo \in Seq(Nat) /\ Len(fifo) \in Nat
  BY FrameAssumption, ConcatProperties, LenProperties DEF TypeInv
<1>2. whole \in Nat /\ whole * F <= Len(fifo) /\ Len(fifo) < whole * F + F
  BY ONLY <1>1, Wholes
<1>3. parts = [j \in 1 .. e |-> SubSeq(fifo, (j - 1) * F + 1, j * F)]
  BY DEF Pieces, Piece
<1>4. /\ k <= whole
      /\ output' = output \o Encoded(parts)
      /\ audio_pts_ms_' = audio_pts_ms_ + Len(parts) * F * SampleMillis
      /\ audio_fifo_' = rest
  BY <1>3 DEF Transcode
<1> HIDE DEF parts, whole
<1>5. e \in Nat /\ t \in Nat /\ e <= t /\ t <= whole /\ (k = 0 => e = t /\ t = whole)
  BY ONLY <1>2, <1>4, k \in Nat
<1> HIDE DEF e, t
<1>6. t * F \in Nat /\ t * F <= Len(fifo)
  <2>1. t * F \in Nat /\ t * F <= whole * F
    BY ONLY <1>1, <1>2, <1>5, Monotone
  <2>2. whole * F \in Nat
    BY ONLY <1>1, <1>2
  <2> QED BY ONLY <1>1, <1>2, <2>1, <2>2
<1>7. /\ parts \in Seq(Seq(Nat)) /\ Len(parts) = e
      /\ \A j \in 1 .. e : Len(parts[j]) = F
      /\ FlattenSeq(parts) \in Seq(Nat) /\ lost \in Seq(Nat) /\ rest \in Seq(Nat)
      /\ fifo = Concat(Concat(FlattenSeq(parts), lost), rest)
      /\ e = t => lost = <<>>
      /\ Len(rest) = Len(fifo) - t * F
  <2>1. F \in Nat
    BY ONLY <1>1
  <2>2. Cut(fifo, F, e, t)
    BY ONLY <1>1, <1>5, <1>6, <2>1, FifoCut
  <2> QED BY ONLY <2>2 DEF parts, Cut
<1> HIDE DEF lost, rest
<1>8. k = 0 => lost = <<>> /\ Len(rest) < F
  <2> SUFFICES ASSUME k = 0 PROVE lost = <<>> /\ Len(rest) < F
    OBVIOUS
  <2>1. e = t /\ t = whole
    BY ONLY <1>5, k = 0
  <2> PICK w : w = whole * F
    OBVIOUS
  <2>2. w \in Nat /\ Len(fifo) < w + F /\ Len(rest) = Len(fifo) - w
    BY ONLY <1>1, <1>2, <1>7, <2>1, w = whole * F
  <2> QED BY ONLY <1>1, <1>7, <2>1, <2>2
<1>9. Concat(audio_fifo_, given) = Concat(Concat(FlattenSeq(parts), lost), rest)
  BY <1>7 DEF Concat
<1> parts \in Seq(Seq(Nat)) /\ lost \in Seq(Nat)
  BY <1>7
<1> SUFFICES \E fs \in Seq(Seq(Nat)), ls \in Seq(Nat) :
    /\ \A j \in 1 .. Len(fs) : Len(fs[j]) = F
    /\ output' = output \o Encoded(fs)
    /\ audio_pts_ms_' = audio_pts_ms_ + Len(fs) * F * SampleMillis
    /\ audio_fifo_' \in Seq(Nat) /\ FlattenSeq(fs) \in Seq(Nat)
    /\ Concat(audio_fifo_, given) = Concat(Concat(FlattenSeq(fs), ls), audio_fifo_')
    /\ k = 0 => ls = <<>> /\ Len(audio_fifo_') < F
  BY DEF Encoding
<1> WITNESS parts \in Seq(Seq(Nat)), lost \in Seq(Nat)
<1> QED BY <1>4, <1>7, <1>8, <1>9

(* Transcode gets a frame and encodes what it can, to the end or up to a *)
(* frame that fails.                                                     *)
LEMMA TranscodeKeeps ==
  ASSUME TranscoderInv, NEW size \in PacketSizes, NEW n \in Nat, NEW k \in Nat,
         Transcode(size, n, k)
  PROVE  TranscoderInv'
<1> DEFINE given == SubSeq(Resampled(size), 1, n)
<1>0. /\ Submit(size) /\ decoding' = Decoding(size)
      /\ given \in Seq(Nat) /\ held' \in Seq(Nat)
      /\ Concat(held, Frame(size)) = Concat(given, held')
      /\ buffer' \in [present : BOOLEAN, size : Nat]
  <2>1. Convert(size, n)
    BY DEF Transcode
  <2> QED BY <2>1, ConverterGives
<1>1. /\ clock' \in Nat /\ ~dereferenced /\ members' = members /\ opened' = opened
      /\ Packet(size) \in Seq(Nat) /\ Packet(size) # <<>>
      /\ Sound(AllGiven(size), clock')
  BY <1>0, SourceGives
<1>2. dereferenced' = dereferenced /\ failed' = (failed \/ k > 0)
  BY DEF Transcode
<1> PICK g : g = given
  OBVIOUS
<1>3. PICK parts \in Seq(Seq(Nat)), lost \in Seq(Nat) :
           /\ \A j \in 1 .. Len(parts) : Len(parts[j]) = kFrameSize
           /\ output' = output \o Encoded(parts)
           /\ audio_pts_ms_' = audio_pts_ms_ + Len(parts) * kFrameSize * SampleMillis
           /\ audio_fifo_' \in Seq(Nat) /\ FlattenSeq(parts) \in Seq(Nat)
           /\ Concat(audio_fifo_, g) = Concat(Concat(FlattenSeq(parts), lost), audio_fifo_')
           /\ k = 0 => lost = <<>> /\ Len(audio_fifo_') < kFrameSize
  <2>1. Encoding(g, k)
    BY <1>0, EncoderGives DEF TranscoderInv
  <2> QED BY <2>1 DEF Encoding
<1> HIDE DEF given
<1>4. TimesInv' /\ Samples' = Samples \o parts
  BY <1>3, TimesGoOn DEF TranscoderInv
<1>5. Samples \in Seq(Seq(Nat)) /\ held \in Seq(Nat) /\ audio_fifo_ \in Seq(Nat)
  BY DEF TranscoderInv, TypeInv
<1>6. /\ Samples' \in Seq(Seq(Nat))
      /\ FlattenSeq(Samples') = Concat(FlattenSeq(Samples), FlattenSeq(parts))
  <2>1. FlattenSeq(Samples \o parts) = FlattenSeq(Samples) \o FlattenSeq(parts)
    BY <1>5, FlattenConcat
  <2>2. Samples \o parts \in Seq(Seq(Nat))
    <3>1. ASSUME NEW Q, Samples \in Seq(Q), parts \in Seq(Q) PROVE Samples \o parts \in Seq(Q)
      BY ONLY <3>1, ConcatProperties
    <3> QED BY <1>5, <3>1
  <2> QED BY <1>4, <2>1, <2>2 DEF Concat
<1>7. TypeInv'
  <2>1. decoding' \in Seq(Seq(Nat)) /\ \A i \in 1 .. Len(decoding') : decoding'[i] # <<>>
    BY <1>0, <1>1, DecoderGives DEF TranscoderInv
  <2>2. failed' \in BOOLEAN /\ dereferenced' \in BOOLEAN
    BY <1>2 DEF TranscoderInv, TypeInv
  <2>3. opened' \in BOOLEAN
        /\ (opened' => members' \in {Opened, Members("closed", "gone", FALSE, FALSE)})
    BY <1>1 DEF TranscoderInv, TypeInv
  <2> QED BY <1>0, <1>1, <1>3, <1>6, <2>1, <2>2, <2>3 DEF TypeInv
<1>8. SamplesInv'
  <2> PICK o, p, f, e, q, r2, c :
        /\ o = FlattenSeq(Samples) /\ p = FlattenSeq(parts) /\ f = Frame(size)
        /\ e = FlattenSeq(Decoding(size)) /\ q = audio_fifo_' /\ r2 = held' /\ c = clock'
    OBVIOUS
  <2>1. /\ o \in Seq(Nat) /\ e \in Seq(Nat) /\ f \in Seq(Nat)
        /\ AllGiven(size) = Concat(Concat(Concat(Concat(o, audio_fifo_), held), f), e)
    BY <1>1, GivenGroups, DecoderGives DEF TranscoderInv
  <2>2. /\ p \in Seq(Nat) /\ q \in Seq(Nat) /\ r2 \in Seq(Nat) /\ c \in Nat /\ g \in Seq(Nat)
        /\ Concat(held, f) = Concat(g, r2)
        /\ Concat(audio_fifo_, g) = Concat(Concat(p, lost), q)
        /\ Sound(Concat(Concat(Concat(Concat(o, audio_fifo_), held), f), e), c)
    BY <1>0, <1>1, <1>3, <2>1
  <2>3. /\ Sound(Concat(Concat(Concat(Concat(o, p), q), r2), e), c)
        /\ lost = <<>> => Concat(Concat(Concat(Concat(o, p), q), r2), e)
                           = Concat(Concat(Concat(Concat(o, audio_fifo_), held), f), e)
    <3>1. StillSound(o, audio_fifo_, held, f, e, g, r2, p, lost, q, c)
      BY ONLY <1>5, <2>1, <2>2, lost \in Seq(Nat), Encodes
    <3> QED BY ONLY <3>1 DEF StillSound
  <2>4. All' = Concat(Concat(Concat(Concat(o, p), q), r2), e)
    BY <1>0, <1>6 DEF All
  <2>5. Sound(All', clock') /\ (lost = <<>> => All' = AllGiven(size))
    BY <2>1, <2>3, <2>4
  <2>6. failed => failed'
    BY <1>2
  <2>7. ~failed' => k = 0
    <3>1. ~failed' => ~(k > 0)
      BY <1>2
    <3> QED BY <3>1
  <2> QED BY <1>0, <1>3, <2>5, <2>6, <2>7, SamplesKept
<1>9. OnlyAfterFailure'
  BY <1>1, <1>2 DEF OnlyAfterFailure
<1> QED BY <1>4, <1>7, <1>8, <1>9 DEF TranscoderInv

-----------------------------------------------------------------------------
(* Every step of the transcoder keeps the invariant. *)
LEMMA NextKeeps ==
  ASSUME TranscoderInv, [NextTranscoder]_transcoderVars
  PROVE  TranscoderInv'
<1>0. 0 .. MaxSamples \subseteq Nat
  BY ExternalAssumption
<1>1. ASSUME NEW size \in PacketSizes, SubmitFails(size) PROVE TranscoderInv'
  BY <1>1, SubmitFailsKeeps
<1>2. ASSUME NEW size \in PacketSizes, NoFrame(size) PROVE TranscoderInv'
  BY <1>2, NoFrameKeeps
<1>3. ASSUME NEW size \in PacketSizes, DecodeFails(size) PROVE TranscoderInv'
  BY <1>3, DecodeFailsKeeps
<1>4. ASSUME NEW size \in PacketSizes, AllocFails(size) PROVE TranscoderInv'
  BY <1>4, AllocFailsKeeps
<1>5. ASSUME NEW size \in PacketSizes, Crash(size) PROVE TranscoderInv'
  BY <1>5, CrashKeeps
<1>6. ASSUME NEW size \in PacketSizes, NEW n \in 0 .. MaxSamples, ConvertFails(size, n)
      PROVE  TranscoderInv'
  BY <1>0, <1>6, ConvertFailsKeeps
<1>7. ASSUME NEW size \in PacketSizes, NEW n \in 0 .. MaxSamples, NEW k \in 0 .. MaxSamples,
             Transcode(size, n, k)
      PROVE  TranscoderInv'
  BY <1>0, <1>7, TranscodeKeeps
<1>8. ASSUME ReleaseResources PROVE TranscoderInv'
  BY <1>8, ReleaseKeeps
<1>9. ASSUME UNCHANGED transcoderVars PROVE TranscoderInv'
  <2> USE <1>9 DEF transcoderVars, audioVars
  <2>1. Samples' = Samples /\ All' = All
    BY DEF Samples, All
  <2>2. TypeInv'
    BY <2>1 DEF TranscoderInv, TypeInv
  <2>3. TimesInv'
    BY DEF TranscoderInv, TimesInv
  <2>4. SamplesInv'
    BY <2>1 DEF TranscoderInv, SamplesInv
  <2>5. OnlyAfterFailure'
    BY DEF TranscoderInv, OnlyAfterFailure
  <2> QED BY <2>2, <2>3, <2>4, <2>5 DEF TranscoderInv
<1> QED BY <1>1, <1>2, <1>3, <1>4, <1>5, <1>6, <1>7, <1>8, <1>9 DEF NextTranscoder

(* The samples in the transcoder are those of the source in their order, *)
(* with the times Transcode counts (opus_transcoder.cpp), whatever fails *)
(* in FFmpeg or libopus.                                                 *)
THEOREM TranscoderInvariance == SpecTranscoder => []TranscoderInv
<1>1. InitTranscoder => TranscoderInv
  BY InitTranscoderInv
<1>2. TranscoderInv /\ [NextTranscoder]_transcoderVars => TranscoderInv'
  BY NextKeeps
<1> QED BY <1>1, <1>2, PTL DEF SpecTranscoder

(* Transcode and ReleaseResources use a null or freed member only after  *)
(* Open or av_samples_alloc failed, in every run of the transcoder.      *)
THEOREM FailureFirst == SpecTranscoder => []OnlyAfterFailure
<1>1. TranscoderInv => OnlyAfterFailure
  BY DEF TranscoderInv
<1> QED BY <1>1, TranscoderInvariance, PTL

-----------------------------------------------------------------------------
(* What comes first stays where it is. *)
LEMMA ConcatStart ==
  ASSUME NEW S, NEW u \in Seq(S), NEW v \in Seq(S), NEW j \in 1 .. Len(u)
  PROVE  /\ Concat(u, v) \in Seq(S) /\ j \in 1 .. Len(Concat(u, v))
         /\ Concat(u, v)[j] = u[j]
BY DEF Concat

(* What the invariant says of the times: a packet has the time of the    *)
(* samples before it, of which the source has no fewer.                  *)
LEMMA KeepsTime ==
  ASSUME TranscoderInv
  PROVE  AudioKeepsTime
<1>1. /\ Samples \in Seq(Seq(Nat)) /\ held \in Seq(Nat) /\ audio_fifo_ \in Seq(Nat)
      /\ decoding \in Seq(Seq(Nat)) /\ clock \in Nat
  BY DEF TranscoderInv, TypeInv
<1>2. All = FlattenSeq([k \in DOMAIN output |-> output[k].samples]) \o audio_fifo_
               \o held \o FlattenSeq(decoding)
  BY DEF All, Concat, Samples
<1>3. /\ Sound(All, clock)
      /\ ~failed /\ ~dereferenced => All = Ramp(clock) /\ Len(audio_fifo_) < kFrameSize
  BY DEF TranscoderInv, SamplesInv
<1>4. /\ output \in Seq(OpusPackets) /\ kFrameSize \in Nat \ {0} /\ SampleMillis \in Nat
      /\ FirstMillis \in Nat
      /\ \A k \in 1 .. Len(output) :
           /\ Len(output[k].samples) = kFrameSize
           /\ output[k].pts = FirstMillis + (k - 1) * kFrameSize * SampleMillis
  BY FrameAssumption DEF TranscoderInv, TimesInv
<1>5. DOMAIN output = 1 .. Len(output) /\ Len(output) \in Nat
  BY <1>4
<1>6. /\ Len(Samples) = Len(output)
      /\ \A k \in 1 .. Len(output) : Samples[k] = output[k].samples
  BY <1>4, SamplesOf DEF Samples
(* The first sample of the k-th packet is there in the whole. *)
<1>7. ASSUME NEW k \in 1 .. Len(output)
      PROVE  /\ (k - 1) * kFrameSize + 1 \in 1 .. Len(All)
             /\ Head(output[k].samples) = All[(k - 1) * kFrameSize + 1]
  <2> PICK F, s, whole, x : /\ F = kFrameSize /\ s = Samples /\ whole = FlattenSeq(Samples)
                            /\ x = (k - 1) * kFrameSize
    OBVIOUS
  <2>1. /\ k \in 1 .. Len(s) /\ Len(s) \in Nat /\ s \in Seq(Seq(Nat)) /\ F \in Nat \ {0}
        /\ k - 1 \in Nat /\ whole = FlattenSeq(s)
    BY <1>1, <1>4, <1>5, <1>6, Z3T(30)
  <2>2. s[k] = output[k].samples
    BY ONLY <1>6, s = Samples, k \in 1 .. Len(output)
  <2>3. ASSUME NEW j \in 1 .. Len(s) PROVE Len(s[j]) = F
    <3>1. Len(Samples[j]) = kFrameSize
      BY ONLY <1>4, <1>6, s = Samples, j \in 1 .. Len(s)
    <3> QED BY ONLY <3>1, s = Samples, F = kFrameSize
  <2>4. x \in Nat /\ x = (k - 1) * F
    BY ONLY <2>1, x = (k - 1) * kFrameSize, F = kFrameSize
  <2>5. Len(FlattenSeq(SubSeq(s, 1, k - 1))) = x
    <3> DEFINE before == SubSeq(s, 1, k - 1)
    <3>1. /\ before \in Seq(Seq(Nat)) /\ Len(before) = k - 1
          /\ \A j \in 1 .. k - 1 : before[j] = s[j]
      <4>1. ASSUME NEW Q, s \in Seq(Q)
            PROVE  /\ before \in Seq(Q) /\ Len(before) = k - 1
                   /\ \A j \in 1 .. k - 1 : before[j] = s[j]
        BY ONLY <2>1, <4>1
      <4> QED BY <2>1, <4>1
    <3> HIDE DEF before
    <3>2. ASSUME NEW j \in 1 .. Len(before) PROVE Len(before[j]) = F
      <4>1. j \in 1 .. k - 1 /\ j \in 1 .. Len(s)
        BY ONLY <2>1, <3>1, j \in 1 .. Len(before)
      <4>2. before[j] = s[j] /\ Len(s[j]) = F
        BY ONLY <2>3, <3>1, <4>1
      <4> QED BY ONLY <4>2
    <3>3. Len(FlattenSeq(before)) = Len(before) * F
      BY ONLY <2>1, <3>1, <3>2, FlattenEven
    <3> QED BY ONLY <2>4, <3>1, <3>3 DEF before
  <2>6. /\ whole \in Seq(Nat) /\ s[k] \in Seq(Nat) /\ x + Len(s[k]) <= Len(whole)
        /\ \A j \in 1 .. Len(s[k]) : whole[x + j] = s[k][j]
    BY ONLY <2>1, <2>5, FlattenAt
  <2>7. /\ x + 1 \in 1 .. Len(whole) /\ whole[x + 1] = s[k][1] /\ Head(s[k]) = s[k][1]
    <3>1. Len(s[k]) = F
      BY ONLY <2>1, <2>3
    <3>2. 1 \in 1 .. Len(s[k]) /\ x + 1 \in 1 .. Len(whole)
      BY ONLY <2>1, <2>4, <2>6, <3>1
    <3>3. whole[x + 1] = s[k][1]
      BY ONLY <2>6, <3>2
    <3>4. Head(s[k]) = s[k][1]
      BY ONLY <2>6
    <3> QED BY ONLY <3>2, <3>3, <3>4
  <2>8. x + 1 \in 1 .. Len(All) /\ All[x + 1] = whole[x + 1]
    <3> PICK d, i : d = FlattenSeq(decoding) /\ i = x + 1
      OBVIOUS
    <3>1. d \in Seq(Nat) /\ i \in 1 .. Len(whole)
      BY <1>1, <2>7, FlattenIsSeq
    <3> PICK a, b, c : a = Concat(whole, audio_fifo_) /\ b = Concat(a, held) /\ c = Concat(b, d)
      OBVIOUS
    <3>2. a \in Seq(Nat) /\ i \in 1 .. Len(a) /\ a[i] = whole[i]
      BY ONLY <1>1, <2>6, <3>1, ConcatStart, a = Concat(whole, audio_fifo_), SMTT(30)
    <3>3. b \in Seq(Nat) /\ i \in 1 .. Len(b) /\ b[i] = a[i]
      BY ONLY <1>1, <3>2, ConcatStart, b = Concat(a, held), Z3
    <3>4. i \in 1 .. Len(c) /\ c[i] = b[i]
      BY ONLY <3>1, <3>3, ConcatStart, c = Concat(b, d), Z3
    <3>5. All = c
      BY DEF All
    <3> QED BY <3>2, <3>3, <3>4, <3>5
  <2> QED BY <2>2, <2>7, <2>8
<1>8. \A i \in 1 .. Len(All) - 1 : All[i] < All[i + 1]
  <2>1. All \in Seq(Nat) /\ Len(All) \in Nat /\ Increasing(All)
    BY <1>3 DEF Sound
  <2> QED BY <2>1 DEF Increasing
<1>9. ASSUME NEW k \in 1 .. Len(output)
      PROVE  /\ output[k].pts <= FirstMillis + Head(output[k].samples) * SampleMillis
             /\ ~failed /\ ~dereferenced =>
                  output[k].pts = FirstMillis + Head(output[k].samples) * SampleMillis
  <2> PICK h, x, F, M : /\ h = Head(output[k].samples) /\ F = kFrameSize /\ M = SampleMillis
                        /\ x = (k - 1) * kFrameSize
    OBVIOUS
  <2>1. F \in Nat /\ M \in Nat /\ k - 1 \in Nat /\ x = (k - 1) * F
    BY <1>4, <1>5
  <2>2. x \in Nat
    BY ONLY <2>1
  <2>3. x + 1 \in 1 .. Len(All) /\ h = All[x + 1]
    BY <1>7
  <2>4. h \in Nat /\ h >= x
    <3>1. All[x + 1] >= x + 1 - 1
      BY <1>3, <2>3, NoSooner
    <3>2. All \in Seq(Nat)
      BY <1>3 DEF Sound
    <3> QED BY ONLY <2>2, <2>3, <3>1, <3>2
  <2>5. output[k].pts = FirstMillis + x * M
    <3>1. output[k].pts = FirstMillis + (k - 1) * F * M
      BY <1>4
    <3>2. (k - 1) * F * M = x * M
      BY ONLY <2>1
    <3> QED BY ONLY <3>1, <3>2
  <2>6. x * M \in Nat /\ x * M <= h * M
    BY ONLY <2>1, <2>2, <2>4, Monotone
  <2>7. h * M \in Nat
    BY ONLY <2>1, <2>4
  <2>8. ~failed /\ ~dereferenced => h = x
    <3> SUFFICES ASSUME ~failed, ~dereferenced PROVE h = x
      OBVIOUS
    <3>1. All = Ramp(clock)
      BY <1>3
    <3>2. \A i \in 1 .. Len(Ramp(clock)) : Ramp(clock)[i] = i - 1
      BY <1>1 DEF Ramp
    <3> QED BY ONLY <2>2, <2>3, <3>1, <3>2
  <2> PICK xm, hm : xm = x * M /\ hm = h * M
    OBVIOUS
  <2>9. xm \in Nat /\ hm \in Nat /\ xm <= hm /\ output[k].pts = FirstMillis + xm
    BY ONLY <2>5, <2>6, <2>7, xm = x * M /\ hm = h * M
  <2>10. output[k].pts <= FirstMillis + hm
    BY ONLY <1>4, <2>9
  <2> QED BY <2>5, <2>8, <2>10
<1> QED BY <1>2, <1>3, <1>4, <1>5, <1>8, <1>9 DEF AudioKeepsTime, Ramp

(* The Opus packets that OpusTranscoder::Transcode gives out are whole,  *)
(* in order, 20 ms apart and never later than they were recorded;        *)
(* without a failure nothing is missing, for every size of frames and    *)
(* packets.                                                              *)
THEOREM AudioTimes == SpecTranscoder => []AudioKeepsTime
<1>1. TranscoderInv => AudioKeepsTime
  BY KeepsTime
<1> QED BY <1>1, TranscoderInvariance, PTL

-----------------------------------------------------------------------------
(* The MediaStream. *)

(* Halves and words. *)
LEMMA HalfIs == \A x : x \in Half <=> x \in Nat /\ x <= 65535
<1>0. PICK top : top = 65535
  OBVIOUS
<1>1. Half = 0 .. top
  BY <1>0 DEF Half
<1>2. top \in Nat
  BY <1>0
<1>3. \A x : x \in 0 .. top <=> x \in Nat /\ x <= top
  BY ONLY <1>2
<1>4. \A x : x \in Half <=> x \in Nat /\ x <= top
  BY ONLY <1>1, <1>3
<1> QED BY ONLY <1>0, <1>4

(* Two halves are a word. *)
LEMMA WordIs == \A a, b \in Half : <<a, b>> \in Word
BY DEF Word

(* The constants of the packets fit their fields. *)
LEMMA Constants ==
  /\ <<0, 1>> \in Word /\ NoReport \in Word
  /\ kRtcpTypeRr \in 0 .. 255 /\ kRtcpTypeRtpfb \in 0 .. 255
<1>1. 0 \in Half /\ 1 \in Half
  BY HalfIs
<1> QED BY <1>1, WordIs DEF NoReport, kRtcpTypeRr, kRtcpTypeRtpfb

(* What the words of a header say. *)
LEMMA Headers ==
  ASSUME NEW c \in 0 .. 31, NEW t \in 0 .. 255, NEW l \in Half
  PROVE  LET word == HeaderWord(c, t, l)
         IN  /\ word \in Word /\ word[2] = l
             /\ Version(word) = 2 /\ CountOrFormat(word) = c /\ PacketType(word) = t
<1>1. 2 * 16384 + c * 256 + t \in Nat /\ 2 * 16384 + c * 256 + t <= 65535
  OBVIOUS
<1> DEFINE w == 2 * 16384 + c * 256 + t
<1>2. w \div 16384 = 2 /\ w \div 256 = 128 + c /\ w % 256 = t
  OBVIOUS
<1>3. (128 + c) % 32 = c
  OBVIOUS
<1>4. HeaderWord(c, t, l) = <<w, l>>
  BY DEF HeaderWord, kRtcpExpectedVersion
<1> HIDE DEF w
<1>5. (w \div 256) % 32 = c
  BY <1>2, <1>3
<1>6. <<w, l>> \in Word
  BY <1>1, HalfIs, WordIs DEF w
<1>7. /\ HeaderWord(c, t, l)[1] = w /\ HeaderWord(c, t, l)[2] = l
  BY <1>4
<1>8. Version(HeaderWord(c, t, l)) = 2
  BY <1>2, <1>7 DEF Version
<1>9. CountOrFormat(HeaderWord(c, t, l)) = c
  BY <1>5, <1>7 DEF CountOrFormat
<1>10. PacketType(HeaderWord(c, t, l)) = t
  BY <1>2, <1>7 DEF PacketType
<1> QED BY <1>4, <1>6, <1>7, <1>8, <1>9, <1>10

(* The length of a packet in words. *)
Length(m) ==
  CASE m.kind = "rr" -> 2 + 6 * Len(m.blocks)
    [] m.kind = "nack" -> 3 + Len(m.items)
    [] m.kind = "other" -> 1 + m.length

(* The words of the blocks of a report, and where they are. *)
BlockWords(block) ==
  <<block.source_ssrc, NoReport, NoReport, NoReport, block.last_sr, NoReport>>

(* Each block of a report is six words, its ssrc first and its last_sr   *)
(* fifth.                                                                *)
LEMMA ReportWords ==
  ASSUME NEW blocks \in Seq(ReportBlocks)
  PROVE  LET all == FlattenSeq([k \in 1 .. Len(blocks) |->
                <<blocks[k].source_ssrc, NoReport, NoReport, NoReport,
                  blocks[k].last_sr, NoReport>>])
         IN  /\ all \in Seq(Word) /\ Len(all) = 6 * Len(blocks)
             /\ \A k \in 1 .. Len(blocks) : /\ all[6 * (k - 1) + 1] = blocks[k].source_ssrc
                                            /\ all[6 * (k - 1) + 5] = blocks[k].last_sr
<1> DEFINE s == [k \in 1 .. Len(blocks) |-> BlockWords(blocks[k])]
           all == FlattenSeq(s)
<1>1. Len(blocks) \in Nat /\ \A k \in 1 .. Len(blocks) : blocks[k] \in ReportBlocks
  OBVIOUS
<1>2. ASSUME NEW block \in ReportBlocks
      PROVE  BlockWords(block) \in Seq(Word) /\ Len(BlockWords(block)) = 6
             /\ BlockWords(block)[1] = block.source_ssrc /\ BlockWords(block)[5] = block.last_sr
  <2>1. block.source_ssrc \in Word /\ block.last_sr \in Word
    BY DEF ReportBlocks
  <2> QED BY <2>1, Constants DEF BlockWords
<1>3. \A k \in 1 .. Len(blocks) : s[k] \in Seq(Word) /\ Len(s[k]) = 6
                                  /\ s[k][1] = blocks[k].source_ssrc /\ s[k][5] = blocks[k].last_sr
  <2>1. \A k \in 1 .. Len(blocks) : s[k] = BlockWords(blocks[k])
    OBVIOUS
  <2> QED BY <1>1, <1>2, <2>1
<1>4. s \in Seq(Seq(Word)) /\ Len(s) = Len(blocks)
  <2>1. \A k \in 1 .. Len(blocks) : BlockWords(blocks[k]) \in Seq(Word)
    BY <1>1, <1>2
  <2>2. ASSUME NEW Q, \A k \in 1 .. Len(blocks) : BlockWords(blocks[k]) \in Q
        PROVE  s \in Seq(Q) /\ Len(s) = Len(blocks)
    BY <1>1, <2>2
  <2> QED BY <2>1, <2>2
<1>5. all = FlattenSeq([k \in 1 .. Len(blocks) |->
                <<blocks[k].source_ssrc, NoReport, NoReport, NoReport,
                  blocks[k].last_sr, NoReport>>])
  BY DEF BlockWords
<1> HIDE DEF s
<1>6. Len(all) = Len(blocks) * 6 /\ all \in Seq(Word)
  <2>1. \A k \in 1 .. Len(s) : Len(s[k]) = 6
    BY <1>3, <1>4
  <2>2. Len(FlattenSeq(s)) = Len(s) * 6 /\ FlattenSeq(s) \in Seq(Word)
    BY ONLY <1>4, <2>1, FlattenEven, FlattenIsSeq
  <2> QED BY <1>4, <2>2
<1>7. ASSUME NEW k \in 1 .. Len(blocks)
      PROVE  /\ all[6 * (k - 1) + 1] = blocks[k].source_ssrc
             /\ all[6 * (k - 1) + 5] = blocks[k].last_sr
  <2> DEFINE before == SubSeq(s, 1, k - 1)
  <2>1. before \in Seq(Seq(Word)) /\ Len(before) = k - 1 /\ \A j \in 1 .. k - 1 : before[j] = s[j]
    <3>1. ASSUME NEW Q, s \in Seq(Q)
          PROVE  before \in Seq(Q) /\ Len(before) = k - 1 /\ \A j \in 1 .. k - 1 : before[j] = s[j]
      BY ONLY <1>1, <1>4, <3>1, k \in 1 .. Len(blocks)
    <3> QED BY <1>4, <3>1
  <2> HIDE DEF before
  <2>2. ASSUME NEW j \in 1 .. Len(before) PROVE Len(before[j]) = 6
    <3>1. j \in 1 .. k - 1 /\ j \in 1 .. Len(blocks)
      BY ONLY <1>1, <2>1, j \in 1 .. Len(before), k \in 1 .. Len(blocks)
    <3> QED BY ONLY <1>3, <2>1, <3>1
  <2>3. Len(FlattenSeq(before)) = (k - 1) * 6
    <3>1. \A j \in 1 .. Len(before) : Len(before[j]) = 6
      BY <2>2
    <3>2. Len(FlattenSeq(before)) = Len(before) * 6
      BY ONLY <2>1, <3>1, FlattenEven
    <3> QED BY ONLY <2>1, <3>2
  <2>4. k \in 1 .. Len(s)
    BY <1>4
  <2>5. \A j \in 1 .. Len(s[k]) : all[Len(FlattenSeq(before)) + j] = s[k][j]
    BY <1>4, <2>4, FlattenAt DEF before
  <2>6. 1 \in 1 .. Len(s[k]) /\ 5 \in 1 .. Len(s[k])
    BY <1>3
  <2> PICK a : a = Len(FlattenSeq(before))
    OBVIOUS
  <2>7. a + 1 = 6 * (k - 1) + 1 /\ a + 5 = 6 * (k - 1) + 5
    BY ONLY <1>1, <2>3, k \in 1 .. Len(blocks), a = Len(FlattenSeq(before))
  <2>8. all[a + 1] = s[k][1] /\ all[a + 5] = s[k][5]
    BY ONLY <2>5, <2>6, a = Len(FlattenSeq(before))
  <2> QED BY <1>3, <2>7, <2>8
<1> QED BY <1>1, <1>5, <1>6, <1>7

(* The words of a packet are as many as its length says. *)
LEMMA LengthIs ==
  ASSUME NEW m, WellFormed(m)
  PROVE  /\ PacketWords(m) \in Seq(Word) /\ Len(PacketWords(m)) = Length(m)
         /\ Length(m) \in Nat \ {0}
<1>1. <<0, 1>> \in Word
  BY Constants
<1>2. CASE m.kind = "rr"
  <2>1. m.blocks \in Seq(ReportBlocks) /\ Len(m.blocks) < 32 /\ Len(m.blocks) \in Nat
    BY <1>2, Z3 DEF WellFormed
  <2> PICK h, b : /\ h = HeaderWord(Len(m.blocks), kRtcpTypeRr, 1 + 6 * Len(m.blocks))
                  /\ b = FlattenSeq([k \in 1 .. Len(m.blocks) |->
                          <<m.blocks[k].source_ssrc, NoReport, NoReport, NoReport,
                            m.blocks[k].last_sr, NoReport>>])
    BY Zenon
  <2>2. h \in Word
    <3>1. Len(m.blocks) \in 0 .. 31 /\ kRtcpTypeRr \in 0 .. 255 /\ 1 + 6 * Len(m.blocks) \in Half
      <4>1. 1 + 6 * Len(m.blocks) \in Nat /\ 1 + 6 * Len(m.blocks) <= 65535
        BY <2>1
      <4>2. 1 + 6 * Len(m.blocks) \in Half
        BY ONLY <4>1, HalfIs
      <4>3. Len(m.blocks) \in 0 .. 31
        <5>1. \A n \in Nat : n < 32 => n \in 0 .. 31
          OBVIOUS
        <5> QED BY ONLY <2>1, <5>1
      <4> QED BY ONLY <4>2, <4>3, Constants
    <3> QED BY <3>1, Headers, Zenon
  <2>3. b \in Seq(Word) /\ Len(b) = 6 * Len(m.blocks)
    BY <2>1, ReportWords
  <2>4. PacketWords(m) = <<h, <<0, 1>>>> \o b
    BY <1>2 DEF PacketWords
  <2>5. <<h, <<0, 1>>>> \o b \in Seq(Word) /\ Len(<<h, <<0, 1>>>> \o b) = 2 + Len(b)
    BY ONLY <1>1, <2>2, <2>3
  <2>6. Length(m) = 2 + 6 * Len(m.blocks)
    BY <1>2 DEF Length
  <2> QED BY ONLY <2>1, <2>3, <2>4, <2>5, <2>6, Z3
<1>3. CASE m.kind = "nack"
  <2>1. /\ m.ssrc \in Word /\ m.items \in Seq(Word) /\ 2 + Len(m.items) \in Half
        /\ Len(m.items) \in Nat
    BY <1>3 DEF WellFormed
  <2> PICK h, b : /\ h = HeaderWord(1, kRtcpTypeRtpfb, 2 + Len(m.items)) /\ b = m.items
    BY Zenon
  <2>2. h \in Word
    <3>1. 1 \in 0 .. 31 /\ kRtcpTypeRtpfb \in 0 .. 255
      BY Constants
    <3> QED BY <2>1, <3>1, Headers, Zenon
  <2>4. PacketWords(m) = <<h, <<0, 1>>, m.ssrc>> \o b
    BY <1>3 DEF PacketWords
  <2>5. <<h, <<0, 1>>, m.ssrc>> \o b \in Seq(Word) /\ Len(<<h, <<0, 1>>, m.ssrc>> \o b) = 3 + Len(b)
    BY ONLY <1>1, <2>1, <2>2, b = m.items
  <2>6. Length(m) = 3 + Len(m.items)
    BY <1>3 DEF Length
  <2> QED BY <2>1, <2>4, <2>5, <2>6
<1>4. CASE m.kind = "other"
  <2>1. m.format \in 0 .. 31 /\ m.type \in 200 .. 207 /\ m.length \in Half
    BY <1>4 DEF WellFormed
  <2> PICK h, b : /\ h = HeaderWord(m.format, m.type, m.length)
                  /\ b = [k \in 1 .. m.length |-> <<0, k>>]
    OBVIOUS
  <2>2. h \in Word
    <3>1. m.type \in 0 .. 255
      BY <2>1
    <3> QED BY <2>1, <3>1, Headers, Zenon
  <2>3. b \in Seq(Word) /\ Len(b) = m.length /\ m.length \in Nat
    <3>1. m.length \in Nat /\ \A k \in 1 .. m.length : <<0, k>> \in Word
      <4>1. m.length \in Nat /\ m.length <= 65535 /\ 0 \in Half
        BY <2>1, HalfIs
      <4>2. \A k \in 1 .. m.length : k \in Nat /\ k <= 65535
        BY ONLY <4>1
      <4> QED BY ONLY <4>1, <4>2, HalfIs, WordIs
    <3> QED BY <3>1
  <2>4. PacketWords(m) = <<h>> \o b
    BY <1>4 DEF PacketWords
  <2>5. <<h>> \o b \in Seq(Word) /\ Len(<<h>> \o b) = 1 + Len(b)
    BY ONLY <2>2, <2>3
  <2>6. Length(m) = 1 + m.length
    BY <1>4 DEF Length
  <2> QED BY <2>3, <2>4, <2>5, <2>6
<1> QED BY <1>2, <1>3, <1>4 DEF WellFormed

(* From i on, words are those of w, as far as they go. *)
Begins(words, i, w) == \A j \in 1 .. Len(w) : i + j - 1 <= Len(words) => words[i + j - 1] = w[j]

(* What the parser makes of a packet that is whole. *)
Result(m, next) ==
  CASE m.kind = "rr" -> [next |-> next, kind |-> "rr", blocks |-> m.blocks]
    [] m.kind = "nack" ->
         [next |-> next, kind |-> "nack", media_ssrc |-> m.ssrc,
          lost |-> FlattenSeq([k \in 1 .. Len(m.items) |-> NackItem(m.items[k])])]
    [] m.kind = "other" -> [next |-> next, kind |-> "other"]

(* The parser gives that result when the packet is whole, and fails when *)
(* it is not.                                                            *)
ParsesTo(words, i, m) ==
  ParsePacket(words, i) =
    IF i + Length(m) - 1 > Len(words) THEN Failed ELSE Result(m, i + Length(m))

(* A packet the parser does not know is stepped over by its length. *)
LEMMA ParsesOther ==
  ASSUME NEW words \in Seq(Word), NEW i \in 1 .. Len(words), NEW m, WellFormed(m),
         Begins(words, i, PacketWords(m)), m.kind = "other"
  PROVE  ParsesTo(words, i, m)
<1>1. m.format \in 0 .. 31 /\ m.type \in 200 .. 207 \ {kRtcpTypeRr} /\ m.length \in Half
      /\ (m.type = kRtcpTypeRtpfb => m.format # 1)
  BY DEF WellFormed
<1> PICK h, b : h = HeaderWord(m.format, m.type, m.length) /\ b = [k \in 1 .. m.length |-> <<0, k>>]
  OBVIOUS
<1>2. m.type \in 0 .. 255 /\ m.length \in Nat
  BY <1>1, HalfIs
<1>3. h[2] = m.length /\ CountOrFormat(h) = m.format /\ PacketType(h) = m.type
  <2> PICK f, t, l : f = m.format /\ t = m.type /\ l = m.length
    OBVIOUS
  <2>1. f \in 0 .. 31 /\ t \in 0 .. 255 /\ l \in Half /\ h = HeaderWord(f, t, l)
    BY <1>1, <1>2, Zenon
  <2>2. h[2] = l /\ CountOrFormat(h) = f /\ PacketType(h) = t
    BY ONLY <2>1, Headers, Zenon
  <2> QED BY <2>2
<1>4. PacketWords(m) = <<h>> \o b /\ Length(m) = 1 + m.length
  BY DEF PacketWords, Length
<1>5. words[i] = h
  <2>1. PacketWords(m)[1] = h /\ 1 \in 1 .. Len(PacketWords(m))
    BY <1>2, <1>4
  <2>2. i + 1 - 1 = i /\ i <= Len(words)
    OBVIOUS
  <2> QED BY <2>1, <2>2 DEF Begins
<1>6. ParsePacket(words, i) = ParseOther(words, i)
  BY <1>1, <1>3, <1>5 DEF ParsePacket
<1>7. ParseOther(words, i) =
        IF i + m.length > Len(words) THEN Failed ELSE [next |-> i + 1 + m.length, kind |-> "other"]
  BY <1>3, <1>5 DEF ParseOther
<1>8. i + Length(m) - 1 = i + m.length /\ i + Length(m) = i + 1 + m.length
  <2>1. \A x, y \in Nat : x + (1 + y) - 1 = x + y /\ x + (1 + y) = x + 1 + y
    OBVIOUS
  <2>2. i \in Nat
    OBVIOUS
  <2> QED BY ONLY <1>2, <1>4, <2>1, <2>2
<1>9. Result(m, i + Length(m)) = [next |-> i + 1 + m.length, kind |-> "other"]
  BY <1>8 DEF Result
<1> QED BY <1>6, <1>7, <1>8, <1>9 DEF ParsesTo

(* ReceiverReportPacket::Parse finds the blocks that were written, as    *)
(* the count says.                                                       *)
LEMMA ParsesReport ==
  ASSUME NEW words \in Seq(Word), NEW i \in 1 .. Len(words), NEW m, WellFormed(m),
         Begins(words, i, PacketWords(m)), m.kind = "rr"
  PROVE  ParsesTo(words, i, m)
<1> PICK c, w, all : c = Len(m.blocks) /\ w = PacketWords(m)
                /\ all = FlattenSeq([k \in 1 .. Len(m.blocks) |->
                          <<m.blocks[k].source_ssrc, NoReport, NoReport, NoReport,
                            m.blocks[k].last_sr, NoReport>>])
  OBVIOUS
<1>1. m.blocks \in Seq(ReportBlocks) /\ c \in 0 .. 31 /\ c \in Nat
  <2>1. m.blocks \in Seq(ReportBlocks) /\ c < 32 /\ c \in Nat
    BY DEF WellFormed
  <2>2. \A n \in Nat : n < 32 => n \in 0 .. 31
    BY Z3
  <2> QED BY ONLY <2>1, <2>2
<1> PICK h : h = HeaderWord(c, kRtcpTypeRr, 1 + 6 * c)
  BY Zenon
<1>2. CountOrFormat(h) = c /\ PacketType(h) = kRtcpTypeRr
  <2>1. 1 + 6 * c \in Nat /\ 1 + 6 * c <= 65535
    BY ONLY <1>1
  <2>2. 1 + 6 * c \in Half
    BY ONLY <2>1, HalfIs
  <2> QED BY ONLY <1>1, <2>2, Constants, Headers, h = HeaderWord(c, kRtcpTypeRr, 1 + 6 * c), Zenon
<1>3. /\ all \in Seq(Word) /\ Len(all) = 6 * c
      /\ \A k \in 1 .. c : /\ all[6 * (k - 1) + 1] = m.blocks[k].source_ssrc
                           /\ all[6 * (k - 1) + 5] = m.blocks[k].last_sr
  BY <1>1, ReportWords
<1>4. w = <<h, <<0, 1>>>> \o all /\ Length(m) = 2 + 6 * c
  BY DEF PacketWords, Length
<1>5. Len(w) = 2 + 6 * c /\ w[1] = h /\ \A j \in 1 .. 6 * c : w[2 + j] = all[j]
  <2>1. 6 * c \in Nat
    BY ONLY <1>1
  <2> QED BY ONLY <1>3, <1>4, <2>1
<1>6. \A j \in 1 .. Len(w) : i + j - 1 <= Len(words) => words[i + j - 1] = w[j]
  BY DEF Begins
<1>7. words[i] = h
  <2>1. 1 \in 1 .. Len(w) /\ i + 1 - 1 = i /\ i <= Len(words)
    BY <1>1, <1>5
  <2> QED BY <1>5, <1>6, <2>1
<1>8. ParsePacket(words, i) = ParseReceiverReport(words, i)
  BY <1>2, <1>7 DEF ParsePacket, kRtcpTypeRr, kRtcpTypeRtpfb
<1> DEFINE Read == [k \in 1 .. c |-> [source_ssrc |-> words[i + 2 + 6 * (k - 1)],
                                        last_sr |-> words[i + 2 + 6 * (k - 1) + 4]]]
<1>9. ParseReceiverReport(words, i) =
        IF i + 1 + 6 * c > Len(words) THEN Failed
        ELSE [next |-> i + 2 + 6 * c, kind |-> "rr", blocks |-> Read]
  BY <1>2, <1>7 DEF ParseReceiverReport
<1>10. i + Length(m) - 1 = i + 1 + 6 * c /\ i + Length(m) = i + 2 + 6 * c
  BY ONLY <1>1, <1>4, i \in 1 .. Len(words), words \in Seq(Word)
<1>11. ASSUME i + 1 + 6 * c <= Len(words)
       PROVE  Read = m.blocks
  <2>1. ASSUME NEW k \in 1 .. c
        PROVE  [source_ssrc |-> words[i + 2 + 6 * (k - 1)],
                last_sr |-> words[i + 2 + 6 * (k - 1) + 4]] = m.blocks[k]
    <3> PICK x : x = 6 * (k - 1)
      OBVIOUS
    <3>1. x + 6 <= 6 * c /\ x \in Nat /\ i \in Nat /\ Len(words) \in Nat
      BY ONLY <1>1, x = 6 * (k - 1), k \in 1 .. c, i \in 1 .. Len(words), words \in Seq(Word)
    <3>2. x + 1 \in 1 .. 6 * c /\ x + 5 \in 1 .. 6 * c
      BY ONLY <1>1, <3>1
    <3>3. 2 + (x + 1) \in 1 .. Len(w) /\ 2 + (x + 5) \in 1 .. Len(w)
      <4>1. Len(w) = 2 + 6 * c
        BY <1>5
      <4> PICK y, z : y = 6 * c /\ z = Len(w)
        OBVIOUS
      <4>2. c \in Nat /\ y \in Nat /\ z = 2 + y /\ x + 1 \in 1 .. y /\ x + 5 \in 1 .. y /\ x \in Nat
        BY ONLY <1>1, <3>1, <3>2, <4>1, y = 6 * c, z = Len(w)
      <4>3. 2 + (x + 1) \in 1 .. z /\ 2 + (x + 5) \in 1 .. z
        BY ONLY <4>2
      <4> QED BY <4>3
    <3>4. w[2 + (x + 1)] = m.blocks[k].source_ssrc /\ w[2 + (x + 5)] = m.blocks[k].last_sr
      BY ONLY <1>3, <1>5, <3>2, x = 6 * (k - 1), k \in 1 .. c
    <3>5. /\ i + (2 + (x + 1)) - 1 = i + 2 + x /\ i + 2 + x <= Len(words)
          /\ i + (2 + (x + 5)) - 1 = i + 2 + x + 4 /\ i + 2 + x + 4 <= Len(words)
      BY ONLY <1>1, <1>11, <3>1
    <3>6. words[i + 2 + x] = m.blocks[k].source_ssrc /\ words[i + 2 + x + 4] = m.blocks[k].last_sr
      <4>1. words[i + (2 + (x + 1)) - 1] = w[2 + (x + 1)]
        BY ONLY <1>6, <3>3, <3>5
      <4>2. words[i + (2 + (x + 5)) - 1] = w[2 + (x + 5)]
        BY ONLY <1>6, <3>3, <3>5
      <4> QED BY ONLY <3>4, <3>5, <4>1, <4>2
    <3>7. m.blocks[k] \in ReportBlocks
      BY <1>1
    <3>8. m.blocks[k] = [source_ssrc |-> m.blocks[k].source_ssrc, last_sr |-> m.blocks[k].last_sr]
      BY <3>7 DEF ReportBlocks
    <3> QED BY ONLY <3>6, <3>8, x = 6 * (k - 1)
  <2>2. Read = [k \in 1 .. c |-> m.blocks[k]]
    BY <2>1
  <2>3. m.blocks = [k \in 1 .. c |-> m.blocks[k]]
    BY <1>1
  <2> QED BY <2>2, <2>3
<1> HIDE DEF Read
<1>12. Result(m, i + 2 + 6 * c) = [next |-> i + 2 + 6 * c, kind |-> "rr", blocks |-> m.blocks]
  BY DEF Result
<1>13. i + 1 + 6 * c \in Int /\ Len(words) \in Int
  BY <1>1
<1>14. CASE i + 1 + 6 * c > Len(words)
  BY <1>8, <1>9, <1>10, <1>14 DEF ParsesTo
<1>15. CASE ~(i + 1 + 6 * c > Len(words))
  <2>1. i + 1 + 6 * c <= Len(words)
    BY ONLY <1>13, <1>15
  <2> QED BY <1>8, <1>9, <1>10, <1>11, <1>12, <1>15, <2>1 DEF ParsesTo
<1> QED BY <1>14, <1>15

(* NackPacket::Parse finds the items that were written, as the length    *)
(* says.                                                                 *)
LEMMA ParsesNack ==
  ASSUME NEW words \in Seq(Word), NEW i \in 1 .. Len(words), NEW m, WellFormed(m),
         Begins(words, i, PacketWords(m)), m.kind = "nack"
  PROVE  ParsesTo(words, i, m)
<1> PICK c, w, items : c = Len(m.items) /\ w = PacketWords(m) /\ items = m.items
  BY Zenon
<1>1. items \in Seq(Word) /\ c = Len(items) /\ 2 + c \in Half /\ c \in Nat
  BY DEF WellFormed
<1> PICK h : h = HeaderWord(1, kRtcpTypeRtpfb, 2 + c)
  BY Zenon
<1>2. h[2] = 2 + c /\ CountOrFormat(h) = 1 /\ PacketType(h) = kRtcpTypeRtpfb
  <2>1. 1 \in 0 .. 31
    OBVIOUS
  <2> QED BY ONLY <1>1, <2>1, Constants, Headers, h = HeaderWord(1, kRtcpTypeRtpfb, 2 + c),
                  ZenonT(30)
<1>4. w = <<h, <<0, 1>>, m.ssrc>> \o items /\ Length(m) = 3 + c
  BY DEF PacketWords, Length
<1>5. Len(w) = 3 + c /\ w[1] = h /\ w[3] = m.ssrc /\ \A j \in 1 .. c : w[3 + j] = items[j]
  BY ONLY <1>1, <1>4
<1>6. \A j \in 1 .. Len(w) : i + j - 1 <= Len(words) => words[i + j - 1] = w[j]
  BY DEF Begins
<1>7. words[i] = h
  <2>1. 1 \in 1 .. Len(w) /\ i + 1 - 1 = i /\ i <= Len(words)
    BY <1>1, <1>5
  <2> QED BY <1>5, <1>6, <2>1
<1>8. ParsePacket(words, i) = ParseNack(words, i)
  BY <1>2, <1>7 DEF ParsePacket, kRtcpTypeRr, kRtcpTypeRtpfb
<1> PICK l : l = words[i][2]
  OBVIOUS
<1>9a. l = 2 + c
  BY <1>2, <1>7
<1> DEFINE Lost == FlattenSeq([k \in 1 .. l - 2 |-> NackItem(words[i + 2 + k])])
<1>9. ParseNack(words, i) =
        IF l < 2 \/ i + l > Len(words) THEN Failed
        ELSE [next |-> i + 1 + l, kind |-> "nack", media_ssrc |-> words[i + 2], lost |-> Lost]
  BY DEF ParseNack
<1>10. /\ i + Length(m) - 1 = i + (2 + c) /\ i + Length(m) = i + 1 + (2 + c) /\ ~(2 + c < 2)
       /\ 2 + c - 2 = c
  BY ONLY <1>1, <1>4, i \in 1 .. Len(words), words \in Seq(Word)
<1>11. ASSUME i + (2 + c) <= Len(words)
       PROVE  words[i + 2] = m.ssrc
              /\ Lost = FlattenSeq([k \in 1 .. c |-> NackItem(items[k])])
  <2>1. words[i + 2] = m.ssrc
    <3>1. 3 \in 1 .. Len(w) /\ i + 3 - 1 = i + 2 /\ i + 2 <= Len(words)
      BY ONLY <1>1, <1>5, <1>11, i \in 1 .. Len(words), words \in Seq(Word)
    <3> QED BY ONLY <1>5, <1>6, <3>1
  <2>2. \A k \in 1 .. c : words[i + 2 + k] = items[k]
    <3> SUFFICES ASSUME NEW k \in 1 .. c PROVE words[i + 2 + k] = items[k]
      OBVIOUS
    <3>1. 3 + k \in 1 .. Len(w) /\ i + (3 + k) - 1 = i + 2 + k /\ i + 2 + k <= Len(words)
      BY ONLY <1>1, <1>5, <1>11, k \in 1 .. c, i \in 1 .. Len(words), words \in Seq(Word)
    <3> QED BY ONLY <1>5, <1>6, <3>1, k \in 1 .. c
  <2>3. [k \in 1 .. l - 2 |-> NackItem(words[i + 2 + k])] = [k \in 1 .. c |-> NackItem(items[k])]
    <3>1. l - 2 = c
      BY ONLY <1>1, <1>9a
    <3> QED BY ONLY <2>2, <3>1
  <2> QED BY <2>1, <2>3
<1> HIDE DEF Lost
<1>12. Result(m, i + 1 + (2 + c)) =
         [next |-> i + 1 + (2 + c), kind |-> "nack", media_ssrc |-> m.ssrc,
          lost |-> FlattenSeq([k \in 1 .. c |-> NackItem(items[k])])]
  BY DEF Result
<1>13. i + (2 + c) \in Int /\ Len(words) \in Int
  BY <1>1
<1>14. CASE i + (2 + c) > Len(words)
  BY <1>8, <1>9, <1>9a, <1>10, <1>14 DEF ParsesTo
<1>15. CASE ~(i + (2 + c) > Len(words))
  <2>1. i + (2 + c) <= Len(words)
    BY <1>13, <1>15
  <2> QED BY <1>8, <1>9, <1>9a, <1>10, <1>11, <1>12, <1>15, <2>1 DEF ParsesTo
<1> QED BY <1>14, <1>15

(* Whatever packet begins at i, the parser makes of it what was written, *)
(* or fails when the datagram ends within it.                            *)
LEMMA Parses ==
  ASSUME NEW words \in Seq(Word), NEW i \in 1 .. Len(words), NEW m, WellFormed(m),
         Begins(words, i, PacketWords(m))
  PROVE  ParsesTo(words, i, m)
BY ParsesOther, ParsesReport, ParsesNack DEF WellFormed

(* A packet ends behind its header. *)
LEMMA NextLater ==
  ASSUME NEW words \in Seq(Word), NEW i \in 1 .. Len(words)
  PROVE  ParsePacket(words, i).next = 0
         \/ ParsePacket(words, i).next \in i + 1 .. Len(words) + 1
<1> PICK n, l, c : n = Len(words) /\ l = words[i][2] /\ c = CountOrFormat(words[i])
  OBVIOUS
<1>1. i \in 1 .. n /\ n \in Nat /\ l \in Nat /\ c \in Nat
  <2>1. words[i] \in Word
    OBVIOUS
  <2>2. words[i][2] \in Half /\ words[i][1] \in Half
    BY <2>1 DEF Word
  <2>3. words[i][2] \in Nat /\ words[i][1] \in Nat
    BY ONLY <2>2, HalfIs
  <2>4. \A x \in Nat : (x \div 256) % 32 \in Nat
    OBVIOUS
  <2>5. c \in Nat
    BY <2>3, <2>4 DEF CountOrFormat
  <2> QED BY <2>3, <2>5
<1>2. ParseNack(words, i).next = 0 \/ ParseNack(words, i).next \in i + 1 .. n + 1
  <2>1. ParseNack(words, i).next = IF l < 2 \/ i + l > n THEN 0 ELSE i + 1 + l
    BY DEF ParseNack, Failed
  <2>2. l < 2 \/ i + l > n \/ i + 1 + l \in i + 1 .. n + 1
    BY ONLY <1>1
  <2> QED BY ONLY <2>1, <2>2
<1>3. ParseReceiverReport(words, i).next = 0
      \/ ParseReceiverReport(words, i).next \in i + 1 .. n + 1
  <2>1. ParseReceiverReport(words, i).next = IF i + 1 + 6 * c > n THEN 0 ELSE i + 2 + 6 * c
    BY DEF ParseReceiverReport, Failed
  <2>2. i + 1 + 6 * c > n \/ i + 2 + 6 * c \in i + 1 .. n + 1
    BY ONLY <1>1
  <2> QED BY ONLY <2>1, <2>2
<1>4. ParseOther(words, i).next = 0 \/ ParseOther(words, i).next \in i + 1 .. n + 1
  <2>1. ParseOther(words, i).next = IF i + l > n THEN 0 ELSE i + 1 + l
    BY DEF ParseOther, Failed
  <2>2. i + l > n \/ i + 1 + l \in i + 1 .. n + 1
    BY ONLY <1>1
  <2> QED BY ONLY <2>1, <2>2
<1>5. \/ ParsePacket(words, i) = ParseNack(words, i)
      \/ ParsePacket(words, i) = ParseReceiverReport(words, i)
      \/ ParsePacket(words, i) = ParseOther(words, i)
  BY DEF ParsePacket
<1> QED BY <1>2, <1>3, <1>4, <1>5

(* What walk is at i, in terms of what it is further on. *)
WalkAt(datagram, walk, i) ==
  IF i > Len(datagram.words)
  THEN [ok |-> datagram.tail < 2, packets |-> <<>>]
  ELSE LET packet == ParsePacket(datagram.words, i)
       IN  IF packet.next = 0 THEN [ok |-> FALSE, packets |-> <<>>]
           ELSE [walk[packet.next] EXCEPT
                   !.packets = IF walk[packet.next].ok
                               THEN <<packet>> \o @ ELSE <<>>]

(* walk is what ParseCompound defines. *)
IsWalk(datagram, walk) ==
  \A i \in 1 .. Len(datagram.words) + 1 : walk[i] = WalkAt(datagram, walk, i)

(* The recursion of ParseCompound is a function: as each packet ends     *)
(* behind its header, it can be built from the end of the datagram on.   *)
LEMMA WalkExists ==
  ASSUME NEW D, D.words \in Seq(Word)
  PROVE  \E walk : IsWalk(D, walk) /\ ParseCompound(D) = walk[1]
<1> PICK n, words : n = Len(D.words) /\ words = D.words
  OBVIOUS
<1>0. n \in Nat /\ words \in Seq(Word)
  OBVIOUS
<1> DEFINE From(d) == {i \in 1 .. n + 1 : i > n + 1 - d}
           Eq(f, d) == f = [i \in From(d) |-> WalkAt(D, f, i)]
           T == {d \in Nat : d <= n + 1 => \E f : Eq(f, d)}
<1>1. 0 \in T
  <2>1. From(0) = {}
    BY <1>0
  <2>2. Eq([i \in From(0) |-> 0], 0)
    BY <2>1
  <2> QED BY <2>2
<1> HIDE DEF Eq
<1>2. ASSUME NEW d \in Nat, d \in T PROVE d + 1 \in T
  <2> SUFFICES ASSUME d + 1 <= n + 1 PROVE \E f : Eq(f, d + 1)
    OBVIOUS
  <2>1. PICK f : Eq(f, d)
    BY <1>0, <1>2
  <2> PICK z : z = n + 1 - d
    OBVIOUS
  <2> DEFINE g == [i \in From(d + 1) |-> IF i = z THEN WalkAt(D, f, z) ELSE f[i]]
  <2>2. From(d + 1) = From(d) \cup {z} /\ z \notin From(d) /\ z \in 1 .. n + 1
        /\ \A i \in From(d + 1) : i >= z
    BY ONLY <1>0, d \in Nat, d + 1 <= n + 1, z = n + 1 - d
  <2>3. \A i \in From(d) : f[i] = WalkAt(D, f, i) /\ g[i] = f[i]
    BY <2>1, <2>2 DEF Eq
  <2>4. ASSUME NEW i \in From(d + 1) PROVE WalkAt(D, g, i) = WalkAt(D, f, i)
    <3>1. CASE i > n
      BY <3>1, Zenon DEF WalkAt
    <3>2. CASE ~(i > n)
      <4>1. i \in 1 .. Len(words)
        BY ONLY <1>0, <3>2, i \in From(d + 1), n = Len(D.words) /\ words = D.words
      <4> PICK x : x = ParsePacket(words, i).next
        OBVIOUS
      <4>2. x = 0 \/ x \in i + 1 .. n + 1
        BY <1>0, <4>1, NextLater
      <4>3. x # 0 => x \in From(d)
        BY ONLY <1>0, <2>2, <4>1, <4>2, d \in Nat, d + 1 <= n + 1, z = n + 1 - d
      <4>4. x # 0 => g[x] = f[x]
        BY <2>3, <4>3
      <4> HIDE DEF g
      <4> QED BY <3>2, <4>4 DEF WalkAt
    <3> QED BY ONLY <3>1, <3>2
  <2>5. g = [i \in From(d + 1) |-> WalkAt(D, g, i)]
    <3>1. ASSUME NEW i \in From(d + 1) PROVE g[i] = WalkAt(D, g, i)
      BY <2>2, <2>3, <2>4
    <3>2. g = [i \in From(d + 1) |-> g[i]]
      OBVIOUS
    <3> HIDE DEF g
    <3> QED BY <3>1, <3>2
  <2> HIDE DEF g
  <2> QED BY <2>5 DEF Eq
<1>3. n + 1 \in T
  <2> HIDE DEF T
  <2> QED BY <1>0, <1>1, <1>2, Loop!NatInd
<1>4. From(n + 1) = 1 .. Len(D.words) + 1
  BY <1>0
<1> DEFINE Walks(f) == f = [i \in 1 .. Len(D.words) + 1 |->
        IF i > Len(D.words)
        THEN [ok |-> D.tail < 2, packets |-> <<>>]
        ELSE LET packet == ParsePacket(D.words, i)
             IN  IF packet.next = 0 THEN [ok |-> FALSE, packets |-> <<>>]
                 ELSE [f[packet.next] EXCEPT
                         !.packets = IF f[packet.next].ok
                                     THEN <<packet>> \o @ ELSE <<>>]]
           h == CHOOSE f : Walks(f)
<1>5. \E f : Walks(f)
  <2>1. PICK f : Eq(f, n + 1)
    BY ONLY <1>0, <1>3
  <2>2. f = [i \in 1 .. Len(D.words) + 1 |-> WalkAt(D, f, i)]
    BY ONLY <1>4, <2>1 DEF Eq
  <2>3. Walks(f)
    BY <2>2, Zenon DEF WalkAt
  <2> QED BY ONLY <2>3
<1>6. Walks(h)
  BY <1>5, Zenon
<1>7. ParseCompound(D) = h[1]
  BY Zenon DEF ParseCompound
<1>8. IsWalk(D, h)
  <2>1. h = [i \in 1 .. Len(D.words) + 1 |-> WalkAt(D, h, i)]
    BY <1>6, Zenon DEF WalkAt
  <2> HIDE DEF h
  <2> QED BY ONLY <2>1 DEF IsWalk
<1> HIDE DEF h
<1> QED BY <1>7, <1>8

(* A sequence of well-formed packets. *)
IsCompound(m) ==
  /\ m = [k \in 1 .. Len(m) |-> m[k]] /\ Len(m) \in Nat
  /\ \A k \in 1 .. Len(m) : WellFormed(m[k])

(* The words of the packets; of all of them; where the k-th packet ends.   *)
PacketsWords(m) == [k \in 1 .. Len(m) |-> PacketWords(m[k])]
AllWords(m) == FlattenSeq(PacketsWords(m))
End(m, k) == Len(FlattenSeq(SubSeq(PacketsWords(m), 1, k)))

(* The packets of a compound are sequences of words. *)
LEMMA PacketsAre ==
  ASSUME NEW m, IsCompound(m)
  PROVE  /\ PacketsWords(m) \in Seq(Seq(Word)) /\ Len(PacketsWords(m)) = Len(m)
         /\ \A k \in 1 .. Len(m) : /\ PacketsWords(m)[k] = PacketWords(m[k])
                                   /\ Len(PacketWords(m[k])) = Length(m[k])
                                   /\ Length(m[k]) \in Nat \ {0}
<1>1. ASSUME NEW k \in 1 .. Len(m)
      PROVE  PacketWords(m[k]) \in Seq(Word) /\ Len(PacketWords(m[k])) = Length(m[k])
             /\ Length(m[k]) \in Nat \ {0}
  BY LengthIs DEF IsCompound
<1>2. Len(m) \in Nat
  BY DEF IsCompound
<1>3. ASSUME NEW Q, \A k \in 1 .. Len(m) : PacketWords(m[k]) \in Q
      PROVE  [k \in 1 .. Len(m) |-> PacketWords(m[k])] \in Seq(Q)
  BY <1>2, <1>3
<1>4. PacketsWords(m) \in Seq(Seq(Word))
  BY <1>1, <1>3 DEF PacketsWords
<1>5. Len(PacketsWords(m)) = Len(m)
  BY <1>2 DEF PacketsWords
<1>6. \A k \in 1 .. Len(m) : PacketsWords(m)[k] = PacketWords(m[k])
  BY DEF PacketsWords
<1> QED BY <1>1, <1>4, <1>5, <1>6

(* A packet begins where the one before it ends. *)
LEMMA Ends ==
  ASSUME NEW m, IsCompound(m), NEW k \in 1 .. Len(m)
  PROVE  /\ End(m, k - 1) \in Nat /\ Length(m[k]) \in Nat \ {0}
         /\ End(m, k) = End(m, k - 1) + Length(m[k])
         /\ End(m, k) <= Len(AllWords(m))
         /\ \A j \in 1 .. Length(m[k]) : AllWords(m)[End(m, k - 1) + j] = PacketWords(m[k])[j]
<1> PICK s, w : s = PacketsWords(m) /\ w = PacketWords(m[k])
  OBVIOUS
<1>1. /\ s \in Seq(Seq(Word)) /\ k \in 1 .. Len(s) /\ s[k] = w
      /\ Len(w) = Length(m[k]) /\ Length(m[k]) \in Nat \ {0}
  BY PacketsAre
<1>2. /\ Len(FlattenSeq(SubSeq(s, 1, k - 1))) \in Nat
      /\ Len(FlattenSeq(SubSeq(s, 1, k))) = Len(FlattenSeq(SubSeq(s, 1, k - 1))) + Len(s[k])
      /\ Len(FlattenSeq(SubSeq(s, 1, k - 1))) + Len(s[k]) <= Len(FlattenSeq(s))
      /\ \A j \in 1 .. Len(s[k]) : FlattenSeq(s)[Len(FlattenSeq(SubSeq(s, 1, k - 1))) + j] = s[k][j]
  BY ONLY <1>1, FlattenAt, ZenonT(30)
<1>3. /\ End(m, k) = Len(FlattenSeq(SubSeq(s, 1, k)))
      /\ End(m, k - 1) = Len(FlattenSeq(SubSeq(s, 1, k - 1)))
      /\ AllWords(m) = FlattenSeq(s)
  BY DEF End, AllWords
<1> QED BY <1>1, <1>2, <1>3

(* Packets end in their order, the last one where the datagram does. *)
LEMMA EndsMeet ==
  ASSUME NEW m, IsCompound(m)
  PROVE  /\ AllWords(m) \in Seq(Word)
         /\ End(m, 0) = 0 /\ End(m, Len(m)) = Len(AllWords(m))
         /\ \A k \in 0 .. Len(m) : End(m, k) \in Nat /\ End(m, k) <= Len(AllWords(m))
         /\ \A j, k \in 0 .. Len(m) : j < k => End(m, j) < End(m, k)
<1> PICK s, n : s = PacketsWords(m) /\ n = Len(m)
  OBVIOUS
<1>1. s \in Seq(Seq(Word)) /\ Len(s) = n /\ n \in Nat
  BY PacketsAre DEF IsCompound
<1>2. AllWords(m) \in Seq(Word)
  BY <1>1, FlattenIsSeq DEF AllWords
<1>3. SubSeq(s, 1, 0) = <<>> /\ SubSeq(s, 1, n) = s
  <2>1. ASSUME NEW Q, s \in Seq(Q) PROVE SubSeq(s, 1, 0) = <<>> /\ SubSeq(s, 1, n) = s
    <3>1. SubSeq(s, 1, Len(s)) = s
      BY ONLY <2>1, SubSeqFull
    <3>2. SubSeq(s, 1, 0) = <<>>
      BY ONLY <2>1
    <3> QED BY <1>1, <3>1, <3>2
  <2> QED BY <1>1, <2>1
<1>4. End(m, 0) = 0 /\ End(m, n) = Len(AllWords(m))
  <2>1. /\ End(m, 0) = Len(FlattenSeq(<<>>)) /\ End(m, n) = Len(FlattenSeq(s))
        /\ AllWords(m) = FlattenSeq(s)
    BY <1>3 DEF End, AllWords
  <2>2. Len(<<>>) = 0
    OBVIOUS
  <2> QED BY ONLY <2>1, <2>2, FlattenNone
<1>5. ASSUME NEW k \in 0 .. n PROVE End(m, k) \in Nat /\ End(m, k) <= Len(AllWords(m))
  <2>1. CASE k = 0
    BY <1>2, <1>4, <2>1
  <2>2. CASE k # 0
    <3>1. k \in 1 .. n
      BY ONLY <1>1, <2>2, k \in 0 .. n
    <3>2. /\ End(m, k - 1) \in Nat /\ Length(m[k]) \in Nat
          /\ End(m, k) = End(m, k - 1) + Length(m[k]) /\ End(m, k) <= Len(AllWords(m))
      BY <3>1, Ends
    <3> QED BY <3>2
  <2> QED BY <2>1, <2>2
<1>6. ASSUME NEW j \in 0 .. n, NEW k \in 0 .. n, j < k PROVE End(m, j) < End(m, k)
  <2> DEFINE T == {d \in Nat : j + d + 1 <= n => End(m, j) < End(m, j + d + 1)}
  <2>0. \A i \in 0 .. n : i + 1 <= n => End(m, i) < End(m, i + 1) /\ End(m, i) \in Nat
                                        /\ End(m, i + 1) \in Nat
    <3> SUFFICES ASSUME NEW i \in 0 .. n, i + 1 <= n
                 PROVE  End(m, i) < End(m, i + 1) /\ End(m, i) \in Nat /\ End(m, i + 1) \in Nat
      OBVIOUS
    <3>1. i + 1 \in 1 .. n /\ i + 1 - 1 = i
      BY ONLY <1>1, i \in 0 .. n, i + 1 <= n
    <3>2. /\ End(m, i) \in Nat /\ Length(m[i + 1]) \in Nat \ {0}
          /\ End(m, i + 1) = End(m, i) + Length(m[i + 1])
      <4>1. \A l \in 1 .. n : /\ End(m, l - 1) \in Nat /\ Length(m[l]) \in Nat \ {0}
                               /\ End(m, l) = End(m, l - 1) + Length(m[l])
        BY Ends
      <4> QED BY ONLY <3>1, <4>1
    <3> QED BY ONLY <3>2
  <2>1. 0 \in T
    BY <1>1, <2>0
  <2>2. ASSUME NEW d \in Nat, d \in T PROVE d + 1 \in T
    <3> SUFFICES ASSUME j + (d + 1) + 1 <= n PROVE End(m, j) < End(m, j + (d + 1) + 1)
      OBVIOUS
    <3> PICK i : i = j + d + 1
      OBVIOUS
    <3>1. i \in 0 .. n /\ i + 1 <= n /\ j + (d + 1) + 1 = i + 1 /\ j + d + 1 <= n
      BY ONLY <1>1, i = j + d + 1, j + (d + 1) + 1 <= n, d \in Nat, j \in 0 .. n
    <3>2. End(m, j) < End(m, i)
      BY <2>2, <3>1
    <3>3. /\ End(m, i) < End(m, i + 1) /\ End(m, i) \in Nat /\ End(m, i + 1) \in Nat
          /\ End(m, j) \in Nat
      BY <1>5, <2>0, <3>1
    <3> QED BY ONLY <3>1, <3>2, <3>3
  <2>3. k - j - 1 \in T
    <3> HIDE DEF T
    <3>1. k - j - 1 \in Nat
      BY <1>1, <1>6
    <3> QED BY <2>1, <2>2, <3>1, Loop!NatInd
  <2>4. j + (k - j - 1) + 1 = k /\ k <= n
    BY <1>1
  <2> QED BY <2>3, <2>4
<1> QED BY <1>2, <1>4, <1>5, <1>6

(* The datagram has the first words of the compound packet. *)
IsCut(m, datagram) ==
  /\ datagram.words \in Seq(Word) /\ datagram.tail \in 0 .. 3
  /\ Len(datagram.words) <= Len(AllWords(m))
  /\ \A i \in 1 .. Len(datagram.words) : datagram.words[i] = AllWords(m)[i]

(* From the end of a packet on, the next one is parsed when it is whole.   *)
LEMMA NextParsed ==
  ASSUME NEW m, IsCompound(m), NEW D, IsCut(m, D), NEW k \in 1 .. Len(m),
         End(m, k - 1) < Len(D.words)
  PROVE  /\ End(m, k - 1) + 1 \in 1 .. Len(D.words)
         /\ ParsePacket(D.words, End(m, k - 1) + 1) =
              IF End(m, k) > Len(D.words) THEN Failed ELSE Result(m[k], End(m, k) + 1)
<1> PICK n, words, i, w, e : /\ n = Len(D.words) /\ words = D.words /\ i = End(m, k - 1) + 1
                             /\ w = PacketWords(m[k]) /\ e = End(m, k)
  OBVIOUS
<1>1. /\ words \in Seq(Word) /\ n = Len(words) /\ n \in Nat /\ n <= Len(AllWords(m))
      /\ \A j \in 1 .. n : words[j] = AllWords(m)[j]
  BY DEF IsCut
<1>2. /\ i \in Nat /\ i # 0 /\ e = i - 1 + Length(m[k]) /\ Length(m[k]) \in Nat \ {0}
      /\ \A j \in 1 .. Length(m[k]) : AllWords(m)[i + j - 1] = w[j]
  <2>1. /\ End(m, k - 1) \in Nat /\ Length(m[k]) \in Nat \ {0}
        /\ End(m, k) = End(m, k - 1) + Length(m[k])
        /\ \A j \in 1 .. Length(m[k]) : AllWords(m)[End(m, k - 1) + j] = PacketWords(m[k])[j]
    BY Ends
  <2>2. \A j \in 1 .. Length(m[k]) : End(m, k - 1) + j = i + j - 1
    BY ONLY <2>1, i = End(m, k - 1) + 1
  <2>3. i \in Nat /\ i # 0 /\ End(m, k - 1) = i - 1
    <3> PICK x \in Nat : x = End(m, k - 1)
      BY <2>1
    <3>1. i \in Nat /\ i # 0 /\ x = i - 1
      BY ONLY x \in Nat, x = End(m, k - 1), i = End(m, k - 1) + 1
    <3> QED BY ONLY <3>1, x = End(m, k - 1)
  <2> QED BY <2>1, <2>2, <2>3
<1>3. i \in 1 .. n
  <2>1. End(m, k - 1) \in Nat
    BY Ends
  <2> QED BY ONLY <1>1, <2>1, i = End(m, k - 1) + 1, End(m, k - 1) < Len(D.words), words = D.words
<1>4. WellFormed(m[k])
  BY DEF IsCompound
<1>5. Begins(words, i, w)
  <2>1. Len(w) = Length(m[k])
    BY PacketsAre
  <2>2. ASSUME NEW j \in 1 .. Len(w), i + j - 1 <= Len(words) PROVE words[i + j - 1] = w[j]
    <3>1. j \in 1 .. Length(m[k]) /\ i + j - 1 \in 1 .. n
      BY ONLY <1>1, <1>2, <1>3, <2>1, <2>2
    <3> QED BY ONLY <1>1, <1>2, <3>1
  <2> QED BY <2>2 DEF Begins
<1>6. ParsesTo(words, i, m[k])
  BY <1>1, <1>3, <1>4, <1>5, Parses
<1>7. i + Length(m[k]) - 1 = e /\ i + Length(m[k]) = e + 1
  BY ONLY <1>2
<1>8. ParsePacket(words, i) = IF e > n THEN Failed ELSE Result(m[k], e + 1)
  BY <1>1, <1>6, <1>7 DEF ParsesTo
<1> QED BY <1>3, <1>8

(* The packets from the k-th on, as the parser has them. *)
Results(m, k, last) == [j \in 1 .. last - k |-> Result(m[k + j], End(m, k + j) + 1)]

(* A result of the walk with other packets. *)
LEMMA WithPackets ==
  ASSUME NEW q, NEW x, NEW r, r = [ok |-> TRUE, packets |-> q]
  PROVE  [r EXCEPT !.packets = x] = [ok |-> TRUE, packets |-> x]
<1> PICK t : t = [ok |-> TRUE, packets |-> x]
  OBVIOUS
<1>1. DOMAIN r = {"ok", "packets"} /\ r["ok"] = TRUE
  OBVIOUS
<1>2. [r EXCEPT !.packets = x] = [y \in {"ok", "packets"} |-> IF y = "packets" THEN x ELSE r[y]]
  BY ONLY <1>1
<1>3. t = [y \in {"ok", "packets"} |-> t[y]]
  OBVIOUS
<1>4. t["ok"] = TRUE /\ t["packets"] = x
  OBVIOUS
<1>5. t = [y \in {"ok", "packets"} |-> IF y = "packets" THEN x ELSE r[y]]
  BY ONLY <1>1, <1>3, <1>4
<1> QED BY <1>2, <1>5

(* A datagram that ends where the packet last does, or a byte later. *)
LEMMA WalkWhole ==
  ASSUME NEW m, IsCompound(m), NEW D, IsCut(m, D), NEW walk, IsWalk(D, walk),
         NEW last \in 0 .. Len(m), End(m, last) = Len(D.words), D.tail < 2
  PROVE  walk[1] = [ok |-> TRUE, packets |-> Results(m, 0, last)]
<1> PICK n, N, words : n = Len(m) /\ N = Len(D.words) /\ words = D.words
  OBVIOUS
<1>1. /\ n \in Nat /\ N \in Nat /\ words \in Seq(Word) /\ last \in 0 .. n /\ last \in Nat
      /\ N <= Len(AllWords(m))
  BY DEF IsCompound, IsCut
<1> DEFINE R(j) == Result(m[j], End(m, j) + 1)
           T == {d \in Nat : d <= last =>
                   walk[End(m, last - d) + 1]
                     = [ok |-> TRUE, packets |-> Results(m, last - d, last)]}
<1>2. 0 \in T
  <2>1. N + 1 \in 1 .. N + 1 /\ N + 1 > N /\ last - 0 = last /\ last - last = 0
    BY ONLY <1>1
  <2>2. walk[N + 1] = [ok |-> TRUE, packets |-> <<>>]
    <3>1. walk[N + 1] = WalkAt(D, walk, N + 1)
      BY <2>1 DEF IsWalk
    <3> QED BY <2>1, <3>1 DEF WalkAt
  <2>3. Results(m, last, last) = <<>>
    BY <2>1 DEF Results
  <2> QED BY <2>1, <2>2, <2>3
<1>3. ASSUME NEW d \in Nat, d \in T PROVE d + 1 \in T
  <2> SUFFICES ASSUME d + 1 <= last
               PROVE  walk[End(m, last - (d + 1)) + 1]
                        = [ok |-> TRUE, packets |-> Results(m, last - (d + 1), last)]
    OBVIOUS
  <2> PICK k : k = last - d
    OBVIOUS
  <2>1. /\ k \in 1 .. n /\ k \in 0 .. n /\ k - 1 \in 0 .. n /\ k - 1 < last /\ k <= last
        /\ last - (d + 1) = k - 1
        /\ d <= last /\ k \in Nat
    BY ONLY <1>1, k = last - d, d + 1 <= last, d \in Nat
  <2>2. walk[End(m, k) + 1] = [ok |-> TRUE, packets |-> Results(m, k, last)]
    BY <1>3, <2>1
  <2>3. /\ End(m, k - 1) < N /\ End(m, k) <= N /\ End(m, k) \in Nat /\ End(m, k - 1) \in Nat
    <3>1. \A a, b \in 0 .. n : a < b => End(m, a) < End(m, b)
      BY EndsMeet
    <3>2. End(m, k - 1) \in Nat /\ End(m, k) \in Nat
      BY <2>1, EndsMeet
    <3>3. k = last \/ k < last
      BY ONLY <1>1, <2>1
    <3>4. End(m, k - 1) < End(m, last) /\ (k < last => End(m, k) < End(m, last))
      BY <1>1, <2>1, <3>1
    <3> QED BY <1>1, <3>2, <3>3, <3>4
  <2> PICK i, e : i = End(m, k - 1) + 1 /\ e = End(m, k)
    OBVIOUS
  <2>4. i \in 1 .. N /\ ParsePacket(words, i) = R(k)
    <3>1. /\ End(m, k - 1) + 1 \in 1 .. Len(D.words)
          /\ ParsePacket(D.words, End(m, k - 1) + 1) =
               IF End(m, k) > Len(D.words) THEN Failed ELSE Result(m[k], End(m, k) + 1)
      BY <2>1, <2>3, NextParsed
    <3>2. ~(End(m, k) > N)
      BY ONLY <1>1, <2>3
    <3> QED BY <3>1, <3>2
  <2>5. R(k).next = e + 1 /\ e + 1 # 0
    <3>1. WellFormed(m[k])
      BY <2>1 DEF IsCompound
    <3> QED BY <2>3, <3>1 DEF Result, WellFormed
  <2>6. walk[i] = [ok |-> TRUE, packets |-> <<R(k)>> \o Results(m, k, last)]
    <3>1. i \in 1 .. N + 1 /\ ~(i > N)
      BY ONLY <1>1, <2>4
    <3>2. walk[i] = WalkAt(D, walk, i)
      BY <3>1 DEF IsWalk
    <3> HIDE DEF R
    <3>3. ParsePacket(words, i).next = e + 1 /\ e + 1 # 0
      BY <2>4, <2>5
    <3>4. walk[i] = [walk[e + 1] EXCEPT !.packets = IF walk[e + 1].ok
                        THEN <<ParsePacket(words, i)>> \o @ ELSE <<>>]
      BY <3>1, <3>2, <3>3 DEF WalkAt
    <3> PICK p, q : p = ParsePacket(words, i) /\ q = Results(m, k, last)
      OBVIOUS
    <3>5. walk[e + 1] = [ok |-> TRUE, packets |-> q] /\ p = R(k)
      BY <2>2, <2>4
    <3> PICK r, x : r = walk[e + 1] /\ x = <<p>> \o q
      OBVIOUS
    <3>6. walk[i] = [ok |-> TRUE, packets |-> <<p>> \o q]
      <4>1. walk[i] = [r EXCEPT !.packets = x]
        <5>1. r.ok = TRUE /\ r.packets = q
          BY <3>5
        <5> QED BY <3>4, <5>1
      <4>2. [r EXCEPT !.packets = x] = [ok |-> TRUE, packets |-> x]
        <5>1. r = [ok |-> TRUE, packets |-> q]
          BY ONLY <3>5, r = walk[e + 1]
        <5> QED BY ONLY <5>1, WithPackets, Zenon
      <4> QED BY <4>1, <4>2
    <3> QED BY <3>5, <3>6
  <2>7. <<R(k)>> \o Results(m, k, last) = Results(m, k - 1, last)
    <3> HIDE DEF R
    <3>1. Results(m, k, last) = [j \in 1 .. last - k |-> R(k + j)]
          /\ Results(m, k - 1, last) = [j \in 1 .. last - (k - 1) |-> R(k - 1 + j)]
      BY DEF Results, R
    <3> PICK c : c = last - k
      OBVIOUS
    <3>2. c \in Nat /\ last - (k - 1) = c + 1
      BY ONLY <1>1, <2>1, c = last - k
    <3>4. Len(<<R(k)>> \o [j \in 1 .. c |-> R(k + j)]) = c + 1
      BY ONLY <3>2
    <3>5. ASSUME NEW j \in 1 .. c + 1
          PROVE  (<<R(k)>> \o [l \in 1 .. c |-> R(k + l)])[j] = R(k - 1 + j)
      <4>1. CASE j = 1
        <5>1. k - 1 + j = k
          BY ONLY <2>1, <4>1
        <5> QED BY ONLY <3>2, <4>1, <5>1
      <4>2. CASE j # 1
        <5>1. j - 1 \in 1 .. c /\ k + (j - 1) = k - 1 + j
          BY ONLY <2>1, <3>2, <4>2, j \in 1 .. c + 1
        <5>2. (<<R(k)>> \o [l \in 1 .. c |-> R(k + l)])[j] = [l \in 1 .. c |-> R(k + l)][j - 1]
          BY ONLY <3>2, <4>2, j \in 1 .. c + 1
        <5> QED BY ONLY <5>1, <5>2
      <4> QED BY <4>1, <4>2
    <3>6. <<R(k)>> \o [j \in 1 .. c |-> R(k + j)] = [j \in 1 .. c + 1 |-> R(k - 1 + j)]
      BY ONLY <3>2, <3>4, <3>5
    <3> QED BY <3>1, <3>2, <3>6
  <2> QED BY <2>1, <2>6, <2>7
<1>4. last \in T
  <2> HIDE DEF T
  <2> QED BY <1>1, <1>2, <1>3, Loop!NatInd
<1>5. walk[End(m, last - last) + 1] = [ok |-> TRUE, packets |-> Results(m, last - last, last)]
  BY <1>1, <1>4
<1>6. last - last = 0 /\ End(m, 0) = 0
  BY <1>1, EndsMeet
<1>7. 0 + 1 = 1
  OBVIOUS
<1> QED BY ONLY <1>5, <1>6, <1>7

(* A walk whose datagram has two or three bytes after its last word fails, *)
(* whatever its words are.                                                 *)
LEMMA WalkFails ==
  ASSUME NEW D, D.words \in Seq(Word), NEW walk, IsWalk(D, walk), ~(D.tail < 2)
  PROVE  walk[1].ok = FALSE
<1> PICK N, words : N = Len(D.words) /\ words = D.words
  OBVIOUS
<1>1. N \in Nat /\ words \in Seq(Word)
  OBVIOUS
<1> DEFINE Bad == [ok |-> FALSE, packets |-> <<>>]
           From(d) == {i \in 1 .. N + 1 : i >= N + 1 - d}
           T == {d \in Nat : \A i \in From(d) : walk[i] = Bad}
<1>2. walk[N + 1] = Bad
  <2>1. N + 1 \in 1 .. N + 1 /\ N + 1 > N
    BY <1>1
  <2>2. walk[N + 1] = WalkAt(D, walk, N + 1)
    BY <2>1 DEF IsWalk
  <2>3. (D.tail < 2) = FALSE
    OBVIOUS
  <2> QED BY <2>1, <2>2, <2>3 DEF WalkAt
<1> HIDE DEF Bad
<1>3. 0 \in T
  <2>1. From(0) = {N + 1}
    BY <1>1
  <2> QED BY <1>2, <2>1
<1>4. ASSUME NEW d \in Nat, d \in T PROVE d + 1 \in T
  <2>1. ASSUME NEW i \in From(d + 1), i \notin From(d) PROVE walk[i] = Bad
    <3>1. i \in 1 .. N /\ i = N + 1 - (d + 1) /\ ~(i > N) /\ i \in 1 .. N + 1
      BY ONLY <1>1, <2>1, d \in Nat
    <3>2. walk[i] = WalkAt(D, walk, i)
      BY <3>1 DEF IsWalk
    <3> PICK x : x = ParsePacket(words, i).next
      OBVIOUS
    <3>3. x = 0 \/ x \in i + 1 .. N + 1
      BY <1>1, <3>1, NextLater
    <3>4. CASE x = 0
      BY <3>1, <3>2, <3>4 DEF WalkAt, Bad
    <3>5. CASE x # 0
      <4>1. x \in From(d)
        BY ONLY <1>1, <3>1, <3>3, <3>5, d \in Nat
      <4>2. walk[x] = Bad
        BY <1>4, <4>1
      <4>3. walk[i] = [walk[x] EXCEPT !.packets = IF walk[x].ok
                          THEN <<ParsePacket(words, i)>> \o @ ELSE <<>>]
        BY <3>1, <3>2, <3>5 DEF WalkAt
      <4> QED BY <4>2, <4>3 DEF Bad
    <3> QED BY <3>4, <3>5
  <2>2. \A i \in From(d) : walk[i] = Bad
    BY <1>4
  <2>3. \A i \in From(d + 1) : walk[i] = Bad
    <3> HIDE DEF From
    <3> QED BY <2>1, <2>2
  <2>4. d + 1 \in Nat
    OBVIOUS
  <2> HIDE DEF From
  <2> QED BY <2>3, <2>4
<1>5. N \in T
  <2> HIDE DEF T
  <2> QED BY <1>1, <1>3, <1>4, Loop!NatInd
<1>6. 1 \in From(N)
  BY <1>1
<1>7. walk[1] = Bad
  BY <1>5, <1>6
<1> QED BY <1>7 DEF Bad

(* The datagram of a compound is the words of its packets.                 *)
LEMMA DatagramIs ==
  ASSUME NEW m, IsCompound(m)
  PROVE  LET D == Datagram(m)
         IN  IsCut(m, D) /\ End(m, Len(m)) = Len(D.words) /\ D.tail < 2
<1> PICK all, D : all = AllWords(m) /\ D = Datagram(m)
  OBVIOUS
<1>1. all \in Seq(Word) /\ End(m, Len(m)) = Len(all)
  BY EndsMeet
<1>2. D = [words |-> all, tail |-> 0]
  BY DEF Datagram, AllWords, PacketsWords
<1>3. D.words = all /\ D.tail \in 0 .. 3 /\ D.tail < 2
  BY <1>2
<1>4. Len(all) <= Len(all)
  BY <1>1
<1> QED BY <1>1, <1>3, <1>4 DEF IsCut

(* RtcpCompound::Parse finds the packets that were written, all of them.   *)
LEMMA TakenIs ==
  ASSUME NEW m, IsCompound(m)
  PROVE  ParseCompound(Datagram(m)) = [ok |-> TRUE, packets |-> Results(m, 0, Len(m))]
<1> PICK D, n : D = Datagram(m) /\ n = Len(m)
  OBVIOUS
<1>1. IsCut(m, D) /\ End(m, n) = Len(D.words) /\ D.tail < 2
  BY DatagramIs
<1>2. PICK walk : IsWalk(D, walk) /\ ParseCompound(D) = walk[1]
  BY <1>1, WalkExists DEF IsCut
<1>3. n \in 0 .. Len(m)
  BY DEF IsCompound
<1> QED BY <1>1, <1>2, <1>3, WalkWhole

(* Of a datagram that ends two or three bytes after a word it takes none.  *)
LEMMA TailFails ==
  ASSUME NEW D, D.words \in Seq(Word), ~(D.tail < 2)
  PROVE  ParseCompound(D).ok = FALSE
<1>1. PICK walk : IsWalk(D, walk) /\ ParseCompound(D) = walk[1]
  BY WalkExists
<1> QED BY <1>1, WalkFails

(* Nor of one of length 0.                                                 *)
LEMMA NothingTaken ==
  ASSUME NEW D, D = [words |-> <<>>, tail |-> 0]
  PROVE  ParseCompound(D) = [ok |-> TRUE, packets |-> <<>>]
<1>1. D.words \in Seq(Word) /\ Len(D.words) = 0 /\ D.tail = 0
  OBVIOUS
<1>2. PICK walk : IsWalk(D, walk) /\ ParseCompound(D) = walk[1]
  BY <1>1, WalkExists
<1>3. walk[1] = WalkAt(D, walk, 1)
  BY <1>1, <1>2 DEF IsWalk
<1>4. WalkAt(D, walk, 1) = [ok |-> D.tail < 2, packets |-> <<>>]
  BY <1>1 DEF WalkAt
<1>5. (D.tail < 2) = TRUE
  BY <1>1
<1> QED BY <1>2, <1>3, <1>4, <1>5

(* Modulo 2^16, a number is k after another when its distance is k. *)
LEMMA Distance ==
  ASSUME NEW M \in Nat, M > 100, NEW p \in Nat, p < M, NEW n \in Nat, n < M, NEW k \in 0 .. 16
  PROVE  n = ((p + k) % M) <=> ((n - p) % M) = k
<1>1. (p + k) % M = IF p + k < M THEN p + k ELSE p + k - M
  <2>1. p + k < M => (p + k) % M = p + k
    OBVIOUS
  <2>2. p + k >= M => (p + k) % M = p + k - M
    OBVIOUS
  <2> QED BY <2>1, <2>2
<1>2. (n - p) % M = IF n >= p THEN n - p ELSE n - p + M
  <2>1. n >= p => (n - p) % M = n - p
    OBVIOUS
  <2>2. n < p => (n - p) % M = n - p + M
    OBVIOUS
  <2> QED BY <2>1, <2>2
<1> PICK a, b : a = ((p + k) % M) /\ b = ((n - p) % M)
  OBVIOUS
<1>3. n = a <=> b = k
  BY ONLY <1>1, <1>2, a = ((p + k) % M), b = ((n - p) % M),
          M \in Nat, M > 100, p \in Nat, p < M, n \in Nat, n < M, k \in 0 .. 16
<1> QED BY <1>3

(* The bit of blp for the number that is k after pid. *)
BitSet(blp, k) == (blp \div 2 ^ (k - 1)) % 2 = 1

(* The numbers an item stands for. *)
ItemNumbers(word) ==
  {word[1]} \cup {(word[1] + k) % 65536 : k \in {i \in 1 .. 16 : BitSet(word[2], i)}}

(* NackItem gives the pid and the numbers of the bits that are set. *)
LEMMA ItemIs ==
  ASSUME NEW word \in Word
  PROVE  NackItem(word) \in Seq(Half) /\ Range(NackItem(word)) = ItemNumbers(word)
<1> PICK pid, blp : pid = word[1] /\ blp = word[2]
  OBVIOUS
<1> DEFINE s == [k \in 1 .. 16 |-> IF BitSet(blp, k) THEN <<(pid + k) % 65536>> ELSE <<>>]
<1>0. pid \in Half /\ pid \in Nat
  BY HalfIs DEF Word
<1>1. ASSUME NEW k \in 1 .. 16 PROVE (pid + k) % 65536 \in Half
  <2>1. (pid + k) % 65536 \in Nat /\ (pid + k) % 65536 <= 65535
    BY <1>0
  <2> QED BY <2>1, HalfIs
<1>2. s \in Seq(Seq(Half)) /\ DOMAIN s = 1 .. 16
  <2>1. ASSUME NEW k \in 1 .. 16
        PROVE  (IF BitSet(blp, k) THEN <<(pid + k) % 65536>> ELSE <<>>) \in Seq(Half)
    BY <1>1
  <2>2. ASSUME NEW Q, NEW t, t = [k \in 1 .. 16 |-> t[k]], \A k \in 1 .. 16 : t[k] \in Q
        PROVE  t \in Seq(Q)
    <3>1. 16 \in Nat
      OBVIOUS
    <3> QED BY ONLY <2>2, <3>1
  <2> QED BY <2>1, <2>2
<1>3. FlattenSeq(s) \in Seq(Half) /\ Range(FlattenSeq(s)) = Contents(s)
  <2> HIDE DEF s
  <2>1. s \in Seq(Seq(Half))
    BY <1>2
  <2> QED BY ONLY <2>1, FlattenIsSeq, FlattenRange
<1>4. NackItem(word) = <<pid>> \o FlattenSeq(s)
  BY DEF NackItem, LostNumbers, BitSet
<1>5. <<pid>> \in Seq(Half) /\ Range(<<pid>>) = {pid}
  BY <1>0 DEF Range
<1>6. Contents(s) = {(pid + k) % 65536 : k \in {i \in 1 .. 16 : BitSet(blp, i)}}
  <2>1. ASSUME NEW x
        PROVE  x \in Contents(s) <=> \E k \in 1 .. 16 : x \in Range(s[k])
    BY <1>2 DEF Contents
  <2>2. ASSUME NEW x, NEW k \in 1 .. 16
        PROVE  x \in Range(s[k]) <=> BitSet(blp, k) /\ x = ((pid + k) % 65536)
    <3>1. CASE BitSet(blp, k)
      <4>1. s[k] = <<(pid + k) % 65536>>
        BY <3>1
      <4>2. \A y : Range(<<y>>) = {y}
        BY DEF Range
      <4> QED BY <3>1, <4>1, <4>2
    <3>2. CASE ~BitSet(blp, k)
      <4>1. s[k] = <<>>
        BY <3>2
      <4>2. Range(<<>>) = {}
        BY EmptySeq DEF Range
      <4> QED BY <3>2, <4>1, <4>2
    <3> QED BY <3>1, <3>2
  <2> HIDE DEF s
  <2> QED BY <2>1, <2>2
<1> HIDE DEF s
<1>7. Range(<<pid>> \o FlattenSeq(s)) = Range(<<pid>>) \cup Range(FlattenSeq(s))
      /\ <<pid>> \o FlattenSeq(s) \in Seq(Half)
  <2>1. ASSUME NEW a \in Seq(Half), NEW b \in Seq(Half)
        PROVE  Range(a \o b) = Range(a) \cup Range(b) /\ a \o b \in Seq(Half)
    <3>1. Range(a \o b) = Range(a) \cup Range(b)
      BY RangeConcatenation
    <3> QED BY ONLY <3>1, a \in Seq(Half), b \in Seq(Half)
  <2> QED BY <1>3, <1>5, <2>1
<1> QED BY <1>3, <1>4, <1>5, <1>6, <1>7 DEF ItemNumbers

(* A number is of an item when its distance from the pid says so, and only then. *)
LEMMA InItem ==
  ASSUME NEW word \in Word, NEW n
  PROVE  n \in ItemNumbers(word) <=>
           /\ n \in Half
           /\ \/ ((n - word[1]) % 65536) = 0
              \/ /\ ((n - word[1]) % 65536) \in 1 .. 16
                 /\ BitSet(word[2], (n - word[1]) % 65536)
<1> PICK p, blp, M : p = word[1] /\ blp = word[2] /\ M = 65536
  OBVIOUS
<1>1. p \in Half /\ p \in Nat /\ p < M /\ M \in Nat /\ M > 100
  BY HalfIs DEF Word
<1>2. ASSUME n \in Half, NEW k \in 0 .. 16 PROVE n = ((p + k) % M) <=> ((n - p) % M) = k
  <2>1. n \in Nat /\ n < M
    BY <1>2, HalfIs
  <2> QED BY ONLY <1>1, <2>1, Distance, k \in 0 .. 16
<1>3. (p + 0) % M = p
  BY ONLY <1>1
<1>4. \A k \in 1 .. 16 : (p + k) % M \in Half
  <2>1. ASSUME NEW k \in 1 .. 16 PROVE (p + k) % M \in Nat /\ (p + k) % M <= 65535
    BY <1>1
  <2> QED BY <2>1, HalfIs
<1>5. n \in ItemNumbers(word) <=>
        n = p \/ \E k \in 1 .. 16 : BitSet(blp, k) /\ n = ((p + k) % M)
  BY DEF ItemNumbers
<1>6. ASSUME n \in Half
      PROVE  (n = p \/ \E k \in 1 .. 16 : BitSet(blp, k) /\ n = ((p + k) % M)) <=>
             (((n - p) % M) = 0 \/ (((n - p) % M) \in 1 .. 16 /\ BitSet(blp, (n - p) % M)))
  <2>1. n = p <=> ((n - p) % M) = 0
    <3>1. 0 \in 0 .. 16
      OBVIOUS
    <3>2. n = ((p + 0) % M) <=> ((n - p) % M) = 0
      BY <1>2, <1>6, <3>1
    <3> QED BY <1>3, <3>2
  <2>2. \A k \in 1 .. 16 : n = ((p + k) % M) <=> ((n - p) % M) = k
    <3>1. \A k \in 1 .. 16 : k \in 0 .. 16
      OBVIOUS
    <3> QED BY <1>2, <1>6, <3>1
  <2> PICK d : d = ((n - p) % M)
    OBVIOUS
  <2>3. \A k \in 1 .. 16 : n = ((p + k) % M) <=> d = k
    BY <2>2
  <2>4. (\E k \in 1 .. 16 : BitSet(blp, k) /\ n = ((p + k) % M)) <=> d \in 1 .. 16 /\ BitSet(blp, d)
    BY ONLY <2>3
  <2> QED BY <2>1, <2>4
<1> QED BY <1>1, <1>4, <1>5, <1>6

(* The numbers an item can reach, and those whose distance says so. *)
Reach(item) == {(item[1] + k) % 65536 : k \in 0 .. 16}
Near(item, n) ==
  \/ ((n - item[1]) % 65536) = 0
  \/ /\ ((n - item[1]) % 65536) \in 1 .. 16
     /\ BitSet(item[2], (n - item[1]) % 65536)

(* Asked, item by item. *)
LEMMA AskedIs ==
  ASSUME NEW items
  PROVE  \A n : n \in Asked(items) <=> /\ \E j \in DOMAIN items : n \in Reach(items[j])
                                       /\ \E j \in DOMAIN items : Near(items[j], n)
BY DEF Asked, Near, Reach, BitSet

(* What the items of a NACK stand for is what they ask for. *)
LEMMA LostIsAsked ==
  ASSUME NEW items \in Seq(Word)
  PROVE  LET lost == FlattenSeq([k \in 1 .. Len(items) |-> NackItem(items[k])])
         IN  lost \in Seq(Half) /\ Range(lost) = Asked(items) /\ Asked(items) \in SUBSET Half
<1> DEFINE s == [k \in 1 .. Len(items) |-> NackItem(items[k])]
<1>1. /\ Len(items) \in Nat /\ DOMAIN items = 1 .. Len(items)
      /\ \A k \in 1 .. Len(items) : items[k] \in Word
  OBVIOUS
<1>2. s \in Seq(Seq(Half)) /\ DOMAIN s = 1 .. Len(items)
  <2>1. ASSUME NEW k \in 1 .. Len(items) PROVE NackItem(items[k]) \in Seq(Half)
    BY <1>1, ItemIs
  <2>2. ASSUME NEW Q, \A k \in 1 .. Len(items) : NackItem(items[k]) \in Q PROVE s \in Seq(Q)
    BY <1>1, <2>2
  <2> QED BY <2>1, <2>2
<1>3. FlattenSeq(s) \in Seq(Half) /\ Range(FlattenSeq(s)) = Contents(s)
  <2> HIDE DEF s
  <2>1. s \in Seq(Seq(Half))
    BY <1>2
  <2> QED BY ONLY <2>1, FlattenIsSeq, FlattenRange
<1>4. ASSUME NEW n
      PROVE  n \in Contents(s) <=> \E k \in 1 .. Len(items) : n \in ItemNumbers(items[k])
  <2>1. n \in Contents(s) <=> \E k \in 1 .. Len(items) : n \in Range(s[k])
    BY <1>2 DEF Contents
  <2>2. \A k \in 1 .. Len(items) : Range(s[k]) = ItemNumbers(items[k])
    BY <1>1, ItemIs
  <2> HIDE DEF s
  <2> QED BY <2>1, <2>2
<1>5. ASSUME NEW n
      PROVE  n \in Asked(items) <=> \E k \in 1 .. Len(items) : n \in ItemNumbers(items[k])
  <2>1. n \in Asked(items) <=> /\ \E j \in 1 .. Len(items) : n \in Reach(items[j])
                               /\ \E j \in 1 .. Len(items) : Near(items[j], n)
    BY <1>1, AskedIs
  <2>2. ASSUME NEW j \in 1 .. Len(items) PROVE n \in ItemNumbers(items[j]) <=> n \in Half /\ Near(items[j], n)
    BY <1>1, InItem DEF Near
  <2>3. ASSUME NEW j \in 1 .. Len(items), n \in Reach(items[j]) PROVE n \in Half
    <3>1. items[j][1] \in Half /\ items[j][1] \in Nat
      BY <1>1, HalfIs DEF Word
    <3>2. PICK k \in 0 .. 16 : n = ((items[j][1] + k) % 65536)
      BY <2>3 DEF Reach
    <3> PICK p : p = items[j][1]
      OBVIOUS
    <3>3. (p + k) % 65536 \in Nat /\ (p + k) % 65536 <= 65535
      BY <3>1
    <3> QED BY <3>2, <3>3, HalfIs
  <2>4. ASSUME NEW j \in 1 .. Len(items), n \in ItemNumbers(items[j]) PROVE n \in Reach(items[j])
    <3> PICK p, blp : p = items[j][1] /\ blp = items[j][2]
      OBVIOUS
    <3>1. p \in Nat /\ p < 65536
      BY <1>1, HalfIs DEF Word
    <3>2. (p + 0) % 65536 = p /\ 0 \in 0 .. 16 /\ \A k \in 1 .. 16 : k \in 0 .. 16
      BY ONLY <3>1
    <3>3. n = p \/ \E k \in 1 .. 16 : n = ((p + k) % 65536)
      BY ONLY <2>4, p = items[j][1] DEF ItemNumbers
    <3> QED BY <3>2, <3>3 DEF Reach
  <2> QED BY <2>1, <2>2, <2>3, <2>4
<1>6. Asked(items) = Contents(s)
  BY <1>4, <1>5
<1>7. Range(FlattenSeq(s)) \in SUBSET Half
  BY <1>3 DEF Range
<1> QED BY <1>3, <1>6, <1>7

(* The loops over the blocks of a report and over the packets of a       *)
(* compound.                                                             *)
Blocks == INSTANCE FoldProofs WITH Op <- DispatchBlock
Packets == INSTANCE FoldProofs WITH Op <- Dispatch

(* The loop over the blocks of a report is a fold of DispatchBlock. *)
LEMMA BlocksFold ==
  ASSUME NEW d, NEW blocks
  PROVE  FoldLeft(DispatchBlock, d, blocks) = Blocks!Folded(d, blocks)
BY DEF Blocks!Folded, FoldLeft, Blocks!FoldLeft, MapThenFoldSet, Blocks!MapThenFoldSet,
       Max, Blocks!Max

(* The loop over the packets of a compound is a fold of Dispatch. *)
LEMMA PacketsFold ==
  ASSUME NEW d, NEW packets
  PROVE  FoldLeft(Dispatch, d, packets) = Packets!Folded(d, packets)
BY DEF Packets!Folded, FoldLeft, Packets!FoldLeft, MapThenFoldSet, Packets!MapThenFoldSet,
       Max, Packets!Max

(* The calls there can be, and what dispatching is about.                  *)
Calls == [track : Word, last_sr : Word] \cup [track : Word, lost : SUBSET Half]
States == [calls : Seq(Calls), crashed : BOOLEAN]

(* What some packets mean, together. *)
Means(m, n) == [j \in 1 .. n |-> Meant(m[j])]
BlocksMean(blocks, n) == [k \in 1 .. n |-> MeantBlock(blocks[k])]

(* One more sequence: t has the i sequences of s, and another. *)
OneMore(S, i, s, t) ==
  /\ s = [j \in 1 .. i |-> s[j]] /\ t = [j \in 1 .. i + 1 |-> t[j]]
  /\ \A j \in 1 .. i : t[j] = s[j] /\ s[j] \in Seq(S)
  /\ t[i + 1] \in Seq(S)

(* One sequence more is added at the end. *)
LEMMA FlattenNext ==
  ASSUME NEW S, NEW i \in Nat, NEW s, NEW t, OneMore(S, i, s, t)
  PROVE  FlattenSeq(t) = FlattenSeq(s) \o t[i + 1] /\ FlattenSeq(s) \in Seq(S)
<1>1. ASSUME NEW Q, \A j \in 1 .. i : s[j] \in Q, NEW e \in Q, e = t[i + 1]
      PROVE  s \in Seq(Q) /\ t = Append(s, e)
  <2>0. /\ s = [j \in 1 .. i |-> s[j]] /\ t = [j \in 1 .. i + 1 |-> t[j]]
        /\ \A j \in 1 .. i : t[j] = s[j]
    BY DEF OneMore
  <2>1. s \in Seq(Q) /\ Len(s) = i
    <3> PICK r : r = [j \in 1 .. i |-> s[j]]
      OBVIOUS
    <3>1. r \in Seq(Q) /\ Len(r) = i
      BY ONLY i \in Nat, <1>1, r = [j \in 1 .. i |-> s[j]]
    <3> QED BY ONLY <2>0, <3>1, r = [j \in 1 .. i |-> s[j]]
  <2>2. Append(s, e) = [j \in 1 .. i + 1 |-> IF j = i + 1 THEN e ELSE s[j]]
    BY ONLY i \in Nat, <1>1, <2>1
  <2>3. \A j \in 1 .. i + 1 : j = i + 1 \/ j \in 1 .. i
    OBVIOUS
  <2>4. t = [j \in 1 .. i + 1 |-> IF j = i + 1 THEN e ELSE s[j]]
    BY <1>1, <2>0, <2>3
  <2> QED BY <2>1, <2>2, <2>4
<1>2. s \in Seq(Seq(S)) /\ t = Append(s, t[i + 1])
  BY <1>1 DEF OneMore
<1>3. t[i + 1] \in Seq(S)
  BY DEF OneMore
<1> QED BY ONLY <1>2, <1>3, FlattenAppend, FlattenIsSeq

(* What a block means is a call, or none. *)
LEMMA MeantBlockIs ==
  ASSUME NEW block \in ReportBlocks
  PROVE  MeantBlock(block) \in Seq(Calls)
<1>1. block.source_ssrc \in Word /\ block.last_sr \in Word
  BY DEF ReportBlocks
<1>2. [track |-> block.source_ssrc, last_sr |-> block.last_sr] \in Calls
  BY <1>1 DEF Calls
<1>3. \A S : \A x \in S : <<x>> \in Seq(S)
  OBVIOUS
<1>4. \A S : <<>> \in Seq(S)
  OBVIOUS
<1> QED BY <1>2, <1>3, <1>4 DEF MeantBlock

(* What a report does. *)
LEMMA BlocksDo ==
  ASSUME NEW blocks \in Seq(ReportBlocks), NEW d \in States, ~d.crashed
  PROVE  LET after == FoldLeft(DispatchBlock, d, blocks)
         IN  /\ after \in States /\ ~after.crashed
             /\ after.calls = d.calls \o FlattenSeq(BlocksMean(blocks, Len(blocks)))
<1> DEFINE n == Len(blocks)
           So(i) == FlattenSeq(BlocksMean(blocks, i))
           D == [i \in 0 .. n |->
                   {e \in States : ~e.crashed /\ e.calls = d.calls \o So(i)}]
<1>1. n \in Nat /\ DOMAIN blocks = 1 .. n /\ \A k \in 1 .. n : blocks[k] \in ReportBlocks
  OBVIOUS
<1>2. So(0) = <<>>
  <2>1. BlocksMean(blocks, 0) = <<>>
    BY DEF BlocksMean
  <2> QED BY <2>1, FlattenNone
<1>3. ASSUME NEW i \in 1 .. n PROVE So(i) = So(i - 1) \o MeantBlock(blocks[i]) /\ So(i - 1) \in Seq(Calls)
  <2> PICK k \in Nat : k = i - 1 /\ i = k + 1
    BY <1>1
  <2> PICK s, t : s = BlocksMean(blocks, k) /\ t = BlocksMean(blocks, k + 1)
    OBVIOUS
  <2>0. i \in 1 .. k + 1 /\ \A j \in 1 .. k : j \in 1 .. n /\ j \in 1 .. k + 1
    BY <1>1
  <2>1. /\ s = [j \in 1 .. k |-> s[j]] /\ t = [j \in 1 .. k + 1 |-> t[j]]
        /\ \A j \in 1 .. k : t[j] = s[j] /\ s[j] = MeantBlock(blocks[j])
        /\ t[i] = MeantBlock(blocks[i])
    BY <2>0 DEF BlocksMean
  <2>2. (\A j \in 1 .. k : s[j] \in Seq(Calls)) /\ t[k + 1] \in Seq(Calls)
    BY <1>1, <2>0, <2>1, MeantBlockIs
  <2>3. FlattenSeq(t) = FlattenSeq(s) \o t[k + 1] /\ FlattenSeq(s) \in Seq(Calls)
    <3>1. OneMore(Calls, k, s, t)
      BY <2>1, <2>2 DEF OneMore
    <3>2. k \in Nat
      OBVIOUS
    <3> QED BY ONLY <3>1, <3>2, FlattenNext
  <2> QED BY <2>1, <2>3
<1> HIDE DEF So
<1>4. d \in D[0]
  <2>1. d.calls \in Seq(Calls)
    BY DEF States
  <2>2. \A S : \A s \in Seq(S) : s \o <<>> = s
    OBVIOUS
  <2>3. 0 \in 0 .. n
    BY <1>1
  <2> QED BY <1>2, <2>1, <2>2, <2>3
<1>5. ASSUME NEW i \in 1 .. n, NEW e \in D[i - 1]
      PROVE  DispatchBlock(e, blocks[i]) \in D[i]
  <2> PICK block, ssrc : block = blocks[i] /\ ssrc = block.source_ssrc
    OBVIOUS
  <2>1. i - 1 \in 0 .. n /\ i \in 0 .. n
    BY <1>1
  <2>2. e \in States /\ ~e.crashed /\ e.calls = d.calls \o So(i - 1)
    BY <2>1
  <2>3. block \in ReportBlocks /\ ssrc \in Word /\ block.last_sr \in Word
    BY <1>1 DEF ReportBlocks
  <2>4. /\ e.calls \in Seq(Calls) /\ e.crashed \in BOOLEAN
        /\ d.calls \in Seq(Calls)
        /\ e = [calls |-> e.calls, crashed |-> e.crashed]
    BY <2>2 DEF States
  <2>5. SUFFICES ASSUME NEW f, f = DispatchBlock(e, block)
                 PROVE  f \in States /\ ~f.crashed /\ f.calls = d.calls \o So(i)
    BY <2>1
  <2>6. CASE ssrc \notin stream_tracks_
    <3>1. f = e
      BY <2>2, <2>5, <2>6 DEF DispatchBlock
    <3>2. MeantBlock(block) = <<>>
      BY <2>6 DEF MeantBlock
    <3>3. So(i) = So(i - 1)
      <4>1. \A S : \A s \in Seq(S) : s \o <<>> = s
        OBVIOUS
      <4> QED BY <1>3, <3>2, <4>1
    <3> QED BY <2>2, <3>1, <3>3
  <2>7. CASE ssrc \in stream_tracks_
    <3> PICK c : c = [track |-> ssrc, last_sr |-> block.last_sr]
      OBVIOUS
    <3>1. f = [e EXCEPT !.calls = Append(@, c)]
      BY <2>2, <2>5, <2>7 DEF DispatchBlock
    <3>2. c \in Calls
      BY <2>3 DEF Calls
    <3>3. MeantBlock(block) = <<c>>
      BY <2>7 DEF MeantBlock
    <3>4. \A S : \A s \in Seq(S), x \in S : Append(s, x) = s \o <<x>> /\ Append(s, x) \in Seq(S)
      OBVIOUS
    <3>5. ASSUME NEW a \in Seq(Calls), NEW b \in Seq(Calls)
          PROVE  (a \o b) \o <<c>> = a \o (b \o <<c>>)
      <4>1. <<c>> \in Seq(Calls)
        BY <3>2
      <4> QED BY ONLY a \in Seq(Calls), b \in Seq(Calls), <4>1, ConcatAssociative, SMTT(30)
    <3>6. (d.calls \o So(i - 1)) \o <<c>> = d.calls \o So(i)
      <4>1. So(i) = So(i - 1) \o <<c>> /\ So(i - 1) \in Seq(Calls) /\ d.calls \in Seq(Calls)
        BY <1>3, <2>4, <3>3
      <4> QED BY ONLY <3>5, <4>1
    <3>7. f = [calls |-> Append(e.calls, c), crashed |-> e.crashed]
      BY <2>4, <3>1
    <3>8. Append(e.calls, c) = e.calls \o <<c>> /\ Append(e.calls, c) \in Seq(Calls)
      BY <2>4, <3>2, <3>4
    <3>9. f \in States
      BY <2>4, <3>7, <3>8 DEF States
    <3> QED BY <2>2, <3>6, <3>7, <3>8, <3>9
  <2> QED BY <2>6, <2>7
<1> HIDE DEF D
<1>6. Blocks!Folded(d, blocks) \in D[n]
  BY <1>1, <1>4, <1>5, Blocks!FoldedIn
<1>7. FoldLeft(DispatchBlock, d, blocks) \in D[n]
  BY <1>6, BlocksFold
<1>8. n \in 0 .. n
  BY <1>1
<1> QED BY <1>7, <1>8 DEF D, So

(* A NACK for an ssrc that has no track. *)
Foreign(p) == p.kind = "nack" /\ p.ssrc \notin stream_tracks_

(* What a packet means are calls. *)
LEMMA MeantIs ==
  ASSUME NEW p, WellFormed(p)
  PROVE  Meant(p) \in Seq(Calls)
<1>0. \A S : <<>> \in Seq(S) /\ \A x \in S : <<x>> \in Seq(S)
  OBVIOUS
<1>1. CASE p.kind = "rr"
  <2> PICK n, blocks : n = Len(p.blocks) /\ blocks = p.blocks
    OBVIOUS
  <2>1. blocks \in Seq(ReportBlocks)
    BY <1>1 DEF WellFormed
  <2>2. n \in Nat /\ \A k \in 1 .. n : blocks[k] \in ReportBlocks
    BY <2>1
  <2>3. \A k \in 1 .. n : MeantBlock(blocks[k]) \in Seq(Calls)
    BY <2>2, MeantBlockIs
  <2>4. ASSUME NEW Q, \A k \in 1 .. n : MeantBlock(blocks[k]) \in Q
        PROVE  [k \in 1 .. n |-> MeantBlock(blocks[k])] \in Seq(Q)
    BY <2>2, <2>4
  <2>5. FlattenSeq([k \in 1 .. n |-> MeantBlock(blocks[k])]) \in Seq(Calls)
    BY <2>3, <2>4, FlattenIsSeq
  <2>6. Meant(p) = FlattenSeq([k \in 1 .. n |-> MeantBlock(blocks[k])])
    BY <1>1 DEF Meant
  <2> QED BY <2>5, <2>6
<1>2. CASE p.kind = "nack"
  <2>1. p.ssrc \in Word /\ p.items \in Seq(Word)
    BY <1>2 DEF WellFormed
  <2>2. Asked(p.items) \in SUBSET Half
    BY <2>1, LostIsAsked
  <2>3. [track |-> p.ssrc, lost |-> Asked(p.items)] \in Calls
    BY <2>1, <2>2 DEF Calls
  <2>4. Meant(p) \in {<<>>, <<[track |-> p.ssrc, lost |-> Asked(p.items)]>>}
    BY <1>2 DEF Meant
  <2> QED BY <1>0, <2>3, <2>4
<1>3. CASE p.kind = "other"
  <2>1. Meant(p) = <<>>
    BY <1>3 DEF Meant
  <2> QED BY <1>0, <2>1
<1> QED BY <1>1, <1>2, <1>3 DEF WellFormed

(* What a packet of kind p makes of e. *)
Does(e, p, f) ==
  /\ f \in States
  /\ e.crashed => f.crashed
  /\ ~f.crashed => f.calls = e.calls \o Meant(p)
  /\ ~e.crashed /\ ~Foreign(p) => ~f.crashed

(* A packet does what it means. *)
LEMMA PacketDoes ==
  ASSUME NEW p, WellFormed(p), NEW next, NEW e \in States
  PROVE  Does(e, p, Dispatch(e, Result(p, next)))
<1> PICK r, f : r = Result(p, next) /\ f = Dispatch(e, r)
  OBVIOUS
<1>0. SUFFICES Does(e, p, f)
  OBVIOUS
<1>1. /\ e.calls \in Seq(Calls) /\ e.crashed \in BOOLEAN
      /\ e = [calls |-> e.calls, crashed |-> e.crashed]
  BY DEF States
<1>2. r.kind = p.kind /\ p.kind \in {"rr", "nack", "other"}
  BY DEF WellFormed, Result
<1>3. CASE e.crashed
  <2>1. f = e
    BY <1>3 DEF Dispatch
  <2> QED BY <1>3, <2>1 DEF Does
<1>4. CASE ~e.crashed /\ p.kind = "rr"
  <2> PICK blocks : blocks = p.blocks
    OBVIOUS
  <2>1. blocks \in Seq(ReportBlocks) /\ r.blocks = blocks
    BY <1>4 DEF WellFormed, Result
  <2>2. f = FoldLeft(DispatchBlock, e, blocks)
    BY <1>2, <1>4, <2>1 DEF Dispatch
  <2>3. /\ f \in States /\ ~f.crashed
        /\ f.calls = e.calls \o FlattenSeq(BlocksMean(blocks, Len(blocks)))
    BY <1>4, <2>1, <2>2, BlocksDo
  <2>4. FlattenSeq(BlocksMean(blocks, Len(blocks))) = Meant(p)
    BY <1>4 DEF Meant, BlocksMean
  <2> QED BY <1>4, <2>3, <2>4 DEF Does
<1>5. CASE ~e.crashed /\ p.kind = "nack"
  <2> PICK ssrc, lost : /\ ssrc = p.ssrc
                        /\ lost = FlattenSeq([k \in 1 .. Len(p.items) |-> NackItem(p.items[k])])
    OBVIOUS
  <2>1. ssrc \in Word /\ lost \in Seq(Half) /\ Range(lost) = Asked(p.items)
        /\ Asked(p.items) \in SUBSET Half
    BY <1>5, LostIsAsked DEF WellFormed
  <2>2. r.media_ssrc = ssrc /\ r.lost = lost
    BY <1>5 DEF Result
  <2>3. f = DispatchNack(e, r)
    BY <1>2, <1>5 DEF Dispatch
  <2>4. CASE ssrc \in stream_tracks_
    <3> PICK c : c = [track |-> ssrc, lost |-> Range(lost)]
      OBVIOUS
    <3>2. f = [e EXCEPT !.calls = Append(@, c)]
      BY <2>2, <2>3, <2>4 DEF DispatchNack
    <3>3. c \in Calls
      BY <2>1 DEF Calls
    <3>4. Meant(p) = <<c>>
      BY <1>5, <2>1, <2>4 DEF Meant
    <3>5. ASSUME NEW s \in Seq(Calls) PROVE Append(s, c) = s \o <<c>> /\ Append(s, c) \in Seq(Calls)
      BY ONLY <3>3, s \in Seq(Calls)
    <3>6. Append(e.calls, c) = e.calls \o Meant(p) /\ Append(e.calls, c) \in Seq(Calls)
      BY <1>1, <3>3, <3>4, <3>5
    <3>7. f = [calls |-> Append(e.calls, c), crashed |-> e.crashed]
      BY <1>1, <3>2
    <3> PICK more : more = Append(e.calls, c)
      OBVIOUS
    <3>8. f \in States
      <4>1. f = [calls |-> more, crashed |-> e.crashed] /\ more \in Seq(Calls)
        BY <3>6, <3>7
      <4> QED BY <1>1, <4>1 DEF States
    <3> QED BY <1>5, <3>6, <3>7, <3>8 DEF Does
  <2>5. CASE ssrc \notin stream_tracks_
    <3>1. f = [e EXCEPT !.crashed = TRUE]
      BY <2>2, <2>3, <2>5 DEF DispatchNack
    <3>2. f = [calls |-> e.calls, crashed |-> TRUE]
      BY <1>1, <3>1
    <3>3. f \in States
      BY <1>1, <3>2 DEF States
    <3>4. Foreign(p)
      BY <1>5, <2>5 DEF Foreign
    <3> QED BY <1>5, <3>2, <3>3, <3>4 DEF Does
  <2> QED BY <2>4, <2>5
<1>6. CASE ~e.crashed /\ p.kind = "other"
  <2>1. f = e
    BY <1>2, <1>6 DEF Dispatch
  <2>2. Meant(p) = <<>>
    BY <1>6 DEF Meant
  <2>3. e.calls \o <<>> = e.calls
    <3>1. \A S : \A s \in Seq(S) : s \o <<>> = s
      OBVIOUS
    <3> QED BY <1>1, <3>1
  <2> QED BY <1>6, <2>1, <2>2, <2>3 DEF Does
<1> QED BY <1>2, <1>3, <1>4, <1>5, <1>6

(* What the packets of a datagram do. *)
LEMMA PacketsDo ==
  ASSUME NEW m, IsCompound(m), NEW last \in 0 .. Len(m)
  PROVE  LET d == [calls |-> <<>>, crashed |-> FALSE]
             after == FoldLeft(Dispatch, d, Results(m, 0, last))
         IN  /\ ~after.crashed => after.calls = FlattenSeq(Means(m, last))
             /\ (\A k \in 1 .. Len(m) : ~Foreign(m[k])) => ~after.crashed
<1> DEFINE d == [calls |-> <<>>, crashed |-> FALSE]
           seq == Results(m, 0, last)
           Clean == \A k \in 1 .. Len(m) : ~Foreign(m[k])
           So(i) == FlattenSeq(Means(m, i))
           D == [i \in 0 .. last |->
                   {e \in States : /\ ~e.crashed => e.calls = So(i)
                                   /\ Clean => ~e.crashed}]
<1>1. /\ last \in Nat /\ Len(m) \in Nat /\ \A k \in 1 .. last : k \in 1 .. Len(m) /\ WellFormed(m[k])
  BY DEF IsCompound
<1>2. /\ DOMAIN seq = 1 .. last
      /\ \A i \in 1 .. last : seq[i] = Result(m[i], End(m, i) + 1)
  <2>1. last - 0 = last /\ \A i \in 1 .. last : 0 + i = i
    BY <1>1
  <2> QED BY <2>1 DEF Results
<1>3. So(0) = <<>>
  <2>1. Means(m, 0) = <<>>
    BY DEF Means
  <2> QED BY <2>1, FlattenNone
<1>4. ASSUME NEW i \in 1 .. last PROVE So(i) = So(i - 1) \o Meant(m[i]) /\ So(i - 1) \in Seq(Calls)
  <2> PICK k \in Nat : k = i - 1 /\ i = k + 1
    BY <1>1
  <2> PICK s, t : s = Means(m, k) /\ t = Means(m, k + 1)
    OBVIOUS
  <2>0. i \in 1 .. k + 1 /\ \A j \in 1 .. k : j \in 1 .. last /\ j \in 1 .. k + 1
    BY <1>1
  <2>1. /\ s = [j \in 1 .. k |-> s[j]] /\ t = [j \in 1 .. k + 1 |-> t[j]]
        /\ \A j \in 1 .. k : t[j] = s[j] /\ s[j] = Meant(m[j])
        /\ t[i] = Meant(m[i])
    BY <2>0 DEF Means
  <2>2. (\A j \in 1 .. k : s[j] \in Seq(Calls)) /\ t[k + 1] \in Seq(Calls)
    BY <1>1, <2>0, <2>1, MeantIs
  <2>3. FlattenSeq(t) = FlattenSeq(s) \o t[k + 1] /\ FlattenSeq(s) \in Seq(Calls)
    <3>1. OneMore(Calls, k, s, t)
      BY <2>1, <2>2 DEF OneMore
    <3>2. k \in Nat
      OBVIOUS
    <3> QED BY ONLY <3>1, <3>2, FlattenNext
  <2> QED BY <2>1, <2>3
<1> HIDE DEF So, seq, Clean
<1>5. d \in D[0]
  <2>1. d \in States
    <3>1. <<>> \in Seq(Calls)
      OBVIOUS
    <3> QED BY <3>1 DEF States
  <2>2. 0 \in 0 .. last
    BY <1>1
  <2> QED BY <1>3, <2>1, <2>2 DEF Clean
<1>6. ASSUME NEW i \in 1 .. last, NEW e \in D[i - 1]
      PROVE  Dispatch(e, seq[i]) \in D[i]
  <2>1. i - 1 \in 0 .. last /\ i \in 0 .. last
    BY <1>1
  <2>2. /\ e \in States
        /\ ~e.crashed => e.calls = So(i - 1)
        /\ Clean => ~e.crashed
    BY <2>1
  <2>3. Does(e, m[i], Dispatch(e, seq[i]))
    BY <1>1, <1>2, <2>2, PacketDoes
  <2>4. Clean => ~Foreign(m[i])
    BY <1>1 DEF Clean
  <2>5. /\ Dispatch(e, seq[i]) \in States
        /\ ~Dispatch(e, seq[i]).crashed => Dispatch(e, seq[i]).calls = So(i)
        /\ Clean => ~Dispatch(e, seq[i]).crashed
    BY <1>4, <2>2, <2>3, <2>4 DEF Does
  <2> QED BY <2>1, <2>5
<1>7. Packets!Folded(d, seq) \in D[last]
  <2> HIDE DEF D, d
  <2> QED BY <1>1, <1>2, <1>5, <1>6, Packets!FoldedIn
<1>8. FoldLeft(Dispatch, d, seq) \in D[last]
  BY <1>7, PacketsFold
<1>9. last \in 0 .. last
  BY <1>1
<1> HIDE DEF d
<1>10. /\ ~FoldLeft(Dispatch, d, seq).crashed => FoldLeft(Dispatch, d, seq).calls = So(last)
       /\ Clean => ~FoldLeft(Dispatch, d, seq).crashed
  BY <1>8, <1>9
<1> QED BY <1>10 DEF d, seq, So, Clean

(* No packets do nothing. *)
LEMMA NoPacketsDo ==
  ASSUME NEW d PROVE FoldLeft(Dispatch, d, <<>>) = d
<1> DEFINE D == [i \in 0 .. 0 |-> {d}]
<1>1. Len(<<>>) = 0 /\ DOMAIN <<>> = 1 .. 0 /\ 0 \in Nat
  OBVIOUS
<1>2. d \in D[0]
  OBVIOUS
<1>3. ASSUME NEW i \in 1 .. 0, NEW e \in D[i - 1] PROVE Dispatch(e, <<>>[i]) \in D[i]
  OBVIOUS
<1> HIDE DEF D
<1>4. Packets!Folded(d, <<>>) \in D[0]
  BY ONLY <1>1, <1>2, <1>3, Packets!FoldedIn
<1>5. FoldLeft(Dispatch, d, <<>>) \in D[0]
  BY <1>4, PacketsFold
<1> QED BY <1>5 DEF D

(* The inductive invariant of the MediaStream. *)
MediaInv == OnlyForeignNacksCrash /\ CompoundMeaning

(* It holds before anything is received. *)
LEMMA MediaInvInit == Init => MediaInv
<1> SUFFICES ASSUME Init PROVE MediaInv
  OBVIOUS
<1>1. received.authentic = TRUE /\ received.packets = <<>> /\ calls = <<>> /\ ~crashed
  BY DEF Init
<1> PICK m : m = received.packets
  OBVIOUS
<1>2. [k \in DOMAIN m |-> Meant(m[k])] = <<>>
  <2>1. DOMAIN m = 1 .. 0
    BY <1>1
  <2> QED BY <2>1
<1> QED BY <1>1, <1>2, FlattenNone DEF MediaInv, CompoundMeaning, OnlyForeignNacksCrash

(* ReceiveRctp has the tracks do what the packets of an authentic datagram *)
(* mean.                                                                   *)
LEMMA AuthenticKeeps ==
  ASSUME NEW compound \in Compounds, ReceiveAuthentic(compound)
  PROVE  MediaInv'
<1> PICK m : m = compound
  OBVIOUS
<1>1. IsCompound(m) /\ DOMAIN m = 1 .. Len(m) /\ Len(m) \in 0 .. Len(m)
  BY CompoundsAssumption DEF IsCompound
<1> DEFINE d == [calls |-> <<>>, crashed |-> FALSE]
           after == FoldLeft(Dispatch, d, Results(m, 0, Len(m)))
<1>2. ParseCompound(Datagram(m)) = [ok |-> TRUE, packets |-> Results(m, 0, Len(m))]
  BY <1>1, TakenIs
<1>3. calls' = after.calls /\ crashed' = after.crashed
  <2> PICK parsed : parsed = ParseCompound(Datagram(m))
    OBVIOUS
  <2>1. parsed.ok /\ parsed.packets = Results(m, 0, Len(m))
    BY <1>2
  <2> QED BY <2>1 DEF ReceiveAuthentic, ReceiveRctp
<1>4. /\ received'.packets = m /\ received'.authentic = TRUE
      /\ foreign' = (foreign \/ \E k \in 1 .. Len(m) : Foreign(m[k]))
  BY <1>1 DEF ReceiveAuthentic, Foreign
<1>5. /\ ~after.crashed => after.calls = FlattenSeq(Means(m, Len(m)))
      /\ (\A k \in 1 .. Len(m) : ~Foreign(m[k])) => ~after.crashed
  BY <1>1, PacketsDo
<1> HIDE DEF after
<1>6. [k \in DOMAIN m |-> Meant(m[k])] = Means(m, Len(m))
  BY <1>1 DEF Means
<1>7. CompoundMeaning'
  BY <1>3, <1>4, <1>5, <1>6 DEF CompoundMeaning
<1>8. OnlyForeignNacksCrash'
  BY <1>3, <1>4, <1>5 DEF OnlyForeignNacksCrash
<1> QED BY <1>7, <1>8 DEF MediaInv

(* It takes nothing of a refused one that ends two or three bytes after a  *)
(* word, or of one before there are keys.                                  *)
LEMMA RefusedKeeps ==
  ASSUME NEW datagram \in Refused, NEW session \in BOOLEAN,
         ReceiveRefused(datagram, session)
  PROVE  MediaInv'
<1> DEFINE none == [words |-> <<>>, tail |-> 0]
           d == [calls |-> <<>>, crashed |-> FALSE]
<1>1. datagram.words \in Seq(Word) /\ datagram.tail \in 0 .. 3
  BY RefusedAssumption
<1>2. /\ received'.authentic = FALSE /\ received'.tail = datagram.tail
      /\ undecrypted' = (undecrypted \/ (session /\ datagram.tail < 2))
  BY DEF ReceiveRefused
<1>3. ASSUME ~session \/ ~(datagram.tail < 2)
      PROVE  calls' = <<>> /\ crashed' = FALSE
  <2> PICK seen, parsed : /\ seen = IF session THEN datagram ELSE none
                          /\ parsed = ParseCompound(seen)
    OBVIOUS
  <2>1. (IF parsed.ok THEN parsed.packets ELSE <<>>) = <<>>
    <3>1. CASE session
      <4>1. parsed.ok = FALSE
        BY <1>1, <1>3, <3>1, TailFails
      <4> QED BY <4>1
    <3>2. CASE ~session
      <4>1. parsed = [ok |-> TRUE, packets |-> <<>>]
        BY <3>2, NothingTaken
      <4> QED BY <4>1
    <3> QED BY <3>1, <3>2
  <2>2. /\ calls' = FoldLeft(Dispatch, d, <<>>).calls
        /\ crashed' = FoldLeft(Dispatch, d, <<>>).crashed
    BY <2>1 DEF ReceiveRefused, ReceiveRctp
  <2>3. FoldLeft(Dispatch, d, <<>>) = d
    BY NoPacketsDo
  <2> QED BY <2>2, <2>3
<1>4. datagram.tail >= 2 => ~(datagram.tail < 2)
  BY ONLY <1>1
<1>5. CompoundMeaning'
  BY <1>2, <1>3, <1>4 DEF CompoundMeaning
<1>6. OnlyForeignNacksCrash'
  BY <1>2, <1>3 DEF OnlyForeignNacksCrash
<1> QED BY <1>5, <1>6 DEF MediaInv

(* Every step of the MediaStream keeps the invariant. *)
LEMMA MediaNextKeeps == MediaInv /\ [Next]_vars => MediaInv'
<1> SUFFICES ASSUME MediaInv, [Next]_vars PROVE MediaInv'
  OBVIOUS
<1>1. ASSUME UNCHANGED rtcpVars PROVE MediaInv'
  BY <1>1 DEF MediaInv, rtcpVars, OnlyForeignNacksCrash, CompoundMeaning
<1>2. ASSUME NEW frame \in Frames, ReceiveH264Packet(frame) PROVE MediaInv'
  BY <1>1, <1>2 DEF ReceiveH264Packet
<1>3. CASE ReceiveOpusPacket
  BY <1>1, <1>3 DEF ReceiveOpusPacket
<1>4. ASSUME NEW compound \in Compounds, ReceiveAuthentic(compound) PROVE MediaInv'
  BY <1>4, AuthenticKeeps
<1>5. ASSUME NEW datagram \in Refused, NEW session \in BOOLEAN,
             ReceiveRefused(datagram, session)
      PROVE  MediaInv'
  BY <1>5, RefusedKeeps
<1>6. CASE UNCHANGED vars
  BY <1>1, <1>6 DEF vars
<1> QED BY <1>2, <1>3, <1>4, <1>5, <1>6 DEF Next, Outgoing, Incoming

(* MediaStream::ReceiveRctp has the tracks do exactly what the packets of  *)
(* an authentic compound mean, in their order: for all well-formed         *)
(* compounds, NACKs modulo 2^16 included.  A datagram that UnprotectRtcp   *)
(* refused (webrtc_transport.cpp:440) and that ends two or three bytes     *)
(* after a word has no effect, whatever its words are.                     *)
THEOREM CompoundsKeepMeaning == Spec => []CompoundMeaning
<1>1. Spec => []MediaInv
  BY MediaInvInit, MediaNextKeeps, PTL DEF Spec
<1>2. MediaInv => CompoundMeaning
  BY DEF MediaInv
<1> QED BY <1>1, <1>2, PTL

(* A null track is used (media_stream.cpp:209) only after a NACK of an     *)
(* authentic receiver for an ssrc without a track, or after undecrypted    *)
(* bytes that end with a word or a byte later, whatever well-formed        *)
(* compounds and whatever refused datagrams arrive.                        *)
THEOREM OnlyForeignNacks == Spec => []OnlyForeignNacksCrash
<1>1. Spec => []MediaInv
  BY MediaInvInit, MediaNextKeeps, PTL DEF Spec
<1>2. MediaInv => OnlyForeignNacksCrash
  BY DEF MediaInv
<1> QED BY <1>1, <1>2, PTL

-----------------------------------------------------------------------------
(* The search for start codes.  Positions count from 0: there is one at i. *)
HasCode(B, i) == <<B[i + 1], B[i + 1 + 1], B[i + 2 + 1]>> = StartCode

(* Those from i on that the search can find. *)
Codes(B, end, i) == {j \in Nat : i <= j /\ j < end /\ HasCode(B, j)}

(* What starts is at i, in terms of what it is further on. *)
StartsAt(B, end, starts, i) ==
  IF i >= end THEN <<>>
  ELSE IF B[i + 2 + 1] = 0 THEN starts[i + 1]
  ELSE IF HasCode(B, i) THEN <<i>> \o starts[i + 3]
  ELSE starts[i + 3]

(* starts is what PositionsUpTo defines. *)
IsSearch(B, end, starts) ==
  \A i \in 0 .. Len(B) + 3 : starts[i] = StartsAt(B, end, starts, i)

(* Where the start code begins whose last three bytes are the k-th found. *)
StartOffset(B, found, k) ==
  IF found[k] > 0 /\ B[found[k] - 1 + 1] = 0 THEN found[k] - 1 ELSE found[k]

(* The NAL units behind the start codes found. *)
UnitsBehind(B, found) ==
  [k \in 1 .. Len(found) |->
     [first |-> found[k] + 3,
      length |-> (IF k = Len(found) THEN Len(B) ELSE StartOffset(B, found, k + 1))
                   - (found[k] + 3)]]

(* The recursion of ParseNaluPositions is a function: the search only goes *)
(* forward.                                                                *)
LEMMA SearchExists ==
  ASSUME NEW B, Len(B) \in Nat, NEW end \in 0 .. Len(B)
  PROVE  \E starts : /\ IsSearch(B, end, starts)
                     /\ PositionsUpTo(B, end) = UnitsBehind(B, starts[0])
<1> PICK N : N = Len(B) + 3
  OBVIOUS
<1>0. N \in Nat /\ end \in Nat /\ end + 3 <= N
  OBVIOUS
<1> DEFINE From(d) == {i \in 0 .. N : i > N - d}
           Eq(f, d) == f = [i \in From(d) |-> StartsAt(B, end, f, i)]
           T == {d \in Nat : d <= N + 1 => \E f : Eq(f, d)}
<1>1. 0 \in T
  <2>1. From(0) = {}
    BY <1>0
  <2>2. Eq([i \in From(0) |-> 0], 0)
    BY <2>1
  <2> QED BY <2>2
<1> HIDE DEF Eq
<1>2. ASSUME NEW d \in Nat, d \in T PROVE d + 1 \in T
  <2> SUFFICES ASSUME d + 1 <= N + 1 PROVE \E f : Eq(f, d + 1)
    OBVIOUS
  <2>1. PICK f : Eq(f, d)
    BY <1>0, <1>2
  <2> PICK z : z = N - d
    OBVIOUS
  <2> DEFINE g == [i \in From(d + 1) |-> IF i = z THEN StartsAt(B, end, f, z) ELSE f[i]]
  <2>2. From(d + 1) = From(d) \cup {z} /\ z \notin From(d) /\ z \in 0 .. N
        /\ \A i \in From(d + 1) : i >= z
    BY ONLY <1>0, d \in Nat, d + 1 <= N + 1, z = N - d
  <2>3. \A i \in From(d) : f[i] = StartsAt(B, end, f, i) /\ g[i] = f[i]
    BY <2>1, <2>2 DEF Eq
  <2>4. ASSUME NEW i \in From(d + 1) PROVE StartsAt(B, end, g, i) = StartsAt(B, end, f, i)
    <3>1. CASE i >= end
      BY <3>1, Zenon DEF StartsAt
    <3>2. CASE ~(i >= end)
      <4>1. i + 1 \in From(d) /\ i + 3 \in From(d)
        BY ONLY <1>0, <2>2, <3>2, i \in From(d + 1), d \in Nat, d + 1 <= N + 1, z = N - d
      <4>2. g[i + 1] = f[i + 1] /\ g[i + 3] = f[i + 3]
        BY <2>3, <4>1
      <4> HIDE DEF g
      <4> QED BY <3>2, <4>2 DEF StartsAt
    <3> QED BY ONLY <3>1, <3>2
  <2>5. g = [i \in From(d + 1) |-> StartsAt(B, end, g, i)]
    <3>1. ASSUME NEW i \in From(d + 1) PROVE g[i] = StartsAt(B, end, g, i)
      BY <2>2, <2>3, <2>4
    <3>2. g = [i \in From(d + 1) |-> g[i]]
      OBVIOUS
    <3> HIDE DEF g
    <3> QED BY <3>1, <3>2
  <2> HIDE DEF g
  <2> QED BY <2>5 DEF Eq
<1>3. N + 1 \in T
  <2> HIDE DEF T
  <2> QED BY <1>0, <1>1, <1>2, Loop!NatInd
<1>4. From(N + 1) = 0 .. Len(B) + 3
  BY <1>0
<1> DEFINE Searches(f) == f = [i \in 0 .. Len(B) + 3 |->
        IF i >= end THEN <<>>
        ELSE IF B[i + 2 + 1] = 0 THEN f[i + 1]
        ELSE IF <<B[i + 1], B[i + 1 + 1], B[i + 2 + 1]>> = StartCode
             THEN <<i>> \o f[i + 3]
        ELSE f[i + 3]]
           h == CHOOSE f : Searches(f)
<1>5. \E f : Searches(f)
  <2>1. PICK f : Eq(f, N + 1)
    BY ONLY <1>0, <1>3
  <2>2. f = [i \in 0 .. Len(B) + 3 |-> StartsAt(B, end, f, i)]
    BY ONLY <1>4, <2>1 DEF Eq
  <2>3. Searches(f)
    BY <2>2, Zenon DEF StartsAt, HasCode
  <2> QED BY ONLY <2>3
<1>6. Searches(h)
  BY <1>5, Zenon
<1>7. PositionsUpTo(B, end) = UnitsBehind(B, h[0])
  BY Zenon DEF PositionsUpTo, UnitsBehind, StartOffset
<1>8. IsSearch(B, end, h)
  <2>1. h = [i \in 0 .. Len(B) + 3 |-> StartsAt(B, end, h, i)]
    BY <1>6, Zenon DEF StartsAt, HasCode
  <2> HIDE DEF h
  <2> QED BY ONLY <2>1 DEF IsSearch
<1> HIDE DEF h
<1> QED BY <1>7, <1>8

(* Two increasing sequences of the same numbers are the same. *)
LEMMA SameOrder ==
  ASSUME NEW s \in Seq(Nat), NEW t \in Seq(Nat), Increasing(s), Increasing(t), Range(s) = Range(t)
  PROVE  s = t
<1> PICK m, n : m = Len(s) /\ n = Len(t)
  OBVIOUS
<1>1. /\ m \in Nat /\ n \in Nat
      /\ (\A i \in 1 .. m : s[i] \in Nat) /\ (\A i \in 1 .. n : t[i] \in Nat)
  BY ONLY s \in Seq(Nat), t \in Seq(Nat), m = Len(s), n = Len(t)
<1>2. /\ \A i \in 1 .. m : \E j \in 1 .. n : s[i] = t[j]
      /\ \A j \in 1 .. n : \E i \in 1 .. m : s[i] = t[j]
  <2>0. DOMAIN s = 1 .. m /\ DOMAIN t = 1 .. n
    BY ONLY m = Len(s), n = Len(t), s \in Seq(Nat), t \in Seq(Nat)
  <2>1. Range(s) = {s[i] : i \in 1 .. m} /\ Range(t) = {t[i] : i \in 1 .. n}
    BY ONLY <2>0 DEF Range
  <2>2. {s[i] : i \in 1 .. m} = {t[i] : i \in 1 .. n}
    BY <2>1
  <2> QED BY ONLY <2>2
<1>3. /\ \A i, j \in 1 .. m : i < j => s[i] < s[j]
      /\ \A i, j \in 1 .. n : i < j => t[i] < t[j]
  BY DEF Increasing
<1> DEFINE Alike(k) == \A i \in 1 .. k : i <= m /\ i <= n => s[i] = t[i]
           U == {k \in Nat : Alike(k)}
<1>4. 0 \in U
  OBVIOUS
<1>5. ASSUME NEW k \in Nat, k \in U PROVE k + 1 \in U
  <2> PICK l : l = k + 1
    OBVIOUS
  <2>1. Alike(k)
    BY <1>5
  <2>2. ASSUME l <= m, l <= n PROVE s[l] = t[l]
    <3>1. /\ l \in 1 .. m /\ l \in 1 .. n
          /\ \A i \in 1 .. m : i < l => s[i] = t[i] /\ i \in 1 .. n
          /\ \A i \in 1 .. n : i < l => s[i] = t[i] /\ i \in 1 .. m
      BY ONLY <1>1, <2>1, <2>2, k \in Nat, l = k + 1
    <3>2. PICK j \in 1 .. n : s[l] = t[j]
      BY ONLY <1>2, <3>1
    <3>3. PICK i \in 1 .. m : s[i] = t[l]
      BY ONLY <1>2, <3>1
    <3>4. ~(j < l)
      BY ONLY <1>1, <1>3, <3>1, <3>2
    <3>5. ~(i < l)
      BY ONLY <1>1, <1>3, <3>1, <3>3
    <3>6. t[l] <= s[l]
      <4>1. j \in Int /\ l \in Int
        BY ONLY <3>1, <3>2
      <4>2. l < j => t[l] < t[j]
        BY ONLY <1>3, <3>1, <3>2
      <4>3. t[l] \in Int /\ t[j] \in Int
        BY ONLY <1>1, <3>1, <3>2
      <4>4. CASE l < j
        BY ONLY <3>2, <4>2, <4>3, <4>4
      <4>5. CASE j = l
        BY ONLY <3>2, <4>3, <4>5
      <4> QED BY ONLY <3>4, <4>1, <4>4, <4>5
    <3>7. s[l] <= t[l]
      BY ONLY <1>1, <1>3, <3>1, <3>3, <3>5
    <3> QED BY ONLY <1>1, <3>1, <3>6, <3>7
  <2>3. Alike(l)
    BY ONLY <1>1, <2>1, <2>2, k \in Nat, l = k + 1
  <2> QED BY <2>3
<1>6. \A k \in Nat : Alike(k)
  <2>1. Nat \subseteq U
    <3> HIDE DEF U
    <3> QED BY ONLY <1>4, <1>5, Loop!NatInd
  <2> QED BY <2>1
<1>7. \A i \in 1 .. m : i <= n => s[i] = t[i]
  <2>1. Alike(m)
    <3> HIDE DEF Alike
    <3> QED BY ONLY <1>1, <1>6
  <2> QED BY ONLY <1>1, <2>1
<1>8. ~(m < n)
  <2> SUFFICES ASSUME m < n PROVE FALSE
    OBVIOUS
  <2>1. m + 1 \in 1 .. n
    BY ONLY <1>1, m < n
  <2>2. PICK i \in 1 .. m : s[i] = t[m + 1]
    BY ONLY <1>2, <2>1
  <2>3. i \in 1 .. n /\ i < m + 1 /\ s[i] = t[i]
    BY ONLY <1>1, <1>7, m < n, i \in 1 .. m
  <2>4. t[i] < t[m + 1]
    BY ONLY <1>1, <1>3, <2>1, <2>3
  <2> QED BY ONLY <1>1, <2>1, <2>2, <2>3, <2>4
<1>9. ~(n < m)
  <2> SUFFICES ASSUME n < m PROVE FALSE
    OBVIOUS
  <2>1. n + 1 \in 1 .. m
    BY ONLY <1>1, n < m
  <2>2. PICK j \in 1 .. n : s[n + 1] = t[j]
    BY ONLY <1>2, <2>1
  <2>3. j \in 1 .. m /\ j < n + 1 /\ s[j] = t[j]
    BY ONLY <1>1, <1>7, n < m, j \in 1 .. n
  <2> QED BY ONLY <1>1, <1>3, <2>1, <2>2, <2>3
<1>10. m = n
  BY ONLY <1>1, <1>8, <1>9
<1>11. \A i \in 1 .. Len(s) : s[i] = t[i]
  BY ONLY <1>1, <1>7, <1>10, m = Len(s)
<1> QED BY <1>10, <1>11, SeqEqual

(* The search finds the start codes there are, all of them and in their    *)
(* order, whatever bytes are around them: a byte that is not 0 where the   *)
(* third one of a code would be lets it skip three.                        *)
LEMMA SearchFinds ==
  ASSUME NEW B, Len(B) \in Nat, NEW end \in 0 .. Len(B), NEW starts, IsSearch(B, end, starts)
  PROVE  starts[0] \in Seq(Nat) /\ Increasing(starts[0]) /\ Range(starts[0]) = Codes(B, end, 0)
<1> PICK N : N = Len(B) + 3
  OBVIOUS
<1>0. N \in Nat /\ end \in Nat /\ end + 3 <= N
  OBVIOUS
<1> DEFINE Finds(s, i) == s \in Seq(Nat) /\ Increasing(s) /\ Range(s) = Codes(B, end, i)
           T == {d \in Nat : \A i \in 0 .. N : i > N - d => Finds(starts[i], i)}
<1>1. 0 \in T
  BY <1>0
<1>2. ASSUME NEW d \in Nat, d \in T PROVE d + 1 \in T
  <2> HIDE DEF Finds
  <2> SUFFICES ASSUME NEW i \in 0 .. N, i > N - (d + 1) PROVE Finds(starts[i], i)
    OBVIOUS
  <2>1. \A j \in 0 .. N : j > i => Finds(starts[j], j)
    <3>1. \A j \in 0 .. N : j > N - d => Finds(starts[j], j)
      BY <1>2
    <3>2. \A j \in 0 .. N : j > i => j > N - d
      BY ONLY <1>0, d \in Nat, i \in 0 .. N, i > N - (d + 1)
    <3> QED BY ONLY <3>1, <3>2
  <2>2. starts[i] = StartsAt(B, end, starts, i)
    BY DEF IsSearch
  <2>3. CASE i >= end
    <3>1. starts[i] = <<>>
      BY ONLY <2>2, <2>3, Zenon DEF StartsAt
    <3>2. Codes(B, end, i) = {}
      BY ONLY <1>0, <2>3, i \in 0 .. N DEF Codes
    <3>3. Finds(<<>>, i)
      BY ONLY <3>2 DEF Finds, Increasing, Range
    <3> QED BY <3>1, <3>3
  <2>4. CASE ~(i >= end)
    <3>1. i + 1 \in 0 .. N /\ i + 3 \in 0 .. N /\ i + 1 > i /\ i + 3 > i /\ i \in Nat /\ i < end
      BY ONLY <1>0, <2>4, i \in 0 .. N
    <3>2. Finds(starts[i + 1], i + 1) /\ Finds(starts[i + 3], i + 3)
      BY ONLY <2>1, <3>1
    <3>3. \A j : HasCode(B, j) <=> B[j + 1] = 0 /\ B[j + 1 + 1] = 0 /\ B[j + 2 + 1] = 1
      BY DEF HasCode, StartCode
    <3>4. CASE B[i + 2 + 1] = 0
      <4>1. ~HasCode(B, i)
        BY <3>3, <3>4
      <4>2. Codes(B, end, i) = Codes(B, end, i + 1)
        BY ONLY <3>1, <4>1, <1>0 DEF Codes
      <4>3. starts[i] = starts[i + 1]
        BY ONLY <2>2, <2>4, <3>4, Zenon DEF StartsAt
      <4> QED BY ONLY <3>2, <4>2, <4>3 DEF Finds
    <3>5. CASE B[i + 2 + 1] # 0
      <4>1. ~HasCode(B, i + 1) /\ ~HasCode(B, i + 2)
        <5>1. i + 1 + 1 + 1 = i + 2 + 1
          BY <3>1
        <5> QED BY <3>1, <3>3, <3>5, <5>1
      <4>2. \A j \in Nat : i <= j /\ HasCode(B, j) => j = i \/ i + 3 <= j
        <5>1. \A j \in Nat : i <= j => j = i \/ j = i + 1 \/ j = i + 2 \/ i + 3 <= j
          BY ONLY <3>1
        <5> QED BY ONLY <4>1, <5>1
      <4>3. CASE HasCode(B, i)
        <5>1. Codes(B, end, i) = {i} \cup Codes(B, end, i + 3)
          BY ONLY <3>1, <4>2, <4>3, <1>0 DEF Codes
        <5>2. starts[i] = <<i>> \o starts[i + 3]
          BY ONLY <2>2, <2>4, <3>5, <4>3, Zenon DEF StartsAt
        <5> PICK s, w : s = starts[i + 3] /\ w = <<i>> \o s
          OBVIOUS
        <5>3. s \in Seq(Nat) /\ Increasing(s) /\ Range(s) = Codes(B, end, i + 3)
          BY <3>2 DEF Finds
        <5>4. /\ w \in Seq(Nat) /\ Len(w) = Len(s) + 1 /\ w[1] = i /\ Len(s) \in Nat
              /\ \A k \in 2 .. Len(s) + 1 : w[k] = s[k - 1] /\ k - 1 \in 1 .. Len(s)
          BY ONLY <3>1, <5>3, w = <<i>> \o s
        <5>5. \A k \in 1 .. Len(s) : s[k] \in Nat /\ s[k] >= i + 3
          BY ONLY <5>3 DEF Range, Codes
        <5>6. Increasing(w)
          <6> SUFFICES ASSUME NEW k \in 1 .. Len(w), NEW l \in 1 .. Len(w), k < l
                       PROVE  w[k] < w[l]
            BY DEF Increasing
          <6>1. l \in 2 .. Len(s) + 1
            BY ONLY <5>4, k \in 1 .. Len(w), l \in 1 .. Len(w), k < l
          <6>2. CASE k = 1
            <7>1. w[l] = s[l - 1] /\ l - 1 \in 1 .. Len(s)
              BY ONLY <5>4, <6>1
            <7>2. s[l - 1] \in Nat /\ s[l - 1] >= i + 3
              BY ONLY <5>5, <7>1
            <7>3. w[k] = i
              <8>1. w[1] = i
                BY ONLY <5>4
              <8> QED BY ONLY <6>2, <8>1
            <7>4. i < w[l]
              BY ONLY <3>1, <7>1, <7>2
            <7> QED BY ONLY <7>3, <7>4
          <6>3. CASE k # 1
            <7>1. k \in 2 .. Len(s) + 1 /\ k - 1 < l - 1
              BY ONLY <5>4, <6>3, k \in 1 .. Len(w), l \in 1 .. Len(w), k < l
            <7>2. w[k] = s[k - 1] /\ w[l] = s[l - 1] /\ k - 1 \in 1 .. Len(s) /\ l - 1 \in 1 .. Len(s)
              BY ONLY <5>4, <6>1, <7>1
            <7>3. s[k - 1] < s[l - 1]
              BY ONLY <5>3, <7>1, <7>2 DEF Increasing
            <7> QED BY ONLY <7>2, <7>3
          <6> QED BY ONLY <6>2, <6>3
        <5>7. Range(w) = {i} \cup Range(s)
          <6>1. Range(w) = {w[k] : k \in 1 .. Len(s) + 1} /\ Range(s) = {s[k] : k \in 1 .. Len(s)}
            <7>1. DOMAIN w = 1 .. Len(s) + 1 /\ DOMAIN s = 1 .. Len(s)
              BY ONLY <5>3, <5>4
            <7> QED BY ONLY <7>1 DEF Range
          <6>2. \A k \in 1 .. Len(s) : k + 1 \in 2 .. Len(s) + 1 /\ k + 1 - 1 = k
            BY ONLY <5>4
          <6>3. 1 \in 1 .. Len(s) + 1 /\ \A k \in 1 .. Len(s) + 1 : k = 1 \/ k \in 2 .. Len(s) + 1
            BY ONLY <5>4
          <6>4. \A k \in 2 .. Len(s) + 1 : k \in 1 .. Len(s) + 1
            BY ONLY <5>4
          <6>5. \A k \in 1 .. Len(s) : w[k + 1] = s[k]
            BY ONLY <5>4, <6>2
          <6>6. \A k \in 1 .. Len(s) + 1 : w[k] \in {i} \cup {s[j] : j \in 1 .. Len(s)}
            BY ONLY <5>4, <6>3
          <6>7. \A j \in 1 .. Len(s) : \E k \in 1 .. Len(s) + 1 : w[k] = s[j]
            BY ONLY <6>2, <6>4, <6>5
          <6>8. \E k \in 1 .. Len(s) + 1 : w[k] = i
            BY ONLY <5>4, <6>3
          <6> QED BY ONLY <6>1, <6>6, <6>7, <6>8
        <5> QED BY ONLY <5>1, <5>2, <5>3, <5>4, <5>6, <5>7, s = starts[i + 3], w = <<i>> \o s
                DEF Finds
      <4>4. CASE ~HasCode(B, i)
        <5>1. Codes(B, end, i) = Codes(B, end, i + 3)
          BY ONLY <3>1, <4>2, <4>4, <1>0 DEF Codes
        <5>2. starts[i] = starts[i + 3]
          BY ONLY <2>2, <2>4, <3>5, <4>4, Zenon DEF StartsAt
        <5> QED BY ONLY <3>2, <5>1, <5>2 DEF Finds
      <4> QED BY ONLY <4>3, <4>4
    <3> QED BY ONLY <3>4, <3>5
  <2> QED BY ONLY <2>3, <2>4
<1>3. N + 1 \in T
  <2> HIDE DEF T
  <2> QED BY <1>0, <1>1, <1>2, Loop!NatInd
<1>4. 0 \in 0 .. N /\ 0 > N - (N + 1)
  BY ONLY <1>0
<1>5. Finds(starts[0], 0)
  <2> HIDE DEF Finds
  <2> QED BY <1>3, <1>4
<1> QED BY <1>5

-----------------------------------------------------------------------------
(* A frame as FramesAssumption has it. *)
IsFrame(frame) ==
  /\ frame \in Seq([unit : Seq(Octet), long : BOOLEAN]) /\ frame # <<>>
  /\ \A i \in DOMAIN frame : IsNalUnit(frame[i].unit)

(* What a NAL unit is in the byte stream. *)
UnitBytes(u) == (IF u.long THEN <<0>> ELSE <<>>) \o StartCode \o u.unit

(* The 0 that a long start code has more. *)
Extra(u) == IF u.long THEN 1 ELSE 0

(* The start code at position p, counted from 0, and the unit behind it. *)
UnitAt(B, p, u) ==
  /\ p \in Nat /\ p + 3 + Len(u.unit) <= Len(B)
  /\ B[p + 1] = 0 /\ B[p + 2] = 0 /\ B[p + 3] = 1
  /\ \A i \in 1 .. Len(u.unit) : B[p + 3 + i] = u.unit[i]
  /\ u.long => p > 0 /\ B[p] = 0

(* The bytes of a frame: unit by unit, with nothing in between. *)
Laid(frame, B, P) ==
  /\ B \in Seq(Octet)
  /\ \A k \in 1 .. Len(frame) : UnitAt(B, P[k], frame[k])
  /\ P[1] = Extra(frame[1])
  /\ \A k \in 1 .. Len(frame) - 1 :
       P[k + 1] = P[k] + 3 + Len(frame[k].unit) + Extra(frame[k + 1])
  /\ Len(B) = P[Len(frame)] + 3 + Len(frame[Len(frame)].unit)

(* The bytes of a start code are bytes. *)
LEMMA CodeBytes == 0 \in Octet /\ 1 \in Octet /\ Octet \subseteq Nat
BY DEF Octet

(* A unit in the byte stream is the start code and the unit. *)
LEMMA UnitBytesAre ==
  ASSUME NEW u, u.unit \in Seq(Octet), u.long \in BOOLEAN
  PROVE  /\ UnitBytes(u) \in Seq(Octet)
         /\ Len(UnitBytes(u)) = Extra(u) + 3 + Len(u.unit)
         /\ UnitAt(UnitBytes(u), Extra(u), u)
<1> PICK v : v = u.unit
  OBVIOUS
<1>0. 0 \in Octet /\ 1 \in Octet
  BY CodeBytes
<1>1. CASE u.long
  <2>1. UnitBytes(u) = <<0>> \o <<0, 0, 1>> \o v /\ Extra(u) = 1
    BY <1>1 DEF UnitBytes, Extra, StartCode
  <2> PICK b : b = <<0>> \o <<0, 0, 1>> \o v
    OBVIOUS
  <2>2. /\ b \in Seq(Octet) /\ Len(b) = 4 + Len(v) /\ Len(v) \in Nat
        /\ b[1] = 0 /\ b[2] = 0 /\ b[3] = 0 /\ b[4] = 1
        /\ \A i \in 1 .. Len(v) : b[4 + i] = v[i]
    <3>1. ASSUME NEW Q, v \in Seq(Q), 0 \in Q, 1 \in Q
          PROVE  /\ b \in Seq(Q) /\ Len(b) = 4 + Len(v) /\ Len(v) \in Nat
                 /\ b[1] = 0 /\ b[2] = 0 /\ b[3] = 0 /\ b[4] = 1
                 /\ \A i \in 1 .. Len(v) : b[4 + i] = v[i]
      BY ONLY <3>1, b = <<0>> \o <<0, 0, 1>> \o v
    <3> QED BY <1>0, <3>1
  <2>3. 1 + 3 = 4
    OBVIOUS
  <2> QED BY ONLY <1>1, <2>1, <2>2, v = u.unit, b = <<0>> \o <<0, 0, 1>> \o v DEF UnitAt
<1>2. CASE ~u.long
  <2>1. UnitBytes(u) = <<>> \o <<0, 0, 1>> \o v /\ Extra(u) = 0
    BY <1>2 DEF UnitBytes, Extra, StartCode
  <2> PICK b : b = <<>> \o <<0, 0, 1>> \o v
    OBVIOUS
  <2>2. /\ b \in Seq(Octet) /\ Len(b) = 3 + Len(v) /\ Len(v) \in Nat
        /\ b[1] = 0 /\ b[2] = 0 /\ b[3] = 1
        /\ \A i \in 1 .. Len(v) : b[3 + i] = v[i]
    <3>1. ASSUME NEW Q, v \in Seq(Q), 0 \in Q, 1 \in Q
          PROVE  /\ b \in Seq(Q) /\ Len(b) = 3 + Len(v) /\ Len(v) \in Nat
                 /\ b[1] = 0 /\ b[2] = 0 /\ b[3] = 1
                 /\ \A i \in 1 .. Len(v) : b[3 + i] = v[i]
      BY ONLY <3>1, b = <<>> \o <<0, 0, 1>> \o v
    <3> QED BY <1>0, <3>1
  <2> QED BY ONLY <1>2, <2>1, <2>2, v = u.unit, b = <<>> \o <<0, 0, 1>> \o v DEF UnitAt
<1> QED BY <1>1, <1>2

(* So it is further on in a longer sequence of bytes. *)
LEMMA UnitMoves ==
  ASSUME NEW B, NEW b, NEW u, NEW x, NEW a \in Nat, Len(b) \in Nat, Len(B) \in Nat,
         Len(u.unit) \in Nat, UnitAt(b, x, u), a + Len(b) <= Len(B),
         \A j \in 1 .. Len(b) : B[a + j] = b[j]
  PROVE  UnitAt(B, a + x, u)
<1> PICK l, m, v : l = Len(b) /\ m = Len(u.unit) /\ v = u.unit
  OBVIOUS
<1>1. /\ x \in Nat /\ l \in Nat /\ m \in Nat /\ x + 3 + m <= l
      /\ b[x + 1] = 0 /\ b[x + 2] = 0 /\ b[x + 3] = 1
      /\ \A i \in 1 .. m : b[x + 3 + i] = v[i]
      /\ u.long => x > 0 /\ b[x] = 0
  BY DEF UnitAt
<1>2. a + l <= Len(B) /\ Len(B) \in Nat /\ \A j \in 1 .. l : B[a + j] = b[j]
  OBVIOUS
<1>3. a + x \in Nat /\ a + x + 3 + m <= Len(B)
  BY ONLY <1>1, <1>2, a \in Nat
<1>4. /\ x + 1 \in 1 .. l /\ x + 2 \in 1 .. l /\ x + 3 \in 1 .. l
      /\ a + (x + 1) = a + x + 1 /\ a + (x + 2) = a + x + 2 /\ a + (x + 3) = a + x + 3
  BY ONLY <1>1, a \in Nat
<1>5. B[a + x + 1] = 0 /\ B[a + x + 2] = 0 /\ B[a + x + 3] = 1
  BY ONLY <1>1, <1>2, <1>4
<1>6. ASSUME NEW i \in 1 .. m PROVE B[a + x + 3 + i] = v[i]
  <2>1. x + 3 + i \in 1 .. l /\ a + (x + 3 + i) = a + x + 3 + i
    BY ONLY <1>1, a \in Nat, i \in 1 .. m
  <2> QED BY ONLY <1>1, <1>2, <2>1, i \in 1 .. m
<1>7. u.long => a + x > 0 /\ B[a + x] = 0
  <2>1. x > 0 => x \in 1 .. l /\ a + x > 0
    BY ONLY <1>1, a \in Nat
  <2> QED BY ONLY <1>1, <1>2, <2>1
<1> QED BY ONLY <1>3, <1>5, <1>6, <1>7, m = Len(u.unit), v = u.unit DEF UnitAt

(* The units of a frame are typed. *)
LEMMA FrameUnits ==
  ASSUME NEW frame, IsFrame(frame)
  PROVE  /\ Len(frame) \in Nat \ {0} /\ DOMAIN frame = 1 .. Len(frame)
         /\ \A k \in 1 .. Len(frame) :
              /\ frame[k].unit \in Seq(Octet) /\ Len(frame[k].unit) \in Nat \ {0}
              /\ frame[k].long \in BOOLEAN /\ Extra(frame[k]) \in {0, 1}
              /\ IsNalUnit(frame[k].unit)
<1>1. ASSUME NEW Q, frame \in Seq(Q), frame # <<>>
      PROVE  Len(frame) \in Nat \ {0} /\ DOMAIN frame = 1 .. Len(frame)
             /\ \A k \in 1 .. Len(frame) : frame[k] \in Q
  BY ONLY <1>1
<1>2. /\ Len(frame) \in Nat \ {0} /\ DOMAIN frame = 1 .. Len(frame)
      /\ \A k \in 1 .. Len(frame) : frame[k] \in [unit : Seq(Octet), long : BOOLEAN]
  BY <1>1 DEF IsFrame
<1>3. ASSUME NEW k \in 1 .. Len(frame)
      PROVE  /\ frame[k].unit \in Seq(Octet) /\ Len(frame[k].unit) \in Nat \ {0}
             /\ frame[k].long \in BOOLEAN /\ Extra(frame[k]) \in {0, 1}
             /\ IsNalUnit(frame[k].unit)
  <2>1. frame[k].unit \in Seq(Octet) /\ frame[k].long \in BOOLEAN
    BY <1>2
  <2>2. IsNalUnit(frame[k].unit)
    BY <1>2 DEF IsFrame
  <2>3. frame[k].unit # <<>>
    BY <2>2 DEF IsNalUnit
  <2>4. ASSUME NEW Q, NEW v \in Seq(Q), v # <<>> PROVE Len(v) \in Nat \ {0}
    BY ONLY <2>4
  <2> QED BY <2>1, <2>2, <2>3, <2>4 DEF Extra
<1> QED BY <1>2, <1>3

(* The byte stream of a frame is laid out so. *)
LEMMA StreamLaid ==
  ASSUME NEW frame, IsFrame(frame)
  PROVE  \E P : Laid(frame, ByteStream(frame), P)
<1> PICK n : n = Len(frame)
  OBVIOUS
<1> DEFINE s == [i \in 1 .. Len(frame) |-> UnitBytes(frame[i])]
<1> PICK B : B = ByteStream(frame)
  OBVIOUS
<1>1. B = FlattenSeq(s)
  BY Zenon DEF ByteStream, UnitBytes
<1>2. /\ n \in Nat \ {0}
      /\ \A k \in 1 .. n : /\ frame[k].unit \in Seq(Octet) /\ Len(frame[k].unit) \in Nat \ {0}
                           /\ frame[k].long \in BOOLEAN /\ Extra(frame[k]) \in {0, 1}
  BY FrameUnits
<1>3. \A k \in 1 .. n : /\ s[k] = UnitBytes(frame[k]) /\ s[k] \in Seq(Octet)
                        /\ Len(s[k]) = Extra(frame[k]) + 3 + Len(frame[k].unit)
                        /\ UnitAt(s[k], Extra(frame[k]), frame[k])
  BY <1>2, UnitBytesAre
<1>4. s \in Seq(Seq(Octet)) /\ Len(s) = n
  <2>1. ASSUME NEW Q, \A k \in 1 .. n : UnitBytes(frame[k]) \in Q
        PROVE  s \in Seq(Q) /\ Len(s) = n
    BY ONLY <2>1, <1>2, n = Len(frame)
  <2> QED BY <1>3, <2>1
<1> HIDE DEF s
<1> DEFINE At(k) == Len(FlattenSeq(SubSeq(s, 1, k)))
<1>5. \A k \in 1 .. n : /\ At(k - 1) \in Nat /\ At(k) = At(k - 1) + Len(s[k])
                        /\ At(k) <= Len(B) /\ \A j \in 1 .. Len(s[k]) : B[At(k - 1) + j] = s[k][j]
  <2> SUFFICES ASSUME NEW k \in 1 .. n
               PROVE  /\ At(k - 1) \in Nat /\ At(k) = At(k - 1) + Len(s[k])
                      /\ At(k) <= Len(B) /\ \A j \in 1 .. Len(s[k]) : B[At(k - 1) + j] = s[k][j]
    OBVIOUS
  <2>1. k \in 1 .. Len(s)
    BY <1>4
  <2> QED BY ONLY <1>1, <1>4, <2>1, FlattenAt, Zenon
<1>6. At(0) = 0 /\ At(n) = Len(B)
  <2>1. SubSeq(s, 1, 0) = <<>> /\ SubSeq(s, 1, n) = s
    <3>1. ASSUME NEW Q, s \in Seq(Q) PROVE SubSeq(s, 1, 0) = <<>> /\ SubSeq(s, 1, Len(s)) = s
      BY ONLY <3>1
    <3> QED BY <1>4, <3>1
  <2>2. Len(<<>>) = 0
    OBVIOUS
  <2> QED BY <1>1, <2>1, <2>2, FlattenNone
<1>7. B \in Seq(Octet)
  BY <1>1, <1>4, FlattenIsSeq
<1> PICK A : A = [k \in 0 .. n |-> At(k)]
  OBVIOUS
<1>8. \A k \in 1 .. n : /\ A[k - 1] \in Nat /\ A[k] = A[k - 1] + Len(s[k])
                        /\ A[k] <= Len(B) /\ \A j \in 1 .. Len(s[k]) : B[A[k - 1] + j] = s[k][j]
  <2> SUFFICES ASSUME NEW k \in 1 .. n
               PROVE  /\ A[k - 1] \in Nat /\ A[k] = A[k - 1] + Len(s[k])
                      /\ A[k] <= Len(B) /\ \A j \in 1 .. Len(s[k]) : B[A[k - 1] + j] = s[k][j]
    OBVIOUS
  <2>1. k - 1 \in 0 .. n /\ k \in 0 .. n
    BY ONLY <1>2, k \in 1 .. n
  <2>2. A[k] = At(k) /\ A[k - 1] = At(k - 1)
    BY ONLY <2>1, A = [i \in 0 .. n |-> At(i)]
  <2> HIDE DEF At
  <2> QED BY ONLY <1>5, <2>2, k \in 1 .. n
<1>9. A[0] = 0 /\ A[n] = Len(B)
  <2>1. 0 \in 0 .. n /\ n \in 0 .. n
    BY ONLY <1>2
  <2> HIDE DEF At
  <2> QED BY ONLY <1>6, <2>1, A = [k \in 0 .. n |-> At(k)]
<1> HIDE DEF At
<1> PICK P : P = [k \in 1 .. n |-> A[k - 1] + Extra(frame[k])]
  OBVIOUS
<1>10. \A k \in 1 .. n : P[k] = A[k - 1] + Extra(frame[k])
  BY ONLY P = [k \in 1 .. n |-> A[k - 1] + Extra(frame[k])]
<1>11. ASSUME NEW k \in 1 .. n PROVE UnitAt(B, P[k], frame[k])
  <2>1. /\ Len(frame[k].unit) \in Nat /\ UnitAt(s[k], Extra(frame[k]), frame[k])
        /\ P[k] = A[k - 1] + Extra(frame[k])
    BY ONLY <1>2, <1>3, <1>10, k \in 1 .. n
  <2>2. /\ A[k - 1] \in Nat /\ A[k - 1] + Len(s[k]) <= Len(B)
        /\ \A j \in 1 .. Len(s[k]) : B[A[k - 1] + j] = s[k][j]
    BY ONLY <1>8, k \in 1 .. n
  <2>3. Len(s[k]) \in Nat /\ Len(B) \in Nat
    BY <1>3, <1>7, LenProperties
  <2> QED BY ONLY <2>1, <2>2, <2>3, UnitMoves
<1>12. P[1] = Extra(frame[1])
  <2>1. 1 \in 1 .. n /\ 1 - 1 = 0 /\ Extra(frame[1]) \in {0, 1}
    BY ONLY <1>2
  <2> QED BY ONLY <1>9, <1>10, <2>1
<1>13. ASSUME NEW k \in 1 .. n - 1
       PROVE  P[k + 1] = P[k] + 3 + Len(frame[k].unit) + Extra(frame[k + 1])
  <2>1. k \in 1 .. n /\ k + 1 \in 1 .. n /\ k + 1 - 1 = k
    BY ONLY <1>2, k \in 1 .. n - 1
  <2>2. P[k + 1] = A[k] + Extra(frame[k + 1]) /\ P[k] = A[k - 1] + Extra(frame[k])
    BY ONLY <1>10, <2>1
  <2>3. A[k] = A[k - 1] + Len(s[k]) /\ Len(s[k]) = Extra(frame[k]) + 3 + Len(frame[k].unit)
        /\ A[k - 1] \in Nat
    BY ONLY <1>3, <1>8, <2>1
  <2>4. Extra(frame[k]) \in {0, 1} /\ Extra(frame[k + 1]) \in {0, 1} /\ Len(frame[k].unit) \in Nat
    BY ONLY <1>2, <2>1
  <2> PICK p, q, c, l, e, g : /\ p = A[k] /\ q = A[k - 1] /\ c = Len(s[k]) /\ g = Extra(frame[k])
                              /\ l = Len(frame[k].unit) /\ e = Extra(frame[k + 1])
    OBVIOUS
  <2>5. p = q + c /\ c = g + 3 + l /\ q \in Nat /\ g \in {0, 1} /\ e \in {0, 1} /\ l \in Nat
    BY ONLY <2>3, <2>4, p = A[k], q = A[k - 1], c = Len(s[k]), g = Extra(frame[k]),
            l = Len(frame[k].unit), e = Extra(frame[k + 1]), Zenon
  <2>6. p + e = q + g + 3 + l + e
    BY ONLY <2>5
  <2> QED BY ONLY <2>2, <2>6, p = A[k], q = A[k - 1], g = Extra(frame[k]),
                  l = Len(frame[k].unit), e = Extra(frame[k + 1]), Zenon
<1>14. Len(B) = P[n] + 3 + Len(frame[n].unit)
  <2>1. n \in 1 .. n
    BY ONLY <1>2
  <2>2. P[n] = A[n - 1] + Extra(frame[n]) /\ A[n - 1] \in Nat /\ A[n] = A[n - 1] + Len(s[n])
    <3>1. A[n - 1] \in Nat /\ A[n] = A[n - 1] + Len(s[n])
      BY ONLY <1>8, <2>1
    <3>2. P[n] = A[n - 1] + Extra(frame[n])
      BY ONLY <1>10, <2>1
    <3> QED BY ONLY <3>1, <3>2
  <2>3. Len(s[n]) = Extra(frame[n]) + 3 + Len(frame[n].unit)
        /\ Extra(frame[n]) \in {0, 1} /\ Len(frame[n].unit) \in Nat
    BY ONLY <1>2, <1>3, <2>1
  <2> QED BY ONLY <1>9, <2>2, <2>3
<1> QED BY ONLY <1>7, <1>11, <1>12, <1>13, <1>14, n = Len(frame), B = ByteStream(frame)
        DEF Laid

-----------------------------------------------------------------------------
(* Pieces that are put one behind the other leave no place out and do not overlap. *)
LEMMA Tiles ==
  ASSUME NEW n \in Nat \ {0}, NEW P, NEW X, NEW L,
         \A k \in 1 .. n : P[k] \in Nat /\ X[k] \in {0, 1} /\ L[k] \in Nat \ {0},
         P[1] = X[1], \A k \in 1 .. n - 1 : P[k + 1] = P[k] + 3 + L[k] + X[k + 1]
  PROVE  /\ \A j \in 1 .. P[n] + 3 + L[n] :
              \E k \in 1 .. n : P[k] - X[k] < j /\ j <= P[k] + 3 + L[k]
         /\ \A k, l \in 1 .. n : k < l => P[k] + 3 + L[k] <= P[l]
<1> DEFINE Up(k) == /\ \A j \in 1 .. P[k] + 3 + L[k] :
                         \E i \in 1 .. n : P[i] - X[i] < j /\ j <= P[i] + 3 + L[i]
                    /\ \A i \in 1 .. k : i < k => P[i] + 3 + L[i] <= P[k]
           T == {m \in Nat : m + 1 <= n => Up(m + 1)}
<1>1. 0 \in T
  <2>1. 1 \in 1 .. n /\ 0 + 1 = 1
    OBVIOUS
  <2>2. ASSUME NEW j \in 1 .. P[1] + 3 + L[1] PROVE P[1] - X[1] < j /\ j <= P[1] + 3 + L[1]
    <3>1. P[1] \in Nat /\ X[1] \in {0, 1} /\ L[1] \in Nat /\ P[1] = X[1]
      BY <2>1
    <3> QED BY ONLY <3>1, j \in 1 .. P[1] + 3 + L[1]
  <2>3. Up(1)
    BY ONLY <2>1, <2>2
  <2> QED BY ONLY <2>1, <2>3
<1>2. ASSUME NEW m \in Nat, m \in T PROVE m + 1 \in T
  <2> HIDE DEF Up
  <2>0. m + 1 \in Nat
    OBVIOUS
  <2> SUFFICES ASSUME m + 1 + 1 <= n PROVE Up(m + 1 + 1)
    BY <2>0, Zenon
  <2> PICK k, l : k = m + 1 /\ l = m + 1 + 1
    OBVIOUS
  <2>1. k \in 1 .. n /\ l \in 1 .. n /\ k \in 1 .. n - 1 /\ l = k + 1
    BY ONLY n \in Nat \ {0}, m \in Nat, m + 1 + 1 <= n, k = m + 1, l = m + 1 + 1
  <2>2. Up(k)
    <3>1. m + 1 <= n
      BY ONLY n \in Nat \ {0}, m \in Nat, m + 1 + 1 <= n
    <3> QED BY ONLY <1>2, <3>1, k = m + 1
  <2>3. /\ P[l] = P[k] + 3 + L[k] + X[l] /\ P[k] \in Nat /\ P[l] \in Nat /\ X[k] \in {0, 1}
        /\ X[l] \in {0, 1} /\ L[k] \in Nat \ {0} /\ L[l] \in Nat \ {0}
    BY <2>1
  <2>4. ASSUME NEW j \in 1 .. P[l] + 3 + L[l]
        PROVE  j \in 1 .. P[k] + 3 + L[k] \/ (P[l] - X[l] < j /\ j <= P[l] + 3 + L[l])
    <3>1. ASSUME NEW p \in Nat, NEW x \in {0, 1}, NEW r \in Nat, NEW q \in Nat, NEW s \in Nat,
                 q = p + 3 + r + x, NEW i \in 1 .. q + 3 + s
          PROVE  i \in 1 .. p + 3 + r \/ (q - x < i /\ i <= q + 3 + s)
      BY ONLY <3>1
    <3> QED BY ONLY <2>3, <3>1, j \in 1 .. P[l] + 3 + L[l]
  <2>5. ASSUME NEW i \in 1 .. l, i < l PROVE P[i] + 3 + L[i] <= P[l]
    <3>1. i \in 1 .. n /\ (i = k \/ (i < k /\ i \in 1 .. k))
      BY ONLY <2>1, n \in Nat \ {0}, i \in 1 .. l, i < l
    <3>2. P[i] \in Nat /\ L[i] \in Nat
      BY <3>1
    <3>3. CASE i = k
      BY ONLY <2>3, <3>3
    <3>4. CASE i < k
      <4>1. P[i] + 3 + L[i] <= P[k]
        BY ONLY <2>2, <3>1, <3>4 DEF Up
      <4> QED BY ONLY <2>3, <3>2, <4>1
    <3> QED BY ONLY <3>1, <3>3, <3>4
  <2>6. Up(l)
    BY ONLY <2>1, <2>2, <2>4, <2>5 DEF Up
  <2> QED BY ONLY <2>6, l = m + 1 + 1
<1>3. Nat \subseteq T
  <2> HIDE DEF T
  <2> QED BY ONLY <1>1, <1>2, Loop!NatInd
<1>4. ASSUME NEW k \in 1 .. n PROVE Up(k)
  <2>1. k - 1 \in Nat /\ k - 1 + 1 = k /\ k <= n
    OBVIOUS
  <2> HIDE DEF Up
  <2>2. k - 1 + 1 <= n => Up(k - 1 + 1)
    BY <1>3, <2>1
  <2> QED BY ONLY <2>1, <2>2
<1>5. n \in 1 .. n
  OBVIOUS
<1>6. \A j \in 1 .. P[n] + 3 + L[n] : \E k \in 1 .. n : P[k] - X[k] < j /\ j <= P[k] + 3 + L[k]
  BY ONLY <1>4, <1>5
<1>7. ASSUME NEW k \in 1 .. n, NEW l \in 1 .. n, k < l PROVE P[k] + 3 + L[k] <= P[l]
  <2>1. k \in 1 .. l
    BY ONLY k \in 1 .. n, l \in 1 .. n, k < l
  <2> QED BY ONLY <1>4, <2>1, k < l, l \in 1 .. n
<1> QED BY ONLY <1>6, <1>7

(* There is no start code inside of a NAL unit, and none begins with its first byte. *)
LEMMA NoCodeInside ==
  ASSUME NEW Q, NEW unit \in Seq(Q), IsNalUnit(unit)
  PROVE  /\ unit[1] # 0 /\ Len(unit) \in Nat \ {0} /\ unit[Len(unit)] # 0
         /\ \A i \in 3 .. Len(unit) : unit[i - 2] = 0 /\ unit[i - 1] = 0 => unit[i] # 1
<1>1. unit[1] # 0 /\ Len(unit) \in Nat \ {0} /\ unit[Len(unit)] # 0
  BY DEF IsNalUnit, Last
<1>2. ASSUME NEW i \in 3 .. Len(unit), unit[i - 2] = 0, unit[i - 1] = 0, unit[i] = 1 PROVE FALSE
  <2> PICK h : h = i - 2
    OBVIOUS
  <2>1. h \in 1 .. Len(unit) - 2 /\ h + 2 = i /\ h + 1 = i - 1
    BY <1>1
  <2>2. SubSeq(unit, h, h + 2) = <<unit[h], unit[h + 1], unit[h + 2]>>
    <3> PICK w : w = SubSeq(unit, h, h + 2)
      OBVIOUS
    <3>1. h \in 1 .. Len(unit) + 1 /\ h + 2 \in h - 1 .. Len(unit) /\ h \in Nat
      BY ONLY <1>1, <2>1
    <3>2. w \in Seq(Q) /\ Len(w) = 3 /\ \A c \in 1 .. 3 : w[c] = unit[h + c - 1]
      BY ONLY <3>1, unit \in Seq(Q), w = SubSeq(unit, h, h + 2), SubSeqProperties
    <3>3. /\ h + 1 - 1 = h /\ h + 2 - 1 = h + 1 /\ h + 3 - 1 = h + 2
          /\ 1 \in 1 .. 3 /\ 2 \in 1 .. 3 /\ 3 \in 1 .. 3
      BY ONLY <3>1
    <3>4. w[1] = unit[h] /\ w[2] = unit[h + 1] /\ w[3] = unit[h + 2]
      BY ONLY <3>2, <3>3
    <3>5. w = <<w[1], w[2], w[3]>>
      BY ONLY <3>2
    <3> QED BY ONLY <3>4, <3>5, w = SubSeq(unit, h, h + 2)
  <2>3. SubSeq(unit, h, h + 2) = StartCode
    BY ONLY <1>2, <2>1, <2>2, h = i - 2 DEF StartCode
  <2> QED BY <2>1, <2>3 DEF IsNalUnit
<1> QED BY <1>1, <1>2

(* The start codes there are in the byte stream of a frame are those in front of its units. *)
LEMMA FrameCodes ==
  ASSUME NEW frame, IsFrame(frame), NEW B, NEW P, Laid(frame, B, P)
  PROVE  /\ Len(B) - 3 \in 0 .. Len(B)
         /\ \A k, l \in 1 .. Len(frame) :
              k < l => P[k] + 3 + Len(frame[k].unit) <= P[l]
         /\ Codes(B, Len(B) - 3, 0) = {P[k] : k \in 1 .. Len(frame)}
<1> PICK n : n = Len(frame)
  OBVIOUS
<1> PICK L, X : /\ L = [k \in 1 .. n |-> Len(frame[k].unit)]
                /\ X = [k \in 1 .. n |-> Extra(frame[k])]
  OBVIOUS
<1>1. /\ n \in Nat \ {0}
      /\ \A k \in 1 .. n : /\ frame[k].unit \in Seq(Octet) /\ Len(frame[k].unit) \in Nat \ {0}
                           /\ frame[k].long \in BOOLEAN /\ Extra(frame[k]) \in {0, 1}
                           /\ IsNalUnit(frame[k].unit)
  BY FrameUnits
<1>2. \A k \in 1 .. n : L[k] = Len(frame[k].unit) /\ X[k] = Extra(frame[k])
  OBVIOUS
<1>3. /\ B \in Seq(Octet) /\ Len(B) \in Nat /\ \A k \in 1 .. n : UnitAt(B, P[k], frame[k])
  <2>1. B \in Seq(Octet) /\ \A k \in 1 .. n : UnitAt(B, P[k], frame[k])
    BY DEF Laid
  <2>2. Len(B) \in Nat
    BY <2>1, LenProperties
  <2> QED BY ONLY <2>1, <2>2
<1>4. \A k \in 1 .. n : P[k] \in Nat /\ X[k] \in {0, 1} /\ L[k] \in Nat \ {0}
                        /\ P[k] + 3 + L[k] <= Len(B)
  <2>1. \A k \in 1 .. n : P[k] \in Nat /\ P[k] + 3 + Len(frame[k].unit) <= Len(B)
    BY ONLY <1>3 DEF UnitAt
  <2> QED BY ONLY <1>1, <1>2, <2>1
<1>5. 1 \in 1 .. n /\ n \in 1 .. n /\ \A k \in 1 .. n - 1 : k \in 1 .. n /\ k + 1 \in 1 .. n
  BY ONLY <1>1
<1>6. /\ P[1] = X[1] /\ Len(B) = P[n] + 3 + L[n]
      /\ \A k \in 1 .. n - 1 : P[k + 1] = P[k] + 3 + L[k] + X[k + 1]
  <2>1. /\ P[1] = Extra(frame[1]) /\ Len(B) = P[n] + 3 + Len(frame[n].unit)
        /\ \A k \in 1 .. n - 1 : P[k + 1] = P[k] + 3 + Len(frame[k].unit) + Extra(frame[k + 1])
    BY DEF Laid
  <2> QED BY ONLY <1>2, <1>5, <2>1
<1>7. /\ \A j \in 1 .. Len(B) : \E k \in 1 .. n : P[k] - X[k] < j /\ j <= P[k] + 3 + L[k]
      /\ \A k, l \in 1 .. n : k < l => P[k] + 3 + L[k] <= P[l]
  <2>1. /\ \A j \in 1 .. P[n] + 3 + L[n] :
             \E k \in 1 .. n : P[k] - X[k] < j /\ j <= P[k] + 3 + L[k]
        /\ \A k, l \in 1 .. n : k < l => P[k] + 3 + L[k] <= P[l]
    <3>1. /\ \A k \in 1 .. n : P[k] \in Nat /\ X[k] \in {0, 1} /\ L[k] \in Nat \ {0}
          /\ P[1] = X[1] /\ \A k \in 1 .. n - 1 : P[k + 1] = P[k] + 3 + L[k] + X[k + 1]
      BY ONLY <1>4, <1>6
    <3> QED BY ONLY <1>1, <3>1, Tiles
  <2> QED BY ONLY <1>6, <2>1, Zenon
<1>8. Len(B) - 3 \in 0 .. Len(B)
  <2>1. P[1] \in Nat /\ L[1] \in Nat /\ P[1] + 3 + L[1] <= Len(B)
    BY ONLY <1>4, <1>5
  <2> QED BY ONLY <1>3, <2>1
<1>9. \A j : HasCode(B, j) <=> B[j + 1] = 0 /\ B[j + 1 + 1] = 0 /\ B[j + 2 + 1] = 1
  BY DEF HasCode, StartCode
<1>10. ASSUME NEW k \in 1 .. n PROVE P[k] \in Codes(B, Len(B) - 3, 0)
  <2>1. P[k] \in Nat /\ 0 <= P[k] /\ P[k] < Len(B) - 3
    <3>1. P[k] \in Nat /\ L[k] \in Nat \ {0} /\ P[k] + 3 + L[k] <= Len(B)
      BY ONLY <1>4, k \in 1 .. n
    <3> QED BY ONLY <1>3, <3>1
  <2>2. HasCode(B, P[k])
    <3>1. B[P[k] + 1] = 0 /\ B[P[k] + 2] = 0 /\ B[P[k] + 3] = 1
      BY ONLY <1>3, k \in 1 .. n DEF UnitAt
    <3>2. P[k] + 1 + 1 = P[k] + 2 /\ P[k] + 2 + 1 = P[k] + 3
      BY ONLY <2>1
    <3> QED BY ONLY <1>9, <3>1, <3>2
  <2> QED BY ONLY <2>1, <2>2 DEF Codes
<1>11. ASSUME NEW j \in Codes(B, Len(B) - 3, 0) PROVE \E k \in 1 .. n : j = P[k]
  <2>1. j \in Nat /\ j < Len(B) - 3 /\ HasCode(B, j)
    BY ONLY j \in Codes(B, Len(B) - 3, 0) DEF Codes
  <2>2. B[j + 1] = 0 /\ B[j + 1 + 1] = 0 /\ B[j + 2 + 1] = 1
    BY ONLY <1>9, <2>1
  <2>3. j + 3 \in 1 .. Len(B)
    BY ONLY <1>3, <2>1
  <2>4. PICK k \in 1 .. n : P[k] - X[k] < j + 3 /\ j + 3 <= P[k] + 3 + L[k]
    BY ONLY <1>7, <2>3
  <2> PICK p, x, l, u : p = P[k] /\ x = X[k] /\ l = L[k] /\ u = frame[k].unit
    OBVIOUS
  <2>5. /\ p \in Nat /\ x \in {0, 1} /\ l \in Nat \ {0} /\ p - x < j + 3 /\ j + 3 <= p + 3 + l
        /\ x = Extra(frame[k]) /\ l = Len(u)
    BY ONLY <1>2, <1>4, <2>4, p = P[k], x = X[k], l = L[k], u = frame[k].unit
  <2>6. /\ B[p + 1] = 0 /\ B[p + 2] = 0 /\ B[p + 3] = 1
        /\ (\A i \in 1 .. l : B[p + 3 + i] = u[i]) /\ (x = 1 => B[p] = 0)
    BY ONLY <1>1, <1>3, <2>4, <2>5, p = P[k], u = frame[k].unit DEF UnitAt, Extra
  <2>7. u[1] # 0 /\ \A i \in 3 .. l : u[i - 2] = 0 /\ u[i - 1] = 0 => u[i] # 1
    <3>1. u \in Seq(Octet) /\ IsNalUnit(u)
      BY ONLY <1>1, <2>4, u = frame[k].unit
    <3> QED BY ONLY <2>5, <3>1, NoCodeInside
  <2>8. \/ (x = 1 /\ j + 2 + 1 = p) \/ j + 2 + 1 = p + 1 \/ j + 2 + 1 = p + 2 \/ j = p
        \/ j + 1 + 1 = p + 3 \/ j + 1 = p + 3
        \/ \E i \in 3 .. l : /\ j + 1 = p + 3 + (i - 2) /\ j + 1 + 1 = p + 3 + (i - 1)
                             /\ j + 2 + 1 = p + 3 + i
    <3>1. CASE j < p + 1
      BY ONLY <2>1, <2>5, <3>1
    <3>2. CASE j >= p + 1
      <4>1. CASE j <= p + 2
        BY ONLY <2>1, <2>5, <3>2, <4>1
      <4>2. CASE j > p + 2
        <5> PICK i : i = j - p
          OBVIOUS
        <5>1. i \in 3 .. l /\ j + 1 = p + 3 + (i - 2) /\ j + 1 + 1 = p + 3 + (i - 1)
              /\ j + 2 + 1 = p + 3 + i
          BY ONLY <2>1, <2>5, <4>2, i = j - p
        <5> QED BY ONLY <5>1
      <4> QED BY ONLY <2>1, <2>5, <4>1, <4>2
    <3> QED BY ONLY <2>1, <2>5, <3>1, <3>2
  <2>9. j = p
    <3> SUFFICES ASSUME j # p PROVE FALSE
      OBVIOUS
    <3>1. PICK i \in 3 .. l : /\ j + 1 = p + 3 + (i - 2) /\ j + 1 + 1 = p + 3 + (i - 1)
                              /\ j + 2 + 1 = p + 3 + i
      BY ONLY <2>2, <2>6, <2>7, <2>8, j # p
    <3>2. i \in 1 .. l /\ i - 1 \in 1 .. l /\ i - 2 \in 1 .. l
      BY ONLY <2>5, i \in 3 .. l
    <3>3. u[i] = 1 /\ u[i - 1] = 0 /\ u[i - 2] = 0
      BY ONLY <2>2, <2>6, <3>1, <3>2
    <3> QED BY ONLY <2>7, <3>1, <3>3
  <2> QED BY ONLY <2>4, <2>9, p = P[k]
<1>12. Codes(B, Len(B) - 3, 0) = {P[k] : k \in 1 .. n}
  <2> PICK C : C = Codes(B, Len(B) - 3, 0)
    OBVIOUS
  <2> QED BY ONLY <1>10, <1>11, C = Codes(B, Len(B) - 3, 0)
<1>13. \A k, l \in 1 .. n : k < l => P[k] + 3 + Len(frame[k].unit) <= P[l]
  BY ONLY <1>2, <1>7
<1> QED BY ONLY <1>8, <1>12, <1>13, n = Len(frame)

-----------------------------------------------------------------------------
(* Where the units of a frame are, in the way of ParseNaluPositions. *)
UnitPositions(frame, P) ==
  [k \in 1 .. Len(frame) |-> [first |-> P[k] + 3, length |-> Len(frame[k].unit)]]

(* The packets of a NAL unit. *)
PackUnit(data, frame_end_marker) ==
  IF Len(data) <= kMaxRtpPayloadSize THEN PackSingNalu(data, frame_end_marker)
  ELSE PackFuA(data, frame_end_marker)

(* ParseNaluPositions (rtp_packet.cpp) finds the units that a frame was    *)
(* made of, and nothing else: in the bytes of any frame it takes no byte   *)
(* of a unit for a start code, and no part of a start code for a byte of   *)
(* the unit before it.                                                     *)
THEOREM UnitsFound ==
  ASSUME NEW frame, IsFrame(frame), NEW B, NEW P, Laid(frame, B, P)
  PROVE  ParseNaluPositions(B) = UnitPositions(frame, P)
<1> PICK n : n = Len(frame)
  OBVIOUS
<1>1. /\ n \in Nat \ {0}
      /\ \A k \in 1 .. n : /\ frame[k].unit \in Seq(Octet) /\ Len(frame[k].unit) \in Nat \ {0}
                           /\ frame[k].long \in BOOLEAN /\ Extra(frame[k]) \in {0, 1}
                           /\ IsNalUnit(frame[k].unit)
  BY FrameUnits
<1>2. /\ B \in Seq(Octet) /\ Len(B) \in Nat /\ \A k \in 1 .. n : UnitAt(B, P[k], frame[k])
  <2>1. B \in Seq(Octet) /\ \A k \in 1 .. n : UnitAt(B, P[k], frame[k])
    BY DEF Laid
  <2>2. Len(B) \in Nat
    BY <2>1, LenProperties
  <2> QED BY ONLY <2>1, <2>2
<1>3. \A k \in 1 .. n : P[k] \in Nat
  BY ONLY <1>2 DEF UnitAt
<1>4. /\ Len(B) - 3 \in 0 .. Len(B)
      /\ \A k, l \in 1 .. n : k < l => P[k] + 3 + Len(frame[k].unit) <= P[l]
      /\ Codes(B, Len(B) - 3, 0) = {P[k] : k \in 1 .. n}
  BY FrameCodes
<1> PICK p : p = [k \in 1 .. n |-> P[k]]
  OBVIOUS
<1>5. p \in Seq(Nat) /\ Len(p) = n /\ DOMAIN p = 1 .. n /\ \A k \in 1 .. n : p[k] = P[k]
  BY ONLY <1>1, <1>3, p = [k \in 1 .. n |-> P[k]]
<1>6. Increasing(p)
  <2>1. ASSUME NEW k \in 1 .. n, NEW l \in 1 .. n, k < l PROVE p[k] < p[l]
    <3>1. /\ P[k] \in Nat /\ P[l] \in Nat /\ Len(frame[k].unit) \in Nat
          /\ P[k] + 3 + Len(frame[k].unit) <= P[l] /\ p[k] = P[k] /\ p[l] = P[l]
      BY ONLY <1>1, <1>3, <1>4, <1>5, <2>1
    <3> QED BY ONLY <3>1
  <2> QED BY ONLY <1>5, <2>1 DEF Increasing
<1>7. Range(p) = {P[k] : k \in 1 .. n}
  BY ONLY <1>5 DEF Range
<1>8. PICK starts : /\ IsSearch(B, Len(B) - 3, starts)
                    /\ PositionsUpTo(B, Len(B) - 3) = UnitsBehind(B, starts[0])
  BY ONLY <1>2, <1>4, SearchExists
<1>9. starts[0] = p
  <2>1. starts[0] \in Seq(Nat) /\ Increasing(starts[0])
        /\ Range(starts[0]) = Codes(B, Len(B) - 3, 0)
    BY ONLY <1>2, <1>4, <1>8, SearchFinds
  <2> QED BY ONLY <1>4, <1>5, <1>6, <1>7, <2>1, SameOrder
<1>10. ASSUME NEW k \in 1 .. n - 1
       PROVE  StartOffset(B, p, k + 1) = P[k] + 3 + Len(frame[k].unit)
  <2> PICK l, u, m : l = k + 1 /\ u = frame[k].unit /\ m = Len(frame[k].unit)
    OBVIOUS
  <2>1. k \in 1 .. n /\ l \in 1 .. n
    BY ONLY <1>1, k \in 1 .. n - 1, l = k + 1
  <2>2. P[l] = P[k] + 3 + m + Extra(frame[l])
    BY DEF Laid
  <2>3. /\ u \in Seq(Octet) /\ m \in Nat \ {0} /\ m = Len(u) /\ frame[l].long \in BOOLEAN
        /\ IsNalUnit(u) /\ P[k] \in Nat /\ P[l] \in Nat /\ p[l] = P[l]
    BY ONLY <1>1, <1>3, <1>5, <2>1, u = frame[k].unit, m = Len(frame[k].unit)
  <2>4. /\ \A i \in 1 .. m : B[P[k] + 3 + i] = u[i]
        /\ frame[l].long => P[l] > 0 /\ B[P[l]] = 0
    BY ONLY <1>2, <2>1, u = frame[k].unit, m = Len(frame[k].unit) DEF UnitAt
  <2>5. StartOffset(B, p, l) = IF P[l] > 0 /\ B[P[l]] = 0 THEN P[l] - 1 ELSE P[l]
    <3>1. P[l] - 1 + 1 = P[l]
      BY ONLY <2>3
    <3> QED BY ONLY <2>3, <3>1, Zenon DEF StartOffset
  <2>6. CASE frame[l].long
    <3>1. P[l] = P[k] + 3 + m + 1
      BY ONLY <2>2, <2>6 DEF Extra
    <3>2. P[l] - 1 = P[k] + 3 + m
      BY ONLY <2>3, <3>1
    <3> QED BY ONLY <2>4, <2>5, <2>6, <3>2, l = k + 1, m = Len(frame[k].unit)
  <2>7. CASE ~frame[l].long
    <3>1. P[l] = P[k] + 3 + m + 0
      BY ONLY <2>2, <2>7 DEF Extra
    <3>2. P[l] = P[k] + 3 + m /\ m \in 1 .. m
      BY ONLY <2>3, <3>1
    <3>3. u[m] # 0
      BY ONLY <2>3, NoCodeInside
    <3>4. B[P[l]] # 0
      BY ONLY <2>4, <3>2, <3>3
    <3> QED BY ONLY <2>5, <3>2, <3>4, l = k + 1, m = Len(frame[k].unit)
  <2> QED BY ONLY <2>6, <2>7
<1>11. ASSUME NEW k \in 1 .. n
       PROVE  (IF k = n THEN Len(B) ELSE StartOffset(B, p, k + 1)) - (P[k] + 3)
                = Len(frame[k].unit)
  <2>1. (IF k = n THEN Len(B) ELSE StartOffset(B, p, k + 1)) = P[k] + 3 + Len(frame[k].unit)
    <3>1. CASE k = n
      BY <3>1 DEF Laid
    <3>2. CASE k # n
      <4>1. k \in 1 .. n - 1
        BY ONLY <1>1, <3>2, k \in 1 .. n
      <4> QED BY ONLY <1>10, <3>2, <4>1
    <3> QED BY ONLY <3>1, <3>2
  <2>2. P[k] \in Nat /\ Len(frame[k].unit) \in Nat
    BY ONLY <1>1, <1>3, k \in 1 .. n
  <2> PICK e : e = IF k = n THEN Len(B) ELSE StartOffset(B, p, k + 1)
    OBVIOUS
  <2>3. e = P[k] + 3 + Len(frame[k].unit)
    BY ONLY <2>1, e = IF k = n THEN Len(B) ELSE StartOffset(B, p, k + 1)
  <2>4. e - (P[k] + 3) = Len(frame[k].unit)
    BY ONLY <2>2, <2>3
  <2> QED BY ONLY <2>4, e = IF k = n THEN Len(B) ELSE StartOffset(B, p, k + 1)
<1>12. UnitsBehind(B, p) = UnitPositions(frame, P)
  <2>1. \A k \in 1 .. n :
          [first |-> p[k] + 3,
           length |-> (IF k = Len(p) THEN Len(B) ELSE StartOffset(B, p, k + 1)) - (p[k] + 3)]
          = [first |-> P[k] + 3, length |-> Len(frame[k].unit)]
    BY ONLY <1>5, <1>11, Zenon
  <2> QED BY ONLY <1>5, <2>1, n = Len(frame), Zenon DEF UnitsBehind, UnitPositions
<1>13. ~(Len(B) < 3)
  BY ONLY <1>2, <1>4
<1> QED BY ONLY <1>8, <1>9, <1>12, <1>13, Zenon DEF ParseNaluPositions

(* So Pack makes packets of the units of the frame, one after the other. *)
LEMMA FramePackets ==
  ASSUME NEW frame, IsFrame(frame)
  PROVE  PackFrame(ByteStream(frame))
           = FlattenSeq([k \in 1 .. Len(frame) |-> PackUnit(frame[k].unit, k = Len(frame))])
<1> PICK n, B : n = Len(frame) /\ B = ByteStream(frame)
  OBVIOUS
<1>1. PICK P : Laid(frame, B, P)
  BY StreamLaid
<1>2. /\ n \in Nat \ {0}
      /\ \A k \in 1 .. n : frame[k].unit \in Seq(Octet) /\ Len(frame[k].unit) \in Nat \ {0}
  BY FrameUnits
<1> PICK nalus : nalus = ParseNaluPositions(B)
  OBVIOUS
<1>3. /\ Len(nalus) = n
      /\ \A k \in 1 .. n : nalus[k].first = P[k] + 3 /\ nalus[k].length = Len(frame[k].unit)
  <2>1. nalus = [k \in 1 .. n |-> [first |-> P[k] + 3, length |-> Len(frame[k].unit)]]
    BY <1>1, UnitsFound DEF UnitPositions
  <2> QED BY ONLY <1>2, <2>1
<1>4. ASSUME NEW k \in 1 .. n
      PROVE  SubSeq(B, nalus[k].first + 1, nalus[k].first + nalus[k].length) = frame[k].unit
  <2> PICK p, u : p = P[k] /\ u = frame[k].unit
    OBVIOUS
  <2>1. UnitAt(B, p, frame[k]) /\ B \in Seq(Octet)
    BY <1>1 DEF Laid
  <2>2. /\ p \in Nat /\ p + 3 + Len(u) <= Len(B) /\ u \in Seq(Octet) /\ Len(u) \in Nat
        /\ \A i \in 1 .. Len(u) : B[p + 3 + i] = u[i]
    BY ONLY <1>2, <2>1, k \in 1 .. n, u = frame[k].unit DEF UnitAt
  <2>3. ASSUME NEW Q, NEW b \in Seq(Q), NEW v \in Seq(Q), p + 3 + Len(v) <= Len(b),
               \A i \in 1 .. Len(v) : b[p + 3 + i] = v[i]
        PROVE  SubSeq(b, p + 3 + 1, p + 3 + Len(v)) = v
    <3> PICK f, l : f = p + 3 + 1 /\ l = p + 3 + Len(v)
      OBVIOUS
    <3>1. Len(v) \in Nat /\ Len(b) \in Nat /\ f \in Int /\ l \in Int /\ f >= 1 /\ l <= Len(b)
          /\ l - f + 1 = Len(v) /\ (f <= l \/ Len(v) = 0)
      <4>1. Len(v) \in Nat /\ Len(b) \in Nat
        BY ONLY b \in Seq(Q), v \in Seq(Q), LenProperties
      <4> QED BY ONLY <2>2, <2>3, <4>1, f = p + 3 + 1, l = p + 3 + Len(v)
    <3>2. \A i \in f .. l : b[i] \in Q
      <4>1. \A i \in f .. l : i \in 1 .. Len(b)
        BY ONLY <3>1
      <4>2. \A i \in 1 .. Len(b) : b[i] \in Q
        BY ONLY b \in Seq(Q)
      <4> QED BY ONLY <4>1, <4>2
    <3> PICK w : w = SubSeq(b, f, l)
      OBVIOUS
    <3>3. w \in Seq(Q) /\ Len(w) = Len(v) /\ \A i \in 1 .. Len(v) : w[i] = b[f + i - 1]
      BY ONLY <3>1, <3>2, SubSeqProperties, w = SubSeq(b, f, l)
    <3>4. ASSUME NEW i \in 1 .. Len(v) PROVE w[i] = v[i]
      <4>1. f + i - 1 = p + 3 + i
        BY ONLY <2>2, <3>1, i \in 1 .. Len(v), f = p + 3 + 1
      <4> QED BY ONLY <2>3, <3>3, <4>1, i \in 1 .. Len(v)
    <3> QED BY ONLY <3>3, <3>4, v \in Seq(Q), SeqEqual, w = SubSeq(b, f, l),
                    f = p + 3 + 1, l = p + 3 + Len(v)
  <2>4. SubSeq(B, p + 3 + 1, p + 3 + Len(u)) = u
    BY ONLY <2>1, <2>2, <2>3
  <2> QED BY ONLY <1>3, <2>4, k \in 1 .. n, p = P[k], u = frame[k].unit, Zenon
<1>5. \A k \in 1 .. n :
        LET data == SubSeq(B, nalus[k].first + 1, nalus[k].first + nalus[k].length)
        IN  (IF Len(data) <= kMaxRtpPayloadSize THEN PackSingNalu(data, k = Len(nalus))
             ELSE PackFuA(data, k = Len(nalus)))
            = PackUnit(frame[k].unit, k = n)
  BY ONLY <1>3, <1>4, Zenon DEF PackUnit
<1>6. PackFrame(B) = FlattenSeq([k \in 1 .. n |-> PackUnit(frame[k].unit, k = n)])
  BY ONLY <1>3, <1>5, nalus = ParseNaluPositions(B), Zenon DEF PackFrame
<1> QED BY ONLY <1>6, n = Len(frame), B = ByteStream(frame)

-----------------------------------------------------------------------------
(* Numbers are taken modulo SeqModulus. *)

(* A number is its quotient times the divisor, and the remainder. *)
LEMMA DivMod ==
  ASSUME NEW a \in Int, NEW n \in Nat \ {0}
  PROVE  a = n * (a \div n) + (a % n) /\ a % n \in 0 .. n - 1 /\ a \div n \in Int
OBVIOUS

(* A multiple of at least one is at least the number. *)
LEMMA TimesAtLeast ==
  ASSUME NEW n \in Nat \ {0}, NEW k \in Int, k >= 1
  PROVE  n * k >= n
OBVIOUS

(* There is no other remainder. *)
LEMMA ModUnique ==
  ASSUME NEW a \in Int, NEW n \in Nat \ {0}, NEW k \in Int, NEW r \in 0 .. n - 1, a = n * k + r
  PROVE  a % n = r
<1> DEFINE q == a \div n
           s == a % n
<1>1. a = n * q + s /\ s \in 0 .. n - 1 /\ q \in Int
  BY DivMod
<1> HIDE DEF q, s
<1>2. n * (q - k) = r - s
  BY <1>1
<1>3. ~(q - k >= 1)
  <2> SUFFICES ASSUME q - k >= 1 PROVE FALSE
    OBVIOUS
  <2>1. n * (q - k) >= n
    BY <1>1, TimesAtLeast
  <2> QED BY <2>1, <1>1, <1>2
<1>4. ~(k - q >= 1)
  <2> SUFFICES ASSUME k - q >= 1 PROVE FALSE
    OBVIOUS
  <2>1. n * (k - q) >= n
    BY <1>1, TimesAtLeast
  <2>2. n * (k - q) = s - r
    BY <1>1
  <2> QED BY <2>1, <1>1, <2>2
<1>5. q = k
  BY <1>1, <1>3, <1>4
<1>6. s = r
  BY <1>1, <1>5
<1> QED BY <1>6 DEF s

(* A number may be reduced before another is added. *)
LEMMA ModAdd ==
  ASSUME NEW a \in Nat, NEW b \in Nat, NEW n \in Nat \ {0}
  PROVE  ((a % n) + b) % n = (a + b) % n
<1> PICK r, q : r = a % n /\ q = a \div n
  OBVIOUS
<1>1. a = n * q + r /\ r \in 0 .. n - 1 /\ q \in Int
  BY DivMod
<1> PICK s, k : s = (r + b) % n /\ k = (r + b) \div n
  OBVIOUS
<1>2. r + b = n * k + s /\ s \in 0 .. n - 1 /\ k \in Int
  <2>1. r + b \in Int
    BY <1>1
  <2> QED BY <2>1, DivMod
<1>3. a + b = n * (q + k) + s /\ a + b \in Int /\ q + k \in Int
  <2>1. n * (q + k) = n * q + n * k
    BY ONLY <1>1, <1>2, n \in Nat \ {0}
  <2> PICK c, d : c = n * q /\ d = n * k
    OBVIOUS
  <2>2. c \in Int /\ d \in Int
    BY ONLY <1>1, <1>2, n \in Nat \ {0}, c = n * q, d = n * k
  <2>3. a + b = c + d + s
    BY ONLY <1>1, <1>2, <2>2, a \in Nat, b \in Nat, c = n * q, d = n * k
  <2> QED BY ONLY <1>1, <1>2, <2>1, <2>3, a \in Nat, b \in Nat, c = n * q, d = n * k
<1>4. (a + b) % n = s
  BY ONLY <1>2, <1>3, n \in Nat \ {0}, ModUnique
<1> QED BY <1>4

(* The modulus does not count. *)
LEMMA ModDrop ==
  ASSUME NEW a \in Nat, NEW n \in Nat \ {0}
  PROVE  (a + n) % n = a % n
<1> PICK r, q : r = a % n /\ q = a \div n
  OBVIOUS
<1>1. a = n * q + r /\ r \in 0 .. n - 1 /\ q \in Int
  BY DivMod
<1>2. a + n = n * (q + 1) + r /\ a + n \in Int /\ q + 1 \in Int
  <2>1. n * (q + 1) = n * q + n
    BY ONLY <1>1, n \in Nat \ {0}
  <2> PICK c : c = n * q
    OBVIOUS
  <2>2. c \in Int
    BY ONLY <1>1, n \in Nat \ {0}, c = n * q
  <2> QED BY ONLY <1>1, <2>1, <2>2, a \in Nat, n \in Nat \ {0}, c = n * q
<1>3. (a + n) % n = r
  BY ONLY <1>1, <1>2, n \in Nat \ {0}, ModUnique
<1> QED BY <1>3

(* The sequence number before x. *)
Before(x) == (x + (SeqModulus - 1)) % SeqModulus

(* After the number before x comes x, and the one before x + 1 is x. *)
LEMMA BeforeIs ==
  ASSUME NEW x \in Nat
  PROVE  /\ (Before(x) + 1) % SeqModulus = x % SeqModulus
         /\ Before(x + 1) = x % SeqModulus /\ Before(x % SeqModulus) = Before(x)
         /\ x % SeqModulus \in Nat
<1> PICK n : n = SeqModulus
  OBVIOUS
<1>1. /\ n \in Nat \ {0} /\ x + (n - 1) \in Nat /\ x + (n - 1) + 1 = x + n
      /\ x + 1 + (n - 1) = x + n /\ 1 \in Nat /\ n - 1 \in Nat
  BY PacketizerAssumption
<1>2. (((x + (n - 1)) % n) + 1) % n = x % n
  <2>1. (((x + (n - 1)) % n) + 1) % n = (x + (n - 1) + 1) % n
    BY ONLY <1>1, ModAdd
  <2>2. (x + n) % n = x % n
    BY ONLY <1>1, x \in Nat, ModDrop
  <2> QED BY ONLY <1>1, <2>1, <2>2, Zenon
<1>3. (x + 1 + (n - 1)) % n = x % n
  BY ONLY <1>1, x \in Nat, ModDrop
<1>4. ((x % n) + (n - 1)) % n = (x + (n - 1)) % n
  BY ONLY <1>1, x \in Nat, ModAdd
<1>5. x % n \in Nat
  BY ONLY <1>1, x \in Nat
<1> QED BY ONLY <1>2, <1>3, <1>4, <1>5, n = SeqModulus DEF Before

-----------------------------------------------------------------------------
(* The receiver, when all that came was in order and number x comes next. *)
State(x, t, part, units, fs) ==
  [ok |-> TRUE, seq |-> Before(x), timestamp |-> t, part |-> part, units |-> units,
   frames |-> fs]

(* It has one NAL unit more, perhaps the last one of a frame. *)
Done(x, t, units, unit, marker, fs) ==
  State(x, t, <<>>, IF marker THEN <<>> ELSE Append(units, unit),
        IF marker THEN Append(fs, Append(units, unit)) ELSE fs)

(* The conditions on the next packet p. *)
InOrder(r, p) ==
  /\ r.ok
  /\ p.seq = (r.seq + 1) % SeqModulus
  /\ (r.units # <<>> \/ r.part # <<>>) => p.timestamp = r.timestamp
  /\ (r.part # <<>>) <=> (p.packet.fu /\ ~p.packet.start)
  /\ Len(p.packet.payload) + (IF p.packet.fu THEN 2 ELSE 0) \in 1 .. kMaxRtpPayloadSize
  /\ p.packet.fu => ~(p.packet.start /\ p.packet.end)

(* What is of its NAL unit with p. *)
UnitSoFar(r, p) ==
  IF ~p.packet.fu THEN p.packet.payload
  ELSE (IF p.packet.start THEN <<p.packet.nal>> ELSE r.part) \o p.packet.payload

(* What follows from a packet that is in order. *)
LEMMA ReceiveInOrder ==
  ASSUME NEW r, NEW p, InOrder(r, p)
  PROVE  Receive(r, p) =
           LET whole == ~p.packet.fu \/ p.packet.end
               units == IF whole THEN Append(r.units, UnitSoFar(r, p)) ELSE r.units
           IN  [ok |-> TRUE, seq |-> p.seq, timestamp |-> p.timestamp,
                part |-> IF whole THEN <<>> ELSE UnitSoFar(r, p),
                units |-> IF p.packet.marker THEN <<>> ELSE units,
                frames |-> IF p.packet.marker THEN Append(r.frames, units) ELSE r.frames]
<1>1. Receive(r, p) =
           LET whole == ~p.packet.fu \/ p.packet.end
               units == IF whole THEN Append(r.units, UnitSoFar(r, p)) ELSE r.units
           IN  [ok |-> InOrder(r, p), seq |-> p.seq, timestamp |-> p.timestamp,
                part |-> IF whole THEN <<>> ELSE UnitSoFar(r, p),
                units |-> IF p.packet.marker THEN <<>> ELSE units,
                frames |-> IF p.packet.marker THEN Append(r.frames, units) ELSE r.frames]
  BY Zenon DEF Receive, InOrder, UnitSoFar
<1>2. InOrder(r, p) = TRUE
  BY Zenon DEF InOrder
<1> QED BY ONLY <1>1, <1>2, Zenon

(* The packet p is number x, and has this payload. *)
Comes(p, x, t, payload) ==
  p.seq = x % SeqModulus /\ p.timestamp = t /\ p.packet.payload = payload

(* The packet of a NAL unit that fits in one. *)
LEMMA ReceiveSingle ==
  ASSUME NEW x \in Nat, NEW t0, NEW t, NEW units, NEW fs, units # <<>> => t = t0,
         NEW data, Len(data) \in 1 .. kMaxRtpPayloadSize, NEW p, Comes(p, x, t, data),
         ~p.packet.fu
  PROVE  Receive(State(x, t0, <<>>, units, fs), p)
           = Done(x + 1, t, units, data, p.packet.marker, fs)
<1> PICK r : r = State(x, t0, <<>>, units, fs)
  OBVIOUS
<1>1. /\ r.ok /\ r.seq = Before(x) /\ r.timestamp = t0 /\ r.part = <<>> /\ r.units = units
      /\ r.frames = fs
  BY ONLY r = State(x, t0, <<>>, units, fs) DEF State
<1>2. p.seq = x % SeqModulus /\ p.timestamp = t /\ p.packet.payload = data
  BY DEF Comes
<1>3. p.seq = (r.seq + 1) % SeqModulus /\ Before(x + 1) = p.seq
  BY ONLY <1>1, <1>2, x \in Nat, BeforeIs
<1>4. Len(data) + 0 \in 1 .. kMaxRtpPayloadSize
  BY PacketizerAssumption
<1>5. InOrder(r, p)
  BY <1>1, <1>2, <1>3, <1>4, Zenon DEF InOrder
<1>6. UnitSoFar(r, p) = data
  BY <1>2, Zenon DEF UnitSoFar
<1>7. Receive(r, p) =
        [ok |-> TRUE, seq |-> p.seq, timestamp |-> p.timestamp, part |-> <<>>,
         units |-> IF p.packet.marker THEN <<>> ELSE Append(r.units, data),
         frames |-> IF p.packet.marker THEN Append(r.frames, Append(r.units, data))
                    ELSE r.frames]
  <2>1. ~p.packet.fu \/ p.packet.end
    OBVIOUS
  <2> QED BY ONLY <1>5, <1>6, <2>1, ReceiveInOrder, Zenon
<1> QED BY ONLY <1>1, <1>2, <1>3, <1>7, r = State(x, t0, <<>>, units, fs), Zenon
        DEF Done, State

-----------------------------------------------------------------------------
(* The fragment p continues part to unit. *)
Continues(p, part, data, unit) ==
  /\ p.packet.fu /\ (p.packet.start <=> part = <<>>) /\ ~(p.packet.start /\ p.packet.end)
  /\ p.packet.marker => p.packet.end
  /\ unit = (IF p.packet.start THEN <<p.packet.nal>> ELSE part) \o data
  /\ Len(data) + 2 \in 1 .. kMaxRtpPayloadSize

(* What is of a frame has the time of the frame. *)
SameFrame(units, part, t, t0) == units # <<>> \/ part # <<>> => t = t0

(* The receiver after it. *)
AfterFragment(x, t, units, unit, p, fs) ==
  IF p.packet.end THEN Done(x + 1, t, units, unit, p.packet.marker, fs)
  ELSE State(x + 1, t, unit, units, fs)

(* A fragment of a NAL unit that does not fit in one packet. *)
LEMMA ReceiveFragment ==
  ASSUME NEW x \in Nat, NEW t0, NEW t, NEW part, NEW units, NEW fs,
         SameFrame(units, part, t, t0),
         NEW data, NEW unit, NEW p, Comes(p, x, t, data), Continues(p, part, data, unit)
  PROVE  Receive(State(x, t0, part, units, fs), p) = AfterFragment(x, t, units, unit, p, fs)
<1> PICK r : r = State(x, t0, part, units, fs)
  OBVIOUS
<1>1. /\ r.ok /\ r.seq = Before(x) /\ r.timestamp = t0 /\ r.part = part /\ r.units = units
      /\ r.frames = fs
  BY ONLY r = State(x, t0, part, units, fs) DEF State
<1>2. p.seq = x % SeqModulus /\ p.timestamp = t /\ p.packet.payload = data
  BY DEF Comes
<1>3. p.seq = (r.seq + 1) % SeqModulus /\ Before(x + 1) = p.seq
  BY ONLY <1>1, <1>2, x \in Nat, BeforeIs
<1>4. /\ p.packet.fu /\ (p.packet.start <=> part = <<>>) /\ ~(p.packet.start /\ p.packet.end)
      /\ p.packet.marker => p.packet.end
      /\ unit = (IF p.packet.start THEN <<p.packet.nal>> ELSE part) \o data
      /\ Len(data) + 2 \in 1 .. kMaxRtpPayloadSize
  BY Zenon DEF Continues
<1>5. InOrder(r, p)
  BY <1>1, <1>2, <1>3, <1>4, Zenon DEF InOrder, SameFrame
<1>6. UnitSoFar(r, p) = unit
  BY <1>1, <1>2, <1>4, Zenon DEF UnitSoFar
<1>7. CASE p.packet.end
  <2>1. Receive(r, p) =
          [ok |-> TRUE, seq |-> p.seq, timestamp |-> p.timestamp, part |-> <<>>,
           units |-> IF p.packet.marker THEN <<>> ELSE Append(r.units, unit),
           frames |-> IF p.packet.marker THEN Append(r.frames, Append(r.units, unit))
                      ELSE r.frames]
    <3>1. ~p.packet.fu \/ p.packet.end
      BY <1>7
    <3> QED BY ONLY <1>5, <1>6, <3>1, ReceiveInOrder, Zenon
  <2>2. Receive(r, p) = Done(x + 1, t, units, unit, p.packet.marker, fs)
    BY ONLY <1>1, <1>2, <1>3, <2>1, Zenon DEF Done, State
  <2> QED BY ONLY <1>7, <2>2, r = State(x, t0, part, units, fs), Zenon
          DEF AfterFragment
<1>8. CASE ~p.packet.end
  <2>1. Receive(r, p) =
          [ok |-> TRUE, seq |-> p.seq, timestamp |-> p.timestamp, part |-> unit,
           units |-> r.units, frames |-> r.frames]
    <3>1. ~(~p.packet.fu \/ p.packet.end) /\ ~p.packet.marker
      BY <1>4, <1>8
    <3> QED BY ONLY <1>5, <1>6, <3>1, ReceiveInOrder, Zenon
  <2>2. Receive(r, p) = State(x + 1, t, unit, units, fs)
    BY ONLY <1>1, <1>2, <1>3, <2>1, Zenon DEF State
  <2> QED BY ONLY <1>8, <2>2, r = State(x, t0, part, units, fs), Zenon
          DEF AfterFragment
<1> QED BY ONLY <1>7, <1>8

(* The receiver, packet by packet. *)
Rx == INSTANCE FoldProofs WITH Op <- Receive

(* A packet, single or a fragment. *)
RtpPacket ==
  [fu : {FALSE}, marker : BOOLEAN, payload : Seq(Nat)]
    \cup [fu : {TRUE}, nal : Nat, start : BOOLEAN, end : BOOLEAN, marker : BOOLEAN,
          payload : Seq(Nat)]

(* A packet of a stream. *)
Wire == [seq : Nat, timestamp : Nat, packet : RtpPacket]

(* Numbers and time are those of Numbered. *)
LEMMA NumberedIs ==
  ASSUME NEW Q, NEW packets \in Seq(Q), NEW x \in Nat, NEW t, NEW w, w = Numbered(packets, x, t)
  PROVE  /\ Len(packets) \in Nat /\ Len(w) = Len(packets) /\ DOMAIN w = 1 .. Len(packets)
         /\ \A i \in 1 .. Len(packets) :
              w[i] = [seq |-> (x + i - 1) % SeqModulus, timestamp |-> t, packet |-> packets[i]]
<1>1. Len(packets) \in Nat
  OBVIOUS
<1>2. w = [i \in 1 .. Len(packets) |->
            [seq |-> (x + i - 1) % SeqModulus, timestamp |-> t, packet |-> packets[i]]]
  BY Zenon DEF Numbered
<1> PICK n : n = Len(packets)
  OBVIOUS
<1>3. Len(w) = n /\ DOMAIN w = 1 .. n
  BY ONLY <1>1, <1>2, n = Len(packets)
<1>4. \A i \in 1 .. n : w[i] = [seq |-> (x + i - 1) % SeqModulus, timestamp |-> t,
                                packet |-> packets[i]]
  BY ONLY <1>2, n = Len(packets), Zenon
<1> QED BY ONLY <1>1, <1>3, <1>4, n = Len(packets)

(* They are packets of a stream. *)
LEMMA NumberedType ==
  ASSUME NEW packets \in Seq(RtpPacket), NEW x \in Nat, NEW t \in Nat
  PROVE  Numbered(packets, x, t) \in Seq(Wire)
<1> PICK w : w = Numbered(packets, x, t)
  OBVIOUS
<1>1. /\ Len(packets) \in Nat /\ Len(w) = Len(packets) /\ DOMAIN w = 1 .. Len(packets)
      /\ \A i \in 1 .. Len(packets) :
           w[i] = [seq |-> (x + i - 1) % SeqModulus, timestamp |-> t, packet |-> packets[i]]
  BY NumberedIs
<1>2. ASSUME NEW i \in 1 .. Len(packets) PROVE w[i] \in Wire
  <2>1. packets[i] \in RtpPacket
    <3>1. ASSUME NEW Q, packets \in Seq(Q) PROVE packets[i] \in Q
      BY ONLY <3>1, i \in 1 .. Len(packets)
    <3> QED BY ONLY <3>1, packets \in Seq(RtpPacket)
  <2>2. (x + i - 1) % SeqModulus \in Nat
    <3>1. x + i - 1 \in Nat
      BY ONLY <1>1, x \in Nat, i \in 1 .. Len(packets)
    <3> QED BY ONLY <3>1, BeforeIs
  <2> QED BY ONLY <1>1, <2>1, <2>2, t \in Nat, i \in 1 .. Len(packets) DEF Wire
<1>3. w = [i \in 1 .. Len(packets) |-> w[i]]
  BY DEF Numbered
<1>4. ASSUME NEW Q, \A i \in 1 .. Len(packets) : w[i] \in Q PROVE w \in Seq(Q)
  <2> PICK v : v = [i \in 1 .. Len(packets) |-> w[i]]
    OBVIOUS
  <2>1. v \in Seq(Q)
    BY ONLY <1>1, <1>4, v = [i \in 1 .. Len(packets) |-> w[i]]
  <2> QED BY ONLY <1>3, <2>1, v = [i \in 1 .. Len(packets) |-> w[i]]
<1> QED BY ONLY <1>2, <1>4, w = Numbered(packets, x, t)

(* Numbers go on from one sequence of packets to the next. *)
LEMMA NumberedConcat ==
  ASSUME NEW a \in Seq(RtpPacket), NEW b \in Seq(RtpPacket), NEW x \in Nat, NEW t \in Nat
  PROVE  Numbered(a \o b, x, t) = Numbered(a, x, t) \o Numbered(b, x + Len(a), t)
<1> PICK m, n, c : m = Len(a) /\ n = Len(b) /\ c = a \o b
  OBVIOUS
<1>1. ASSUME NEW Q, a \in Seq(Q), b \in Seq(Q)
      PROVE  /\ m \in Nat /\ n \in Nat /\ c \in Seq(Q) /\ Len(c) = m + n
             /\ (\A i \in 1 .. m : c[i] = a[i]) /\ (\A i \in 1 .. n : c[m + i] = b[i])
  <2> USE ONLY <1>1, m = Len(a), n = Len(b), c = a \o b
  <2>1. m \in Nat /\ n \in Nat /\ c \in Seq(Q) /\ Len(c) = m + n
    OBVIOUS
  <2>2. \A i \in 1 .. m : c[i] = a[i]
    OBVIOUS
  <2>3. \A i \in 1 .. n : c[m + i] = b[i]
    OBVIOUS
  <2> QED BY <2>1, <2>2, <2>3
<1>2. /\ m \in Nat /\ n \in Nat /\ c \in Seq(RtpPacket) /\ Len(c) = m + n
      /\ (\A i \in 1 .. m : c[i] = a[i]) /\ (\A i \in 1 .. n : c[m + i] = b[i])
  BY ONLY <1>1, a \in Seq(RtpPacket), b \in Seq(RtpPacket)
<1>3. x + m \in Nat
  BY ONLY <1>2, x \in Nat
<1> PICK wa, wb, wc : wa = Numbered(a, x, t) /\ wb = Numbered(b, x + m, t) /\ wc = Numbered(c, x, t)
  OBVIOUS
<1>4. wa \in Seq(Wire) /\ wb \in Seq(Wire) /\ wc \in Seq(Wire)
  BY ONLY <1>2, <1>3, a \in Seq(RtpPacket), b \in Seq(RtpPacket), x \in Nat, t \in Nat,
          NumberedType, wa = Numbered(a, x, t), wb = Numbered(b, x + m, t), wc = Numbered(c, x, t)
<1> DEFINE Item(y, i, q) == [seq |-> (y + i - 1) % SeqModulus, timestamp |-> t, packet |-> q]
<1>5. Len(wa) = m /\ \A i \in 1 .. m : wa[i] = Item(x, i, a[i])
  BY ONLY a \in Seq(RtpPacket), x \in Nat, wa = Numbered(a, x, t), m = Len(a), NumberedIs
<1>6. Len(wb) = n /\ \A i \in 1 .. n : wb[i] = Item(x + m, i, b[i])
  BY ONLY b \in Seq(RtpPacket), <1>3, wb = Numbered(b, x + m, t), n = Len(b), NumberedIs
<1>7. Len(wc) = m + n /\ \A i \in 1 .. m + n : wc[i] = Item(x, i, c[i])
  BY ONLY <1>2, x \in Nat, wc = Numbered(c, x, t), NumberedIs
<1> HIDE DEF Item
<1>8. ASSUME NEW i \in 1 .. m + n PROVE wc[i] = IF i <= m THEN wa[i] ELSE wb[i - m]
  <2>1. CASE i <= m
    <3>1. i \in 1 .. m
      BY ONLY <1>2, <2>1, i \in 1 .. m + n
    <3> QED BY ONLY <1>2, <1>5, <1>7, <2>1, <3>1, i \in 1 .. m + n
  <2>2. CASE ~(i <= m)
    <3> PICK j : j = i - m
      OBVIOUS
    <3>1. j \in 1 .. n /\ m + j = i /\ x + m + j - 1 = x + i - 1
      BY ONLY <1>2, <2>2, i \in 1 .. m + n, j = i - m, x \in Nat
    <3>2. c[i] = b[j]
      BY ONLY <1>2, <3>1
    <3>3. Item(x + m, j, b[j]) = Item(x, i, c[i])
      BY ONLY <3>1, <3>2, Zenon DEF Item
    <3>4. wb[j] = wc[i]
      BY ONLY <1>6, <1>7, <3>1, <3>3, i \in 1 .. m + n
    <3> QED BY ONLY <2>2, <3>4, j = i - m
  <2> QED BY ONLY <2>1, <2>2
<1>9. ASSUME NEW Q, wa \in Seq(Q), wb \in Seq(Q), wc \in Seq(Q) PROVE wc = wa \o wb
  <2> PICK d : d = wa \o wb
    OBVIOUS
  <2>1. d \in Seq(Q) /\ Len(d) = m + n
        /\ \A i \in 1 .. m + n : d[i] = IF i <= m THEN wa[i] ELSE wb[i - m]
    BY ONLY <1>5, <1>6, <1>9, ConcatProperties, d = wa \o wb
  <2> QED BY ONLY <1>7, <1>8, <1>9, <2>1, SeqEqual, d = wa \o wb
<1> QED BY ONLY <1>4, <1>9, m = Len(a), c = a \o b, wa = Numbered(a, x, t),
                wb = Numbered(b, x + m, t), wc = Numbered(c, x, t)

-----------------------------------------------------------------------------
(* A product grows with its factor. *)
LEMMA TimesMono ==
  ASSUME NEW n \in Nat, NEW a \in Nat, NEW b \in Nat, a <= b
  PROVE  a * n <= b * n /\ a * n \in Nat /\ b * n \in Nat
OBVIOUS

(* The bytes in the first k fragments of a body of b bytes. *)
Upto(k, last, b, room) == IF k = last THEN b ELSE k * room

(* Each of the fragments, at least two, has some of the body, and they have it all. *)
Fragmented(b, room, last) ==
  /\ last \in Nat /\ last >= 2 /\ Upto(0, last, b, room) = 0
  /\ \A k \in 1 .. last :
       /\ Upto(k - 1, last, b, room) = (k - 1) * room
       /\ Upto(k - 1, last, b, room) \in Nat /\ Upto(k, last, b, room) \in Nat
       /\ Upto(k, last, b, room) <= b
       /\ Upto(k, last, b, room) - Upto(k - 1, last, b, room) \in 1 .. room

(* The rounded-up division of PackFuA gives the number of such fragments. *)
LEMMA FragmentSizes ==
  ASSUME NEW b \in Nat, NEW room \in Nat \ {0}, b > room,
         NEW last, last = (b + room - 1) \div room
  PROVE  Fragmented(b, room, last)
<1> PICK e, c : e = (b + room - 1) % room /\ c = room * last
  OBVIOUS
<1>1. b + room - 1 = c + e /\ e \in 0 .. room - 1 /\ last \in Int
  <2>1. b + room - 1 \in Int
    OBVIOUS
  <2> QED BY <2>1, DivMod
<1>2. c \in Int /\ last * room = c /\ (last - 1) * room = c - room
  BY ONLY <1>1, c = room * last, room \in Nat \ {0}
<1>3. last >= 2
  <2> SUFFICES ASSUME ~(last >= 2) PROVE FALSE
    OBVIOUS
  <2>1. c <= room
    <3>1. 1 - last >= 0
      BY ONLY <1>1, ~(last >= 2)
    <3>2. room * (1 - last) = room - c
      BY ONLY <1>1, c = room * last, room \in Nat \ {0}
    <3>3. room * (1 - last) >= 0
      BY ONLY <1>1, <3>1, room \in Nat \ {0}
    <3> QED BY ONLY <1>2, <3>2, <3>3, room \in Nat \ {0}
  <2> QED BY ONLY <1>1, <1>2, <2>1, b \in Nat, room \in Nat \ {0}, b > room
<1>4. c - room < b /\ b <= c
  BY ONLY <1>1, <1>2, b \in Nat, room \in Nat \ {0}
<1>5. last \in Nat
  BY ONLY <1>1, <1>3
<1>6. Upto(0, last, b, room) = 0
  <2>1. 0 # last /\ 0 * room = 0
    BY ONLY <1>3, <1>5, room \in Nat \ {0}
  <2> QED BY ONLY <2>1 DEF Upto
<1>7. ASSUME NEW k \in 1 .. last
      PROVE  /\ Upto(k - 1, last, b, room) = (k - 1) * room
             /\ Upto(k - 1, last, b, room) \in Nat /\ Upto(k, last, b, room) \in Nat
             /\ Upto(k, last, b, room) <= b
             /\ Upto(k, last, b, room) - Upto(k - 1, last, b, room) \in 1 .. room
  <2>1. k - 1 # last /\ k - 1 \in Nat /\ k - 1 <= last - 1 /\ k \in Nat /\ last - 1 \in Nat
    BY ONLY <1>3, <1>5, k \in 1 .. last
  <2>2. Upto(k - 1, last, b, room) = (k - 1) * room
    BY ONLY <2>1 DEF Upto
  <2>3. (k - 1) * room \in Nat
    BY ONLY <2>1, room \in Nat \ {0}
  <2>4. CASE k = last
    <3>1. Upto(k, last, b, room) = b /\ (k - 1) * room = c - room
      BY ONLY <1>2, <2>4 DEF Upto
    <3>2. b - (c - room) \in 1 .. room
      BY ONLY <1>1, <1>2, <1>4, b \in Nat, room \in Nat \ {0}
    <3> QED BY ONLY <2>2, <2>3, <3>1, <3>2, b \in Nat
  <2>5. CASE k # last
    <3>1. Upto(k, last, b, room) = k * room /\ k <= last - 1
      BY ONLY <1>5, <2>5, k \in 1 .. last DEF Upto
    <3>2. k * room <= c - room /\ k * room \in Nat
      BY ONLY <1>2, <2>1, <3>1, room \in Nat \ {0}, TimesMono
    <3>3. k * room = (k - 1) * room + room
      BY ONLY <2>1, room \in Nat \ {0}
    <3> PICK d, f : d = k * room /\ f = (k - 1) * room
      OBVIOUS
    <3>4. d <= b /\ d - f \in 1 .. room
      BY ONLY <1>2, <1>4, <2>3, <3>2, <3>3, b \in Nat, room \in Nat \ {0}, d = k * room,
              f = (k - 1) * room
    <3> QED BY ONLY <2>2, <2>3, <3>1, <3>2, <3>4, d = k * room, f = (k - 1) * room
  <2> QED BY ONLY <2>4, <2>5
<1> QED BY ONLY <1>3, <1>5, <1>6, <1>7 DEF Fragmented

(* The fragments of a unit that is too large for one packet. *)
FragmentOf(data, m, room, last, k) ==
  [fu |-> TRUE, nal |-> Head(data), start |-> k = 1, end |-> k = last,
   marker |-> k = last /\ m,
   payload |-> SubSeq(Tail(data), (k - 1) * room + 1, Upto(k, last, Len(Tail(data)), room))]

(* PackFuA makes them. *)
LEMMA PackFuAIs ==
  ASSUME NEW data, NEW m, NEW room, room = kMaxRtpPayloadSize - 2,
         NEW last, last = (Len(Tail(data)) + room - 1) \div room
  PROVE  PackFuA(data, m) = [k \in 1 .. last |-> FragmentOf(data, m, room, last, k)]
BY Zenon DEF PackFuA, FragmentOf, Upto

(* The fields of a fragment. *)
IsFragment(f, data, m, room, last, k) ==
  /\ f.fu /\ (f.start <=> k = 1) /\ (f.end <=> k = last) /\ (f.marker <=> k = last /\ m)
  /\ f.nal = Head(data)
  /\ f.payload = SubSeq(Tail(data), (k - 1) * room + 1,
                        Upto(k, last, Len(Tail(data)), room))

(* It has them. *)
LEMMA FragmentFields ==
  ASSUME NEW data, NEW m \in BOOLEAN, NEW room, NEW last, NEW k, NEW f,
         f = FragmentOf(data, m, room, last, k)
  PROVE  IsFragment(f, data, m, room, last, k)
BY Zenon DEF FragmentOf, IsFragment

-----------------------------------------------------------------------------
(* What has come of a unit with its first k fragments. *)
Part(data, last, room, k) ==
  IF k = 0 THEN <<>>
  ELSE <<Head(data)>> \o SubSeq(Tail(data), 1, Upto(k, last, Len(Tail(data)), room))

(* What a fragment has is put behind what came before it, until the unit is complete. *)
Grows(data, last, room) ==
  /\ last \in Nat /\ last >= 2 /\ Part(data, last, room, last) = data
  /\ \A k \in 1 .. last :
       LET piece == SubSeq(Tail(data), (k - 1) * room + 1,
                           Upto(k, last, Len(Tail(data)), room))
       IN  /\ Part(data, last, room, k) # <<>>
           /\ (IF k = 1 THEN <<Head(data)>> ELSE Part(data, last, room, k - 1)) \o piece
                = Part(data, last, room, k)
           /\ piece \in Seq(Nat) /\ Len(piece) \in 1 .. room

(* The fragments of a unit do that. *)
LEMMA PartGrows ==
  ASSUME NEW data \in Seq(Nat), NEW room \in Nat \ {0}, Len(data) > room + 1,
         NEW last, last = (Len(Tail(data)) + room - 1) \div room
  PROVE  Grows(data, last, room)
<1> PICK body, b, nal : body = Tail(data) /\ b = Len(Tail(data)) /\ nal = Head(data)
  OBVIOUS
<1>1. data # <<>> /\ Len(data) \in Nat
  OBVIOUS
<1>2. body \in Seq(Nat) /\ b = Len(data) - 1 /\ nal \in Nat /\ b = Len(body)
  BY ONLY <1>1, data \in Seq(Nat), HeadTailProperties, body = Tail(data), b = Len(Tail(data)),
          nal = Head(data)
<1>3. b \in Nat /\ b > room
  BY ONLY <1>1, <1>2, room \in Nat \ {0}, Len(data) > room + 1
<1> DEFINE U(k) == Upto(k, last, b, room)
<1>4. /\ last \in Nat /\ last >= 2 /\ U(0) = 0
      /\ \A k \in 1 .. last :
           /\ U(k - 1) = (k - 1) * room
           /\ U(k - 1) \in Nat /\ U(k) \in Nat /\ U(k) <= b /\ U(k) - U(k - 1) \in 1 .. room
  <2>1. last = (b + room - 1) \div room
    BY ONLY last = (Len(Tail(data)) + room - 1) \div room, b = Len(Tail(data))
  <2>2. Fragmented(b, room, last)
    BY ONLY <1>3, <2>1, room \in Nat \ {0}, FragmentSizes
  <2> QED BY ONLY <2>2, Zenon DEF Fragmented
<1>5. U(last) = b
  BY DEF Upto
<1> HIDE DEF U
<1>6. <<nal>> \in Seq(Nat) /\ Len(<<nal>>) = 1
  BY ONLY <1>2
<1>7. <<nal>> \o body = data
  <2> PICK c : c = <<nal>> \o body
    OBVIOUS
  <2>1. c \in Seq(Nat) /\ Len(c) = 1 + b
        /\ \A i \in 1 .. 1 + b : c[i] = IF i <= 1 THEN nal ELSE body[i - 1]
    <3>1. c \in Seq(Nat) /\ Len(c) = Len(<<nal>>) + Len(body)
          /\ \A i \in 1 .. Len(<<nal>>) + Len(body) :
               c[i] = IF i <= Len(<<nal>>) THEN <<nal>>[i] ELSE body[i - Len(<<nal>>)]
      BY ONLY <1>2, <1>6, ConcatProperties, c = <<nal>> \o body
    <3>2. \A i \in 1 .. 1 + b : i <= 1 => <<nal>>[i] = nal
      OBVIOUS
    <3> QED BY ONLY <1>2, <1>6, <3>1, <3>2
  <2>2. \A i \in 1 .. b : body[i] = data[i + 1]
    BY ONLY <1>1, <1>2, data \in Seq(Nat), HeadTailProperties, body = Tail(data)
  <2>3. ASSUME NEW i \in 1 .. 1 + b PROVE c[i] = data[i]
    <3>1. CASE i <= 1
      <4>1. i = 1
        BY ONLY <3>1, i \in 1 .. 1 + b, <1>3
      <4>2. nal = data[1]
        BY ONLY nal = Head(data), <1>1, data \in Seq(Nat)
      <4> QED BY ONLY <2>1, <3>1, <4>1, <4>2, i \in 1 .. 1 + b
    <3>2. CASE ~(i <= 1)
      <4>1. i - 1 \in 1 .. b /\ i - 1 + 1 = i
        BY ONLY <3>2, i \in 1 .. 1 + b, <1>3
      <4>2. body[i - 1] = data[i]
        BY ONLY <2>2, <4>1
      <4> QED BY ONLY <2>1, <3>2, <4>2, i \in 1 .. 1 + b
    <3> QED BY ONLY <3>1, <3>2
  <2>4. Len(data) = 1 + b
    BY ONLY <1>1, <1>2
  <2> QED BY ONLY <2>1, <2>3, <2>4, data \in Seq(Nat), SeqEqual, c = <<nal>> \o body
<1>8. \A k : k # 0 => Part(data, last, room, k) = <<nal>> \o SubSeq(body, 1, U(k))
  BY ONLY body = Tail(data), b = Len(Tail(data)), nal = Head(data), Zenon DEF Part, U
<1>9. Part(data, last, room, last) = data
  <2>1. SubSeq(body, 1, b) = body /\ last # 0
    BY ONLY <1>2, <1>4, SubSeqFull
  <2> QED BY ONLY <1>5, <1>7, <1>8, <2>1
<1>10. ASSUME NEW k \in 1 .. last, NEW piece, piece = SubSeq(body, (k - 1) * room + 1, U(k))
       PROVE  /\ Part(data, last, room, k) # <<>>
              /\ (IF k = 1 THEN <<nal>> ELSE Part(data, last, room, k - 1)) \o piece
                   = Part(data, last, room, k)
              /\ piece \in Seq(Nat) /\ Len(piece) \in 1 .. room
  <2> PICK u, v : u = U(k - 1) /\ v = U(k)
    OBVIOUS
  <2>1. u \in Nat /\ v \in Nat /\ v <= b /\ v - u \in 1 .. room /\ (k - 1) * room = u
    BY ONLY <1>4, k \in 1 .. last, u = U(k - 1), v = U(k)
  <2>2. piece = SubSeq(body, u + 1, v)
    BY ONLY <2>1, piece = SubSeq(body, (k - 1) * room + 1, U(k)), v = U(k)
  <2>3. /\ u + 1 \in Int /\ v \in Int /\ u + 1 <= v /\ v - (u + 1) + 1 = v - u
        /\ u \in 0 .. Len(body) /\ v \in u .. Len(body) /\ 1 \in 1 .. Len(body) + 1
        /\ u \in 1 - 1 .. Len(body)
    <3>1. Len(body) = b
      BY ONLY <1>2
    <3>2. /\ u + 1 \in Int /\ v \in Int /\ u + 1 <= v /\ v - (u + 1) + 1 = v - u
      BY ONLY <2>1, room \in Nat \ {0}
    <3>3. u \in 0 .. b /\ v \in u .. b /\ 1 \in 1 .. b + 1 /\ u \in 1 - 1 .. b
      BY ONLY <1>3, <2>1, room \in Nat \ {0}
    <3> QED BY ONLY <3>1, <3>2, <3>3
  <2>4. \A l, n \in Nat : n <= b => \A i \in l + 1 .. n : body[i] \in Nat
    <3>1. \A i \in 1 .. b : body[i] \in Nat
      BY ONLY <1>2
    <3>2. \A l, n \in Nat : n <= b => \A i \in l + 1 .. n : i \in 1 .. b
      BY ONLY <1>3
    <3> QED BY ONLY <3>1, <3>2
  <2>5. piece \in Seq(Nat) /\ Len(piece) \in 1 .. room
    <3>1. \A i \in u + 1 .. v : body[i] \in Nat
      BY ONLY <2>1, <2>4
    <3> QED BY ONLY <2>1, <2>2, <2>3, <3>1, SubSeqProperties
  <2> PICK w : w = SubSeq(body, 1, v)
    OBVIOUS
  <2>6. w \in Seq(Nat)
    <3>1. \A i \in 0 + 1 .. v : body[i] \in Nat
      BY ONLY <2>1, <2>4
    <3>2. 0 + 1 = 1 /\ 1 \in Int
      OBVIOUS
    <3> QED BY ONLY <2>3, <3>1, <3>2, SubSeqProperties, w = SubSeq(body, 1, v)
  <2>7. Part(data, last, room, k) = <<nal>> \o w
    <3>1. k # 0
      BY ONLY k \in 1 .. last
    <3> QED BY ONLY <1>8, <3>1, v = U(k), w = SubSeq(body, 1, v)
  <2>8. <<nal>> \o w # <<>>
    <3>1. Len(<<nal>> \o w) = 1 + Len(w) /\ Len(w) \in Nat
      BY ONLY <1>6, <2>6, ConcatProperties, LenProperties
    <3>2. Len(<<>>) = 0
      OBVIOUS
    <3> QED BY ONLY <3>1, <3>2
  <2>9. (IF k = 1 THEN <<nal>> ELSE Part(data, last, room, k - 1)) \o piece
          = Part(data, last, room, k)
    <3>1. CASE k = 1
      <4>1. u = 0
        BY ONLY <1>4, <3>1, u = U(k - 1)
      <4>2. piece = w
        BY ONLY <2>2, <4>1, w = SubSeq(body, 1, v)
      <4> QED BY ONLY <2>7, <3>1, <4>2
    <3>2. CASE k # 1
      <4> PICK y : y = SubSeq(body, 1, u)
        OBVIOUS
      <4>1. y \in Seq(Nat)
        <5>1. \A i \in 0 + 1 .. u : body[i] \in Nat
          <6>1. 0 \in Nat /\ u <= b
            BY ONLY <2>1, <2>3, <1>2
          <6> QED BY ONLY <2>1, <2>4, <6>1
        <5>2. 0 + 1 = 1 /\ 1 \in Int /\ u \in Int
          BY ONLY <2>1
        <5> QED BY ONLY <5>1, <5>2, SubSeqProperties, y = SubSeq(body, 1, u)
      <4>2. Part(data, last, room, k - 1) = <<nal>> \o y
        <5>1. k - 1 # 0
          BY ONLY <3>2, k \in 1 .. last, <1>4
        <5> QED BY ONLY <1>8, <5>1, u = U(k - 1), y = SubSeq(body, 1, u)
      <4>3. y \o piece = w
        <5>1. 1 \in 1 .. Len(body) + 1
          BY ONLY <2>3
        <5>2. u \in 1 - 1 .. Len(body)
          BY ONLY <2>3
        <5>3. v \in u .. Len(body)
          BY ONLY <2>3
        <5>4. body \in Seq(Nat)
          BY ONLY <1>2
        <5>5. SubSeq(body, 1, u) \o SubSeq(body, u + 1, v) = SubSeq(body, 1, v)
          BY ONLY <5>1, <5>2, <5>3, <5>4, ConcatAdjacentSubSeq, Zenon
        <5> QED BY ONLY <2>2, <5>5, y = SubSeq(body, 1, u), w = SubSeq(body, 1, v)
      <4>4. (<<nal>> \o y) \o piece = <<nal>> \o w
        <5> PICK g : g = <<nal>>
          OBVIOUS
        <5>1. g \in Seq(Nat)
          BY ONLY <1>6, g = <<nal>>
        <5>2. (g \o y) \o piece = g \o (y \o piece)
          <6>1. piece \in Seq(Nat)
            BY ONLY <2>5
          <6>2. Concat(Concat(g, y), piece) = Concat(g, Concat(y, piece))
            BY ONLY <4>1, <5>1, <6>1, ConcatGroups
          <6> QED BY ONLY <6>2, Zenon DEF Concat
        <5> QED BY ONLY <4>3, <5>2, g = <<nal>>, Zenon
      <4> QED BY ONLY <2>7, <3>2, <4>2, <4>4
    <3> QED BY ONLY <3>1, <3>2
  <2> QED BY ONLY <2>5, <2>7, <2>8, <2>9
<1> QED BY ONLY <1>4, <1>9, <1>10, body = Tail(data), b = Len(Tail(data)), nal = Head(data), Zenon
        DEF U, Grows

-----------------------------------------------------------------------------
(* The packets of a unit are packets of a stream, and the receiver makes the unit of them. *)
Arrives(packets, x, t0, t, units, unit, m, fs) ==
  /\ packets \in Seq(RtpPacket)
  /\ Rx!Folded(State(x, t0, <<>>, units, fs), Numbered(packets, x, t))
       = Done(x + Len(packets), t, units, unit, m, fs)

(* A unit that fits comes in one packet. *)
LEMMA SingleArrives ==
  ASSUME NEW data \in Seq(Nat), Len(data) \in 1 .. kMaxRtpPayloadSize, NEW m \in BOOLEAN,
         NEW x \in Nat, NEW t0, NEW t, NEW units, NEW fs, units # <<>> => t = t0
  PROVE  Arrives(PackSingNalu(data, m), x, t0, t, units, data, m, fs)
<1> PICK q : q = [fu |-> FALSE, marker |-> m, payload |-> data]
  OBVIOUS
<1>1. q \in RtpPacket /\ ~q.fu /\ q.marker = m /\ q.payload = data
  BY DEF RtpPacket
<1>2. PackSingNalu(data, m) = <<q>>
  BY DEF PackSingNalu
<1>3. <<q>> \in Seq(RtpPacket) /\ Len(<<q>>) = 1
  BY <1>1
<1> PICK p : p = [seq |-> (x + 1 - 1) % SeqModulus, timestamp |-> t, packet |-> q]
  OBVIOUS
<1>4. Numbered(<<q>>, x, t) = <<p>>
  <2> PICK w : w = Numbered(<<q>>, x, t)
    OBVIOUS
  <2> PICK s : s = <<q>>
    OBVIOUS
  <2>1. s \in Seq(RtpPacket) /\ Len(s) = 1 /\ s[1] = q
    BY ONLY <1>3, s = <<q>>
  <2>2. /\ Len(w) = 1 /\ \A i \in 1 .. 1 :
             w[i] = [seq |-> (x + i - 1) % SeqModulus, timestamp |-> t, packet |-> s[i]]
    <3>1. w = Numbered(s, x, t)
      BY ONLY s = <<q>>, w = Numbered(<<q>>, x, t)
    <3>2. s \in Seq(RtpPacket)
      BY ONLY <2>1
    <3>3. /\ Len(w) = Len(s) /\ \A i \in 1 .. Len(s) :
             w[i] = [seq |-> (x + i - 1) % SeqModulus, timestamp |-> t, packet |-> s[i]]
      BY ONLY <3>1, <3>2, x \in Nat, NumberedIs
    <3> QED BY ONLY <2>1, <3>3, Zenon
  <2>3. \A i \in 1 .. 1 : w[i] = p
    <3>1. \A i \in 1 .. 1 : i = 1
      OBVIOUS
    <3> QED BY ONLY <2>1, <2>2, <3>1, Zenon,
                    p = [seq |-> (x + 1 - 1) % SeqModulus, timestamp |-> t, packet |-> q]
  <2>4. w = [i \in 1 .. 1 |-> w[i]]
    <3>1. w = [i \in 1 .. Len(<<q>>) |-> w[i]]
      BY ONLY w = Numbered(<<q>>, x, t) DEF Numbered
    <3> QED BY ONLY <1>3, <3>1
  <2>5. w \in Seq({p})
    <3> PICK h : h = [i \in 1 .. 1 |-> p]
      OBVIOUS
    <3>1. h \in Seq({p})
      BY ONLY h = [i \in 1 .. 1 |-> p]
    <3>2. w = h
      BY ONLY <2>3, <2>4, h = [i \in 1 .. 1 |-> p]
    <3> QED BY ONLY <3>1, <3>2
  <2> PICK v : v = <<p>>
    OBVIOUS
  <2>6. v \in Seq({p}) /\ Len(v) = 1 /\ v[1] = p /\ \A i \in 1 .. 1 : i = 1
    BY ONLY v = <<p>>
  <2> QED BY ONLY <2>2, <2>3, <2>5, <2>6, SeqEqual, v = <<p>>, w = Numbered(<<q>>, x, t)
<1>5. Comes(p, x, t, data) /\ p.packet = q
  <2>1. x + 1 - 1 = x
    OBVIOUS
  <2> QED BY ONLY <1>1, <2>1, p = [seq |-> (x + 1 - 1) % SeqModulus, timestamp |-> t, packet |-> q]
          DEF Comes
<1>6. Receive(State(x, t0, <<>>, units, fs), p) = Done(x + 1, t, units, data, p.packet.marker, fs)
  BY <1>1, <1>5, ReceiveSingle
<1>7. Rx!Folded(State(x, t0, <<>>, units, fs), <<p>>) = Done(x + 1, t, units, data, m, fs)
  BY ONLY <1>1, <1>5, <1>6, Rx!FoldedOne, Zenon
<1> QED BY ONLY <1>2, <1>3, <1>4, <1>7, Zenon DEF Arrives

(* One that does not comes in fragments. *)
LEMMA FragmentsArrive ==
  ASSUME NEW data \in Seq(Nat), Len(data) > kMaxRtpPayloadSize, NEW m \in BOOLEAN,
         NEW x \in Nat, NEW t0, NEW t, NEW units, NEW fs, units # <<>> => t = t0
  PROVE  Arrives(PackFuA(data, m), x, t0, t, units, data, m, fs)
<1> PICK room, last : /\ room = kMaxRtpPayloadSize - 2
                      /\ last = (Len(Tail(data)) + room - 1) \div room
  OBVIOUS
<1>1. room \in Nat \ {0} /\ Len(data) > room + 1 /\ kMaxRtpPayloadSize = room + 2
  BY PacketizerAssumption
<1> DEFINE Piece1(k) == SubSeq(Tail(data), (k - 1) * room + 1,
                               Upto(k, last, Len(Tail(data)), room))
           Sofar(k) == Part(data, last, room, k)
<1>0. last \in Nat /\ last >= 2
  BY ONLY <1>1, data \in Seq(Nat), last = (Len(Tail(data)) + room - 1) \div room, PartGrows
          DEF Grows
<1>2. /\ Sofar(last) = data
      /\ \A k \in 1 .. last :
           /\ Sofar(k) # <<>>
           /\ (IF k = 1 THEN <<Head(data)>> ELSE Sofar(k - 1)) \o Piece1(k) = Sofar(k)
           /\ Piece1(k) \in Seq(Nat) /\ Len(Piece1(k)) \in 1 .. room
  <2>1. Grows(data, last, room)
    BY ONLY <1>1, data \in Seq(Nat), last = (Len(Tail(data)) + room - 1) \div room, PartGrows
  <2> QED BY ONLY <2>1, Zenon DEF Grows
<1>3. Sofar(0) = <<>>
  BY DEF Part
<1> PICK packets : packets = PackFuA(data, m)
  OBVIOUS
<1>4. packets = [k \in 1 .. last |-> FragmentOf(data, m, room, last, k)]
  BY PackFuAIs
<1>5. ASSUME NEW k \in 1 .. last
      PROVE  /\ packets[k] = FragmentOf(data, m, room, last, k)
             /\ IsFragment(packets[k], data, m, room, last, k)
  <2>1. packets[k] = FragmentOf(data, m, room, last, k)
    BY ONLY <1>4, k \in 1 .. last, Zenon
  <2> QED BY ONLY <2>1, m \in BOOLEAN, FragmentFields
<1>6. packets \in Seq(RtpPacket) /\ Len(packets) = last
  <2>1. ASSUME NEW k \in 1 .. last PROVE FragmentOf(data, m, room, last, k) \in RtpPacket
    <3>1. Head(data) \in Nat /\ Piece1(k) \in Seq(Nat)
      <4>1. data # <<>>
        BY <1>1
      <4> QED BY ONLY <1>2, <4>1, data \in Seq(Nat), k \in 1 .. last, HeadTailProperties
    <3>2. (k = 1) \in BOOLEAN /\ (k = last) \in BOOLEAN /\ (k = last /\ m) \in BOOLEAN
      OBVIOUS
    <3> QED BY ONLY <3>1, <3>2, Zenon DEF FragmentOf, RtpPacket
  <2>2. ASSUME NEW Q, NEW g, \A k \in 1 .. last : g[k] \in Q, g = [k \in 1 .. last |-> g[k]]
        PROVE  g \in Seq(Q) /\ Len(g) = last
    <3> PICK h : h = [k \in 1 .. last |-> g[k]]
      OBVIOUS
    <3>1. h \in Seq(Q) /\ Len(h) = last
      <4>1. \A k \in 1 .. last : g[k] \in Q
        BY ONLY <2>2
      <4> QED BY ONLY <1>0, <4>1, h = [k \in 1 .. last |-> g[k]]
    <3> QED BY ONLY <2>2, <3>1, h = [k \in 1 .. last |-> g[k]]
  <2>3. packets = [k \in 1 .. last |-> packets[k]] /\ \A k \in 1 .. last : packets[k] \in RtpPacket
    <3>1. packets = [k \in 1 .. last |-> packets[k]]
      BY ONLY <1>4
    <3> QED BY ONLY <1>5, <2>1, <3>1
  <2> QED BY ONLY <2>2, <2>3
<1> HIDE DEF Piece1, Sofar
<1> PICK w : w = Numbered(packets, x, t)
  OBVIOUS
<1>7. /\ DOMAIN w = 1 .. last
      /\ \A i \in 1 .. last :
           w[i] = [seq |-> (x + i - 1) % SeqModulus, timestamp |-> t, packet |-> packets[i]]
  BY ONLY <1>6, x \in Nat, NumberedIs, w = Numbered(packets, x, t)
<1> DEFINE Upon(k) == IF k = last THEN Done(x + last, t, units, data, m, fs)
                      ELSE State(x + k, IF k = 0 THEN t0 ELSE t, Sofar(k), units, fs)
           D == [k \in 0 .. last |-> {Upon(k)}]
<1>8. ASSUME NEW i \in 1 .. last PROVE Receive(Upon(i - 1), w[i]) = Upon(i)
  <2> PICK p, j, part, time : /\ p = w[i] /\ j = i - 1 /\ part = Sofar(i - 1)
                              /\ time = IF i = 1 THEN t0 ELSE t
    OBVIOUS
  <2>1. /\ i \in Nat /\ j \in Nat /\ j # last /\ (j = 0 <=> i = 1)
        /\ x + j \in Nat /\ x + i - 1 = x + j /\ x + j + 1 = x + i
    BY ONLY <1>0, x \in Nat, i \in 1 .. last, j = i - 1
  <2>2. Upon(i - 1) = State(x + j, time, part, units, fs)
    BY ONLY <2>1, j = i - 1, part = Sofar(i - 1), time = IF i = 1 THEN t0 ELSE t, Zenon DEF Upon
  <2>3. part = <<>> <=> i = 1
    <3>1. CASE i = 1
      BY ONLY <1>3, <2>1, <3>1, j = i - 1, part = Sofar(i - 1)
    <3>2. CASE i # 1
      <4>1. i - 1 \in 1 .. last
        BY ONLY <1>0, <3>2, i \in 1 .. last
      <4> QED BY ONLY <1>2, <3>2, <4>1, part = Sofar(i - 1)
    <3> QED BY ONLY <3>1, <3>2
  <2>4. units # <<>> \/ part # <<>> => t = time
    BY <2>3
  <2>5. Comes(p, x + j, t, Piece1(i))
    <3>1. p = [seq |-> (x + i - 1) % SeqModulus, timestamp |-> t, packet |-> packets[i]]
      BY ONLY <1>7, i \in 1 .. last, p = w[i], Zenon
    <3>2. packets[i].payload = Piece1(i)
      BY ONLY <1>5, i \in 1 .. last, Zenon DEF IsFragment, Piece1
    <3> QED BY ONLY <2>1, <3>1, <3>2 DEF Comes
  <2>6. /\ p.packet.fu /\ (p.packet.start <=> i = 1) /\ (p.packet.end <=> i = last)
        /\ (p.packet.marker <=> i = last /\ m) /\ p.packet.nal = Head(data)
    <3>1. p.packet = packets[i]
      <4>1. p = [seq |-> (x + i - 1) % SeqModulus, timestamp |-> t, packet |-> packets[i]]
        BY ONLY <1>7, i \in 1 .. last, p = w[i], Zenon
      <4> QED BY ONLY <4>1
    <3>2. IsFragment(packets[i], data, m, room, last, i)
      BY ONLY <1>5, i \in 1 .. last
    <3> QED BY ONLY <3>1, <3>2, Zenon DEF IsFragment
  <2>7. Len(Piece1(i)) + 2 \in 1 .. kMaxRtpPayloadSize
    <3>1. Len(Piece1(i)) \in 1 .. room
      BY ONLY <1>2, i \in 1 .. last, Zenon
    <3> QED BY ONLY <1>1, <3>1
  <2>8. Sofar(i) = (IF p.packet.start THEN <<p.packet.nal>> ELSE part) \o Piece1(i)
    BY ONLY <1>2, <2>6, i \in 1 .. last, part = Sofar(i - 1), Zenon
  <2>9. 1 # last
    BY ONLY <1>0
  <2>10. /\ p.packet.start <=> part = <<>>
         /\ ~(p.packet.start /\ p.packet.end) /\ (p.packet.marker => p.packet.end)
    BY ONLY <2>3, <2>6, <2>9, Zenon
  <2>11. Receive(State(x + j, time, part, units, fs), p)
           = IF p.packet.end THEN Done(x + j + 1, t, units, Sofar(i), p.packet.marker, fs)
             ELSE State(x + j + 1, t, Sofar(i), units, fs)
    <3>1. x + j \in Nat /\ p.packet.fu
      BY ONLY <2>1, <2>6
    <3>2. ~(p.packet.start /\ p.packet.end)
      BY ONLY <2>10
    <3>3. (p.packet.start <=> part = <<>>) /\ (p.packet.marker => p.packet.end)
      BY ONLY <2>10
    <3> PICK y, c, u : y = x + j /\ c = Piece1(i) /\ u = Sofar(i)
      OBVIOUS
    <3>4. y \in Nat /\ Comes(p, y, t, c)
      BY ONLY <2>5, <3>1, y = x + j, c = Piece1(i)
    <3>5. Len(c) + 2 \in 1 .. kMaxRtpPayloadSize
      BY ONLY <2>7, c = Piece1(i)
    <3>6. u = (IF p.packet.start THEN <<p.packet.nal>> ELSE part) \o c
      BY ONLY <2>8, c = Piece1(i), u = Sofar(i)
    <3>7. Receive(State(y, time, part, units, fs), p)
            = IF p.packet.end THEN Done(y + 1, t, units, u, p.packet.marker, fs)
              ELSE State(y + 1, t, u, units, fs)
      <4>1. Continues(p, part, c, u)
        BY ONLY <3>1, <3>2, <3>3, <3>5, <3>6, Zenon DEF Continues
      <4>2. SameFrame(units, part, t, time)
        BY ONLY <2>4 DEF SameFrame
      <4>3. Receive(State(y, time, part, units, fs), p) = AfterFragment(y, t, units, u, p, fs)
        BY ONLY <3>4, <4>1, <4>2, ReceiveFragment
      <4> QED BY ONLY <4>3, Zenon DEF AfterFragment
    <3> QED BY ONLY <3>7, y = x + j, u = Sofar(i), Zenon
  <2>12. CASE i = last
    <3>1. Done(x + i, t, units, Sofar(i), p.packet.marker, fs)
            = Done(x + last, t, units, data, m, fs)
      BY ONLY <1>2, <2>6, <2>12, Zenon DEF Done
    <3>2. Upon(i) = Done(x + last, t, units, data, m, fs)
      BY ONLY <2>12, Zenon DEF Upon
    <3> QED BY ONLY <2>1, <2>2, <2>6, <2>11, <2>12, <3>1, <3>2, p = w[i], Zenon
  <2>13. CASE i # last
    <3>1. Upon(i) = State(x + i, t, Sofar(i), units, fs)
      <4>1. i # 0
        BY ONLY i \in 1 .. last
      <4> QED BY ONLY <2>13, <4>1, Zenon DEF Upon
    <3> QED BY ONLY <2>1, <2>2, <2>6, <2>11, <2>13, <3>1, p = w[i], Zenon
  <2> QED BY ONLY <2>12, <2>13
<1>9. Upon(0) = State(x, t0, <<>>, units, fs)
  <2>1. 0 # last /\ x + 0 = x
    BY ONLY <1>0, x \in Nat
  <2> QED BY ONLY <1>3, <2>1, Zenon DEF Upon
<1>10. Upon(last) = Done(x + last, t, units, data, m, fs)
  BY Zenon DEF Upon
<1> HIDE DEF Upon
<1>11. Rx!Folded(Upon(0), w) \in D[last]
  <2>1. Upon(0) \in D[0]
    BY ONLY <1>0
  <2>2. ASSUME NEW i \in 1 .. last, NEW d \in D[i - 1] PROVE Receive(d, w[i]) \in D[i]
    <3>1. i - 1 \in 0 .. last /\ i \in 0 .. last
      BY ONLY <1>0, i \in 1 .. last
    <3>2. d = Upon(i - 1)
      BY ONLY <3>1, d \in D[i - 1]
    <3> QED BY ONLY <1>8, <3>1, <3>2, i \in 1 .. last
  <2> HIDE DEF D
  <2> QED BY ONLY <1>0, <1>7, <2>1, <2>2, Rx!FoldedIn
<1>12. last \in 0 .. last
  BY ONLY <1>0
<1>13. Rx!Folded(Upon(0), w) = Upon(last)
  BY ONLY <1>11, <1>12
<1> QED BY ONLY <1>6, <1>9, <1>10, <1>13, packets = PackFuA(data, m),
           w = Numbered(packets, x, t), Zenon DEF Arrives

(* So does any unit: whether H264RtpPacketizer sends it as it is or in     *)
(* fragments (PackSingNalu and PackFuA, rtp_packet.cpp), its packets fit,  *)
(* and what a receiver makes of them is the unit, with the marker where    *)
(* the frame ends.                                                         *)
THEOREM UnitArrives ==
  ASSUME NEW data \in Seq(Nat), data # <<>>, NEW m \in BOOLEAN,
         NEW x \in Nat, NEW t0, NEW t, NEW units, NEW fs, units # <<>> => t = t0
  PROVE  Arrives(PackUnit(data, m), x, t0, t, units, data, m, fs)
<1>1. Len(data) \in Nat \ {0} /\ kMaxRtpPayloadSize \in Nat
  BY PacketizerAssumption
<1>2. CASE Len(data) <= kMaxRtpPayloadSize
  <2>1. Len(data) \in 1 .. kMaxRtpPayloadSize
    BY ONLY <1>1, <1>2
  <2>2. PackUnit(data, m) = PackSingNalu(data, m)
    BY ONLY <1>2, Zenon DEF PackUnit
  <2>3. Arrives(PackSingNalu(data, m), x, t0, t, units, data, m, fs)
    BY <2>1, SingleArrives
  <2> QED BY ONLY <2>2, <2>3
<1>3. CASE ~(Len(data) <= kMaxRtpPayloadSize)
  <2>1. Len(data) > kMaxRtpPayloadSize
    BY ONLY <1>1, <1>3
  <2>2. PackUnit(data, m) = PackFuA(data, m)
    BY ONLY <1>3, Zenon DEF PackUnit
  <2>3. Arrives(PackFuA(data, m), x, t0, t, units, data, m, fs)
    BY <2>1, FragmentsArrive
  <2> QED BY ONLY <2>2, <2>3
<1> QED BY ONLY <1>2, <1>3

-----------------------------------------------------------------------------
(* The packets of one unit more. *)
LEMMA OneMoreUnit ==
  ASSUME NEW a \in Seq(RtpPacket), NEW b, NEW x \in Nat, NEW t \in Nat, NEW t1, NEW units, NEW unit,
         NEW m, NEW fs, NEW r,
         Rx!Folded(r, Numbered(a, x, t)) = State(x + Len(a), t1, <<>>, units, fs),
         Arrives(b, x + Len(a), t1, t, units, unit, m, fs)
  PROVE  /\ a \o b \in Seq(RtpPacket)
         /\ Rx!Folded(r, Numbered(a \o b, x, t)) = Done(x + Len(a \o b), t, units, unit, m, fs)
<1> PICK y, c : y = x + Len(a) /\ c = a \o b
  OBVIOUS
<1>1. /\ b \in Seq(RtpPacket)
      /\ Rx!Folded(State(y, t1, <<>>, units, fs), Numbered(b, y, t))
           = Done(y + Len(b), t, units, unit, m, fs)
  BY Zenon DEF Arrives
<1>2. /\ c \in Seq(RtpPacket) /\ Len(c) = Len(a) + Len(b) /\ Len(a) \in Nat /\ Len(b) \in Nat
  BY ONLY <1>1, a \in Seq(RtpPacket), c = a \o b, ConcatProperties, LenProperties
<1>3. y \in Nat /\ y + Len(b) = x + Len(c)
  BY ONLY <1>2, x \in Nat, y = x + Len(a)
<1> PICK wa, wb : wa = Numbered(a, x, t) /\ wb = Numbered(b, y, t)
  OBVIOUS
<1>4. Numbered(c, x, t) = wa \o wb
  BY ONLY <1>1, a \in Seq(RtpPacket), x \in Nat, t \in Nat, NumberedConcat, c = a \o b,
          y = x + Len(a), wa = Numbered(a, x, t), wb = Numbered(b, y, t)
<1>5. wa \in Seq(Wire) /\ wb \in Seq(Wire)
  BY ONLY <1>1, <1>3, a \in Seq(RtpPacket), x \in Nat, t \in Nat, NumberedType,
          wa = Numbered(a, x, t), wb = Numbered(b, y, t)
<1>6. Rx!Folded(r, wa \o wb) = Rx!Folded(Rx!Folded(r, wa), wb)
  BY ONLY <1>5, Rx!FoldedConcat
<1>7. Rx!Folded(r, wa) = State(y, t1, <<>>, units, fs)
  BY ONLY wa = Numbered(a, x, t), y = x + Len(a),
          Rx!Folded(r, Numbered(a, x, t)) = State(x + Len(a), t1, <<>>, units, fs)
<1>8. Rx!Folded(r, Numbered(c, x, t)) = Done(x + Len(c), t, units, unit, m, fs)
  BY ONLY <1>1, <1>3, <1>4, <1>6, <1>7, wb = Numbered(b, y, t), Zenon
<1> QED BY ONLY <1>2, <1>8, c = a \o b

(* The units of a frame. *)
UnitsOf(frame) == [i \in DOMAIN frame |-> frame[i].unit]

(* The units of the frames of a source. *)
UnitsOfAll(all) == [k \in DOMAIN all |-> UnitsOf(all[k])]

(* A frame arrives: from the packets that H264RtpPacketizer::Pack makes of *)
(* its byte stream (rtp_packet.cpp), a receiver that has been in order so  *)
(* far reassembles it, unit by unit, has nothing left over, and still is.  *)
THEOREM FrameArrives ==
  ASSUME NEW frame, IsFrame(frame), NEW x \in Nat, NEW t \in Nat, NEW t0, NEW fs,
         NEW packets, packets = PackFrame(ByteStream(frame))
  PROVE  /\ packets \in Seq(RtpPacket)
         /\ Rx!Folded(State(x, t0, <<>>, <<>>, fs), Numbered(packets, x, t))
              = State(x + Len(packets), t, <<>>, <<>>, Append(fs, UnitsOf(frame)))
<1> PICK n, r : n = Len(frame) /\ r = State(x, t0, <<>>, <<>>, fs)
  OBVIOUS
<1> PICK W : W = [k \in 1 .. n |-> PackUnit(frame[k].unit, k = n)]
  OBVIOUS
<1>1. packets = FlattenSeq(W)
  BY FramePackets
<1>2. /\ n \in Nat \ {0} /\ DOMAIN frame = 1 .. n
      /\ \A k \in 1 .. n : frame[k].unit \in Seq(Octet) /\ Len(frame[k].unit) \in Nat \ {0}
  BY FrameUnits
<1>3. \A k \in 1 .. n : frame[k].unit \in Seq(Nat) /\ frame[k].unit # <<>>
  <2>1. ASSUME NEW Q, NEW s \in Seq(Q), Q \subseteq Nat, Len(s) # 0 PROVE s \in Seq(Nat) /\ s # <<>>
    <3>3. s \in Seq(Nat)
      BY ONLY <2>1, SeqMonotonic, Zenon
    <3> QED BY ONLY <2>1, <3>3
  <2> QED BY <1>2, <2>1, CodeBytes
<1>4. ASSUME NEW k \in 1 .. n, NEW y \in Nat, NEW t1, NEW units, units # <<>> => t = t1,
             NEW m \in BOOLEAN, m <=> k = n
      PROVE  Arrives(W[k], y, t1, t, units, frame[k].unit, m, fs)
  <2>1. W[k] = PackUnit(frame[k].unit, m)
    <3>1. m = (k = n)
      BY ONLY m \in BOOLEAN, m <=> k = n
    <3> QED BY ONLY <3>1, k \in 1 .. n, W = [i \in 1 .. n |-> PackUnit(frame[i].unit, i = n)]
  <2>2. frame[k].unit \in Seq(Nat) /\ frame[k].unit # <<>>
    BY ONLY <1>3, k \in 1 .. n
  <2>3. Arrives(PackUnit(frame[k].unit, m), y, t1, t, units, frame[k].unit, m, fs)
    BY <1>4, <2>2, UnitArrives
  <2> QED BY ONLY <2>1, <2>3
<1> DEFINE First(k) == [j \in 1 .. k |-> W[j]]
           All2(k) == FlattenSeq(First(k))
           Us(k) == [j \in 1 .. k |-> frame[j].unit]
           Then(k) == IF k = n THEN State(x + Len(All2(k)), t, <<>>, <<>>, Append(fs, Us(n)))
                      ELSE State(x + Len(All2(k)), IF k = 0 THEN t0 ELSE t, <<>>, Us(k), fs)
           T == {k \in Nat : k <= n => All2(k) \in Seq(RtpPacket)
                                       /\ Rx!Folded(r, Numbered(All2(k), x, t)) = Then(k)}
<1>5. 0 \in T
  <2>1. First(0) = <<>> /\ Us(0) = <<>>
    OBVIOUS
  <2>2. All2(0) = <<>>
    BY ONLY <2>1, FlattenNone
  <2>3. Len(<<>>) = 0 /\ <<>> \in Seq(RtpPacket)
    OBVIOUS
  <2>4. Numbered(<<>>, x, t) = <<>>
    BY ONLY <2>3 DEF Numbered
  <2>5. Rx!Folded(r, <<>>) = r
    BY ONLY Rx!FoldedEmpty
  <2>6. x + 0 = x /\ 0 # n
    BY ONLY <1>2, x \in Nat
  <2> HIDE DEF First, All2, Us
  <2>7. Then(0) = r
    BY ONLY <2>1, <2>2, <2>3, <2>6, r = State(x, t0, <<>>, <<>>, fs), Zenon
  <2> HIDE DEF Then
  <2>8. All2(0) \in Seq(RtpPacket) /\ Rx!Folded(r, Numbered(All2(0), x, t)) = Then(0)
    BY ONLY <2>2, <2>3, <2>4, <2>5, <2>7
  <2> QED BY ONLY <2>8
<1>6. ASSUME NEW k \in Nat, k \in T PROVE k + 1 \in T
  <2>0. k + 1 \in Nat
    OBVIOUS
  <2> HIDE DEF All2, Then
  <2> SUFFICES ASSUME k + 1 <= n
               PROVE  /\ All2(k + 1) \in Seq(RtpPacket)
                      /\ Rx!Folded(r, Numbered(All2(k + 1), x, t)) = Then(k + 1)
    BY <2>0, Zenon
  <2> PICK l, a, b, u, m, t1 : /\ l = k + 1 /\ a = All2(k) /\ b = W[k + 1] /\ u = frame[k + 1].unit
                               /\ m = (k + 1 = n) /\ t1 = IF k = 0 THEN t0 ELSE t
    OBVIOUS
  <2>1. l \in 1 .. n /\ k # n /\ k <= n /\ m \in BOOLEAN /\ (m <=> l = n) /\ l # 0
    <3>1. l \in 1 .. n /\ k # n /\ k <= n /\ l # 0
      BY ONLY <1>2, k \in Nat, k + 1 <= n, l = k + 1
    <3>2. m \in BOOLEAN /\ (m <=> l = n)
      BY ONLY l = k + 1, m = (k + 1 = n)
    <3> QED BY ONLY <3>1, <3>2
  <2>2. a \in Seq(RtpPacket) /\ Rx!Folded(r, Numbered(a, x, t)) = Then(k)
    BY ONLY <1>6, <2>1, a = All2(k), Zenon
  <2>3. Then(k) = State(x + Len(a), t1, <<>>, Us(k), fs)
    BY ONLY <2>1, a = All2(k), t1 = IF k = 0 THEN t0 ELSE t, Zenon DEF Then
  <2>4. Us(k) # <<>> => t = t1
    <3> SUFFICES ASSUME Us(k) # <<>> PROVE t = t1
      OBVIOUS
    <3>1. k # 0
      OBVIOUS
    <3> QED BY ONLY <3>1, t1 = IF k = 0 THEN t0 ELSE t
  <2>5. x + Len(a) \in Nat
    BY ONLY <2>2, x \in Nat, LenProperties
  <2>6. Arrives(b, x + Len(a), t1, t, Us(k), u, m, fs)
    <3> HIDE DEF Us
    <3>1. Arrives(W[l], x + Len(a), t1, t, Us(k), frame[l].unit, m, fs)
      BY ONLY <1>4, <2>1, <2>4, <2>5
    <3> QED BY ONLY <3>1, l = k + 1, b = W[k + 1], u = frame[k + 1].unit
  <2>7. /\ a \o b \in Seq(RtpPacket)
        /\ Rx!Folded(r, Numbered(a \o b, x, t)) = Done(x + Len(a \o b), t, Us(k), u, m, fs)
    <3> HIDE DEF Us
    <3>1. Rx!Folded(r, Numbered(a, x, t)) = State(x + Len(a), t1, <<>>, Us(k), fs)
      BY ONLY <2>2, <2>3
    <3>2. a \in Seq(RtpPacket)
      BY ONLY <2>2
    <3> QED BY ONLY <2>6, <3>1, <3>2, x \in Nat, t \in Nat, OneMoreUnit
  <2>8. All2(l) = a \o b
    <3>1. \A i \in 1 .. n : W[i] \in Seq(RtpPacket)
      <4> SUFFICES ASSUME NEW i \in 1 .. n PROVE W[i] \in Seq(RtpPacket)
        OBVIOUS
      <4> PICK q : q = (i = n)
        OBVIOUS
      <4>1. q \in BOOLEAN /\ (q <=> i = n)
        BY ONLY q = (i = n)
      <4>2. <<>> # <<>> => t = t0
        OBVIOUS
      <4>3. Arrives(W[i], x, t0, t, <<>>, frame[i].unit, q, fs)
        BY ONLY <1>4, <4>1, <4>2, i \in 1 .. n, x \in Nat
      <4> QED BY ONLY <4>3, Zenon DEF Arrives
    <3> PICK f, g : f = First(k) /\ g = First(l)
      OBVIOUS
    <3>2. \A j \in 1 .. k : j \in 1 .. l /\ j \in 1 .. n
      BY ONLY <1>2, <2>1, k \in Nat, l = k + 1
    <3>3. OneMore(RtpPacket, k, f, g)
      <4>1. f = [j \in 1 .. k |-> W[j]] /\ g = [j \in 1 .. k + 1 |-> W[j]]
        BY ONLY f = First(k), g = First(l), l = k + 1
      <4>2. k + 1 \in 1 .. k + 1 /\ \A j \in 1 .. k : j \in 1 .. k + 1
        BY ONLY k \in Nat
      <4>3. /\ (\A j \in 1 .. k : f[j] = W[j] /\ g[j] = W[j])
            /\ g[k + 1] = W[l]
        BY ONLY <4>1, <4>2, l = k + 1
      <4>4. f = [j \in 1 .. k |-> f[j]] /\ g = [j \in 1 .. k + 1 |-> g[j]]
        BY ONLY <4>1
      <4> QED BY ONLY <2>1, <3>1, <3>2, <4>3, <4>4 DEF OneMore
    <3>4. FlattenSeq(g) = FlattenSeq(f) \o g[k + 1]
      <4>1. FlattenSeq(g) = FlattenSeq(f) \o g[k + 1] /\ FlattenSeq(f) \in Seq(RtpPacket)
        BY ONLY <3>3, k \in Nat, FlattenNext
      <4> QED BY ONLY <4>1
    <3>5. g[k + 1] = b
      BY ONLY g = First(l), l = k + 1, b = W[k + 1], <2>1, k \in Nat
    <3> QED BY ONLY <3>4, <3>5, a = All2(k), f = First(k), g = First(l), Zenon DEF All2
  <2>9. Append(Us(k), u) = Us(l)
    <3>1. ASSUME NEW Q, \A j \in 1 .. l : frame[j].unit \in Q PROVE Append(Us(k), u) = Us(l)
      <4> PICK s, v : s = Us(k) /\ v = Us(l)
        OBVIOUS
      <4>1. \A j \in 1 .. k : j \in 1 .. l
        BY ONLY k \in Nat, l = k + 1
      <4>2. s \in Seq(Q) /\ Len(s) = k /\ \A j \in 1 .. k : s[j] = frame[j].unit
        BY ONLY <3>1, <4>1, k \in Nat, s = Us(k)
      <4>3. v \in Seq(Q) /\ Len(v) = l /\ \A j \in 1 .. l : v[j] = frame[j].unit
        BY ONLY <3>1, k \in Nat, l = k + 1, v = Us(l)
      <4>4. u \in Q /\ u = frame[l].unit /\ \A j \in 1 .. l : j = l \/ j \in 1 .. k
        <5>1. l \in 1 .. l /\ \A j \in 1 .. l : j = l \/ j \in 1 .. k
          BY ONLY k \in Nat, l = k + 1
        <5> QED BY ONLY <3>1, <5>1, u = frame[k + 1].unit, l = k + 1
      <4> PICK w : w = Append(s, u)
        OBVIOUS
      <4>5. w \in Seq(Q) /\ Len(w) = l /\ w[l] = u /\ \A j \in 1 .. k : w[j] = s[j]
        BY ONLY <4>2, <4>4, k \in Nat, l = k + 1, w = Append(s, u)
      <4>6. \A j \in 1 .. l : w[j] = v[j]
        BY ONLY <4>2, <4>3, <4>4, <4>5
      <4> QED BY ONLY <4>3, <4>5, <4>6, SeqEqual, s = Us(k), v = Us(l), w = Append(s, u)
    <3>2. \A j \in 1 .. l : frame[j].unit \in Seq(Octet)
      <4>1. \A j \in 1 .. l : j \in 1 .. n
        BY ONLY <1>2, <2>1
      <4> QED BY ONLY <1>2, <4>1
    <3> HIDE DEF Us
    <3> QED BY ONLY <3>1, <3>2
  <2> HIDE DEF Us
  <2>10. Done(x + Len(a \o b), t, Us(k), u, m, fs) = Then(l)
    <3>1. CASE l = n
      BY ONLY <2>1, <2>8, <2>9, <3>1, Zenon DEF Done, Then
    <3>2. CASE l # n
      BY ONLY <2>1, <2>8, <2>9, <3>2, Zenon DEF Done, Then
    <3> QED BY ONLY <3>1, <3>2
  <2> QED BY ONLY <2>7, <2>8, <2>10, l = k + 1, Zenon
<1>7. n \in T
  <2> HIDE DEF T
  <2> QED BY ONLY <1>2, <1>5, <1>6, Loop!NatInd
<1>8. First(n) = W /\ Us(n) = UnitsOf(frame)
  BY ONLY <1>2, W = [k \in 1 .. n |-> PackUnit(frame[k].unit, k = n)] DEF UnitsOf
<1>9. All2(n) = packets
  BY ONLY <1>1, <1>8
<1>10. All2(n) \in Seq(RtpPacket) /\ Rx!Folded(r, Numbered(All2(n), x, t)) = Then(n)
  <2>1. n <= n
    BY ONLY <1>2
  <2> HIDE DEF All2, Then
  <2> QED BY ONLY <1>7, <2>1, Zenon
<1>11. Then(n) = State(x + Len(packets), t, <<>>, <<>>, Append(fs, UnitsOf(frame)))
  <2> HIDE DEF All2, Us
  <2> QED BY ONLY <1>8, <1>9, Zenon
<1> HIDE DEF All2, Then
<1> QED BY ONLY <1>9, <1>10, <1>11, r = State(x, t0, <<>>, <<>>, fs)

-----------------------------------------------------------------------------
(* What the receiver makes of a stream is a fold of Receive. *)
LEMMA ReceivedIs ==
  ASSUME NEW wire
  PROVE  Received(wire) = Rx!Folded(State(0, 0, <<>>, <<>>, <<>>), wire)
<1>1. Before(0) = SeqModulus - 1
  <2> PICK n : n = SeqModulus
    OBVIOUS
  <2>1. n \in Nat \ {0}
    BY PacketizerAssumption
  <2>2. (0 + (n - 1)) % n = n - 1
    BY ONLY <2>1
  <2> QED BY ONLY <2>2, n = SeqModulus DEF Before
<1> PICK r : r = State(0, 0, <<>>, <<>>, <<>>)
  OBVIOUS
<1>2. r = [ok |-> TRUE, seq |-> SeqModulus - 1, timestamp |-> 0, part |-> <<>>,
           units |-> <<>>, frames |-> <<>>]
  BY ONLY <1>1, r = State(0, 0, <<>>, <<>>, <<>>), Zenon DEF State
<1>3. Received(wire) = FoldLeft(Receive, r, wire)
  BY ONLY <1>2, Zenon DEF Received
<1>4. FoldLeft(Receive, r, wire) = Rx!Folded(r, wire)
  BY ONLY DEF Rx!Folded, FoldLeft, Rx!FoldLeft, MapThenFoldSet, Rx!MapThenFoldSet, Max, Rx!Max
<1> QED BY ONLY <1>3, <1>4, r = State(0, 0, <<>>, <<>>, <<>>)

(* The packets of a stream, the number that comes next, and the frames that *)
(* the receiver has.                                                        *)
HasAll(wire, x, fs) ==
  /\ wire \in Seq(Wire) /\ x \in Nat
  /\ Received(wire) = State(x, Received(wire).timestamp, <<>>, <<>>, fs)

(* There is nothing at first. *)
LEMMA HasNone == HasAll(<<>>, 0, <<>>)
<1>1. Received(<<>>) = State(0, 0, <<>>, <<>>, <<>>)
  BY ReceivedIs, Rx!FoldedEmpty
<1>2. Received(<<>>).timestamp = 0
  BY <1>1 DEF State
<1>3. <<>> \in Seq(Wire) /\ 0 \in Nat
  OBVIOUS
<1> QED BY ONLY <1>1, <1>2, <1>3, Zenon DEF HasAll

(* Some packets complete the frames gs. *)
Complete(packets, x, t, fs, gs) ==
  /\ packets \in Seq(RtpPacket)
  /\ \A t0 : Rx!Folded(State(x, t0, <<>>, <<>>, fs), Numbered(packets, x, t))
               = State(x + Len(packets), t, <<>>, <<>>, gs)

(* A stream continues with packets that do. *)
LEMMA HasMore ==
  ASSUME NEW wire, NEW x, NEW fs, HasAll(wire, x, fs), NEW packets, NEW t \in Nat, NEW gs,
         Complete(packets, x, t, fs, gs)
  PROVE  HasAll(wire \o Numbered(packets, x, t), (x + Len(packets)) % SeqModulus, gs)
<1> PICK w, n, t0 : /\ w = Numbered(packets, x, t) /\ n = Len(packets)
                    /\ t0 = Received(wire).timestamp
  OBVIOUS
<1>1. /\ wire \in Seq(Wire) /\ x \in Nat
      /\ Received(wire) = State(x, t0, <<>>, <<>>, fs)
  BY ONLY HasAll(wire, x, fs), t0 = Received(wire).timestamp DEF HasAll
<1>2. /\ packets \in Seq(RtpPacket)
      /\ Rx!Folded(State(x, t0, <<>>, <<>>, fs), w) = State(x + n, t, <<>>, <<>>, gs)
  BY ONLY Complete(packets, x, t, fs, gs), w = Numbered(packets, x, t), n = Len(packets), Zenon
     DEF Complete
<1>3. w \in Seq(Wire) /\ n \in Nat
  BY ONLY <1>1, <1>2, t \in Nat, NumberedType, LenProperties, w = Numbered(packets, x, t),
     n = Len(packets)
<1> PICK v : v = wire \o w
  OBVIOUS
<1>4. v \in Seq(Wire)
  BY ONLY <1>1, <1>3, ConcatProperties, v = wire \o w
<1>5. Received(v) = State(x + n, t, <<>>, <<>>, gs)
  <2> PICK r : r = State(0, 0, <<>>, <<>>, <<>>)
    OBVIOUS
  <2>1. Rx!Folded(r, wire \o w) = Rx!Folded(Rx!Folded(r, wire), w)
    BY ONLY <1>1, <1>3, Rx!FoldedConcat
  <2>2. Received(v) = Rx!Folded(r, v) /\ Received(wire) = Rx!Folded(r, wire)
    BY ONLY ReceivedIs, r = State(0, 0, <<>>, <<>>, <<>>)
  <2> QED BY ONLY <1>1, <1>2, <2>1, <2>2, v = wire \o w
<1> PICK y, z : y = x + n /\ z = (x + n) % SeqModulus
  OBVIOUS
<1>6. y \in Nat
  BY ONLY <1>1, <1>3, y = x + n
<1>7. z \in Nat /\ Before(z) = Before(y)
  BY ONLY <1>6, BeforeIs, y = x + n, z = (x + n) % SeqModulus
<1>8. Received(v) = State(z, t, <<>>, <<>>, gs)
  BY ONLY <1>5, <1>7, y = x + n, Zenon DEF State
<1>9. Received(v).timestamp = t
  BY ONLY <1>8 DEF State
<1>10. HasAll(v, z, gs)
  BY ONLY <1>4, <1>7, <1>8, <1>9, Zenon DEF HasAll
<1> QED BY ONLY <1>10, v = wire \o w, w = Numbered(packets, x, t), z = (x + n) % SeqModulus,
           n = Len(packets), Zenon

(* The packets of a frame of video complete it. *)
LEMMA VideoComplete ==
  ASSUME NEW frame \in Frames, NEW x \in Nat, NEW t \in Nat, NEW fs
  PROVE  Complete(PackFrame(ByteStream(frame)), x, t, fs, Append(fs, UnitsOf(frame)))
<1>1. IsFrame(frame)
  BY FramesAssumption, Zenon DEF IsFrame
<1> PICK packets, gs : packets = PackFrame(ByteStream(frame)) /\ gs = Append(fs, UnitsOf(frame))
  OBVIOUS
<1>2. ASSUME NEW t0
      PROVE  /\ packets \in Seq(RtpPacket)
             /\ Rx!Folded(State(x, t0, <<>>, <<>>, fs), Numbered(packets, x, t))
                  = State(x + Len(packets), t, <<>>, <<>>, Append(fs, UnitsOf(frame)))
  BY ONLY <1>1, x \in Nat, t \in Nat, packets = PackFrame(ByteStream(frame)), FrameArrives
<1>3. Complete(packets, x, t, fs, gs)
  BY ONLY <1>2, gs = Append(fs, UnitsOf(frame)), Zenon DEF Complete
<1> QED BY ONLY <1>3, packets = PackFrame(ByteStream(frame)), gs = Append(fs, UnitsOf(frame)), Zenon

(* The packet of a frame of audio completes it. *)
LEMMA AudioComplete ==
  ASSUME NEW n \in Nat, NEW x \in Nat, NEW t \in Nat, NEW fs
  PROVE  Complete(PackSingNalu(<<n>>, TRUE), x, t, fs, Append(fs, <<<<n>>>>))
<1> PICK data, packets : data = <<n>> /\ packets = PackSingNalu(data, TRUE)
  OBVIOUS
<1>1. data \in Seq(Nat) /\ Len(data) = 1
  BY ONLY data = <<n>>, n \in Nat
<1>2. Len(data) \in 1 .. kMaxRtpPayloadSize
  BY ONLY <1>1, PacketizerAssumption
<1> PICK none, m : none = <<>> /\ m = TRUE
  OBVIOUS
<1>4. ASSUME NEW t0 PROVE Arrives(packets, x, t0, t, <<>>, data, TRUE, fs)
  <2>1. (none # <<>> => t = t0) /\ m \in BOOLEAN /\ packets = PackSingNalu(data, m)
    BY ONLY none = <<>>, m = TRUE, packets = PackSingNalu(data, TRUE)
  <2>2. Arrives(packets, x, t0, t, none, data, m, fs)
    BY ONLY <1>1, <1>2, <2>1, x \in Nat, SingleArrives
  <2> QED BY ONLY <2>2, none = <<>>, m = TRUE, Zenon
<1>5. Append(<<>>, data) = <<data>>
  OBVIOUS
<1>6. \A t0 : Done(x + Len(packets), t, <<>>, data, TRUE, fs)
                = State(x + Len(packets), t, <<>>, <<>>, Append(fs, <<data>>))
  BY ONLY <1>5, Zenon DEF Done
<1>7. Complete(packets, x, t, fs, Append(fs, <<data>>))
  BY ONLY <1>4, <1>6, Zenon DEF Complete, Arrives
<1> QED BY ONLY <1>7, data = <<n>>, packets = PackSingNalu(data, TRUE), Zenon

(* One frame more. *)
LEMMA UnitsOfMore ==
  ASSUME NEW Q, NEW all \in Seq(Q), NEW frame \in Q
  PROVE  UnitsOfAll(Append(all, frame)) = Append(UnitsOfAll(all), UnitsOf(frame))
<1> PICK n, more, us : /\ n = Len(all) /\ more = Append(all, frame)
                       /\ us = UnitsOfAll(all)
  OBVIOUS
<1>1. /\ n \in Nat /\ DOMAIN all = 1 .. n /\ DOMAIN more = 1 .. n + 1
      /\ more[n + 1] = frame /\ \A k \in 1 .. n : more[k] = all[k]
  BY ONLY all \in Seq(Q), frame \in Q, n = Len(all), more = Append(all, frame)
<1>2. us = [k \in 1 .. n |-> UnitsOf(all[k])]
  BY ONLY <1>1, us = UnitsOfAll(all) DEF UnitsOfAll
<1> PICK P, u : P = [k \in 1 .. n |-> UnitsOf(all[k])] /\ u = UnitsOf(frame)
  OBVIOUS
<1>3. UnitsOfAll(more) = [k \in 1 .. n + 1 |-> IF k = n + 1 THEN u ELSE P[k]]
  <2>1. ASSUME NEW k \in 1 .. n + 1
        PROVE  UnitsOf(more[k]) = IF k = n + 1 THEN u ELSE P[k]
    <3>1. k = n + 1 \/ (k # n + 1 /\ k \in 1 .. n)
      BY ONLY <1>1, k \in 1 .. n + 1
    <3>2. CASE k = n + 1
      BY ONLY <1>1, <3>2, u = UnitsOf(frame)
    <3>3. CASE k # n + 1 /\ k \in 1 .. n
      <4>1. more[k] = all[k] /\ P[k] = UnitsOf(all[k])
        BY ONLY <1>1, <3>3, P = [j \in 1 .. n |-> UnitsOf(all[j])]
      <4> QED BY ONLY <3>3, <4>1
    <3> QED BY ONLY <3>1, <3>2, <3>3
  <2> QED BY ONLY <1>1, <2>1, Zenon DEF UnitsOfAll
<1>4. Append(P, u) = [k \in 1 .. n + 1 |-> IF k = n + 1 THEN u ELSE P[k]]
  BY ONLY <1>1, P = [k \in 1 .. n |-> UnitsOf(all[k])]
<1> QED BY ONLY <1>2, <1>3, <1>4, P = [k \in 1 .. n |-> UnitsOf(all[k])], us = UnitsOfAll(all),
           more = Append(all, frame), u = UnitsOf(frame)

-----------------------------------------------------------------------------
(* The frames of audio are numbered; each is one unit. *)
AudioFrames(n) == [k \in 1 .. n |-> <<<<k>>>>]
(* The inductive invariant: the receiver of each kind has all the frames    *)
(* and nothing of another, and the counter is the number that comes next.   *)
FramesInv ==
  /\ frames = [video |-> frames.video, audio |-> frames.audio]
  /\ frames.video \in Seq(Frames) /\ frames.audio \in Nat
  /\ sent = [video |-> sent.video, audio |-> sent.audio]
  /\ HasAll(sent.video, h264_seqnum_, UnitsOfAll(frames.video))
  /\ HasAll(sent.audio, opus_seqnum_, AudioFrames(frames.audio))

(* It holds at first. *)
LEMMA FramesInit == Init => FramesInv
<1> SUFFICES ASSUME Init PROVE FramesInv
  OBVIOUS
<1>1. /\ h264_seqnum_ = 0 /\ opus_seqnum_ = 0
      /\ sent = [video |-> <<>>, audio |-> <<>>] /\ frames = [video |-> <<>>, audio |-> 0]
  BY DEF Init
<1>2. /\ sent.video = <<>> /\ sent.audio = <<>> /\ frames.video = <<>> /\ frames.audio = 0
      /\ <<>> \in Seq(Frames) /\ 0 \in Nat
  BY <1>1
<1>3. UnitsOfAll(<<>>) = <<>> /\ AudioFrames(0) = <<>>
  BY ONLY DEF UnitsOfAll, AudioFrames
<1> QED BY ONLY <1>1, <1>2, <1>3, HasNone, Zenon DEF FramesInv

(* A frame of video. *)
LEMMA FramesVideo ==
  ASSUME FramesInv, NEW frame \in Frames, ReceiveH264Packet(frame)
  PROVE  FramesInv'
<1> PICK all, wire, x, t, packets :
      /\ all = frames.video /\ wire = sent.video /\ x = h264_seqnum_ /\ t = Len(all) + 1
      /\ packets = PackFrame(ByteStream(frame))
  OBVIOUS
<1>1. /\ frames = [video |-> all, audio |-> frames.audio] /\ all \in Seq(Frames)
      /\ frames.audio \in Nat /\ sent = [video |-> wire, audio |-> sent.audio]
      /\ HasAll(wire, x, UnitsOfAll(all))
      /\ HasAll(sent.audio, opus_seqnum_, AudioFrames(frames.audio))
  BY Zenon DEF FramesInv
<1> PICK w : w = Numbered(packets, x, t)
  OBVIOUS
<1>2. Len(w) = Len(packets) /\ Complete(packets, x, t, UnitsOfAll(all),
                                        Append(UnitsOfAll(all), UnitsOf(frame)))
      /\ t \in Nat
  <2>1. t \in Nat /\ x \in Nat
    <3>1. x \in Nat
      BY <1>1, Zenon DEF HasAll
    <3>2. Len(all) \in Nat
      BY ONLY <1>1, LenProperties
    <3> QED BY ONLY <3>1, <3>2, t = Len(all) + 1
  <2>2. Complete(packets, x, t, UnitsOfAll(all), Append(UnitsOfAll(all), UnitsOf(frame)))
    BY ONLY <2>1, frame \in Frames, VideoComplete, packets = PackFrame(ByteStream(frame))
  <2>3. packets \in Seq(RtpPacket)
    BY <2>2, Zenon DEF Complete
  <2>4. Len(w) = Len(packets)
    BY ONLY <2>1, <2>3, NumberedIs, w = Numbered(packets, x, t)
  <2> QED BY ONLY <2>1, <2>2, <2>4
<1>3. /\ sent' = [sent EXCEPT !.video = @ \o w]
      /\ h264_seqnum_' = (x + Len(packets)) % SeqModulus
      /\ frames' = [frames EXCEPT !.video = Append(@, frame)]
      /\ opus_seqnum_' = opus_seqnum_
  <2>1. /\ sent' = [sent EXCEPT !.video = @ \o w]
        /\ h264_seqnum_' = (x + Len(w)) % SeqModulus
    BY Zenon DEF ReceiveH264Packet
  <2>2. /\ frames' = [frames EXCEPT !.video = Append(@, frame)]
        /\ opus_seqnum_' = opus_seqnum_
    BY Zenon DEF ReceiveH264Packet
  <2> QED BY ONLY <1>2, <2>1, <2>2
<1> PICK more, on : more = Append(all, frame) /\ on = wire \o w
  OBVIOUS
<1>4. /\ sent' = [video |-> on, audio |-> sent.audio]
      /\ frames' = [video |-> more, audio |-> frames.audio]
  <2>1. sent' = [sent EXCEPT !.video = on]
    BY ONLY <1>3, wire = sent.video, on = wire \o w, Zenon
  <2>2. frames' = [frames EXCEPT !.video = more]
    BY ONLY <1>3, all = frames.video, more = Append(all, frame), Zenon
  <2>3. ASSUME NEW r, NEW a, NEW b, NEW c, r = [video |-> a, audio |-> b]
        PROVE  [r EXCEPT !.video = c] = [video |-> c, audio |-> b]
    BY ONLY <2>3
  <2> QED BY ONLY <1>1, <2>1, <2>2, <2>3
<1>5. more \in Seq(Frames)
  BY ONLY <1>1, frame \in Frames, more = Append(all, frame), AppendProperties
<1>6. UnitsOfAll(more) = Append(UnitsOfAll(all), UnitsOf(frame))
  BY ONLY <1>1, frame \in Frames, more = Append(all, frame), UnitsOfMore
<1>7. HasAll(on, h264_seqnum_', UnitsOfAll(more))
  <2> PICK us, vs : us = UnitsOfAll(all) /\ vs = Append(UnitsOfAll(all), UnitsOf(frame))
    OBVIOUS
  <2>1. HasAll(wire, x, us) /\ Complete(packets, x, t, us, vs) /\ t \in Nat
    BY ONLY <1>1, <1>2, us = UnitsOfAll(all), vs = Append(UnitsOfAll(all), UnitsOf(frame)), Zenon
  <2>2. HasAll(wire \o Numbered(packets, x, t), (x + Len(packets)) % SeqModulus, vs)
    BY ONLY <2>1, HasMore
  <2> QED BY ONLY <1>3, <1>6, <2>2, w = Numbered(packets, x, t), on = wire \o w,
             vs = Append(UnitsOfAll(all), UnitsOf(frame)), Zenon
<1>8. /\ sent'.video = on /\ sent'.audio = sent.audio /\ frames'.video = more
      /\ frames'.audio = frames.audio
  <2>1. ASSUME NEW r, NEW a, NEW b, r = [video |-> a, audio |-> b]
        PROVE  r.video = a /\ r.audio = b
    BY ONLY <2>1
  <2> QED BY ONLY <1>4, <2>1, Zenon
<1>9. (HasAll(sent.video, h264_seqnum_, UnitsOfAll(frames.video)))'
  BY ONLY <1>7, <1>8, Zenon DEF HasAll, Received, UnitsOfAll, UnitsOf
<1>10. (HasAll(sent.audio, opus_seqnum_, AudioFrames(frames.audio)))'
  BY ONLY <1>1, <1>3, <1>8, Zenon DEF HasAll, Received, AudioFrames
<1>11. /\ frames' = [video |-> frames'.video, audio |-> frames'.audio]
       /\ frames'.video \in Seq(Frames) /\ frames'.audio \in Nat
       /\ sent' = [video |-> sent'.video, audio |-> sent'.audio]
  BY ONLY <1>1, <1>4, <1>5, <1>8, Zenon
<1> QED BY ONLY <1>9, <1>10, <1>11, Zenon DEF FramesInv

(* A frame of audio. *)
LEMMA FramesAudio ==
  ASSUME FramesInv, ReceiveOpusPacket
  PROVE  FramesInv'
<1> PICK n, k, wire, x, packets :
      /\ n = frames.audio /\ k = n + 1 /\ wire = sent.audio /\ x = opus_seqnum_
      /\ packets = PackSingNalu(<<k>>, TRUE)
  OBVIOUS
<1>1. /\ frames = [video |-> frames.video, audio |-> n] /\ frames.video \in Seq(Frames)
      /\ n \in Nat /\ sent = [video |-> sent.video, audio |-> wire]
      /\ HasAll(sent.video, h264_seqnum_, UnitsOfAll(frames.video))
      /\ HasAll(wire, x, AudioFrames(n))
  BY Zenon DEF FramesInv
<1> PICK on : on = wire \o Numbered(packets, x, k)
  OBVIOUS
<1>2. /\ sent' = [sent EXCEPT !.audio = on] /\ opus_seqnum_' = (x + 1) % SeqModulus
      /\ frames' = [frames EXCEPT !.audio = k] /\ h264_seqnum_' = h264_seqnum_
  BY Zenon DEF ReceiveOpusPacket
<1>3. /\ sent' = [video |-> sent.video, audio |-> on]
      /\ frames' = [video |-> frames.video, audio |-> k]
  <2>1. ASSUME NEW r, NEW a, NEW b, NEW c, r = [video |-> a, audio |-> b]
        PROVE  [r EXCEPT !.audio = c] = [video |-> a, audio |-> c]
    BY ONLY <2>1
  <2> QED BY ONLY <1>1, <1>2, <2>1
<1>4. k \in Nat /\ x \in Nat
  <2>1. x \in Nat
    BY <1>1, Zenon DEF HasAll
  <2> QED BY ONLY <1>1, <2>1, k = n + 1
<1>5. Append(AudioFrames(n), <<<<k>>>>) = AudioFrames(k)
  BY ONLY <1>1, k = n + 1 DEF AudioFrames
<1>6. Len(packets) = 1
  <2>1. ASSUME NEW e, packets = <<e>> PROVE Len(packets) = 1
    BY ONLY <2>1
  <2> QED BY ONLY <2>1, packets = PackSingNalu(<<k>>, TRUE) DEF PackSingNalu
<1>7. HasAll(on, opus_seqnum_', AudioFrames(k))
  <2> PICK fs, gs : fs = AudioFrames(n) /\ gs = AudioFrames(k)
    OBVIOUS
  <2>1. Complete(packets, x, k, fs, Append(fs, <<<<k>>>>))
    BY ONLY <1>4, AudioComplete, packets = PackSingNalu(<<k>>, TRUE)
  <2>2. HasAll(wire, x, fs) /\ Complete(packets, x, k, fs, gs)
    BY ONLY <1>1, <1>5, <2>1, fs = AudioFrames(n), gs = AudioFrames(k), Zenon
  <2>3. HasAll(wire \o Numbered(packets, x, k), (x + Len(packets)) % SeqModulus, gs)
    BY ONLY <1>4, <2>2, HasMore
  <2> QED BY ONLY <1>2, <1>6, <2>3, gs = AudioFrames(k), on = wire \o Numbered(packets, x, k), Zenon
<1>8. /\ sent'.video = sent.video /\ sent'.audio = on /\ frames'.video = frames.video
      /\ frames'.audio = k
  <2>1. ASSUME NEW r, NEW a, NEW b, r = [video |-> a, audio |-> b]
        PROVE  r.video = a /\ r.audio = b
    BY ONLY <2>1
  <2> QED BY ONLY <1>3, <2>1, Zenon
<1>9. (HasAll(sent.audio, opus_seqnum_, AudioFrames(frames.audio)))'
  BY ONLY <1>7, <1>8, Zenon DEF HasAll, Received, AudioFrames
<1>10. (HasAll(sent.video, h264_seqnum_, UnitsOfAll(frames.video)))'
  BY ONLY <1>1, <1>2, <1>8, Zenon DEF HasAll, Received, UnitsOfAll, UnitsOf
<1>11. /\ frames' = [video |-> frames'.video, audio |-> frames'.audio]
       /\ frames'.video \in Seq(Frames) /\ frames'.audio \in Nat
       /\ sent' = [video |-> sent'.video, audio |-> sent'.audio]
  BY ONLY <1>1, <1>3, <1>4, <1>8, Zenon
<1> QED BY ONLY <1>9, <1>10, <1>11, Zenon DEF FramesInv

(* No step loses a frame: what follows from the invariant is the invariant. *)
LEMMA FramesStep == FramesInv /\ [Next]_vars => FramesInv'
<1> SUFFICES ASSUME FramesInv, [Next]_vars PROVE FramesInv'
  OBVIOUS
<1>1. CASE UNCHANGED rtpVars
  <2>1. /\ h264_seqnum_' = h264_seqnum_ /\ opus_seqnum_' = opus_seqnum_ /\ sent' = sent
        /\ frames' = frames
    BY ONLY <1>1 DEF rtpVars
  <2> QED BY ONLY FramesInv, <2>1, Zenon
          DEF FramesInv, HasAll, AudioFrames, Received, UnitsOfAll, UnitsOf
<1>2. ASSUME NEW frame \in Frames, ReceiveH264Packet(frame) PROVE FramesInv'
  BY <1>2, FramesVideo
<1>3. CASE ReceiveOpusPacket
  BY <1>3, FramesAudio
<1>4. CASE Incoming
  <2>1. ASSUME NEW compound, ReceiveAuthentic(compound) PROVE UNCHANGED rtpVars
    BY ONLY <2>1, Zenon DEF ReceiveAuthentic
  <2>2. ASSUME NEW datagram, NEW session, ReceiveRefused(datagram, session)
        PROVE  UNCHANGED rtpVars
    BY ONLY <2>2, Zenon DEF ReceiveRefused
  <2> QED BY ONLY <1>1, <1>4, <2>1, <2>2, Zenon DEF Incoming
<1>5. CASE UNCHANGED vars
  <2>1. UNCHANGED rtpVars
    BY ONLY <1>5 DEF vars
  <2> QED BY ONLY <1>1, <2>1
<1> QED BY ONLY [Next]_vars, <1>2, <1>3, <1>4, <1>5, Zenon DEF Next, Outgoing

(* The counters follow what was sent, and what was sent is, to a receiver,   *)
(* the frames so far: after every H264RtpPacketizer::Pack and every packet   *)
(* of Opus (media_stream.cpp), whatever the bytes of the frames, how large   *)
(* a packet may be, and where the numbers wrap.                              *)
THEOREM FramesInvariance == Spec => []FramesInv
<1>1. Init => FramesInv
  BY FramesInit
<1>2. FramesInv /\ [Next]_vars => FramesInv'
  BY FramesStep
<1> QED BY <1>1, <1>2, PTL DEF Spec

(* A receiver reassembles the very frames of the source from the packets,    *)
(* unit by unit: the search for start codes, the fragments, the markers and  *)
(* the numbers of H264RtpPacketizer::Pack (rtp_packet.cpp) lose and make up  *)
(* nothing.                                                                  *)
THEOREM FramesArrive == Spec => []FramesSurvive
<1>1. FramesInv => FramesSurvive
  <2> SUFFICES ASSUME FramesInv PROVE FramesSurvive
    OBVIOUS
  <2>1. ASSUME NEW wire, NEW x, NEW fs, HasAll(wire, x, fs)
        PROVE  /\ Received(wire).ok /\ Received(wire).part = <<>>
               /\ Received(wire).units = <<>> /\ Received(wire).frames = fs
    <3> PICK r : r = Received(wire)
      OBVIOUS
    <3>1. r = State(x, r.timestamp, <<>>, <<>>, fs)
      BY ONLY <2>1, r = Received(wire), Zenon DEF HasAll
    <3> PICK t : t = r.timestamp
      OBVIOUS
    <3>2. r.ok /\ r.part = <<>> /\ r.units = <<>> /\ r.frames = fs
      BY ONLY <3>1, t = r.timestamp DEF State
    <3> QED BY ONLY <3>2, r = Received(wire)
  <2>2. /\ HasAll(sent.video, h264_seqnum_, UnitsOfAll(frames.video))
        /\ HasAll(sent.audio, opus_seqnum_, AudioFrames(frames.audio))
    BY Zenon DEF FramesInv
  <2> PICK v, a : v = Received(sent.video) /\ a = Received(sent.audio)
    OBVIOUS
  <2>3. /\ v.ok /\ v.part = <<>> /\ v.units = <<>> /\ v.frames = UnitsOfAll(frames.video)
        /\ a.ok /\ a.frames = AudioFrames(frames.audio)
    BY ONLY <2>1, <2>2, v = Received(sent.video), a = Received(sent.audio), Zenon
  <2> QED BY ONLY <2>3, v = Received(sent.video), a = Received(sent.audio), Zenon
          DEF FramesSurvive, UnitsOfAll, UnitsOf, AudioFrames
<1> QED BY <1>1, FramesInvariance, PTL
=============================================================================
