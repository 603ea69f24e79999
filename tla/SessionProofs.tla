------------------------------- MODULE SessionProofs -------------------------------
(***************************************************************************)
(* Proofs about Session, for any offers and any bodies of checks: m-lines  *)
(* of any kind, number and order, with any formats; checks of any client,  *)
(* whole or cut, with any attributes besides the three that sign them.     *)
(*                                                                         *)
(* SetOffer is a fold over the m-lines, each of which keeps what the lines *)
(* so far have set (LineSets, LinesKeep).  A check is taken apart into the *)
(* attributes that Parse looks for and where they are (CheckIs); of a cut  *)
(* one, some are left (CutCheckIs); its digest is over what precedes it,   *)
(* and equals the one Parse expects for the same bytes under the same key  *)
(* only (ParseIs).  The inductive invariant says that the transport is     *)
(* what SetOffer made of the offer, the answer what CreateAnswer made of   *)
(* that, and a check one that a client can send: the properties then       *)
(* follow from the lemmas.                                                 *)
(***************************************************************************)
EXTENDS Session, SequenceTheorems, FiniteSetTheorems, TLAPS

Lines == INSTANCE FoldProofs WITH Op <- SetOfferLine
Bytes == INSTANCE FoldProofs WITH Op <- AddAttribute

USE AbsentAssumption, OwnAssumption

-----------------------------------------------------------------------------
(* SetOffer goes through the m-lines as the fold that FoldProofs is about. *)
LEMMA OfferIsFold ==
  ASSUME NEW t, NEW media
  PROVE  FoldLeft(SetOfferLine, t, media) = Lines!Folded(t, media)
BY DEF Lines!Folded, FoldLeft, Lines!FoldLeft, MapThenFoldSet, Lines!MapThenFoldSet,
       Max, Lines!Max

(* So does the size of a message through its attributes. *)
LEMMA BytesIsFold ==
  ASSUME NEW t, NEW attrs
  PROVE  FoldLeft(AddAttribute, t, attrs) = Bytes!Folded(t, attrs)
BY DEF Bytes!Folded, FoldLeft, Bytes!FoldLeft, MapThenFoldSet, Bytes!MapThenFoldSet,
       Max, Bytes!Max

(* The largest of a set of indices is one of them. *)
LEMMA MaxIn ==
  ASSUME NEW n \in Nat, NEW is \in SUBSET (1 .. n), is # {}
  PROVE  Max(is) \in is
BY Lines!MaxIn DEF Max, Lines!Max

(* The payload type found is that of a format of the codec, if there is one. *)
LEMMA LastPayloadFound ==
  ASSUME NEW rtp \in Seq(Formats), NEW codec, NEW otherwise
  PROVE  LET payload == LastPayload(rtp, codec, otherwise)
         IN  /\ (\E f \in Range(rtp) : f.codec = codec) =>
                  [codec |-> codec, payload |-> payload] \in Range(rtp) /\ payload \in Nat
             /\ ~ (\E f \in Range(rtp) : f.codec = codec) => payload = otherwise
<1> DEFINE found == {i \in DOMAIN rtp : rtp[i].codec = codec}
           payload == LastPayload(rtp, codec, otherwise)
<1>1. DOMAIN rtp = 1 .. Len(rtp) /\ Len(rtp) \in Nat /\ \A i \in DOMAIN rtp : rtp[i] \in Formats
  OBVIOUS
<1>2. found # {} <=> \E f \in Range(rtp) : f.codec = codec
  BY DEF Range
<1>3. CASE found = {}
  BY <1>2, <1>3 DEF LastPayload
<1>4. CASE found # {}
  <2>1. Max(found) \in found
    BY <1>1, <1>4, MaxIn
  <2>2. PICK i \in DOMAIN rtp : i = Max(found) /\ rtp[i].codec = codec
    BY <2>1
  <2>3. payload = rtp[i].payload
    BY <1>4, <2>2 DEF LastPayload
  <2>4. rtp[i] \in Formats /\ rtp[i] \in Range(rtp)
    BY <1>1, <2>2 DEF Range
  <2>5. rtp[i] = [codec |-> codec, payload |-> payload] /\ payload \in Nat
    BY <2>2, <2>3, <2>4 DEF Formats
  <2> HIDE DEF payload
  <2> QED BY <1>2, <1>4, <2>4, <2>5 DEF payload
<1> QED BY <1>3, <1>4

(* The RTX payload type found repeats the format given, if one does. *)
LEMMA RtxPayloadFound ==
  ASSUME NEW fmtp \in Seq(Repeats), NEW apt, NEW otherwise
  PROVE  LET payload == RtxPayload(fmtp, apt, otherwise)
         IN  /\ (\E x \in Range(fmtp) : x.apt = apt) =>
                  [payload |-> payload, apt |-> apt] \in Range(fmtp) /\ payload \in Nat
             /\ ~ (\E x \in Range(fmtp) : x.apt = apt) => payload = otherwise
<1> DEFINE found == {i \in DOMAIN fmtp : fmtp[i].apt = apt}
           payload == RtxPayload(fmtp, apt, otherwise)
<1>1. DOMAIN fmtp = 1 .. Len(fmtp) /\ Len(fmtp) \in Nat /\ \A i \in DOMAIN fmtp : fmtp[i] \in Repeats
  OBVIOUS
<1>2. found # {} <=> \E x \in Range(fmtp) : x.apt = apt
  BY DEF Range
<1>3. CASE found = {}
  BY <1>2, <1>3 DEF RtxPayload
<1>4. CASE found # {}
  <2>1. Max(found) \in found
    BY <1>1, <1>4, MaxIn
  <2>2. PICK i \in DOMAIN fmtp : i = Max(found) /\ fmtp[i].apt = apt
    BY <2>1
  <2>3. payload = fmtp[i].payload
    BY <1>4, <2>2 DEF RtxPayload
  <2>4. fmtp[i] \in Repeats /\ fmtp[i] \in Range(fmtp)
    BY <1>1, <2>2 DEF Range
  <2>5. fmtp[i] = [payload |-> payload, apt |-> apt] /\ payload \in Nat
    BY <2>2, <2>3, <2>4 DEF Repeats
  <2> HIDE DEF payload
  <2> QED BY <1>2, <1>4, <2>4, <2>5 DEF payload
<1> QED BY <1>3, <1>4

-----------------------------------------------------------------------------
(* What SetOffer sets. *)
Payloads == Nat \cup {NoPayload}
Members ==
  [ok : BOOLEAN, remote_setup : STRING \cup {Absent}, ice_ufrag : Ufrags \cup {Absent},
   fingerprint : STRING \cup {Absent}, opus : Payloads, h264 : Payloads, rtx : Payloads]

(* An m-line that SetOffer can read. *)
Readable(m) ==
  /\ Absent \notin {m.setup, m.iceUfrag, m.fingerprint}
  /\ m.type \in {"audio", "video"} => m.rtp # Absent

(* What one m-line sets, member by member. *)
LEMMA LineSets ==
  ASSUME NEW t \in Members, NEW m \in MLines
  PROVE  LET n == SetOfferLine(t, m)
             h264 == IF m.type = "video" THEN LastPayload(m.rtp, "H264", t.h264) ELSE t.h264
         IN  /\ n \in Members
             /\ n.ok <=> t.ok /\ Readable(m)
             /\ n.ok => /\ n.ice_ufrag = IF t.ice_ufrag = Absent THEN m.iceUfrag ELSE t.ice_ufrag
                        /\ n.opus = IF m.type = "audio" THEN LastPayload(m.rtp, "opus", t.opus)
                                    ELSE t.opus
                        /\ n.h264 = h264
                        /\ n.rtx = IF m.type = "video" THEN RtxPayload(m.fmtp, h264, t.rtx)
                                   ELSE t.rtx
<1> DEFINE n == SetOfferLine(t, m)
           h264 == IF m.type = "video" THEN LastPayload(m.rtp, "H264", t.h264) ELSE t.h264
           opus == IF m.type = "audio" THEN LastPayload(m.rtp, "opus", t.opus) ELSE t.opus
           rtx == IF m.type = "video" THEN RtxPayload(m.fmtp, h264, t.rtx) ELSE t.rtx
<1>1. CASE ~ (t.ok /\ Readable(m))
  <2>1. n = [t EXCEPT !.ok = FALSE]
    BY <1>1 DEF SetOfferLine, Readable
  <2>2. n \in Members /\ ~ n.ok
    BY <2>1 DEF Members
  <2> HIDE DEF n
  <2> QED BY <1>1, <2>2 DEF n
<1>2. CASE t.ok /\ Readable(m)
  <2>1. n = [ok |-> TRUE, remote_setup |-> m.setup,
             ice_ufrag |-> IF t.ice_ufrag = Absent THEN m.iceUfrag ELSE t.ice_ufrag,
             fingerprint |-> IF t.fingerprint = Absent THEN m.fingerprint ELSE t.fingerprint,
             opus |-> opus, h264 |-> h264, rtx |-> rtx]
    BY <1>2 DEF SetOfferLine, Readable
  <2>2. m.type = "video" \/ m.type = "audio" => m.rtp \in Seq(Formats)
    BY <1>2 DEF MLines, Readable
  <2>3. t.opus \in Payloads /\ t.h264 \in Payloads /\ t.rtx \in Payloads /\ m.fmtp \in Seq(Repeats)
    BY DEF Members, MLines
  <2>4. opus \in Payloads
    <3>1. CASE m.type = "audio"
      <4>1. m.rtp \in Seq(Formats)
        BY <2>2, <3>1
      <4>2. LastPayload(m.rtp, "opus", t.opus) \in Payloads
        BY <2>3, <4>1, LastPayloadFound DEF Payloads
      <4> QED BY <3>1, <4>2
    <3> QED BY <2>3, <3>1
  <2>5. h264 \in Payloads
    <3>1. CASE m.type = "video"
      <4>1. m.rtp \in Seq(Formats)
        BY <2>2, <3>1
      <4>2. LastPayload(m.rtp, "H264", t.h264) \in Payloads
        BY <2>3, <4>1, LastPayloadFound DEF Payloads
      <4> QED BY <3>1, <4>2
    <3> QED BY <2>3, <3>1
  <2>6. rtx \in Payloads
    <3>1. CASE m.type = "video"
      <4>2. RtxPayload(m.fmtp, h264, t.rtx) \in Payloads
        <5> HIDE DEF h264
        <5> QED BY <2>3, RtxPayloadFound DEF Payloads
      <4> HIDE DEF h264
      <4> QED BY <3>1, <4>2
    <3> HIDE DEF h264
    <3> QED BY <2>3, <3>1
  <2> HIDE DEF opus, h264, rtx
  <2>7. n \in Members
    <3>1. /\ m.setup \in STRING \cup {Absent} /\ m.iceUfrag \in Ufrags \cup {Absent}
          /\ m.fingerprint \in STRING \cup {Absent}
          /\ t.ice_ufrag \in Ufrags \cup {Absent} /\ t.fingerprint \in STRING \cup {Absent}
      BY DEF MLines, Members
    <3> HIDE DEF n
    <3> QED BY <2>1, <2>4, <2>5, <2>6, <3>1 DEF Members
  <2>8. /\ n.ok /\ n.opus = opus /\ n.h264 = h264 /\ n.rtx = rtx
        /\ n.ice_ufrag = IF t.ice_ufrag = Absent THEN m.iceUfrag ELSE t.ice_ufrag
    <3> HIDE DEF n
    <3> QED BY <2>1
  <2> HIDE DEF n
  <2> QED BY <1>2, <2>7, <2>8 DEF n, opus, h264, rtx
<1> QED BY <1>1, <1>2

(* An audio line sets a payload type of opus that it lists, or leaves the   *)
(* one set before.                                                         *)
LEMMA AudioSets ==
  ASSUME NEW t \in Members, NEW m \in MLines, m.type = "audio", SetOfferLine(t, m).ok
  PROVE  LET n == SetOfferLine(t, m)
         IN  /\ (\E f \in Range(m.rtp) : f.codec = "opus") =>
                  [codec |-> "opus", payload |-> n.opus] \in Range(m.rtp) /\ n.opus \in Nat
             /\ ~ (\E f \in Range(m.rtp) : f.codec = "opus") => n.opus = t.opus
             /\ n.h264 = t.h264 /\ n.rtx = t.rtx
<1> DEFINE n == SetOfferLine(t, m)
<1>1. n.opus = LastPayload(m.rtp, "opus", t.opus) /\ n.h264 = t.h264 /\ n.rtx = t.rtx /\ Readable(m)
  BY LineSets
<1>2. m.rtp \in Seq(Formats)
  BY <1>1 DEF Readable, MLines
<1> HIDE DEF n
<1> QED BY <1>1, <1>2, LastPayloadFound DEF n

(* A video line does so with H264, and with the RTX of the H264 format.     *)
LEMMA VideoSets ==
  ASSUME NEW t \in Members, NEW m \in MLines, m.type = "video", SetOfferLine(t, m).ok
  PROVE  LET n == SetOfferLine(t, m)
         IN  /\ (\E f \in Range(m.rtp) : f.codec = "H264") =>
                  [codec |-> "H264", payload |-> n.h264] \in Range(m.rtp) /\ n.h264 \in Nat
             /\ ~ (\E f \in Range(m.rtp) : f.codec = "H264") => n.h264 = t.h264
             /\ (\E x \in Range(m.fmtp) : x.apt = n.h264) =>
                  [payload |-> n.rtx, apt |-> n.h264] \in Range(m.fmtp) /\ n.rtx \in Nat
             /\ ~ (\E x \in Range(m.fmtp) : x.apt = n.h264) => n.rtx = t.rtx
             /\ n.opus = t.opus
<1> DEFINE n == SetOfferLine(t, m)
<1>1. n.h264 = LastPayload(m.rtp, "H264", t.h264) /\ n.opus = t.opus /\ Readable(m)
  BY LineSets
<1>2. n.rtx = RtxPayload(m.fmtp, n.h264, t.rtx)
  BY LineSets
<1>3. m.rtp \in Seq(Formats) /\ m.fmtp \in Seq(Repeats)
  BY <1>1 DEF Readable, MLines
<1> HIDE DEF n
<1>4. /\ (\E f \in Range(m.rtp) : f.codec = "H264") =>
                  [codec |-> "H264", payload |-> n.h264] \in Range(m.rtp) /\ n.h264 \in Nat
      /\ ~ (\E f \in Range(m.rtp) : f.codec = "H264") => n.h264 = t.h264
  BY <1>1, <1>3, LastPayloadFound
<1>5. /\ (\E x \in Range(m.fmtp) : x.apt = n.h264) =>
           [payload |-> n.rtx, apt |-> n.h264] \in Range(m.fmtp) /\ n.rtx \in Nat
      /\ ~ (\E x \in Range(m.fmtp) : x.apt = n.h264) => n.rtx = t.rtx
  BY <1>2, <1>3, RtxPayloadFound
<1> QED BY <1>1, <1>4, <1>5 DEF n

(* A line of another kind sets no payload type. *)
LEMMA OtherSets ==
  ASSUME NEW t \in Members, NEW m \in MLines, m.type \notin {"audio", "video"},
         SetOfferLine(t, m).ok
  PROVE  LET n == SetOfferLine(t, m)
         IN  n.opus = t.opus /\ n.h264 = t.h264 /\ n.rtx = t.rtx
BY LineSets

-----------------------------------------------------------------------------
(* What a fold over the lines of an offer computes, from what each line     *)
(* keeps: D[i] holds what SetOffer may have set after i lines.             *)
LEMMA LinesKeep ==
  ASSUME NEW media \in Seq(MLines), NEW D, Unset \in D[0],
         \A i \in 1 .. Len(media) : \A t \in D[i - 1] : SetOfferLine(t, media[i]) \in D[i]
  PROVE  FoldLeft(SetOfferLine, Unset, media) \in D[Len(media)]
<1>1. Len(media) \in Nat /\ DOMAIN media = 1 .. Len(media)
  OBVIOUS
<1>2. Lines!Folded(Unset, media) \in D[Len(media)]
  BY <1>1, Lines!FoldedIn
<1> QED BY <1>2, OfferIsFold

(* SetOffer succeeds only if the three payload types are set. *)
LEMMA SetOfferIs ==
  ASSUME NEW media, FoldLeft(SetOfferLine, Unset, media) \in Members
  PROVE  LET t == FoldLeft(SetOfferLine, Unset, media)
             n == SetOffer(media)
         IN  /\ n \in Members
             /\ n.ok <=> t.ok /\ NoPayload \notin {t.opus, t.h264, t.rtx}
             /\ n.ice_ufrag = t.ice_ufrag
             /\ n.opus = t.opus /\ n.h264 = t.h264 /\ n.rtx = t.rtx
<1> DEFINE t == FoldLeft(SetOfferLine, Unset, media)
<1>1. SetOffer(media) = [t EXCEPT !.ok = @ /\ NoPayload \notin {t.opus, t.h264, t.rtx}]
  BY DEF SetOffer
<1>2. t \in Members
  OBVIOUS
<1> HIDE DEF t
<1> DEFINE b == t.ok /\ NoPayload \notin {t.opus, t.h264, t.rtx}
<1>3. SetOffer(media) = [t EXCEPT !.ok = b]
  BY <1>1, <1>2 DEF Members
<1>4. b \in BOOLEAN
  OBVIOUS
<1> HIDE DEF b
<1>5. /\ SetOffer(media) \in Members /\ SetOffer(media).ok = b
      /\ SetOffer(media).ice_ufrag = t.ice_ufrag
      /\ SetOffer(media).opus = t.opus /\ SetOffer(media).h264 = t.h264
      /\ SetOffer(media).rtx = t.rtx
  BY <1>2, <1>3, <1>4 DEF Members
<1> QED BY <1>5 DEF b, t

(* What the constructor leaves. *)
LEMMA UnsetIs ==
  /\ Unset \in Members /\ Unset.ok /\ Unset.ice_ufrag = Absent
  /\ Unset.opus = NoPayload /\ Unset.h264 = NoPayload /\ Unset.rtx = NoPayload
BY DEF Unset, Members, Payloads

(* What every line keeps: the user fragment is that of the first one, and  *)
(* opus is among the formats of an audio line.                             *)
AudioOf(media, i, t) ==
  t.opus # NoPayload =>
    \E j \in 1 .. i : /\ media[j].type = "audio"
                      /\ [codec |-> "opus", payload |-> t.opus] \in Range(media[j].rtp)
ReadSoFar(media, i, t) ==
  t.ok => /\ i # 0 => t.ice_ufrag = media[1].iceUfrag /\ t.ice_ufrag \in Ufrags
          /\ i = 0 => t.ice_ufrag = Absent
          /\ AudioOf(media, i, t)

(* It holds of what the fold over the whole offer computes. *)
LEMMA OfferRead ==
  ASSUME NEW media \in Seq(MLines)
  PROVE  LET t == FoldLeft(SetOfferLine, Unset, media)
         IN  t \in Members /\ ReadSoFar(media, Len(media), t)
<1> DEFINE D == [i \in 0 .. Len(media) |-> {t \in Members : ReadSoFar(media, i, t)}]
<1>1. Len(media) \in Nat /\ \A i \in 1 .. Len(media) : media[i] \in MLines
  OBVIOUS
<1>2. Unset \in D[0]
  BY <1>1, UnsetIs DEF ReadSoFar, AudioOf
<1>3. ASSUME NEW i \in 1 .. Len(media), NEW t \in D[i - 1]
      PROVE  SetOfferLine(t, media[i]) \in D[i]
  <2>1. i - 1 \in 0 .. Len(media) /\ i \in 0 .. Len(media) /\ i # 0
    BY <1>1
  <2>2. t \in Members /\ ReadSoFar(media, i - 1, t)
    BY <2>1
  <2> PICK m : m = media[i]
    OBVIOUS
  <2> m \in MLines
    BY <1>1
  <2> PICK n : n = SetOfferLine(t, m)
    OBVIOUS
  <2>3. n \in Members
    BY <2>2, LineSets
  <2>4. ASSUME n.ok PROVE ReadSoFar(media, i, n)
    <3>1. t.ok /\ Readable(m)
      BY <2>2, <2>4, LineSets
    <3>2. n.ice_ufrag = IF t.ice_ufrag = Absent THEN m.iceUfrag ELSE t.ice_ufrag
      BY <2>2, <2>4, LineSets
    <3>3. n.ice_ufrag = media[1].iceUfrag /\ n.ice_ufrag \in Ufrags
      <4>1. CASE i = 1
        <5>1. t.ice_ufrag = Absent
          BY <2>2, <3>1, <4>1 DEF ReadSoFar
        <5>2. m.iceUfrag \in Ufrags
          BY <3>1 DEF Readable, MLines
        <5> QED BY <3>2, <4>1, <5>1, <5>2
      <4>2. CASE i # 1
        <5>1. t.ice_ufrag = media[1].iceUfrag /\ t.ice_ufrag \in Ufrags
          BY <2>1, <2>2, <3>1, <4>2 DEF ReadSoFar
        <5> QED BY <3>2, <5>1
      <4> QED BY <4>1, <4>2
    <3>4. AudioOf(media, i, n)
      <4>1. AudioOf(media, i - 1, t)
        BY <2>2, <3>1 DEF ReadSoFar
      <4>2. n.opus = t.opus => AudioOf(media, i, n)
        BY <1>1, <2>1, <4>1 DEF AudioOf
      <4>3. CASE m.type = "audio" /\ \E f \in Range(m.rtp) : f.codec = "opus"
        <5>1. [codec |-> "opus", payload |-> n.opus] \in Range(m.rtp)
          BY <2>2, <2>4, <4>3, AudioSets
        <5>2. i \in 1 .. i
          BY <2>1
        <5> QED BY <4>3, <5>1, <5>2 DEF AudioOf
      <4>4. CASE m.type = "audio" /\ ~ \E f \in Range(m.rtp) : f.codec = "opus"
        BY <2>2, <2>4, <4>2, <4>4, AudioSets
      <4>5. CASE m.type = "video"
        BY <2>2, <2>4, <4>2, <4>5, VideoSets
      <4>6. CASE m.type \notin {"audio", "video"}
        BY <2>2, <2>4, <4>2, <4>6, OtherSets
      <4> QED BY <4>3, <4>4, <4>5, <4>6
    <3> QED BY <2>1, <3>3, <3>4 DEF ReadSoFar
  <2>5. ReadSoFar(media, i, n)
    BY <2>4 DEF ReadSoFar
  <2> QED BY <2>1, <2>3, <2>5
<1> HIDE DEF D
<1>4. FoldLeft(SetOfferLine, Unset, media) \in D[Len(media)]
  BY <1>2, <1>3, LinesKeep
<1> QED BY <1>1, <1>4 DEF D

(* What the line of video keeps: H264 is among its formats, and the RTX is *)
(* that of this format.                                                    *)
VideoOf(m, t) ==
  /\ m.rtp # Absent
  /\ t.h264 # NoPayload => [codec |-> "H264", payload |-> t.h264] \in Range(m.rtp)
  /\ t.rtx # NoPayload => [payload |-> t.rtx, apt |-> t.h264] \in Range(m.fmtp)

(* With one m-line of video it holds of what the fold computes. *)
LEMMA VideoRead ==
  ASSUME NEW media \in Seq(MLines), NEW v \in 1 .. Len(media), media[v].type = "video",
         \A i \in 1 .. Len(media) : media[i].type = "video" => i = v
  PROVE  LET t == FoldLeft(SetOfferLine, Unset, media)
         IN  t.ok => VideoOf(media[v], t)
<1> DEFINE Known(i, t) ==
             t.ok => /\ i < v => t.h264 = NoPayload /\ t.rtx = NoPayload
                     /\ i >= v => VideoOf(media[v], t)
           D == [i \in 0 .. Len(media) |-> {t \in Members : Known(i, t)}]
<1>1. Len(media) \in Nat /\ \A i \in 1 .. Len(media) : media[i] \in MLines
  OBVIOUS
<1>2. Unset \in D[0]
  BY <1>1, UnsetIs
<1>3. ASSUME NEW i \in 1 .. Len(media), NEW t \in D[i - 1]
      PROVE  SetOfferLine(t, media[i]) \in D[i]
  <2>1. i - 1 \in 0 .. Len(media) /\ i \in 0 .. Len(media)
    BY <1>1
  <2>2. t \in Members /\ Known(i - 1, t)
    BY <2>1
  <2> PICK m : m = media[i]
    OBVIOUS
  <2> m \in MLines
    BY <1>1
  <2> PICK n : n = SetOfferLine(t, m)
    OBVIOUS
  <2>3. n \in Members
    BY <2>2, LineSets
  <2>4. ASSUME n.ok PROVE Known(i, n)
    <3>1. t.ok
      BY <2>2, <2>4, LineSets
    <3>2. CASE i # v
      <4>1. m.type # "video"
        BY <3>2
      <4>2. n.h264 = t.h264 /\ n.rtx = t.rtx
        BY <2>2, <2>4, <4>1, AudioSets, OtherSets
      <4> QED BY <2>1, <2>2, <3>1, <3>2, <4>2 DEF VideoOf
    <3>3. CASE i = v
      <4>1. m.type = "video" /\ t.h264 = NoPayload /\ t.rtx = NoPayload
        BY <2>2, <3>1, <3>3
      <4>2. VideoOf(m, n)
        <5>1. m.rtp # Absent
          BY <2>2, <2>4, <4>1, LineSets DEF Readable
        <5> QED BY <2>2, <2>4, <4>1, <5>1, VideoSets DEF VideoOf
      <4> QED BY <3>3, <4>2
    <3> QED BY <3>2, <3>3
  <2>5. Known(i, n)
    BY <2>4
  <2> QED BY <2>1, <2>3, <2>5
<1> HIDE DEF D
<1>4. FoldLeft(SetOfferLine, Unset, media) \in D[Len(media)]
  BY <1>2, <1>3, LinesKeep
<1> QED BY <1>1, <1>4 DEF D

(* An offer that OffersAnswered is about. *)
Offered(m, type, codec) == m.type = type /\ \E f \in Range(m.rtp) : f.codec = codec
Answerable(media) ==
  /\ \A m \in Range(media) : Absent \notin {m.setup, m.iceUfrag, m.fingerprint, m.rtp}
  /\ \E m \in Range(media) : Offered(m, "audio", "opus")
  /\ \E m \in Range(media) : Offered(m, "video", "H264")
  /\ \A m \in Range(media) : m.type = "video" =>
       \A f \in Range(m.rtp) : f.codec = "H264" =>
         \E x \in Range(m.fmtp) : x.apt = f.payload

(* SetOffer succeeds for it. *)
LEMMA AnswerableIsOk ==
  ASSUME NEW media \in Seq(MLines), Answerable(media)
  PROVE  SetOffer(media).ok
<1> DEFINE Seen(i, type, codec) == \E j \in 1 .. i : Offered(media[j], type, codec)
           Known(i, t) ==
             /\ t.ok
             /\ Seen(i, "audio", "opus") => t.opus # NoPayload
             /\ Seen(i, "video", "H264") => t.h264 # NoPayload /\ t.rtx # NoPayload
           D == [i \in 0 .. Len(media) |-> {t \in Members : Known(i, t)}]
<1>1. Len(media) \in Nat /\ \A i \in 1 .. Len(media) : media[i] \in MLines /\ media[i] \in Range(media)
  BY DEF Range
<1>2. Unset \in D[0]
  BY <1>1, UnsetIs
<1>3. ASSUME NEW i \in 1 .. Len(media), NEW t \in D[i - 1]
      PROVE  SetOfferLine(t, media[i]) \in D[i]
  <2>1. i - 1 \in 0 .. Len(media) /\ i \in 0 .. Len(media) /\ i \in Nat
        /\ \A j \in 1 .. i : j = i \/ j \in 1 .. i - 1
    BY <1>1
  <2>2. t \in Members /\ Known(i - 1, t)
    BY <2>1
  <2> PICK m : m = media[i]
    OBVIOUS
  <2>3. m \in MLines /\ m \in Range(media) /\ Readable(m)
    BY <1>1 DEF Answerable, Readable
  <2>4. \A type, codec : Seen(i, type, codec) => Seen(i - 1, type, codec) \/ Offered(m, type, codec)
    BY <2>1
  <2> PICK n : n = SetOfferLine(t, m)
    OBVIOUS
  <2>5. n \in Members /\ n.ok
    BY <2>2, <2>3, LineSets
  <2> HIDE DEF Seen
  <2>6. Seen(i, "audio", "opus") => n.opus # NoPayload
    <3>1. CASE m.type = "audio"
      <4>1. \/ ~ Offered(m, "audio", "opus") /\ n.opus = t.opus
            \/ n.opus \in Nat
        BY <2>2, <2>3, <2>5, <3>1, AudioSets DEF Offered
      <4> QED BY <2>2, <2>4, <4>1 DEF NoPayload
    <3>2. CASE m.type # "audio"
      <4>1. n.opus = t.opus /\ ~ Offered(m, "audio", "opus")
        BY <2>2, <2>3, <2>5, <3>2, VideoSets, OtherSets DEF Offered
      <4> QED BY <2>2, <2>4, <4>1
    <3> QED BY <3>1, <3>2
  <2>7. Seen(i, "video", "H264") => n.h264 # NoPayload /\ n.rtx # NoPayload
    <3>1. CASE Offered(m, "video", "H264")
      <4>1. [codec |-> "H264", payload |-> n.h264] \in Range(m.rtp) /\ n.h264 \in Nat
        BY <2>2, <2>3, <2>5, <3>1, VideoSets DEF Offered
      <4>2. \E x \in Range(m.fmtp) : x.apt = n.h264
        BY <2>3, <3>1, <4>1 DEF Answerable, Offered
      <4>3. n.rtx \in Nat
        BY <2>2, <2>3, <2>5, <3>1, <4>2, VideoSets DEF Offered
      <4> QED BY <4>1, <4>3 DEF NoPayload
    <3>2. CASE ~ Offered(m, "video", "H264") /\ m.type = "video"
      <4>1. n.h264 = t.h264 /\ (n.rtx = t.rtx \/ n.rtx \in Nat)
        BY <2>2, <2>3, <2>5, <3>2, VideoSets DEF Offered
      <4> QED BY <2>2, <2>4, <3>2, <4>1 DEF NoPayload
    <3>3. CASE m.type # "video"
      <4>1. n.h264 = t.h264 /\ n.rtx = t.rtx /\ ~ Offered(m, "video", "H264")
        BY <2>2, <2>3, <2>5, <3>3, AudioSets, OtherSets DEF Offered
      <4> QED BY <2>2, <2>4, <4>1
    <3> QED BY <3>1, <3>2, <3>3
  <2> QED BY <2>1, <2>5, <2>6, <2>7
<1>4. FoldLeft(SetOfferLine, Unset, media) \in D[Len(media)]
  <2> HIDE DEF D
  <2> QED BY <1>2, <1>3, LinesKeep
<1> PICK t : t = FoldLeft(SetOfferLine, Unset, media)
  OBVIOUS
<1>5. t \in Members /\ Known(Len(media), t)
  BY <1>1, <1>4
<1>6. Seen(Len(media), "audio", "opus") /\ Seen(Len(media), "video", "H264")
  BY <1>1 DEF Answerable, Range
<1>7. t.ok /\ NoPayload \notin {t.opus, t.h264, t.rtx}
  <2> HIDE DEF Seen
  <2> QED BY <1>5, <1>6
<1> QED BY <1>5, <1>7, SetOfferIs

-----------------------------------------------------------------------------
(* The bytes of an attribute more. *)
LEMMA BytesAppend ==
  ASSUME NEW S, NEW attrs \in Seq(S), NEW a
  PROVE  AttributeBytes(Append(attrs, a)) = AttributeBytes(attrs) + 4 + Padded(a.length)
<1>1. Bytes!Folded(0, Append(attrs, a)) = AddAttribute(Bytes!Folded(0, attrs), a)
  BY Bytes!FoldedAppend
<1> QED BY <1>1, BytesIsFold DEF AttributeBytes, AddAttribute, kStunAttributeHeaderSize

(* Padded lengths are numbers. *)
LEMMA PaddedIsNat ==
  ASSUME NEW n \in Nat
  PROVE  Padded(n) \in Nat
BY DEF Padded

(* So is the size of a message. *)
LEMMA BytesIsNat ==
  ASSUME NEW S, NEW attrs \in Seq(S), \A a \in S : a.length \in Nat
  PROVE  AttributeBytes(attrs) \in Nat
<1> DEFINE D == [i \in 0 .. Len(attrs) |-> Nat]
<1>1. Len(attrs) \in Nat /\ DOMAIN attrs = 1 .. Len(attrs)
      /\ \A i \in 1 .. Len(attrs) : attrs[i].length \in Nat
  OBVIOUS
<1>2. 0 \in D[0] /\ D[Len(attrs)] = Nat
  BY <1>1
<1>3. ASSUME NEW i \in 1 .. Len(attrs), NEW d \in D[i - 1]
      PROVE  AddAttribute(d, attrs[i]) \in D[i]
  <2>1. i - 1 \in 0 .. Len(attrs) /\ i \in 0 .. Len(attrs)
    BY <1>1
  <2>2. d \in Nat /\ Padded(attrs[i].length) \in Nat
    BY <1>1, <2>1, PaddedIsNat
  <2>3. d + 4 + Padded(attrs[i].length) \in Nat
    BY <2>2
  <2> QED BY <2>1, <2>3 DEF AddAttribute, kStunAttributeHeaderSize
<1> HIDE DEF D
<1>4. Bytes!Folded(0, attrs) \in D[Len(attrs)]
  BY <1>1, <1>2, <1>3, Bytes!FoldedIn
<1> QED BY <1>2, <1>4, BytesIsFold DEF AttributeBytes

(* Whole words are not padded. *)
LEMMA PaddedWord == Padded(20) = 20 /\ Padded(4) = 4 /\ Padded(8) = 8
BY DEF Padded

(* The attributes that sign a message, and the message itself. *)
Mi(type, tid, body, password) ==
  Attribute("MESSAGE-INTEGRITY", 20,
    [hmac |-> password, type |-> type, tid |-> tid, length |-> AttributeBytes(body) + 24,
     before |-> body])
SignedOf(type, tid, body, password) == Append(body, Mi(type, tid, body, password))
Fp(type, tid, body, password) ==
  Attribute("FINGERPRINT", 4,
    [crc |-> TRUE, type |-> type, tid |-> tid, length |-> AttributeBytes(body) + 32,
     before |-> SignedOf(type, tid, body, password)])
Whole(type, tid, length, attrs) ==
  [type |-> type, tid |-> tid, length |-> length, whole |-> TRUE, attrs |-> attrs]

(* What a signed message is, attribute by attribute, with FINGERPRINT and  *)
(* without.                                                                *)
LEMMA SignedIs ==
  ASSUME NEW S, NEW body \in Seq(S), \A a \in S : a.length \in Nat,
         NEW type, NEW tid, NEW password
  PROVE  /\ Signed(type, tid, body, password, TRUE)
              = Whole(type, tid, AttributeBytes(body) + 32,
                      Append(SignedOf(type, tid, body, password), Fp(type, tid, body, password)))
         /\ Signed(type, tid, body, password, FALSE)
              = Whole(type, tid, AttributeBytes(body) + 24, SignedOf(type, tid, body, password))
         /\ AttributeBytes(Append(SignedOf(type, tid, body, password),
                                  Fp(type, tid, body, password))) = AttributeBytes(body) + 32
<1> DEFINE signed == SignedOf(type, tid, body, password)
           fp == Fp(type, tid, body, password)
           header == [type |-> type, tid |-> tid]
<1>1. header.type = type /\ header.tid = tid
  OBVIOUS
<1>2. Hmac(password, header, AttributeBytes(body) + 24, body)
        = [hmac |-> password, type |-> type, tid |-> tid, length |-> AttributeBytes(body) + 24,
           before |-> body]
  BY <1>1 DEF Hmac
<1>3. Append(body, Attribute("MESSAGE-INTEGRITY", kSha1ResultLength,
                  Hmac(password, header, AttributeBytes(body) + 24, body))) = signed
  BY <1>2 DEF Mi, kSha1ResultLength, SignedOf
<1>4. AttributeBytes(body) \in Nat
  BY BytesIsNat
<1>5. Mi(type, tid, body, password).length = 20
  BY DEF Mi, Attribute
<1>6. AttributeBytes(signed) = AttributeBytes(body) + 24
  <2>1. AttributeBytes(signed) = AttributeBytes(body) + 4 + Padded(20)
    BY <1>5, BytesAppend DEF SignedOf
  <2> QED BY <1>4, <2>1, PaddedWord
<1>7. signed \in Seq(S \cup {Mi(type, tid, body, password)})
  BY DEF SignedOf
<1>8. AttributeBytes(Append(signed, fp)) = AttributeBytes(body) + 32
  <2>1. fp.length = 4
    BY DEF Attribute, Fp
  <2> HIDE DEF fp, signed
  <2>2. AttributeBytes(Append(signed, fp)) = AttributeBytes(signed) + 4 + Padded(4)
    BY <1>7, <2>1, BytesAppend
  <2> QED BY <1>4, <1>6, <2>2, PaddedWord
<1>9. Crc(header, AttributeBytes(body) + 32, signed)
        = [crc |-> TRUE, type |-> type, tid |-> tid, length |-> AttributeBytes(body) + 32,
           before |-> signed]
  BY <1>1 DEF Crc
<1>10. Signed(type, tid, body, password, TRUE)
         = [type |-> type, tid |-> tid, length |-> AttributeBytes(body) + 32, whole |-> TRUE,
            attrs |-> Append(signed, fp)]
  <2>1. AttributeBytes(signed) + 8 = AttributeBytes(body) + 32
    BY <1>4, <1>6
  <2>2. fp = Attribute("FINGERPRINT", kFingerprintAttrLength,
                       Crc(header, AttributeBytes(signed) + 8, signed))
    BY <1>9, <2>1 DEF Fp, kFingerprintAttrLength
  <2> HIDE DEF signed, header, fp
  <2>3. Signed(type, tid, body, password, TRUE)
         = [type |-> type, tid |-> tid, length |-> AttributeBytes(signed) + 8, whole |-> TRUE,
            attrs |-> Append(signed, Attribute("FINGERPRINT", kFingerprintAttrLength,
                                       Crc(header, AttributeBytes(signed) + 8, signed)))]
    BY <1>3 DEF Signed, header
  <2> QED BY <2>1, <2>2, <2>3
<1>11. Signed(type, tid, body, password, FALSE)
         = [type |-> type, tid |-> tid, length |-> AttributeBytes(body) + 24, whole |-> TRUE,
            attrs |-> signed]
  <2> HIDE DEF signed, header, fp
  <2>1. Signed(type, tid, body, password, FALSE)
         = [type |-> type, tid |-> tid, length |-> AttributeBytes(signed) + 0, whole |-> TRUE,
            attrs |-> signed]
    BY <1>3 DEF Signed, header
  <2>2. AttributeBytes(signed) + 0 = AttributeBytes(body) + 24
    BY <1>4, <1>6
  <2> QED BY <2>1, <2>2
<1> QED BY <1>8, <1>10, <1>11 DEF Whole

-----------------------------------------------------------------------------
(* The parts of a check: USERNAME with the attributes of the client, then   *)
(* the digest over them, then perhaps FINGERPRINT.                         *)
Username(server_ufrag, client_ufrag) ==
  Attribute("USERNAME", 9, server_ufrag \o <<":">> \o client_ufrag)
Unsigned(s, c, body) == <<Username(s, c)>> \o body
DigestOf(s, c, password, body) == Mi("BindingRequest", "tid", Unsigned(s, c, body), password)
FingerprintOf(s, c, password, body) == Fp("BindingRequest", "tid", Unsigned(s, c, body), password)
LengthOf(s, c, body, fingerprint) ==
  AttributeBytes(Unsigned(s, c, body)) + (IF fingerprint THEN 32 ELSE 24)

(* What is before the digest is what it was computed over, and what is      *)
(* before FINGERPRINT what that was.                                       *)
LEMMA CheckIs ==
  ASSUME NEW body \in Bodies, NEW s, NEW c, NEW password, NEW fingerprint \in BOOLEAN
  PROVE  LET m == Check(s, c, password, body, fingerprint)
             k == Len(body) + 2
         IN  /\ Len(body) \in Nat /\ body \in Seq(BodyAttributes)
             /\ m = [type |-> "BindingRequest", tid |-> "tid",
                     length |-> LengthOf(s, c, body, fingerprint), whole |-> TRUE,
                     attrs |-> m.attrs]
             /\ DOMAIN m.attrs = 1 .. (IF fingerprint THEN k + 1 ELSE k)
             /\ Len(m.attrs) = IF fingerprint THEN k + 1 ELSE k
             /\ \E S : m.attrs \in Seq(S)
             /\ m.attrs[1] = Username(s, c)
             /\ \A i \in 1 .. Len(body) : m.attrs[i + 1] = body[i] /\ body[i] \in BodyAttributes
             /\ m.attrs[k] = DigestOf(s, c, password, body)
             /\ fingerprint => m.attrs[k + 1] = FingerprintOf(s, c, password, body)
             /\ SubSeq(m.attrs, 1, k - 1) = Unsigned(s, c, body)
             /\ fingerprint => SubSeq(m.attrs, 1, k)
                               = Append(Unsigned(s, c, body), DigestOf(s, c, password, body))
             /\ AttributeBytes(Unsigned(s, c, body)) \in Nat
             /\ fingerprint => AttributeBytes(m.attrs) = AttributeBytes(Unsigned(s, c, body)) + 32
<1> DEFINE m == Check(s, c, password, body, fingerprint)
           k == Len(body) + 2
<1> PICK u, d, f : /\ u = Unsigned(s, c, body) /\ d = DigestOf(s, c, password, body)
                   /\ f = FingerprintOf(s, c, password, body)
  OBVIOUS
<1>1. body \in Seq(BodyAttributes) /\ Len(body) \in Nat /\ \A i \in 1 .. Len(body) : body[i] \in BodyAttributes
  <2>1. body \in Seq(BodyAttributes)
    BY BodiesAssumption
  <2> QED BY <2>1
<1>2. PICK S : /\ \A a \in S : a.length \in Nat
               /\ body \in Seq(S) /\ <<Username(s, c)>> \in Seq(S)
  <2> DEFINE S == BodyAttributes \cup {Username(s, c)}
  <2>1. Username(s, c).length \in Nat
    BY DEF Username, Attribute
  <2>2. \A a \in BodyAttributes : a.length \in Nat
    BY DEF BodyAttributes
  <2>3. \A a \in S : a.length \in Nat
    BY <2>1, <2>2
  <2>4. body \in Seq(S) /\ <<Username(s, c)>> \in Seq(S)
    BY <1>1
  <2> HIDE DEF S
  <2> QED BY <2>3, <2>4
<1>3. u \in Seq(S) /\ Len(u) = Len(body) + 1 /\ u[1] = Username(s, c)
      /\ \A i \in 1 .. Len(body) : u[i + 1] = body[i]
  <2>2. u = <<Username(s, c)>> \o body
    BY DEF Unsigned
  <2> QED BY <1>2, <2>2, ConcatProperties
<1>4. m = Signed("BindingRequest", "tid", u, password, fingerprint)
  BY DEF Check, Unsigned, Username
<1>5. /\ m = [type |-> "BindingRequest", tid |-> "tid",
              length |-> LengthOf(s, c, body, fingerprint), whole |-> TRUE,
              attrs |-> IF fingerprint THEN Append(Append(u, d), f) ELSE Append(u, d)]
      /\ AttributeBytes(Append(Append(u, d), f)) = AttributeBytes(u) + 32
  <2>1. SignedOf("BindingRequest", "tid", u, password) = Append(u, d)
    BY DEF SignedOf, DigestOf
  <2>2. f = Fp("BindingRequest", "tid", u, password)
    BY DEF FingerprintOf
  <2>3. LengthOf(s, c, body, fingerprint) = AttributeBytes(u) + (IF fingerprint THEN 32 ELSE 24)
    BY DEF LengthOf
  <2> HIDE DEF m
  <2>4. /\ AttributeBytes(Append(Append(u, d), f)) = AttributeBytes(u) + 32
        /\ Signed("BindingRequest", "tid", u, password, TRUE)
             = Whole("BindingRequest", "tid", AttributeBytes(u) + 32, Append(Append(u, d), f))
        /\ Signed("BindingRequest", "tid", u, password, FALSE)
             = Whole("BindingRequest", "tid", AttributeBytes(u) + 24, Append(u, d))
    <3>1. u \in Seq(S)
      BY <1>3
    <3>2. \A a \in S : a.length \in Nat
      BY <1>2
    <3>3. ASSUME NEW w \in Seq(S)
          PROVE  /\ Signed("BindingRequest", "tid", w, password, TRUE)
                    = Whole("BindingRequest", "tid", AttributeBytes(w) + 32,
                            Append(SignedOf("BindingRequest", "tid", w, password),
                                   Fp("BindingRequest", "tid", w, password)))
                 /\ Signed("BindingRequest", "tid", w, password, FALSE)
                    = Whole("BindingRequest", "tid", AttributeBytes(w) + 24,
                            SignedOf("BindingRequest", "tid", w, password))
                 /\ AttributeBytes(Append(SignedOf("BindingRequest", "tid", w, password),
                                          Fp("BindingRequest", "tid", w, password)))
                    = AttributeBytes(w) + 32
      BY ONLY <3>2, SignedIs
    <3> QED BY <3>1, <2>1, <2>2, <3>3
  <2>5. CASE fingerprint = TRUE
    <3>1. m = [type |-> "BindingRequest", tid |-> "tid", length |-> AttributeBytes(u) + 32,
               whole |-> TRUE, attrs |-> Append(Append(u, d), f)]
      BY <1>4, <2>4, <2>5 DEF Whole
    <3> QED BY <2>3, <2>4, <2>5, <3>1
  <2>6. CASE fingerprint = FALSE
    <3>1. m = [type |-> "BindingRequest", tid |-> "tid", length |-> AttributeBytes(u) + 24,
               whole |-> TRUE, attrs |-> Append(u, d)]
      BY <1>4, <2>4, <2>6 DEF Whole
    <3> QED BY <2>3, <2>4, <2>6, <3>1
  <2> QED BY <2>5, <2>6
<1>6. AttributeBytes(u) \in Nat
  BY <1>2, <1>3, BytesIsNat
<1> HIDE DEF m
<1>7. m.attrs = IF fingerprint THEN Append(Append(u, d), f) ELSE Append(u, d)
  BY <1>5
<1>8. u \in Seq(S \cup {d, f}) /\ d \in S \cup {d, f} /\ f \in S \cup {d, f}
  BY <1>3
<1> PICK T : T = S \cup {d, f}
  OBVIOUS
<1>9. u \in Seq(T) /\ d \in T /\ f \in T
  BY <1>8
<1>10. /\ Append(u, d) \in Seq(T) /\ Len(Append(u, d)) = k
       /\ Append(u, d)[k] = d /\ \A i \in 1 .. k - 1 : Append(u, d)[i] = u[i]
  BY <1>1, <1>3, <1>9
<1>11. SubSeq(Append(u, d), 1, k - 1) = u
  BY <1>1, <1>3, <1>9
<1> PICK e : e = Append(u, d)
  OBVIOUS
<1>12. /\ Append(e, f) \in Seq(T) /\ Len(Append(e, f)) = k + 1
       /\ Append(e, f)[k + 1] = f /\ \A i \in 1 .. k : Append(e, f)[i] = e[i]
       /\ SubSeq(Append(e, f), 1, k) = e
       /\ SubSeq(Append(e, f), 1, k - 1) = SubSeq(e, 1, k - 1)
  BY <1>1, <1>9, <1>10
<1>13. 1 \in 1 .. k - 1 /\ \A i \in 1 .. Len(body) : i + 1 \in 1 .. k - 1
  BY <1>1
<1>14. \A i \in 1 .. k - 1 : i \in 1 .. k
  BY <1>1
<1>15. k \in 1 .. k
  BY <1>1
<1> DEFINE a == m.attrs
<1>16. /\ a \in Seq(T) /\ Len(a) = IF fingerprint THEN k + 1 ELSE k
       /\ a[1] = Username(s, c)
       /\ \A i \in 1 .. Len(body) : a[i + 1] = body[i]
       /\ a[k] = d
       /\ fingerprint => a[k + 1] = f
       /\ SubSeq(a, 1, k - 1) = u
       /\ fingerprint => SubSeq(a, 1, k) = e
  <2> HIDE DEF a, k
  <2>1. CASE fingerprint
    <3>1. a = Append(e, f)
      BY <1>7, <2>1 DEF a
    <3> QED BY <1>3, <1>10, <1>11, <1>12, <1>13, <1>14, <1>15, <2>1, <3>1
  <2>2. CASE ~ fingerprint
    <3>1. a = e
      BY <1>7, <2>2 DEF a
    <3> QED BY <1>3, <1>10, <1>11, <1>13, <1>14, <1>15, <2>2, <3>1
  <2> QED BY <2>1, <2>2
<1>17. fingerprint => AttributeBytes(a) = AttributeBytes(u) + 32
  BY <1>5, <1>7
<1>18. DOMAIN a = 1 .. Len(a)
  BY <1>16
<1>19. m = [type |-> "BindingRequest", tid |-> "tid",
            length |-> LengthOf(s, c, body, fingerprint), whole |-> TRUE, attrs |-> a]
  BY <1>5
<1> HIDE DEF a, k
<1> QED BY <1>1, <1>6, <1>16, <1>17, <1>18, <1>19 DEF a, m, k

-----------------------------------------------------------------------------
(* The first n attributes of a message. *)
LEMMA CutIs ==
  ASSUME NEW type, NEW tid, NEW length, NEW S, NEW attrs \in Seq(S),
         NEW n \in 0 .. Len(attrs), NEW whole \in BOOLEAN
  PROVE  LET w == Cut(Whole(type, tid, length, attrs), n, whole)
         IN  /\ w.type = type /\ w.tid = tid /\ w.length = length /\ w.whole = whole
             /\ w.attrs = SubSeq(attrs, 1, n)
             /\ DOMAIN w.attrs = 1 .. n
             /\ \A i \in 1 .. n : w.attrs[i] = attrs[i]
             /\ \A i \in 0 .. n : SubSeq(w.attrs, 1, i) = SubSeq(attrs, 1, i)
<1> DEFINE m == Whole(type, tid, length, attrs)
           w == Cut(m, n, whole)
<1>1. w = [type |-> type, tid |-> tid, length |-> length, whole |-> whole,
           attrs |-> SubSeq(attrs, 1, n)]
  <2>1. m.attrs = attrs
    BY DEF Whole
  <2> PICK a : a = SubSeq(attrs, 1, n)
    OBVIOUS
  <2>2. w = [m EXCEPT !.attrs = a, !.whole = whole]
    BY <2>1 DEF Cut
  <2>3. m = [type |-> type, tid |-> tid, length |-> length, whole |-> TRUE, attrs |-> attrs]
    BY DEF Whole
  <2> HIDE DEF m, w
  <2> QED BY <2>2, <2>3
<1> HIDE DEF m
<1>2. /\ w.type = type /\ w.tid = tid /\ w.length = length /\ w.whole = whole
      /\ w.attrs = SubSeq(attrs, 1, n)
  <2> HIDE DEF w
  <2> QED BY <1>1
<1> PICK a : a = w.attrs
  OBVIOUS
<1>3. a = SubSeq(attrs, 1, n) /\ Len(attrs) \in Nat
  BY <1>2
<1>4. a \in Seq(S) /\ Len(a) = n /\ \A i \in 1 .. n : a[i] = attrs[i]
  BY <1>3, SubSeqProperties
<1>5. ASSUME NEW i \in 0 .. n PROVE SubSeq(a, 1, i) = SubSeq(attrs, 1, i)
  BY <1>3, <1>4
<1> HIDE DEF w
<1>6. DOMAIN a = 1 .. n
  BY <1>4
<1> QED BY <1>2, <1>4, <1>5, <1>6 DEF w, m

(* What a check keeps of its attributes when it is cut: where the ones that *)
(* Parse looks for are.                                                    *)
LEMMA CutCheckIs ==
  ASSUME NEW body \in Bodies, NEW s, NEW c, NEW password, NEW fingerprint \in BOOLEAN,
         NEW n \in 0 .. Len(Check(s, c, password, body, fingerprint).attrs), NEW whole \in BOOLEAN
  PROVE  LET m == Check(s, c, password, body, fingerprint)
             w == Cut(m, n, whole)
             k == Len(body) + 2
         IN  /\ w.type = "BindingRequest" /\ w.tid = "tid" /\ w.whole = whole
             /\ w.length = LengthOf(s, c, body, fingerprint)
             /\ DOMAIN w.attrs = 1 .. n /\ k \in Nat /\ k >= 2 /\ n \in Nat
             /\ Len(m.attrs) = IF fingerprint THEN k + 1 ELSE k
             /\ Positions(w, "USERNAME") = IF n = 0 THEN {} ELSE {1}
             /\ n # 0 => w.attrs[1] = Username(s, c)
             /\ Positions(w, "MESSAGE-INTEGRITY") = IF n >= k THEN {k} ELSE {}
             /\ n >= k => /\ w.attrs[k] = DigestOf(s, c, password, body)
                          /\ Before(w, k) = Unsigned(s, c, body)
             /\ Positions(w, "FINGERPRINT") = IF n = k + 1 THEN {k + 1} ELSE {}
             /\ n = k + 1 => /\ fingerprint
                             /\ w.attrs[k + 1] = FingerprintOf(s, c, password, body)
                             /\ Before(w, k + 1) = Append(Unsigned(s, c, body),
                                                          DigestOf(s, c, password, body))
                             /\ AttributeBytes(w.attrs)
                                  = AttributeBytes(Unsigned(s, c, body)) + 32
             /\ n >= k => \A kind \in {"ICE-CONTROLLED", "USE-CANDIDATE"} :
                            Has(w, kind) <=> \E a \in Range(body) : a.kind = kind
<1> DEFINE m == Check(s, c, password, body, fingerprint)
           w == Cut(m, n, whole)
           k == Len(body) + 2
<1> PICK u, d, f, l : /\ u = Unsigned(s, c, body) /\ d = DigestOf(s, c, password, body)
                   /\ f = FingerprintOf(s, c, password, body)
                   /\ l = LengthOf(s, c, body, fingerprint)
  OBVIOUS
<1> PICK attrs : attrs = m.attrs
  OBVIOUS
<1>1. /\ Len(body) \in Nat /\ DOMAIN body = 1 .. Len(body)
      /\ \A i \in 1 .. Len(body) : attrs[i + 1] = body[i] /\ body[i] \in BodyAttributes
      /\ Len(attrs) = IF fingerprint THEN k + 1 ELSE k
      /\ attrs[1] = Username(s, c)
      /\ attrs[k] = d
      /\ fingerprint => attrs[k + 1] = f
      /\ SubSeq(attrs, 1, k - 1) = u
      /\ fingerprint => SubSeq(attrs, 1, k) = Append(u, d)
      /\ fingerprint => AttributeBytes(attrs) = AttributeBytes(u) + 32
  BY CheckIs
<1>2. m = Whole("BindingRequest", "tid", l, attrs)
  BY CheckIs DEF Whole
<1>3. PICK S : attrs \in Seq(S)
  BY CheckIs
<1> HIDE DEF m
<1>4. n \in 0 .. Len(attrs)
  BY DEF m
<1>5. /\ w.type = "BindingRequest" /\ w.tid = "tid" /\ w.length = l /\ w.whole = whole
      /\ w.attrs = SubSeq(attrs, 1, n)
      /\ DOMAIN w.attrs = 1 .. n
      /\ \A i \in 1 .. n : w.attrs[i] = attrs[i]
      /\ \A i \in 0 .. n : SubSeq(w.attrs, 1, i) = SubSeq(attrs, 1, i)
  BY <1>2, <1>3, <1>4, CutIs
<1> HIDE DEF w
<1>6. k \in Nat /\ k >= 2 /\ n \in Nat
  BY <1>1, <1>4
<1>7. /\ attrs[1].kind = "USERNAME" /\ d.kind = "MESSAGE-INTEGRITY" /\ f.kind = "FINGERPRINT"
      /\ \A i \in 1 .. Len(body) :
           body[i].kind \notin {"USERNAME", "MESSAGE-INTEGRITY", "FINGERPRINT"}
  <2>1. attrs[1].kind = "USERNAME"
    BY <1>1 DEF Username, Attribute
  <2>2. d.kind = "MESSAGE-INTEGRITY"
    BY DEF DigestOf, Mi, Attribute
  <2>3. f.kind = "FINGERPRINT"
    BY DEF FingerprintOf, Fp, Attribute
  <2>4. \A i \in 1 .. Len(body) :
           body[i].kind \notin {"USERNAME", "MESSAGE-INTEGRITY", "FINGERPRINT"}
    BY <1>1 DEF BodyAttributes
  <2> QED BY <2>1, <2>2, <2>3, <2>4
<1>8. /\ n <= k + 1
      /\ n = k + 1 => fingerprint
      /\ \A i \in 1 .. n : i # 1 /\ i # k /\ i # k + 1 =>
                            i - 1 \in 1 .. Len(body) /\ i - 1 + 1 = i
  <2>1. n <= k + 1
    BY <1>1, <1>4
  <2>2. n = k + 1 => fingerprint
    BY <1>1, <1>4
  <2> QED BY <1>1, <1>4, <2>1, <2>2
<1>9. ASSUME NEW i \in 1 .. n
      PROVE /\ w.attrs[i].kind = "USERNAME" <=> i = 1
            /\ w.attrs[i].kind = "MESSAGE-INTEGRITY" <=> i = k
            /\ w.attrs[i].kind = "FINGERPRINT" <=> i = k + 1
            /\ i - 1 \in 1 .. Len(body) => w.attrs[i] = body[i - 1]
            /\ i - 1 \in 1 .. Len(body) \/ w.attrs[i].kind \in {"USERNAME", "MESSAGE-INTEGRITY", "FINGERPRINT"}
  <2>1. w.attrs[i] = attrs[i]
    BY <1>5
  <2>2. CASE i = 1
    BY <1>1, <1>6, <1>7, <2>1, <2>2
  <2>3. CASE i = k
    BY <1>1, <1>6, <1>7, <2>1, <2>3
  <2>4. CASE i = k + 1
    <3>1. fingerprint
      BY <1>6, <1>8, <2>4
    <3> QED BY <1>1, <1>6, <1>7, <2>1, <2>4, <3>1
  <2>5. CASE i - 1 \in 1 .. Len(body) /\ i - 1 + 1 = i
    <3>1. attrs[i] = body[i - 1]
      BY <1>1, <2>5
    <3>2. i # 1 /\ i # k /\ i # k + 1
      BY <1>1, <2>5
    <3> QED BY <1>7, <2>1, <2>5, <3>1, <3>2
  <2> QED BY <1>8, <2>2, <2>3, <2>4, <2>5
<1>10. n >= k => k \in 1 .. n /\ k - 1 \in 0 .. n
  BY <1>6
<1>11. n = k + 1 => fingerprint /\ k + 1 \in 1 .. n /\ k \in 0 .. n
  BY <1>1, <1>4, <1>6
<1>12. Positions(w, "USERNAME") = IF n = 0 THEN {} ELSE {1}
  BY <1>5, <1>6, <1>9 DEF Positions
<1>13. Positions(w, "MESSAGE-INTEGRITY") = IF n >= k THEN {k} ELSE {}
  BY <1>5, <1>6, <1>9, <1>10 DEF Positions
<1>15. Positions(w, "FINGERPRINT") = IF n = k + 1 THEN {k + 1} ELSE {}
  BY <1>5, <1>6, <1>8, <1>9, <1>11 DEF Positions
<1>16. n # 0 => w.attrs[1] = Username(s, c)
  BY <1>1, <1>5, <1>6
<1>17. n >= k => w.attrs[k] = d /\ Before(w, k) = u
  BY <1>1, <1>5, <1>10 DEF Before
<1>18. n = k + 1 => /\ w.attrs[k + 1] = f /\ Before(w, k + 1) = Append(u, d)
                    /\ AttributeBytes(w.attrs) = AttributeBytes(u) + 32
  <2> SUFFICES ASSUME n = k + 1 PROVE /\ w.attrs[k + 1] = f /\ Before(w, k + 1) = Append(u, d)
                    /\ AttributeBytes(w.attrs) = AttributeBytes(u) + 32
    OBVIOUS
  <2>1. w.attrs[k + 1] = f
    BY <1>1, <1>5, <1>11
  <2>2. k + 1 - 1 = k
    BY <1>6
  <2>3. Before(w, k + 1) = Append(u, d)
    BY <1>1, <1>5, <1>11, <2>2 DEF Before
  <2>4. w.attrs = attrs
    BY <1>1, <1>3, <1>5, <1>11, SubSeqFull
  <2> QED BY <1>1, <1>11, <2>1, <2>3, <2>4
<1>19. ASSUME n >= k, NEW kind, kind \notin {"USERNAME", "MESSAGE-INTEGRITY", "FINGERPRINT"}
       PROVE  Has(w, kind) <=> \E a \in Range(body) : a.kind = kind
  <2>1. ASSUME Has(w, kind) PROVE \E a \in Range(body) : a.kind = kind
    <3>1. PICK i \in 1 .. n : w.attrs[i].kind = kind
      BY <1>5, <2>1 DEF Has, Positions
    <3>2. i - 1 \in 1 .. Len(body) /\ w.attrs[i] = body[i - 1]
      BY <1>9, <1>19, <3>1
    <3> QED BY <1>1, <3>1, <3>2 DEF Range
  <2>2. ASSUME NEW a \in Range(body), a.kind = kind PROVE Has(w, kind)
    <3>1. PICK j \in 1 .. Len(body) : body[j] = a
      BY <1>1 DEF Range
    <3>2. j + 1 \in 1 .. n /\ j + 1 - 1 = j
      BY <1>1, <1>4, <1>19
    <3>3. w.attrs[j + 1] = attrs[j + 1]
      BY <1>5, <3>2
    <3>4. attrs[j + 1] = body[j]
      BY <1>1
    <3>5. w.attrs[j + 1] = a
      BY <3>1, <3>3, <3>4
    <3> QED BY <1>5, <2>2, <3>2, <3>5 DEF Has, Positions
  <2> QED BY <2>1, <2>2
<1>20. /\ "ICE-CONTROLLED" \notin {"USERNAME", "MESSAGE-INTEGRITY", "FINGERPRINT"}
       /\ "USE-CANDIDATE" \notin {"USERNAME", "MESSAGE-INTEGRITY", "FINGERPRINT"}
  OBVIOUS
<1>21. n >= k => \A kind \in {"ICE-CONTROLLED", "USE-CANDIDATE"} :
                   Has(w, kind) <=> \E a \in Range(body) : a.kind = kind
  BY <1>19, <1>20
<1> HIDE DEF k
<1>22. Len(m.attrs) = IF fingerprint THEN k + 1 ELSE k
  BY <1>1
<1> QED BY <1>5, <1>6, <1>11, <1>12, <1>13, <1>15, <1>16, <1>17, <1>18, <1>21, <1>22 DEF w, m, k

-----------------------------------------------------------------------------
(* Three tokens in a row. *)
LEMMA Joined ==
  ASSUME NEW x, NEW y, NEW z
  PROVE  <<x>> \o <<y>> \o <<z>> = <<x, y, z>>
<1> DEFINE s == <<x>> \o <<y>> \o <<z>>
           T == {x, y, z}
<1>1. <<x, y, z>> \in Seq(T) /\ Len(<<x, y, z>>) = 3
  OBVIOUS
<1>2. s \in Seq(T) /\ Len(s) = 3 /\ s[1] = x /\ s[2] = y /\ s[3] = z
  OBVIOUS
<1>3. \A i \in 1 .. 3 : s[i] = <<x, y, z>>[i]
  <2> HIDE DEF s
  <2>1. \A i \in 1 .. 3 : i = 1 \/ i = 2 \/ i = 3
    OBVIOUS
  <2>2. <<x, y, z>>[1] = x /\ <<x, y, z>>[2] = y /\ <<x, y, z>>[3] = z
    OBVIOUS
  <2> QED BY <1>2, <2>1, <2>2
<1> HIDE DEF s, T
<1>4. s = <<x, y, z>>
  BY <1>1, <1>2, <1>3, SeqEqual
<1> QED BY <1>4 DEF s

(* USERNAME begins with the fragment of the server and ends with that of    *)
(* the client, and only with those.                                        *)
LEMMA UsernameFits ==
  ASSUME NEW s \in Ufrags \cup {local_ufrag}, NEW c \in Ufrags \cup {local_ufrag},
         NEW r \in Ufrags \cup {local_ufrag}
  PROVE  /\ IsPrefix(r, Username(s, c).value) <=> s = r
         /\ IsSuffix(r, Username(s, c).value) <=> c = r
<1> PICK x, y, z : s = <<x>> /\ c = <<y>> /\ r = <<z>>
  BY UfragsAssumption DEF local_ufrag
<1> PICK v : v = <<x, ":", y>>
  OBVIOUS
<1>1. s \o <<":">> \o c = v
  BY Joined
<1>2. IsPrefix(r, v) <=> s = r
  BY DEF IsPrefix
<1>3. Reverse(r) = <<z>> /\ Reverse(v) = <<y, ":", x>>
  BY DEF Reverse
<1>4. IsPrefix(<<z>>, <<y, ":", x>>) <=> c = r
  BY DEF IsPrefix
<1>5. IsSuffix(r, v) <=> c = r
  BY <1>3, <1>4 DEF IsSuffix
<1>6. Username(s, c).value = v
  BY <1>1 DEF Username, Attribute
<1> QED BY <1>2, <1>5, <1>6

(* What Parse and HasUseCandidate say of the first n attributes of a check, *)
(* when the remote fragment is r: one that has a digest is accepted only   *)
(* if all of it arrived from the client of this session, and such a check  *)
(* is accepted.                                                            *)
CredentialsFor(r) ==
  [local_ufrag |-> local_ufrag, local_password |-> local_password, remote_ufrag |-> r]
Controlled(body) == \E a \in Range(body) : a.kind = "ICE-CONTROLLED"

ParsesRight(s, c, password, body, fingerprint, n, whole, r) ==
  LET m == Check(s, c, password, body, fingerprint)
      w == Cut(m, n, whole)
      own == /\ s = local_ufrag /\ c = r /\ password = local_password
             /\ ~ Controlled(body) /\ n = Len(m.attrs)
  IN  /\ Parse(w, CredentialsFor(r)) /\ Has(w, "MESSAGE-INTEGRITY") => own
      /\ own /\ whole => Parse(w, CredentialsFor(r))
      /\ n = Len(m.attrs) => (HasUseCandidate(w) <=>
                                \E a \in Range(body) : a.kind = "USE-CANDIDATE")

(* It holds of every check, cut anywhere. *)
LEMMA ParseIs ==
  ASSUME NEW body \in Bodies, NEW s \in Ufrags \cup {local_ufrag},
         NEW c \in Ufrags \cup {local_ufrag}, NEW password, NEW fingerprint \in BOOLEAN,
         NEW n \in 0 .. Len(Check(s, c, password, body, fingerprint).attrs), NEW whole \in BOOLEAN,
         NEW r \in Ufrags
  PROVE  ParsesRight(s, c, password, body, fingerprint, n, whole, r)
<1> DEFINE m == Check(s, c, password, body, fingerprint)
           w == Cut(m, n, whole)
           k == Len(body) + 2
           u == Unsigned(s, c, body)
           cr == CredentialsFor(r)
<1>1. /\ w.type = "BindingRequest" /\ w.tid = "tid" /\ w.whole = whole
      /\ w.length = LengthOf(s, c, body, fingerprint)
      /\ DOMAIN w.attrs = 1 .. n /\ k \in Nat /\ k >= 2 /\ n \in Nat
      /\ Len(m.attrs) = IF fingerprint THEN k + 1 ELSE k
  BY CutCheckIs
<1>2. /\ Positions(w, "USERNAME") = IF n = 0 THEN {} ELSE {1}
      /\ n # 0 => w.attrs[1] = Username(s, c)
  BY CutCheckIs
<1>3. /\ Positions(w, "MESSAGE-INTEGRITY") = IF n >= k THEN {k} ELSE {}
      /\ n >= k => /\ w.attrs[k] = DigestOf(s, c, password, body)
                   /\ Before(w, k) = u
  BY CutCheckIs
<1>4. /\ Positions(w, "FINGERPRINT") = IF n = k + 1 THEN {k + 1} ELSE {}
      /\ n = k + 1 => /\ fingerprint
                      /\ w.attrs[k + 1] = FingerprintOf(s, c, password, body)
                      /\ Before(w, k + 1) = Append(u, DigestOf(s, c, password, body))
                      /\ AttributeBytes(w.attrs) = AttributeBytes(u) + 32
  BY CutCheckIs
<1>5. n >= k => \A kind \in {"ICE-CONTROLLED", "USE-CANDIDATE"} :
                  Has(w, kind) <=> \E a \in Range(body) : a.kind = kind
  BY CutCheckIs
<1>6. AttributeBytes(u) \in Nat
  BY CheckIs
<1> HIDE DEF m
<1>7. n \in 0 .. Len(m.attrs)
  BY DEF m
<1> HIDE DEF w, k, u, cr
<1>8. LengthOf(s, c, body, fingerprint) = AttributeBytes(u) + (IF fingerprint THEN 32 ELSE 24)
  BY DEF LengthOf, u
<1>9. cr.local_ufrag = local_ufrag /\ cr.local_password = local_password /\ cr.remote_ufrag = r
  BY DEF cr, CredentialsFor
<1>10. n = Len(m.attrs) => n >= k
  BY <1>1
<1>11. Has(w, "MESSAGE-INTEGRITY") <=> n >= k
  BY <1>3 DEF Has
<1>12. n >= k => Max(Positions(w, "MESSAGE-INTEGRITY")) = k
  <2> SUFFICES ASSUME n >= k PROVE Max(Positions(w, "MESSAGE-INTEGRITY")) = k
    OBVIOUS
  <2>1. Positions(w, "MESSAGE-INTEGRITY") = {k} /\ {k} \in SUBSET (1 .. n)
    BY <1>1, <1>3
  <2> QED BY <1>1, <2>1, MaxIn
<1>13. IntegrityLength(w) = IF n = k + 1 THEN AttributeBytes(u) + 24
                            ELSE LengthOf(s, c, body, fingerprint)
  <2>1. CASE n = k + 1
    <3>1. Has(w, "FINGERPRINT")
      BY <1>4, <2>1 DEF Has
    <3>2. Size(w) = 20 + (AttributeBytes(u) + 32)
      BY <1>4, <2>1 DEF Size, kStunHeaderSize
    <3>3. IntegrityLength(w) = (20 + (AttributeBytes(u) + 32)) - 20 - 4 - 4
      BY <3>1, <3>2 DEF IntegrityLength, kStunHeaderSize, kFingerprintAttrLength,
                        kStunAttributeHeaderSize
    <3> QED BY <1>6, <2>1, <3>3
  <2>2. CASE n # k + 1
    <3>1. ~ Has(w, "FINGERPRINT")
      BY <1>4, <2>2 DEF Has
    <3> QED BY <1>1, <2>2, <3>1 DEF IntegrityLength
  <2> QED BY <2>1, <2>2
<1>14. n >= k => LET given == DigestOf(s, c, password, body).value
                     due == Hmac(cr.local_password, w, IntegrityLength(w), Before(w, k))
                 IN  given = due <=> password = local_password
                                     /\ IntegrityLength(w) = AttributeBytes(u) + 24
  <2> SUFFICES ASSUME n >= k
               PROVE  LET given == DigestOf(s, c, password, body).value
                          due == Hmac(cr.local_password, w, IntegrityLength(w), Before(w, k))
                      IN  given = due <=> password = local_password
                                          /\ IntegrityLength(w) = AttributeBytes(u) + 24
    OBVIOUS
  <2>1. DigestOf(s, c, password, body).value
          = [hmac |-> password, type |-> "BindingRequest", tid |-> "tid",
             length |-> AttributeBytes(u) + 24, before |-> u]
    BY DEF DigestOf, Mi, Attribute, u
  <2>2. Hmac(cr.local_password, w, IntegrityLength(w), Before(w, k))
          = [hmac |-> local_password, type |-> "BindingRequest", tid |-> "tid",
             length |-> IntegrityLength(w), before |-> u]
    BY <1>1, <1>3, <1>9 DEF Hmac
  <2> QED BY <2>1, <2>2
<1>15. ASSUME Parse(w, cr), Has(w, "MESSAGE-INTEGRITY")
       PROVE  /\ s = local_ufrag /\ c = r /\ password = local_password
              /\ ~ Controlled(body) /\ n = Len(m.attrs)
  <2>1. n >= k
    BY <1>11, <1>15
  <2>2. n # 0
    BY <1>1, <2>1
  <2>3. s = local_ufrag /\ c = r
    <3>1. IsPrefix(local_ufrag, Username(s, c).value) /\ IsSuffix(r, Username(s, c).value)
      BY <1>2, <1>9, <1>15, <2>2 DEF Parse
    <3> QED BY <3>1, UsernameFits
  <2>4. ~ Controlled(body)
    BY <1>5, <1>15, <2>1 DEF Parse, Controlled
  <2>5. w.attrs[k].value = Hmac(cr.local_password, w, IntegrityLength(w), Before(w, k))
    BY <1>12, <1>15, <2>1 DEF Parse
  <2>6. password = local_password /\ IntegrityLength(w) = AttributeBytes(u) + 24
    BY <1>3, <1>14, <2>1, <2>5
  <2>7. n = Len(m.attrs)
    <3>1. CASE n = k + 1
      BY <1>1, <1>4, <3>1
    <3>2. CASE n # k + 1
      <4>1. fingerprint = FALSE
        BY <1>6, <1>8, <1>13, <2>6, <3>2
      <4> QED BY <1>1, <1>7, <2>1, <4>1
    <3> QED BY <3>1, <3>2
  <2> QED BY <2>3, <2>4, <2>6, <2>7
<1>16. ASSUME s = local_ufrag, c = r, password = local_password, ~ Controlled(body),
              n = Len(m.attrs), whole
       PROVE  Parse(w, cr)
  <2>1. n >= k /\ n # 0
    BY <1>1, <1>10, <1>16
  <2>2. \A i \in Positions(w, "USERNAME") :
          IsPrefix(cr.local_ufrag, w.attrs[i].value) /\ IsSuffix(cr.remote_ufrag, w.attrs[i].value)
    <3>1. /\ IsPrefix(local_ufrag, Username(s, c).value)
          /\ IsSuffix(r, Username(s, c).value)
      BY <1>16, UsernameFits
    <3> QED BY <1>2, <1>9, <2>1, <3>1
  <2>3. \A i \in Positions(w, "FINGERPRINT") : w.attrs[i].value = Crc(w, w.length, Before(w, i))
    <3> SUFFICES ASSUME n = k + 1
                 PROVE  w.attrs[k + 1].value = Crc(w, w.length, Before(w, k + 1))
      BY <1>4
    <3>1. fingerprint = TRUE
      BY <1>4
    <3>2. w.length = AttributeBytes(u) + 32
      BY <1>1, <1>8, <3>1
    <3>3. SignedOf("BindingRequest", "tid", u, password) = Append(u, DigestOf(s, c, password, body))
      BY DEF SignedOf, DigestOf, u
    <3>4. FingerprintOf(s, c, password, body).value
            = [crc |-> TRUE, type |-> "BindingRequest", tid |-> "tid",
               length |-> AttributeBytes(u) + 32,
               before |-> Append(u, DigestOf(s, c, password, body))]
      BY <3>3 DEF FingerprintOf, Fp, Attribute, u
    <3> QED BY <1>1, <1>4, <3>2, <3>4 DEF Crc
  <2>4. ~ Has(w, "ICE-CONTROLLED")
    BY <1>5, <1>16, <2>1 DEF Controlled
  <2>5. IntegrityLength(w) = AttributeBytes(u) + 24
    <3>1. CASE fingerprint = TRUE
      BY <1>1, <1>13, <1>16, <3>1
    <3>2. CASE fingerprint = FALSE
      BY <1>1, <1>6, <1>8, <1>13, <1>16, <3>2
    <3> QED BY <3>1, <3>2
  <2>6. w.attrs[k].value = Hmac(cr.local_password, w, IntegrityLength(w), Before(w, k))
    BY <1>3, <1>14, <1>16, <2>1, <2>5
  <2>7. w.whole
    BY <1>1, <1>16
  <2> QED BY <1>12, <2>1, <2>2, <2>3, <2>4, <2>6, <2>7 DEF Parse
<1>17. n = Len(m.attrs) => (HasUseCandidate(w) <=>
                             \E a \in Range(body) : a.kind = "USE-CANDIDATE")
  BY <1>5, <1>10 DEF HasUseCandidate
<1> QED BY <1>15, <1>16, <1>17 DEF ParsesRight, m, w, cr

(* The response to a check from an IPv4 address is what a client takes.     *)
LEMMA ResponseVerified ==
  ASSUME NEW address, address.v4 = TRUE, NEW r
  PROVE  Verified(CreateResponse("tid", address, CredentialsFor(r)), "tid", address, local_password)
<1> DEFINE xma == Attribute("XOR-MAPPED-ADDRESS", 8, address)
           mapped == <<xma>>
           header == [type |-> "BindingResponse", tid |-> "tid"]
           d == Mi("BindingResponse", "tid", mapped, local_password)
           cr == CredentialsFor(r)
<1>1. mapped \in Seq({xma}) /\ \A a \in {xma} : a.length \in Nat
  BY DEF Attribute
<1>2. AttributeBytes(mapped) = 12
  <2>1. <<>> \in Seq({xma}) /\ mapped = Append(<<>>, xma) /\ xma.length = 8
    BY DEF Attribute
  <2> HIDE DEF xma
  <2>2. AttributeBytes(mapped) = AttributeBytes(<<>>) + 4 + Padded(8)
    BY <2>1, BytesAppend
  <2>3. AttributeBytes(<<>>) = 0
    BY BytesIsFold, Bytes!FoldedEmpty DEF AttributeBytes
  <2> QED BY <2>2, <2>3, PaddedWord
<1> PICK q : q = mapped
  OBVIOUS
<1>3. /\ Signed("BindingResponse", "tid", q, local_password, TRUE)
           = Whole("BindingResponse", "tid", AttributeBytes(q) + 32,
                   Append(SignedOf("BindingResponse", "tid", q, local_password),
                          Fp("BindingResponse", "tid", q, local_password)))
  <2>1. PICK S : q \in Seq(S) /\ \A a \in S : a.length \in Nat
    BY <1>1
  <2>2. ASSUME NEW w \in Seq(S)
        PROVE  Signed("BindingResponse", "tid", w, local_password, TRUE)
                 = Whole("BindingResponse", "tid", AttributeBytes(w) + 32,
                         Append(SignedOf("BindingResponse", "tid", w, local_password),
                                Fp("BindingResponse", "tid", w, local_password)))
    BY ONLY <2>1, SignedIs
  <2> QED BY <2>1, <2>2
<1>4. header.type = "BindingResponse" /\ header.tid = "tid"
  OBVIOUS
<1>5. Hmac(cr.local_password, header, ResponseIntegrityLength, q)
        = [hmac |-> local_password, type |-> "BindingResponse", tid |-> "tid", length |-> 36,
           before |-> q]
  BY <1>4 DEF Hmac, CredentialsFor, ResponseIntegrityLength
<1>6. Append(q, Attribute("MESSAGE-INTEGRITY", kSha1ResultLength,
                Hmac(cr.local_password, header, ResponseIntegrityLength, q)))
        = SignedOf("BindingResponse", "tid", q, local_password)
  <2>1. AttributeBytes(q) + 24 = 36
    BY <1>2
  <2> QED BY <1>5, <2>1 DEF SignedOf, Mi, kSha1ResultLength
<1> PICK e : e = SignedOf("BindingResponse", "tid", q, local_password)
  OBVIOUS
<1>7. Attribute("FINGERPRINT", kFingerprintAttrLength, Crc(header, 12 + 24 + 8, e))
        = Fp("BindingResponse", "tid", q, local_password)
  <2>1. AttributeBytes(q) + 32 = 12 + 24 + 8
    BY <1>2
  <2>2. Crc(header, 12 + 24 + 8, e)
          = [crc |-> TRUE, type |-> "BindingResponse", tid |-> "tid",
             length |-> AttributeBytes(q) + 32, before |-> e]
    BY <1>4, <2>1 DEF Crc
  <2> QED BY <2>2 DEF Fp, kFingerprintAttrLength
<1>8. CreateResponse("tid", address, cr)
        = [type |-> "BindingResponse", tid |-> "tid", length |-> 12 + 24 + 8, whole |-> TRUE,
           attrs |-> Append(e, Fp("BindingResponse", "tid", q, local_password))]
  <2> HIDE DEF cr
  <2>1. CreateResponse("tid", address, cr)
          = [type |-> "BindingResponse", tid |-> "tid", length |-> 12 + 24 + 8, whole |-> address.v4,
             attrs |-> Append(e, Attribute("FINGERPRINT", kFingerprintAttrLength,
                                           Crc(header, 12 + 24 + 8, e)))]
    BY <1>6 DEF CreateResponse
  <2> QED BY <1>7, <2>1
<1>9. AttributeBytes(q) + 32 = 12 + 24 + 8
  BY <1>2
<1>10. CreateResponse("tid", address, cr) = Signed("BindingResponse", "tid", q, local_password, TRUE)
  BY <1>3, <1>8, <1>9 DEF Whole
<1> QED BY <1>10 DEF Verified

-----------------------------------------------------------------------------
(* The inductive invariant: the transport is what SetOffer makes of the     *)
(* offer, and the answer what CreateAnswer makes of that transport, as it  *)
(* is when the check comes; the check is one that a client can send.       *)
SetUp ==
  /\ transport = Nothing => offer = <<>> /\ answer = Nothing
  /\ transport # Nothing => offer \in Offers /\ transport = SetOffer(offer)
  /\ answer # Nothing => transport # Nothing /\ transport.ok
  /\ answer = Nothing => transport = Nothing \/ ~ transport.ok
  /\ answer # Nothing => answer = AnswerTo(transport) /\ tracks = TracksOf(transport)

(* How a check came to be: what ReceiveCheck chooses. *)
Sendings ==
  [server_ufrag : Ufrags \cup {local_ufrag}, client_ufrag : Ufrags \cup {local_ufrag},
   password : Passwords, body : Bodies, fingerprint : BOOLEAN, v4 : BOOLEAN,
   whole : BOOLEAN, n : Nat]
Made(p) == Check(p.server_ufrag, p.client_ufrag, p.password, p.body, p.fingerprint)
IsSent(p) ==
  /\ p.n \in 0 .. Len(Made(p).attrs)
  /\ p.n = Len(Made(p).attrs) => p.whole
  /\ check = [sent |-> [server_ufrag |-> p.server_ufrag, client_ufrag |-> p.client_ufrag,
                        password |-> p.password, body |-> p.body,
                        all |-> p.n = Len(Made(p).attrs)],
              message |-> Cut(Made(p), p.n, p.whole),
              address |-> [v4 |-> p.v4, name |-> "client"]]

(* What came of the check is what ProcessStunMessage makes of it. *)
Checked ==
  check # Nothing =>
    /\ answer # Nothing
    /\ \E p \in Sendings : IsSent(p)
    /\ outcome = IF Parse(check.message, Credentials)
                 THEN [accepted |-> TRUE, nominates |-> HasUseCandidate(check.message),
                       response |-> CreateResponse(check.message.tid, check.address, Credentials)]
                 ELSE [accepted |-> FALSE]

IInv == SetUp /\ Checked

(* The records that stand for something are not the one for nothing. *)
LEMMA NotNothing ==
  /\ \A t \in Members : t # Nothing
  /\ \A t : AnswerTo(t) # Nothing
  /\ \A sent, message, address :
       [sent |-> sent, message |-> message, address |-> address] # Nothing
<1>1. DOMAIN Nothing = {"none"}
  BY DEF Nothing
<1>2. ASSUME NEW t \in Members PROVE t # Nothing
  <2>1. "ok" \in DOMAIN t
    BY DEF Members
  <2> QED BY <1>1, <2>1
<1>3. ASSUME NEW t PROVE AnswerTo(t) # Nothing
  <2>1. "setup" \in DOMAIN AnswerTo(t)
    BY DEF AnswerTo
  <2> QED BY <1>1, <2>1
<1>4. ASSUME NEW sent, NEW message, NEW address
      PROVE  [sent |-> sent, message |-> message, address |-> address] # Nothing
  <2> DEFINE r == [sent |-> sent, message |-> message, address |-> address]
  <2>1. "sent" \in DOMAIN r
    OBVIOUS
  <2> HIDE DEF r
  <2>2. r # Nothing
    BY <1>1, <2>1
  <2> QED BY <2>2 DEF r
<1> QED BY <1>2, <1>3, <1>4

(* What SetOffer makes of an offer is a transport's members. *)
LEMMA OfferSets ==
  ASSUME NEW media \in Offers
  PROVE  /\ SetOffer(media) \in Members /\ SetOffer(media) # Nothing
         /\ SetOffer(media).ok => /\ Len(media) # 0
                                  /\ SetOffer(media).ice_ufrag = media[1].iceUfrag
                                  /\ SetOffer(media).ice_ufrag \in Ufrags
<1>1. media \in Seq(MLines)
  BY OffersAssumption
<1> PICK t : t = FoldLeft(SetOfferLine, Unset, media)
  OBVIOUS
<1>2. t \in Members /\ ReadSoFar(media, Len(media), t)
  BY <1>1, OfferRead
<1>3. /\ SetOffer(media) \in Members
      /\ SetOffer(media).ok => t.ok /\ NoPayload \notin {t.opus, t.h264, t.rtx}
      /\ SetOffer(media).ice_ufrag = t.ice_ufrag
  BY <1>2, SetOfferIs
<1>4. SetOffer(media).ok => Len(media) # 0
  <2>1. ASSUME Len(media) = 0, t.ok PROVE t.opus = NoPayload
    BY <1>2, <2>1 DEF ReadSoFar, AudioOf
  <2> QED BY <1>3, <2>1
<1> QED BY <1>2, <1>3, <1>4, NotNothing DEF ReadSoFar

(* The invariant holds at first. *)
LEMMA InitIInv ==
  ASSUME Init
  PROVE  IInv
BY DEF Init, IInv, SetUp, Checked

(* Reading an offer keeps it: no check has come by then. *)
LEMMA PlayKeeps ==
  ASSUME IInv, NEW media \in Offers, Play(media)
  PROVE  IInv'
<1>1. transport = Nothing /\ answer = Nothing /\ check = Nothing
  BY DEF Play, IInv, SetUp, Checked
<1>2. transport' = SetOffer(media) /\ offer' = media /\ transport' # Nothing
  BY OfferSets DEF Play
<1>3. check' = Nothing
  BY <1>1 DEF Play
<1>4. SetUp'
  <2>1. CASE transport'.ok
    <3>1. answer' = AnswerTo(transport') /\ tracks' = TracksOf(transport')
      BY <2>1 DEF Play
    <3>2. answer' # Nothing
      BY <3>1, NotNothing
    <3> QED BY <1>2, <2>1, <3>1, <3>2 DEF SetUp
  <2>2. CASE ~ transport'.ok
    <3>1. answer' = Nothing
      BY <1>1, <2>2 DEF Play
    <3> QED BY <1>2, <2>2, <3>1 DEF SetUp
  <2> QED BY <2>1, <2>2
<1>5. Checked'
  BY <1>3 DEF Checked, Nothing
<1> QED BY <1>4, <1>5 DEF IInv

(* A check keeps it: the choices of ReceiveCheck are those of Sendings. *)
LEMMA CheckKeeps ==
  ASSUME IInv, ReceiveCheck
  PROVE  IInv'
<1>1. PICK server_ufrag \in Ufrags \cup {local_ufrag}, client_ufrag \in Ufrags \cup {local_ufrag},
           password \in Passwords, body \in Bodies, fingerprint \in BOOLEAN, v4 \in BOOLEAN :
        LET m == Check(server_ufrag, client_ufrag, password, body, fingerprint)
        IN  \E n \in 0 .. Len(m.attrs), whole \in BOOLEAN :
             /\ n = Len(m.attrs) => whole
             /\ ProcessStunMessage(
                  [server_ufrag |-> server_ufrag, client_ufrag |-> client_ufrag,
                   password |-> password, body |-> body, all |-> n = Len(m.attrs)],
                  Cut(m, n, whole), [v4 |-> v4, name |-> "client"])
  BY Zenon DEF ReceiveCheck
<1> PICK m : m = Check(server_ufrag, client_ufrag, password, body, fingerprint)
  OBVIOUS
<1>0. PICK n \in 0 .. Len(m.attrs), whole \in BOOLEAN :
             /\ n = Len(m.attrs) => whole
             /\ ProcessStunMessage(
                  [server_ufrag |-> server_ufrag, client_ufrag |-> client_ufrag,
                   password |-> password, body |-> body, all |-> n = Len(m.attrs)],
                  Cut(m, n, whole), [v4 |-> v4, name |-> "client"])
  BY <1>1, Zenon
<1> PICK sent : sent = [server_ufrag |-> server_ufrag, client_ufrag |-> client_ufrag,
                        password |-> password, body |-> body, all |-> n = Len(m.attrs)]
  OBVIOUS
<1> PICK w, address : w = Cut(m, n, whole) /\ address = [v4 |-> v4, name |-> "client"]
  OBVIOUS
<1>2. ProcessStunMessage(sent, w, address)
  BY <1>0
<1>3. /\ answer # Nothing
      /\ check' = [sent |-> sent, message |-> w, address |-> address]
      /\ outcome' = IF Parse(w, Credentials)
                    THEN [accepted |-> TRUE, nominates |-> HasUseCandidate(w),
                          response |-> CreateResponse(w.tid, address, Credentials)]
                    ELSE [accepted |-> FALSE]
      /\ UNCHANGED <<offer, transport, answer, tracks>>
  BY <1>2 DEF ProcessStunMessage
<1>4. Credentials' = Credentials
  BY <1>3 DEF Credentials
<1>5. check'.message = w /\ check'.address = address
  BY <1>3
<1>6. outcome' = IF Parse(check'.message, Credentials')
                 THEN [accepted |-> TRUE, nominates |-> HasUseCandidate(check'.message),
                       response |-> CreateResponse(check'.message.tid, check'.address, Credentials')]
                 ELSE [accepted |-> FALSE]
  BY <1>3, <1>4, <1>5
<1>7. SetUp'
  BY <1>3 DEF IInv, SetUp, Nothing
<1>8. Checked'
  <2>1. answer' # Nothing
    BY <1>3 DEF Nothing
  <2> PICK p : p = [server_ufrag |-> server_ufrag, client_ufrag |-> client_ufrag,
                    password |-> password, body |-> body, fingerprint |-> fingerprint,
                    v4 |-> v4, whole |-> whole, n |-> n]
    OBVIOUS
  <2>2. p \in Sendings
    BY DEF Sendings
  <2>3. /\ p.server_ufrag = server_ufrag /\ p.client_ufrag = client_ufrag
        /\ p.password = password /\ p.body = body /\ p.fingerprint = fingerprint
        /\ p.v4 = v4 /\ p.whole = whole /\ p.n = n
    OBVIOUS
  <2>4. Made(p) = m
    BY <2>3 DEF Made
  <2>5. IsSent(p)'
    BY <1>0, <1>3, <2>3, <2>4 DEF IsSent
  <2> QED BY <1>6, <2>1, <2>2, <2>5 DEF Checked
<1> QED BY <1>7, <1>8 DEF IInv

(* Every step keeps it. *)
LEMMA NextIInv ==
  ASSUME IInv, [Next]_vars
  PROVE  IInv'
<1>1. CASE Next
  <2>1. ASSUME NEW media \in Offers, Play(media) PROVE IInv'
    BY <2>1, PlayKeeps
  <2>2. ASSUME ReceiveCheck PROVE IInv'
    BY <2>2, CheckKeeps
  <2> QED BY <1>1, <2>1, <2>2 DEF Next
<1>2. CASE UNCHANGED vars
  BY <1>2 DEF vars, IInv, SetUp, Checked, IsSent, Credentials, Nothing
<1> QED BY <1>1, <1>2

(* The transport, the answer and what came of a check are those of the      *)
(* offer and of the message, in every reachable state.                     *)
THEOREM Invariance == Spec => []IInv
<1>1. Init => IInv
  BY InitIInv
<1>2. IInv /\ [Next]_vars => IInv'
  BY NextIInv
<1> QED BY <1>1, <1>2, PTL DEF Spec

-----------------------------------------------------------------------------
(* What the invariant says of a check that was received. *)
LEMMA CheckedIs ==
  ASSUME IInv, check # Nothing
  PROVE  /\ OwnCheck => /\ outcome.accepted
                        /\ outcome.nominates <=> \E a \in Range(check.sent.body) : a.kind = "USE-CANDIDATE"
                        /\ check.address.v4 => Verified(outcome.response, check.message.tid,
                                                        check.address, answer.icePwd)
         /\ Has(check.message, "MESSAGE-INTEGRITY") /\ outcome.accepted => OwnCheck
<1>1. PICK p \in Sendings : IsSent(p)
  BY DEF IInv, Checked
<1>2. /\ answer # Nothing /\ transport # Nothing /\ transport.ok
      /\ offer \in Offers /\ transport = SetOffer(offer) /\ answer = AnswerTo(transport)
  BY DEF IInv, SetUp, Checked
<1> PICK r : r = transport.ice_ufrag
  OBVIOUS
<1>3. r = offer[1].iceUfrag /\ r \in Ufrags
  BY <1>2, OfferSets
<1>4. Credentials = CredentialsFor(r)
  BY DEF Credentials, CredentialsFor
<1>5. answer.icePwd = local_password /\ answer.iceUfrag = local_ufrag
  BY <1>2 DEF AnswerTo
<1> PICK w, m : w = check.message /\ m = Made(p)
  OBVIOUS
<1>6. /\ check.sent = [server_ufrag |-> p.server_ufrag, client_ufrag |-> p.client_ufrag,
                       password |-> p.password, body |-> p.body, all |-> p.n = Len(m.attrs)]
      /\ w = Cut(m, p.n, p.whole)
      /\ check.address = [v4 |-> p.v4, name |-> "client"]
      /\ p.n \in 0 .. Len(m.attrs)
      /\ p.n = Len(m.attrs) => p.whole
  BY <1>1 DEF IsSent
<1>7. /\ p.server_ufrag \in Ufrags \cup {local_ufrag} /\ p.client_ufrag \in Ufrags \cup {local_ufrag}
      /\ p.body \in Bodies /\ p.fingerprint \in BOOLEAN /\ p.whole \in BOOLEAN /\ p.v4 \in BOOLEAN
  BY DEF Sendings
<1>8. m = Check(p.server_ufrag, p.client_ufrag, p.password, p.body, p.fingerprint)
  BY DEF Made
<1> DEFINE own == /\ p.server_ufrag = local_ufrag /\ p.client_ufrag = r
                  /\ p.password = local_password
                  /\ ~ Controlled(p.body) /\ p.n = Len(m.attrs)
<1>9. /\ Parse(w, CredentialsFor(r)) /\ Has(w, "MESSAGE-INTEGRITY") => own
      /\ own /\ p.whole => Parse(w, CredentialsFor(r))
      /\ p.n = Len(m.attrs) => (HasUseCandidate(w) <=>
                                  \E a \in Range(p.body) : a.kind = "USE-CANDIDATE")
  <2>1. p.n \in 0 .. Len(Made(p).attrs)
    BY <1>1 DEF IsSent
  <2>2. w = Cut(Made(p), p.n, p.whole)
    BY <1>6
  <2>3. p.n \in 0 .. Len(Check(p.server_ufrag, p.client_ufrag, p.password, p.body,
                               p.fingerprint).attrs)
    BY <2>1 DEF Made
  <2>4. ParsesRight(p.server_ufrag, p.client_ufrag, p.password, p.body, p.fingerprint, p.n,
                    p.whole, r)
    <3>1. ASSUME NEW f \in BOOLEAN, f = p.fingerprint, NEW wh \in BOOLEAN, wh = p.whole
          PROVE ParsesRight(p.server_ufrag, p.client_ufrag, p.password, p.body, f, p.n, wh, r)
      <4> DEFINE s == p.server_ufrag
                 c == p.client_ufrag
                 password == p.password
                 body == p.body
                 n == p.n
      <4>1. s \in Ufrags \cup {local_ufrag} /\ c \in Ufrags \cup {local_ufrag} /\ body \in Bodies
        BY <1>7
      <4>2. n \in 0 .. Len(Check(s, c, password, body, f).attrs)
        BY <2>3, <3>1
      <4> HIDE DEF s, c, password, body, n
      <4>3. ParsesRight(s, c, password, body, f, n, wh, r)
        BY ONLY <1>3, <4>1, <4>2, ParseIs
      <4> QED BY <4>3 DEF s, c, password, body, n
    <3>2. p.fingerprint \in BOOLEAN /\ p.whole \in BOOLEAN
      BY <1>7
    <3> QED BY <3>1, <3>2
  <2> QED BY <1>8, <2>2, <2>4 DEF ParsesRight, Made
<1>10. OwnCheck <=> own
  <2>1. /\ check.sent.all = (p.n = Len(m.attrs)) /\ check.sent.password = p.password
        /\ check.sent.server_ufrag = p.server_ufrag /\ check.sent.client_ufrag = p.client_ufrag
        /\ check.sent.body = p.body
    BY <1>6
  <2>2. (\A a \in Range(check.sent.body) : a.kind # "ICE-CONTROLLED") <=> ~ Controlled(p.body)
    BY <2>1 DEF Controlled
  <2> QED BY <1>3, <1>5, <2>1, <2>2 DEF OwnCheck
<1>11. outcome = IF Parse(w, CredentialsFor(r))
                 THEN [accepted |-> TRUE, nominates |-> HasUseCandidate(w),
                       response |-> CreateResponse(w.tid, check.address, CredentialsFor(r))]
                 ELSE [accepted |-> FALSE]
  BY <1>4 DEF IInv, Checked
<1>12. w.tid = "tid"
  BY <1>6, <1>7, <1>8, CutCheckIs
<1>13. ASSUME OwnCheck
       PROVE  /\ outcome.accepted
              /\ outcome.nominates <=> \E a \in Range(check.sent.body) : a.kind = "USE-CANDIDATE"
              /\ check.address.v4 => Verified(outcome.response, w.tid, check.address, answer.icePwd)
  <2>1. own /\ p.whole
    BY <1>6, <1>10, <1>13
  <2>2. outcome = [accepted |-> TRUE, nominates |-> HasUseCandidate(w),
                   response |-> CreateResponse(w.tid, check.address, CredentialsFor(r))]
    BY <1>9, <1>11, <2>1
  <2>3. outcome.nominates <=> \E a \in Range(check.sent.body) : a.kind = "USE-CANDIDATE"
    <3>1. check.sent.body = p.body
      BY <1>6
    <3>2. outcome.nominates = HasUseCandidate(w)
      BY <2>2
    <3>3. HasUseCandidate(w) <=> \E a \in Range(p.body) : a.kind = "USE-CANDIDATE"
      BY <1>9, <2>1
    <3> QED BY <3>1, <3>2, <3>3
  <2>4. ASSUME check.address.v4
        PROVE  Verified(outcome.response, w.tid, check.address, answer.icePwd)
    <3>1. check.address.v4 = TRUE
      BY <1>6, <1>7, <2>4
    <3>2. outcome.response = CreateResponse("tid", check.address, CredentialsFor(r))
      BY <1>12, <2>2
    <3> QED BY <1>5, <1>12, <3>1, <3>2, ResponseVerified
  <2> QED BY <2>2, <2>3, <2>4
<1>14. ASSUME Has(w, "MESSAGE-INTEGRITY"), outcome.accepted
       PROVE  OwnCheck
  <2>1. Parse(w, CredentialsFor(r))
    <3>1. ASSUME ~ Parse(w, CredentialsFor(r)) PROVE FALSE
      <4>1. outcome = [accepted |-> FALSE]
        BY <1>11, <3>1
      <4> QED BY <1>14, <4>1
    <3> QED BY <3>1
  <2> QED BY <1>9, <1>10, <1>14, <2>1
<1> QED BY <1>13, <1>14

(* The client of this session is answered, verifiably, whatever else its    *)
(* checks carry, with FINGERPRINT and without: ChecksAnswered.             *)
THEOREM Answered == Spec => []ChecksAnswered
<1>1. IInv => ChecksAnswered
  BY CheckedIs DEF ChecksAnswered
<1> QED BY <1>1, Invariance, PTL

(* A digest of another session, or over more than has arrived, is refused:  *)
(* StaleChecksRefused.                                                     *)
THEOREM StaleRefused == Spec => []StaleChecksRefused
<1>1. IInv => StaleChecksRefused
  BY CheckedIs DEF StaleChecksRefused
<1> QED BY <1>1, Invariance, PTL

-----------------------------------------------------------------------------
(* What an offer that is answered holds. *)
LEMMA AnswerFits ==
  ASSUME IInv, answer # Nothing, NEW v \in 1 .. Len(offer), offer[v].type = "video",
         \A i \in 1 .. Len(offer) : offer[i].type = "video" => i = v
  PROVE  /\ \E m \in Range(offer) :
              m.type = "audio" /\ [codec |-> "opus", payload |-> transport.opus] \in Range(m.rtp)
         /\ offer[v] \in Range(offer)
         /\ [codec |-> "H264", payload |-> transport.h264] \in Range(offer[v].rtp)
         /\ [codec |-> "rtx", payload |-> transport.rtx] \in Range(offer[v].rtp)
         /\ [payload |-> transport.rtx, apt |-> transport.h264] \in Range(offer[v].fmtp)
         /\ NoPayload \notin {transport.opus, transport.h264, transport.rtx}
<1>1. transport.ok /\ offer \in Offers /\ transport = SetOffer(offer)
  BY DEF IInv, SetUp
<1>2. offer \in Seq(MLines)
  BY <1>1, OffersAssumption
<1> PICK t : t = FoldLeft(SetOfferLine, Unset, offer)
  OBVIOUS
<1>3. t \in Members /\ ReadSoFar(offer, Len(offer), t)
  BY <1>2, OfferRead
<1>4. /\ t.ok /\ NoPayload \notin {t.opus, t.h264, t.rtx}
      /\ transport.opus = t.opus /\ transport.h264 = t.h264 /\ transport.rtx = t.rtx
  BY <1>1, <1>3, SetOfferIs
<1>5. VideoOf(offer[v], t)
  BY <1>2, <1>4, VideoRead
<1>6. DOMAIN offer = 1 .. Len(offer)
  BY <1>2
<1>7. offer[v] \in Range(offer)
  BY <1>6 DEF Range
<1>8. PICK j \in 1 .. Len(offer) : /\ offer[j].type = "audio"
                                   /\ [codec |-> "opus", payload |-> t.opus] \in Range(offer[j].rtp)
  BY <1>3, <1>4 DEF ReadSoFar, AudioOf
<1>9. offer[j] \in Range(offer)
  BY <1>6 DEF Range
<1>10. /\ [codec |-> "H264", payload |-> t.h264] \in Range(offer[v].rtp)
       /\ [payload |-> t.rtx, apt |-> t.h264] \in Range(offer[v].fmtp)
  BY <1>4, <1>5 DEF VideoOf
<1>11. [codec |-> "rtx", payload |-> t.rtx] \in Range(offer[v].rtp)
  <2>1. offer[v].rtp # Absent
    BY <1>5 DEF VideoOf
  <2>2. \A x \in Range(offer[v].fmtp) : [codec |-> "rtx", payload |-> x.payload] \in Range(offer[v].rtp)
    BY <1>1, <1>7, <2>1, RepeatsAssumption
  <2>3. [payload |-> t.rtx, apt |-> t.h264].payload = t.rtx
    OBVIOUS
  <2> QED BY <1>10, <2>2, <2>3
<1> QED BY <1>4, <1>7, <1>8, <1>9, <1>10, <1>11

(* The tracks send under the payload types and numbers of the answer. *)
LEMMA TracksFit ==
  ASSUME NEW t, NEW a \in Range(AnswerTo(t).media), NEW track \in TracksOf(t),
         track.media_type = a.type
  PROVE  /\ track.payload_type = a.rtp[1].payload /\ track.ssrc = a.ssrcs[1]
         /\ Len(a.rtp) = 2 => /\ track.rtx_payload_type = a.rtp[2].payload
                              /\ track.rtx_ssrc = a.ssrcs[2]
<1> DEFINE video == [type |-> "video", ssrcs |-> <<12345678, 9527>>,
                     rtp |-> <<[codec |-> "H264", payload |-> t.h264],
                               [codec |-> "rtx", payload |-> t.rtx]>>,
                     fmtp |-> <<[payload |-> t.rtx, apt |-> t.h264]>>]
           audio == [type |-> "audio", ssrcs |-> <<87654321>>,
                     rtp |-> <<[codec |-> "opus", payload |-> t.opus]>>, fmtp |-> <<>>]
<1>1. AnswerTo(t).media = <<video, audio>>
  BY DEF AnswerTo
<1> HIDE DEF video, audio
<1>2. a = video \/ a = audio
  BY <1>1 DEF Range
<1>3. CASE a = video
  <2>1. /\ a.type = "video" /\ a.ssrcs = <<12345678, 9527>>
        /\ a.rtp = <<[codec |-> "H264", payload |-> t.h264], [codec |-> "rtx", payload |-> t.rtx]>>
    BY <1>3 DEF video
  <2>2. track = [media_type |-> "video", ssrc |-> 12345678, payload_type |-> t.h264,
                 rtx_ssrc |-> 9527, rtx_payload_type |-> t.rtx]
    BY <2>1 DEF TracksOf
  <2> QED BY <2>1, <2>2
<1>4. CASE a = audio
  <2>1. /\ a.type = "audio" /\ a.ssrcs = <<87654321>>
        /\ a.rtp = <<[codec |-> "opus", payload |-> t.opus]>>
    BY <1>4 DEF audio
  <2>2. track = [media_type |-> "audio", ssrc |-> 87654321, payload_type |-> t.opus,
                 rtx_ssrc |-> 0, rtx_payload_type |-> 0]
    BY <2>1 DEF TracksOf
  <2> QED BY <2>1, <2>2
<1> QED BY <1>2, <1>3, <1>4

(* Each m-line of the answer is made of what one m-line of the offer has. *)
LEMMA LinesFit ==
  ASSUME IInv, answer # Nothing, NEW v \in 1 .. Len(offer), offer[v].type = "video",
         \A i \in 1 .. Len(offer) : offer[i].type = "video" => i = v,
         NEW a \in Range(answer.media)
  PROVE  \E m \in Range(offer) :
           /\ m.type = a.type
           /\ \A format \in Range(a.rtp) :
                format \in Range(m.rtp) /\ format.payload # NoPayload
           /\ Range(a.fmtp) \subseteq Range(m.fmtp)
<1> PICK t : t = transport
  OBVIOUS
<1>1. answer = AnswerTo(t)
  BY DEF IInv, SetUp
<1> DEFINE h264 == [codec |-> "H264", payload |-> t.h264]
           rtx == [codec |-> "rtx", payload |-> t.rtx]
           opus == [codec |-> "opus", payload |-> t.opus]
           apt == [payload |-> t.rtx, apt |-> t.h264]
           video == [type |-> "video", ssrcs |-> <<12345678, 9527>>, rtp |-> <<h264, rtx>>,
                     fmtp |-> <<apt>>]
           audio == [type |-> "audio", ssrcs |-> <<87654321>>, rtp |-> <<opus>>, fmtp |-> <<>>]
<1>2. answer.media = <<video, audio>>
  BY <1>1 DEF AnswerTo
<1>3. /\ \E m \in Range(offer) : m.type = "audio" /\ opus \in Range(m.rtp)
      /\ offer[v] \in Range(offer) /\ h264 \in Range(offer[v].rtp) /\ rtx \in Range(offer[v].rtp)
      /\ apt \in Range(offer[v].fmtp)
      /\ NoPayload \notin {t.opus, t.h264, t.rtx}
  BY AnswerFits
<1>4. h264.payload = t.h264 /\ rtx.payload = t.rtx /\ opus.payload = t.opus
  OBVIOUS
<1> HIDE DEF h264, rtx, opus, apt
<1>5. /\ video.type = "video" /\ video.rtp = <<h264, rtx>> /\ video.fmtp = <<apt>>
      /\ audio.type = "audio" /\ audio.rtp = <<opus>> /\ audio.fmtp = <<>>
  OBVIOUS
<1> HIDE DEF video, audio
<1>6. a = video \/ a = audio
  BY <1>2 DEF Range
<1>7. /\ Range(<<h264, rtx>>) = {h264, rtx} /\ Range(<<apt>>) = {apt}
      /\ Range(<<opus>>) = {opus} /\ Range(<<>>) = {}
  <2>1. Range(<<h264, rtx>>) = {h264, rtx}
    <3>1. DOMAIN <<h264, rtx>> = {1, 2} /\ <<h264, rtx>>[1] = h264 /\ <<h264, rtx>>[2] = rtx
      OBVIOUS
    <3> QED BY <3>1 DEF Range
  <2>2. Range(<<apt>>) = {apt}
    BY DEF Range
  <2>3. Range(<<opus>>) = {opus}
    BY DEF Range
  <2>4. Range(<<>>) = {}
    BY DEF Range
  <2> QED BY <2>1, <2>2, <2>3, <2>4
<1>8. CASE a = video
  BY <1>3, <1>4, <1>5, <1>7, <1>8
<1>9. CASE a = audio
  BY <1>3, <1>4, <1>5, <1>7, <1>9
<1> QED BY <1>6, <1>8, <1>9

(* The answer holds what was offered, and what is sent is what was answered: *)
(* AnswerFitsOffer.                                                        *)
THEOREM AnswerFitting == Spec => []AnswerFitsOffer
<1>1. IInv => AnswerFitsOffer
  <2> SUFFICES ASSUME IInv, answer # Nothing,
                      Cardinality({i \in DOMAIN offer : offer[i].type = "video"}) = 1,
                      NEW a \in Range(answer.media)
               PROVE  /\ \E m \in Range(offer) :
                           /\ m.type = a.type
                           /\ \A format \in Range(a.rtp) :
                                format \in Range(m.rtp) /\ format.payload # NoPayload
                           /\ Range(a.fmtp) \subseteq Range(m.fmtp)
                      /\ \A track \in tracks : track.media_type = a.type =>
                           /\ track.payload_type = a.rtp[1].payload /\ track.ssrc = a.ssrcs[1]
                           /\ Len(a.rtp) = 2 => /\ track.rtx_payload_type = a.rtp[2].payload
                                                /\ track.rtx_ssrc = a.ssrcs[2]
    BY DEF AnswerFitsOffer
  <2>1. answer = AnswerTo(transport) /\ tracks = TracksOf(transport) /\ offer \in Offers
    BY DEF IInv, SetUp
  <2>2. DOMAIN offer = 1 .. Len(offer) /\ Len(offer) \in Nat
    BY <2>1, OffersAssumption
  <2> DEFINE videos == {i \in DOMAIN offer : offer[i].type = "video"}
  <2>3. IsFiniteSet(videos)
    <3>1. \A n \in Nat : IsFiniteSet(1 .. n)
      BY FS_Interval
    <3>2. videos \in SUBSET (1 .. Len(offer))
      BY <2>2
    <3> HIDE DEF videos
    <3>3. IsFiniteSet(1 .. Len(offer))
      BY <2>2, <3>1
    <3> QED BY <3>2, <3>3, FS_Subset
  <2>4. PICK v : videos = {v}
    <3> HIDE DEF videos
    <3>1. Cardinality(videos) = 1
      BY DEF videos
    <3> QED BY <2>3, <3>1, FS_Singleton
  <2>5. /\ v \in 1 .. Len(offer) /\ offer[v].type = "video"
        /\ \A i \in 1 .. Len(offer) : offer[i].type = "video" => i = v
    BY <2>2, <2>4
  <2>6. a \in Range(AnswerTo(transport).media)
    BY <2>1
  <2> QED BY <2>1, <2>5, <2>6, LinesFit, TracksFit
<1> QED BY <1>1, Invariance, PTL

(* An offer that has what the server needs is answered: OffersAnswered.      *)
THEOREM OffersAreAnswered == Spec => []OffersAnswered
<1>1. IInv => OffersAnswered
  <2> SUFFICES ASSUME IInv, offer # <<>>, Answerable(offer)
               PROVE  answer # Nothing
    BY DEF OffersAnswered, Answerable, Offered
  <2>1. transport # Nothing /\ offer \in Offers /\ transport = SetOffer(offer)
    BY DEF IInv, SetUp
  <2>2. SetOffer(offer).ok
    BY <2>1, OffersAssumption, AnswerableIsOk
  <2> QED BY <2>1, <2>2 DEF IInv, SetUp
<1> QED BY <1>1, Invariance, PTL
=============================================================================
