--------------------------------- MODULE Session ---------------------------------
(***************************************************************************)
(* How a client and a transport agree: the offer is read (SetOffer), the   *)
(* answer is made of it (CreateAnswer), and the client's connectivity      *)
(* checks carry the credentials both have exchanged (IceLite).  An SDP is  *)
(* what its m-lines say; json and the text of the SDP are external.        *)
(***************************************************************************)
EXTENDS StunMessage

CONSTANTS
  Offers,       \* offers: sequences of m-lines
  Bodies,       \* attributes that clients put into a check, after USERNAME
  Passwords,    \* passwords of this transport and of other ones
  Ufrags,       \* user fragments of other transports and clients
  Absent        \* an attribute that an m-line does not have

ASSUME OwnAssumption == "own" \in Passwords

(* A user fragment is random: none begins or ends with another one, here   *)
(* since each is a token of its own.                                       *)
ASSUME UfragsAssumption == \A ufrag \in Ufrags : ufrag = <<ufrag[1]>>

(* The formats of an m-line, those of its fmtp that say which format they  *)
(* repeat, and what of the line SetOffer reads.                            *)
Formats == [codec : STRING, payload : Nat]
Repeats == [payload : Nat, apt : Nat]
MLines ==
  [type : STRING, setup : STRING \cup {Absent}, iceUfrag : Ufrags \cup {Absent},
   fingerprint : STRING \cup {Absent}, rtp : Seq(Formats) \cup {Absent}, fmtp : Seq(Repeats)]
ASSUME AbsentAssumption == Absent \notin Ufrags \cup STRING \cup Seq(Formats)
ASSUME OffersAssumption == Offers \subseteq Seq(MLines)

(* What repeats a format is itself a format of the line, rtx (RFC 4588).   *)
ASSUME RepeatsAssumption ==
  \A media \in Offers : \A m \in Range(media) : m.rtp # Absent =>
    \A x \in Range(m.fmtp) : [codec |-> "rtx", payload |-> x.payload] \in Range(m.rtp)

(* What a client puts into a check; the three attributes left out here it   *)
(* adds once each (see Check).                                             *)
UINT16_MAX == 65535
BodyAttributes ==
  [kind : STRING \ {"USERNAME", "MESSAGE-INTEGRITY", "FINGERPRINT"},
   length : 0 .. UINT16_MAX, value : STRING]
ASSUME BodiesAssumption == Bodies \subseteq Seq(BodyAttributes)

(* RandomString of the constructor of IceLite.                             *)
local_ufrag == <<"own">>
local_password == "own"

VARIABLES
  offer,        \* the offer of the request to play
  transport,    \* the members that SetOffer sets; ok is what it returns
  answer,       \* the answer, once CreateAnswer has made it
  tracks,       \* the tracks of media_stream_
  check,        \* the last check received, and the credentials in it
  outcome       \* what came of it

vars == <<offer, transport, answer, tracks, check, outcome>>

NoPayload == -1

-----------------------------------------------------------------------------
(* Bugs the properties have to catch: RTX of any format; a codec counts    *)
(* only when it is the preferred one.                                      *)
RtxPayloadOfAny(fmtp, apt, otherwise) ==
  IF fmtp = <<>> THEN otherwise ELSE Last(fmtp).payload
FirstPayload(rtp, codec, otherwise) ==
  IF rtp # <<>> /\ rtp[1].codec = codec THEN rtp[1].payload ELSE otherwise

(* The payload type of the last format of that codec in an m-line.         *)
LastPayload(rtp, codec, otherwise) ==
  LET found == {i \in DOMAIN rtp : rtp[i].codec = codec}
  IN  IF found = {} THEN otherwise ELSE rtp[Max(found)].payload

(* The payload type of the last format that repeats the one given.         *)
RtxPayload(fmtp, apt, otherwise) ==
  LET found == {i \in DOMAIN fmtp : fmtp[i].apt = apt}
  IN  IF found = {} THEN otherwise ELSE fmtp[Max(found)].payload

(* One m-line; t holds what the earlier ones have set.                     *)
SetOfferLine(t, m) ==
  LET h264 == IF m.type = "video" THEN LastPayload(m.rtp, "H264", t.h264) ELSE t.h264
  IN  IF \/ ~t.ok
         \/ Absent \in {m.setup, m.iceUfrag, m.fingerprint}
         \/ m.type \in {"audio", "video"} /\ m.rtp = Absent
      THEN [t EXCEPT !.ok = FALSE]
      ELSE [ok |-> TRUE, remote_setup |-> m.setup,
            ice_ufrag |-> IF t.ice_ufrag = Absent THEN m.iceUfrag ELSE t.ice_ufrag,
            fingerprint |-> IF t.fingerprint = Absent THEN m.fingerprint ELSE t.fingerprint,
            opus |-> IF m.type = "audio" THEN LastPayload(m.rtp, "opus", t.opus) ELSE t.opus,
            h264 |-> h264,
            rtx |-> IF m.type = "video" THEN RtxPayload(m.fmtp, h264, t.rtx) ELSE t.rtx]

(* What the constructor and the beginning of SetOffer leave.               *)
Unset ==
  [ok |-> TRUE, remote_setup |-> Absent, ice_ufrag |-> Absent, fingerprint |-> Absent,
   opus |-> NoPayload, h264 |-> NoPayload, rtx |-> NoPayload]

SetOffer(media) ==
  LET t == FoldLeft(SetOfferLine, Unset, media)
  IN  [t EXCEPT !.ok = @ /\ NoPayload \notin {t.opus, t.h264, t.rtx}]

(* The answer is one of two m-lines, video before audio, in one bundle.    *)
AnswerTo(t) ==
  [iceUfrag |-> local_ufrag, icePwd |-> local_password, setup |-> "active",
   media |->
     <<[type |-> "video", ssrcs |-> <<12345678, 9527>>,
        rtp |-> <<[codec |-> "H264", payload |-> t.h264],
                  [codec |-> "rtx", payload |-> t.rtx]>>,
        fmtp |-> <<[payload |-> t.rtx, apt |-> t.h264]>>],
       [type |-> "audio", ssrcs |-> <<87654321>>,
        rtp |-> <<[codec |-> "opus", payload |-> t.opus]>>,
        fmtp |-> <<>>]>>]

TracksOf(t) ==
  {[media_type |-> "video", ssrc |-> 12345678, payload_type |-> t.h264,
    rtx_ssrc |-> 9527, rtx_payload_type |-> t.rtx],
   [media_type |-> "audio", ssrc |-> 87654321, payload_type |-> t.opus,
    rtx_ssrc |-> 0, rtx_payload_type |-> 0]}

-----------------------------------------------------------------------------
Nothing == [none |-> TRUE]

Init ==
  /\ offer = <<>> /\ transport = Nothing /\ answer = Nothing /\ tracks = {}
  /\ check = Nothing /\ outcome = Nothing

(* POST /play: SetOffer, Start, CreateAnswer.                              *)
Play(media) ==
  /\ transport = Nothing
  /\ offer' = media
  /\ transport' = SetOffer(media)
  /\ IF transport'.ok
     THEN answer' = AnswerTo(transport') /\ tracks' = TracksOf(transport')
     ELSE UNCHANGED <<answer, tracks>>
  /\ UNCHANGED <<check, outcome>>

Credentials ==
  [local_ufrag |-> local_ufrag, local_password |-> local_password,
   remote_ufrag |-> transport.ice_ufrag]

(* IceLite::ProcessStunMessage: a message that cannot be parsed ends the   *)
(* transport; any other one is answered.                                   *)
ProcessStunMessage(sent, m, address) ==
  /\ answer # Nothing
  /\ check' = [sent |-> sent, message |-> m, address |-> address]
  /\ outcome' = IF Parse(m, Credentials)
                THEN [accepted |-> TRUE, nominates |-> HasUseCandidate(m),
                      response |-> CreateResponse(m.tid, address, Credentials)]
                ELSE [accepted |-> FALSE]
  /\ UNCHANGED <<offer, transport, answer, tracks>>

(* A check of a client: of this session, or of another one, whose answer   *)
(* named the same address.  The user fragments of both sides are in        *)
(* USERNAME, with a colon between them.                                    *)
Check(server_ufrag, client_ufrag, password, body, fingerprint) ==
  Signed("BindingRequest", "tid",
         <<Attribute("USERNAME", 9, server_ufrag \o <<":">> \o client_ufrag)>> \o body,
         password, fingerprint)

ReceiveCheck ==
  /\ check = Nothing    \* a check leaves nothing behind that the next one meets
  /\ \E server_ufrag, client_ufrag \in Ufrags \cup {local_ufrag},
        password \in Passwords, body \in Bodies, fingerprint, v4 \in BOOLEAN :
       LET m == Check(server_ufrag, client_ufrag, password, body, fingerprint)
       IN  \E n \in 0 .. Len(m.attrs), whole \in BOOLEAN :
             /\ n = Len(m.attrs) => whole
             /\ ProcessStunMessage(
                  [server_ufrag |-> server_ufrag, client_ufrag |-> client_ufrag,
                   password |-> password, body |-> body, all |-> n = Len(m.attrs)],
                  Cut(m, n, whole), [v4 |-> v4, name |-> "client"])

Next == (\E media \in Offers : Play(media)) \/ ReceiveCheck

Spec == Init /\ [][Next]_vars

-----------------------------------------------------------------------------
(* What is answered was offered: formats with their payload types, in an   *)
(* m-line of their kind, and RTX for the very H264 format that is chosen;  *)
(* what the tracks send has the payload types and numbers of the answer.   *)
(* It needs the offer to have one m-line of video (webrtc_transport.cpp:   *)
(* 119): with more, RTX may be that of another one.                        *)
AnswerFitsOffer ==
  (answer # Nothing /\ Cardinality({i \in DOMAIN offer : offer[i].type = "video"}) = 1) =>
    \A a \in Range(answer.media) :
      /\ \E m \in Range(offer) :
           /\ m.type = a.type
           /\ \A format \in Range(a.rtp) :
                format \in Range(m.rtp) /\ format.payload # NoPayload
           /\ Range(a.fmtp) \subseteq Range(m.fmtp)
      /\ \A track \in tracks : track.media_type = a.type =>
           /\ track.payload_type = a.rtp[1].payload /\ track.ssrc = a.ssrcs[1]
           /\ Len(a.rtp) = 2 => /\ track.rtx_payload_type = a.rtp[2].payload
                                /\ track.rtx_ssrc = a.ssrcs[2]

(* An offer with m-lines that have all attributes is answered if opus is   *)
(* among the formats and every H264 format comes with RTX.                 *)
OffersAnswered ==
  (/\ offer # <<>>
   /\ \A m \in Range(offer) : Absent \notin {m.setup, m.iceUfrag, m.fingerprint, m.rtp}
   /\ \E m \in Range(offer) :
        m.type = "audio" /\ \E f \in Range(m.rtp) : f.codec = "opus"
   /\ \E m \in Range(offer) :
        m.type = "video" /\ \E f \in Range(m.rtp) : f.codec = "H264"
   /\ \A m \in Range(offer) : m.type = "video" =>
        \A f \in Range(m.rtp) : f.codec = "H264" =>
          \E x \in Range(m.fmtp) : x.apt = f.payload)
  => answer # Nothing

(* A client that signs its check with the password of the answer, names    *)
(* the fragments of the answer and of the first m-line of its offer, and   *)
(* is the controlling side, is answered with a response that it verifies   *)
(* as its own, with its address; whatever else it puts into the check, in  *)
(* whatever order, with FINGERPRINT or without (stun_message.cpp:20, :132).*)
(* An IPv6 address is the exception (stun_message.cpp:166).                *)
OwnCheck ==
  /\ check.sent.all /\ check.sent.password = answer.icePwd
  /\ check.sent.server_ufrag = answer.iceUfrag
  /\ check.sent.client_ufrag = offer[1].iceUfrag
  /\ \A a \in Range(check.sent.body) : a.kind # "ICE-CONTROLLED"

ChecksAnswered ==
  (check # Nothing /\ OwnCheck) =>
    /\ outcome.accepted
    /\ outcome.nominates <=> \E a \in Range(check.sent.body) : a.kind = "USE-CANDIDATE"
    /\ check.address.v4 => Verified(outcome.response, check.message.tid, check.address,
                                    answer.icePwd)

(* A check that has a MESSAGE-INTEGRITY is accepted only when the client   *)
(* of this session made it and all of it arrived: not one of an earlier    *)
(* session on the same port, nor the beginning of one.                     *)
StaleChecksRefused ==
  (check # Nothing /\ Has(check.message, "MESSAGE-INTEGRITY") /\ outcome.accepted) => OwnCheck
=============================================================================
