-------------------------------- MODULE MCSession --------------------------------
(* A small instance of Session for TLC.                                    *)
EXTENDS Session

MCUfrags == {<<"u1">>, <<"u2">>}

Format(codec, payload) == [codec |-> codec, payload |-> payload]
Rtx(payload, apt) == [payload |-> payload, apt |-> apt]

Line(type, ufrag, rtp, fmtp) ==
  [type |-> type, setup |-> "actpass", iceUfrag |-> ufrag, fingerprint |-> "f",
   rtp |-> rtp, fmtp |-> fmtp]

(* Formats of a browser: H264 in two modes with their RTX, in any order of *)
(* preference, VP8 with its RTX before or after, RTX left out for one.     *)
VideoLines ==
  LET h1 == <<Format("H264", 102), Format("rtx", 121)>>
      h2 == <<Format("H264", 127), Format("rtx", 120)>>
      vp8 == <<Format("VP8", 96), Format("rtx", 97)>>
      rtps == {h1, h1 \o h2, h2 \o h1, vp8 \o h1, h1 \o vp8, vp8}
      all == <<Rtx(97, 96), Rtx(121, 102), Rtx(120, 127)>>
      Offered(rtp, fmtp) == SelectSeq(fmtp, LAMBDA x : Format("rtx", x.payload) \in Range(rtp))
  IN  {Line("video", u, rtp, Offered(rtp, fmtp)) :
         u \in MCUfrags, rtp \in rtps, fmtp \in {all, Reverse(all), <<all[3]>>}}

AudioLines ==
  {Line("audio", u, rtp, <<>>) :
     u \in {<<"u1">>},
     rtp \in {<<Format("opus", 111)>>, <<Format("PCMU", 0), Format("opus", 111)>>,
              <<Format("PCMU", 0)>>}}

Lacking(m) ==
  {[m EXCEPT !.setup = Absent], [m EXCEPT !.iceUfrag = Absent],
   [m EXCEPT !.fingerprint = Absent], [m EXCEPT !.rtp = Absent]}

Data == Line("application", <<"u1">>, Absent, <<>>)

MCOffers ==
  {<<>>} \cup {<<v>> : v \in VideoLines}
  \cup {<<v, a>> : v \in VideoLines, a \in AudioLines}
  \cup {<<a, v>> : v \in VideoLines, a \in {m \in AudioLines : Len(m.rtp) = 2}}
  \cup LET a == CHOOSE m \in AudioLines : m.rtp[1].codec = "opus"
           v == CHOOSE m \in VideoLines : m.iceUfrag = <<"u1">> /\ Len(m.rtp) = 4 /\ Len(m.fmtp) = 2
       IN  {<<v, m>> : m \in Lacking(a)} \cup {<<m, a>> : m \in Lacking(v)}
           \cup {<<v, a, Data>>} \cup {<<v, a, w>> : w \in VideoLines}

MCBodies ==
  LET priority == Attribute("PRIORITY", 4, "p")
      use == Attribute("USE-CANDIDATE", 0, "")
      controlling == Attribute("ICE-CONTROLLING", 8, "t")
      controlled == Attribute("ICE-CONTROLLED", 8, "t")
      unknown == Attribute("GOOG-NETWORK-INFO", 5, "n")
  IN  {<<>>, <<priority, controlling>>, <<controlling, use, priority>>,
       <<use, unknown, controlling, priority>>, <<unknown, priority>>,
       <<controlled, priority>>}
=============================================================================
