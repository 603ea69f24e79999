------------------------------- MODULE Connection -------------------------------
(***************************************************************************)
(* How one WebrtcTransport gets its client: connectivity checks (IceLite), *)
(* the nomination that starts DTLS, the handshake with its retransmission  *)
(* timer (DtlsTransport, Timer), the latch that lets media through, and    *)
(* the dispatch of datagrams to all of them.  Every handler runs on the    *)
(* transport's thread and is one step; the network loses, repeats and      *)
(* delays what it likes, so any datagram may come at any time.             *)
(*                                                                         *)
(* OpenSSL is external.  A handshake is a number of flights of ours, each  *)
(* repeated until the client answers it.  The association is a number that *)
(* grows with every handshake begun on the SSL object.                     *)
(***************************************************************************)
EXTENDS Integers

CONSTANTS
  Endpoints,        \* addresses of clients
  NoEndpoint,       \* a default-constructed udp::endpoint
  Flights,          \* flights of ours in a handshake
  MaxTimeouts,      \* timeouts of a flight that OpenSSL answers: 12
  MaxAssociations   \* bound on the handshakes begun

ASSUME EndpointAssumption == NoEndpoint \notin Endpoints
ASSUME HandshakeAssumption ==
  Flights \in Nat \ {0} /\ MaxTimeouts \in Nat /\ MaxAssociations \in Nat

VARIABLES
  valid_candidates_, favored_candidate_,           \* IceLite
  selected_endpoint_, dtls_ready_, connection_established_, latch_,
  remote_setup_,    \* a=setup of the offer, as DtlsTransport::Start sees it
  ssl,              \* the SSL object
  keys,             \* the association whose keys send_srtp_session_ has, 0
                    \* where there is no session
  timer_,           \* how many Timers DTLS has had; the last one is live
  waiting,          \* the live Timer waits
  expired,          \* Timers whose OnTimeout is queued without an error
  removal,          \* Shutdown has posted the removal of the transport
  stopped,          \* the message loop has been stopped
  crashed,          \* the process is gone
  checks,           \* history: checks that each endpoint passed, at most 2
  agreed,           \* history: associations that agreed on SRTP parameters
  sent              \* history: the datagrams sent, except STUN responses

iceVars == <<valid_candidates_, favored_candidate_, checks>>
srtpVars == <<connection_established_, keys, agreed>>
endVars == <<srtpVars, latch_, removal>>
timerVars == <<timer_, waiting, expired>>
vars == <<iceVars, endVars, timerVars, selected_endpoint_, dtls_ready_,
          remote_setup_, ssl, stopped, crashed, sent>>

Setups == {"passive", "actpass", "active", "unknown"}
New == [state |-> "new", association |-> 0, flight |-> 0, timeouts |-> 0,
        due |-> FALSE]

Init ==
  /\ valid_candidates_ = {} /\ favored_candidate_ = NoEndpoint
  /\ selected_endpoint_ = NoEndpoint
  /\ dtls_ready_ = FALSE /\ connection_established_ = FALSE /\ latch_ = 1
  /\ remote_setup_ \in Setups
  /\ ssl = New /\ keys = 0
  /\ timer_ = 0 /\ waiting = FALSE /\ expired = {}
  /\ removal = FALSE /\ stopped = FALSE /\ crashed = FALSE
  /\ checks = [e \in Endpoints |-> 0] /\ agreed = {} /\ sent = {}

Running == ~stopped /\ ~crashed

-----------------------------------------------------------------------------
(* OpenSSL.  A handshake begins with our first flight.                     *)
Handshake(association) ==
  [state |-> "handshake", association |-> association, flight |-> 1,
   timeouts |-> 0, due |-> FALSE]

(* The retransmission timer of DTLS runs: DTLSv1_get_timeout has a value.   *)
(* A failure leaves it running.                                            *)
HasTimeout(s) == s.state \in {"handshake", "failed"}

(* DTLSv1_handle_timeout, when it is due: the flight goes out again, until  *)
(* there have been too many timeouts.                                      *)
TimedOut(s) ==
  IF s.timeouts = MaxTimeouts THEN [s EXCEPT !.state = "failed"]
  ELSE [s EXCEPT !.timeouts = @ + 1, !.due = FALSE]

(* SSL_read of a datagram.  On an SSL object that was cleared it begins     *)
(* the handshake again.  With nothing usable to read it handles a timeout   *)
(* that is due.                                                            *)
Reading == IF ssl.state = "cleared" THEN Handshake(ssl.association + 1) ELSE ssl

SSLRead(effect) ==
  CASE effect = "progress" ->
         IF ssl.flight = Flights THEN [ssl EXCEPT !.state = "connected", !.due = FALSE]
         ELSE [ssl EXCEPT !.flight = @ + 1, !.timeouts = 0, !.due = FALSE]
    [] effect = "broken" -> [Reading EXCEPT !.state = "failed"]
    [] OTHER -> IF Reading.state = "handshake" /\ Reading.due THEN TimedOut(Reading)
                ELSE Reading

(* What a datagram can do to the SSL object in its state. *)
Effects ==
  CASE ssl.state = "handshake" -> {"progress", "nothing", "broken", "close"}
    [] ssl.state = "cleared" -> {"nothing", "broken", "close"}
    [] ssl.state = "connected" -> {"nothing", "close"}
    [] OTHER -> {"nothing"}

-----------------------------------------------------------------------------
(* Bugs the properties have to catch: forms that definitions below would   *)
(* have if the code were slightly wrong.  Nothing uses them.               *)

(* The endpoint becomes a valid candidate before its nomination is looked at. *)
NominatesEarly(ep, use_candidate) ==
  use_candidate /\ ep # favored_candidate_

(* A retransmission does not arm the timer again. *)
OnTimerTimeoutOnce ==
  IF HasTimeout(ssl) /\ ssl.due
  THEN /\ ssl' = TimedOut(ssl)
       /\ sent' = sent \cup {[kind |-> "dtls", to |-> selected_endpoint_,
                              association |-> ssl.association]}
       /\ UNCHANGED waiting
  ELSE /\ waiting' = (waiting \/ HasTimeout(ssl))
       /\ UNCHANGED <<ssl, sent>>

(* OnMediaPacketGenerated does not look whether the connection was set up. *)
OnMediaPacketUnconnected ==
  /\ Running /\ latch_ = 0
  /\ sent' = sent \cup {[kind |-> "bare", to |-> selected_endpoint_, association |-> 0]}
  /\ UNCHANGED <<iceVars, endVars, timerVars, selected_endpoint_, dtls_ready_,
                 remote_setup_, ssl, stopped, crashed>>

(* DTLS is started once: a later nomination only redirects the traffic. *)
CanStartOnce == remote_setup_ \in {"passive", "actpass"} /\ ~dtls_ready_

(* SetTimeout comes before the Timer is replaced. *)
StartUnarmed(ep) ==
  /\ ssl' = Handshake(ssl.association + 1)
  /\ timer_' = timer_ + 1 /\ waiting' = FALSE
  /\ sent' = sent \cup {[kind |-> "dtls", to |-> ep,
                         association |-> ssl'.association]}

-----------------------------------------------------------------------------
(* WebrtcTransport::WritePacket: what DTLS has written goes to the selected *)
(* endpoint, whichever one sent the datagram that made it write.           *)
Dtls(ep, s) == [kind |-> "dtls", to |-> ep, association |-> s.association]

(* OnRtpPacketSend and OnRtcpPacketSend send whatever SrtpSession leaves    *)
(* and look at none of its results.  A bare datagram is an empty one, where *)
(* there is no session, or the packet as it is, where libsrtp fails.       *)
Bare == [kind |-> "bare", to |-> selected_endpoint_, association |-> 0]
Protected ==
  [kind |-> "protected", to |-> selected_endpoint_, association |-> keys]
Media == {Bare} \cup (IF keys = 0 THEN {} ELSE {Protected})

Shutdown == removal' = TRUE /\ latch_' = 0

(* Timer::AsyncWait for the time DTLS has left, if it has one.  A wait that *)
(* is not replaced goes on.                                                *)
SetTimeout(s) == waiting' = (waiting \/ HasTimeout(s))

(* DtlsTransport::Start refuses an offer in which the client cannot be the  *)
(* server: "active" falls through to the same refusal as an unknown value. *)
CanStart == remote_setup_ \in {"passive", "actpass"}

(* A second call restarts the handshake on the same SSL object and replaces *)
(* the Timer, whose handler may be queued.                                 *)
Start(ep) ==
  /\ ssl' = Handshake(ssl.association + 1)
  /\ timer_' = timer_ + 1 /\ waiting' = TRUE
  /\ sent' = sent \cup {Dtls(ep, ssl')}

OnIceConnectionCompleted(ep) ==
  /\ selected_endpoint_' = ep
  /\ IF CanStart THEN Start(ep) /\ dtls_ready_' = TRUE
     ELSE UNCHANGED <<ssl, dtls_ready_, timer_, waiting, sent>>

Nominates(ep, use_candidate) ==
  use_candidate /\ ep \in valid_candidates_ /\ ep # favored_candidate_

(* IceLite::ProcessStunMessage of a binding request that parses. *)
ProcessStunMessage(ep, use_candidate) ==
  /\ Running
  /\ IF Nominates(ep, use_candidate)
     THEN /\ ssl.association < MaxAssociations
          /\ favored_candidate_' = ep
          /\ OnIceConnectionCompleted(ep)
     ELSE UNCHANGED <<favored_candidate_, selected_endpoint_, ssl, dtls_ready_,
                      timer_, waiting, sent>>
  /\ valid_candidates_' = valid_candidates_ \cup {ep}
  /\ checks' = [checks EXCEPT ![ep] = IF @ < 2 THEN @ + 1 ELSE @]
  /\ UNCHANGED <<endVars, remote_setup_, expired, stopped, crashed>>

(* SetupSRTP, called by OpenSSL when the handshake is done: the sessions    *)
(* are keyed before the latch opens, but it opens also if that fails:      *)
(* srtp_create then leaves no session, or, short of memory, the old one.   *)
(* (The receiving session is the business of MediaStream.tla.)  Without    *)
(* SRTP parameters nothing happens, and nobody is told.                    *)
OnDtlsTransportSetup ==
  /\ keys' \in {ssl.association, keys, 0}
  /\ connection_established_' = TRUE /\ latch_' = 0
  /\ agreed' = agreed \cup {ssl.association}

SetupSRTP(extracted) ==
  IF extracted THEN OnDtlsTransportSetup ELSE UNCHANGED <<srtpVars, latch_>>

(* SSL_clear after close_notify or a fatal alert of the client. *)
SSLClear(s) == [New EXCEPT !.state = "cleared", !.association = s.association]

(* OnUdpSocketDataReceive passes DTLS on once dtls_ready_ is set. *)
DtlsReady == Running /\ dtls_ready_

(* DtlsTransport::ProcessDataFromPeer, from any endpoint. *)
ProcessDataFromPeer(effect) ==
  /\ DtlsReady
  /\ effect \in Effects
  /\ ssl.state = "cleared" => ssl.association < MaxAssociations
  /\ LET s == SSLRead(effect) IN
       /\ ssl' = IF effect = "close" THEN SSLClear(s) ELSE s
       /\ sent' = IF s = ssl THEN sent ELSE sent \cup {Dtls(selected_endpoint_, s)}
       /\ SetTimeout(s)
       /\ IF s.state = "connected" /\ ssl.state = "handshake"
          THEN /\ \E extracted \in BOOLEAN : SetupSRTP(extracted)
               /\ UNCHANGED removal
          ELSE /\ IF effect = "close" THEN Shutdown ELSE UNCHANGED <<removal, latch_>>
               /\ UNCHANGED srtpVars
  /\ UNCHANGED <<iceVars, selected_endpoint_, dtls_ready_, remote_setup_,
                 timer_, expired, stopped, crashed>>

(* The live Timer's wait ends: DTLS set it to its own deadline, and the     *)
(* handler is queued.                                                      *)
Expire ==
  /\ Running /\ waiting
  /\ waiting' = FALSE /\ expired' = expired \cup {timer_}
  /\ ssl' = [ssl EXCEPT !.due = HasTimeout(ssl)]
  /\ UNCHANGED <<iceVars, endVars, timer_, selected_endpoint_, dtls_ready_,
                 remote_setup_, stopped, crashed, sent>>

(* DtlsTransport::OnTimerTimeout.  After too many timeouts it returns        *)
(* without arming the timer.                                               *)
OnTimerTimeout ==
  IF HasTimeout(ssl) /\ ssl.due
  THEN /\ ssl' = TimedOut(ssl)
       /\ IF ssl.timeouts = MaxTimeouts THEN UNCHANGED <<waiting, sent>>
          ELSE /\ sent' = sent \cup {Dtls(selected_endpoint_, ssl)}
               /\ SetTimeout(ssl)
  ELSE SetTimeout(ssl) /\ UNCHANGED <<ssl, sent>>

(* The queued handler of the g-th Timer.  If that one has been destroyed,   *)
(* the handler reads its listener from freed memory: still the right one,  *)
(* none, or something that crashes.                                        *)
OnTimeout(g) ==
  /\ Running /\ g \in expired
  /\ expired' = expired \ {g}
  /\ \/ OnTimerTimeout /\ UNCHANGED crashed
     \/ /\ g # timer_ /\ crashed' \in BOOLEAN
        /\ UNCHANGED <<ssl, waiting, sent>>
  /\ UNCHANGED <<iceVars, endVars, timer_, selected_endpoint_, dtls_ready_,
                 remote_setup_, stopped>>

(* OnMediaPacketGenerated and the send it posts, or a sender report. *)
OnMediaPacket ==
  /\ Running /\ latch_ = 0 /\ connection_established_
  /\ \E d \in Media : sent' = sent \cup {d}
  /\ UNCHANGED <<iceVars, endVars, timerVars, selected_endpoint_, dtls_ready_,
                 remote_setup_, ssl, stopped, crashed>>

(* A STUN message that does not parse, an error of the socket, the end of   *)
(* the source's stream.                                                    *)
OnError ==
  /\ Running
  /\ Shutdown
  /\ UNCHANGED <<iceVars, timerVars, srtpVars, selected_endpoint_, dtls_ready_,
                 remote_setup_, ssl, stopped, crashed, sent>>

(* WebrtcTransport::Stop, by the manager. *)
Stop ==
  /\ Running /\ removal
  /\ stopped' = TRUE
  /\ UNCHANGED <<iceVars, endVars, timerVars, selected_endpoint_, dtls_ready_,
                 remote_setup_, ssl, crashed, sent>>

Next ==
  \/ \E ep \in Endpoints, use_candidate \in BOOLEAN :
       ProcessStunMessage(ep, use_candidate)
  \/ \E effect \in {"progress", "nothing", "broken", "close"} :
       ProcessDataFromPeer(effect)
  \/ Expire
  \/ \E g \in 1..MaxAssociations : OnTimeout(g)
  \/ OnMediaPacket \/ OnError \/ Stop

Spec == Init /\ [][Next]_vars

(* A wait ends: setting it again keeps DTLS's own deadline.  The loop runs  *)
(* what is queued.                                                         *)
FairSpec ==
  /\ Spec
  /\ WF_vars(Expire)
  /\ \A g \in 1..MaxAssociations : WF_vars(OnTimeout(g))

-----------------------------------------------------------------------------
States == {"new", "handshake", "connected", "cleared", "failed"}

(* Every variable has its type. *)
TypeOK ==
  /\ valid_candidates_ \subseteq Endpoints
  /\ favored_candidate_ \in Endpoints \cup {NoEndpoint}
  /\ selected_endpoint_ \in Endpoints \cup {NoEndpoint}
  /\ dtls_ready_ \in BOOLEAN /\ connection_established_ \in BOOLEAN
  /\ latch_ \in {0, 1} /\ remote_setup_ \in Setups
  /\ ssl \in [state : States, association : 0..MaxAssociations,
              flight : 0..Flights, timeouts : 0..MaxTimeouts, due : BOOLEAN]
  /\ keys \in 0..MaxAssociations /\ agreed \subseteq 1..MaxAssociations
  /\ timer_ \in 0..MaxAssociations /\ waiting \in BOOLEAN
  /\ expired \subseteq 1..MaxAssociations
  /\ removal \in BOOLEAN /\ stopped \in BOOLEAN /\ crashed \in BOOLEAN
  /\ checks \in [Endpoints -> 0..2]
  /\ sent \subseteq [kind : {"dtls", "protected", "bare"}, to : Endpoints,
                     association : 0..MaxAssociations]

(* DTLS and media go only to an endpoint that has passed a check and was    *)
(* then nominated in another one (IceLite::ProcessStunMessage looks the    *)
(* endpoint up before it adds it), never to the default endpoint that      *)
(* selected_endpoint_ is at first.  Nothing but DTLS goes out before a     *)
(* handshake has agreed on SRTP parameters, and media that is protected is *)
(* so under keys that one agreed on, over restarts of DTLS and failed Inits*)
(* (webrtc_transport.cpp:486).  That all media is protected is not true.   *)
SentToNominated ==
  \A d \in sent :
    /\ d.to \in Endpoints /\ checks[d.to] = 2
    /\ d.kind # "dtls" => agreed # {}
    /\ d.kind = "protected" => d.association \in agreed

(* A DTLS association talks to one endpoint: when another candidate becomes *)
(* the favoured one, a new handshake is begun with it and the datagrams of *)
(* the old association stop (WebrtcTransport::OnIceConnectionCompleted).   *)
OneEndpointPerAssociation ==
  \A d, e \in sent :
    d.kind = "dtls" /\ e.kind = "dtls" /\ d.association = e.association
      => d.to = e.to

(* While a flight is unanswered, the timer that repeats it waits or its     *)
(* handler is queued: a lost flight never leaves the handshake stuck       *)
(* (SetTimeout after everything that touches the SSL object).              *)
FlightGuarded ==
  ssl.state = "handshake" => waiting \/ timer_ \in expired

(* The latch that holds the reader is open exactly when the connection is   *)
(* established or is being shut down.                                      *)
LatchIffConcluded ==
  latch_ = 0 <=> connection_established_ \/ removal

(* A handshake does not go on for ever: it is completed, fails, is closed   *)
(* by the client, or the transport stops, even if no answer ever comes.    *)
HandshakeEnds ==
  ssl.state = "handshake" ~> ssl.state # "handshake" \/ ~Running
=============================================================================
