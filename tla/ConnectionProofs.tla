---------------------------- MODULE ConnectionProofs ----------------------------
(***************************************************************************)
(* Proofs of the safety properties of Connection, for any endpoints, any   *)
(* number of flights, timeouts and handshakes.                             *)
(*                                                                         *)
(* The inductive invariant adds to the properties where the transport      *)
(* stands: what is selected is the favoured candidate (SelectedInv), DTLS  *)
(* writes only once one is selected (StartedInv), and the SRTP session has *)
(* no keys but those a handshake agreed on, if it has any (KeyedInv).      *)
(***************************************************************************)
EXTENDS Connection, TLAPS

(* The favoured candidate is the selected endpoint, and has passed two     *)
(* checks; a valid candidate has passed one.                               *)
SelectedInv ==
  /\ selected_endpoint_ = favored_candidate_
  /\ favored_candidate_ \in Endpoints => checks[favored_candidate_] = 2
  /\ \A e \in valid_candidates_ : checks[e] \in {1, 2}

(* The SSL object is in use only after a nomination, with a Timer for each *)
(* handshake that a nomination began.                                      *)
StartedInv ==
  /\ dtls_ready_ => /\ selected_endpoint_ \in Endpoints
                     /\ remote_setup_ \in {"passive", "actpass"}
  /\ ~dtls_ready_ => ssl.association = 0
  /\ dtls_ready_ <=> ssl.state # "new"
  /\ dtls_ready_ => ssl.association > 0 /\ ssl.flight <= Flights
  /\ ssl.state = "handshake" => ssl.flight > 0
  /\ timer_ <= ssl.association
  /\ dtls_ready_ \/ waiting => timer_ > 0

(* Established means that an association there has been agreed on SRTP      *)
(* parameters; keys are such an association's, or there are none.          *)
KeyedInv ==
  /\ keys \in agreed \cup {0} /\ keys <= ssl.association
  /\ connection_established_ => dtls_ready_ /\ agreed # {}

(* What DTLS sent belongs to an association there has been, and what the   *)
(* current one sent went to the selected endpoint.                         *)
SentInv ==
  \A d \in sent :
    /\ d.association <= ssl.association
    /\ d.kind = "dtls" => d.association > 0
    /\ d.kind = "dtls" /\ d.association = ssl.association
         => d.to = selected_endpoint_

IInv ==
  /\ TypeOK /\ SelectedInv /\ StartedInv /\ KeyedInv /\ SentInv
  /\ SentToNominated /\ OneEndpointPerAssociation
  /\ FlightGuarded /\ LatchIffConcluded

-----------------------------------------------------------------------------
USE EndpointAssumption, HandshakeAssumption

SSLType == [state : States, association : 0..MaxAssociations,
            flight : 0..Flights, timeouts : 0..MaxTimeouts, due : BOOLEAN]

LEMMA InitIInv == Init => IInv
<1> SUFFICES ASSUME Init PROVE IInv
  OBVIOUS
<1> USE DEF Init, New
<1>1. TypeOK
  <2>1. ssl \in SSLType
    BY DEF SSLType, States
  <2>2. checks \in [Endpoints -> 0..2]
    OBVIOUS
  <2> QED
    BY <2>1, <2>2 DEF TypeOK, SSLType
<1>2. SelectedInv /\ StartedInv /\ KeyedInv /\ SentInv
  BY DEF SelectedInv, StartedInv, KeyedInv, SentInv
<1>3. /\ SentToNominated /\ OneEndpointPerAssociation
      /\ FlightGuarded /\ LatchIffConcluded
  BY DEF SentToNominated, OneEndpointPerAssociation, FlightGuarded, LatchIffConcluded
<1> QED
  BY <1>1, <1>2, <1>3 DEF IInv

(* Beginning a handshake makes an SSL object that waits for the first answer. *)
LEMMA HandshakeType ==
  ASSUME NEW a \in 1..MaxAssociations
  PROVE  /\ Handshake(a) \in SSLType
         /\ Handshake(a).state = "handshake" /\ Handshake(a).association = a
         /\ Handshake(a).flight = 1
  BY DEF Handshake, SSLType, States

(* A timeout repeats the flight or fails; the association stays. *)
LEMMA TimedOutType ==
  ASSUME NEW s \in SSLType, HasTimeout(s)
  PROVE  /\ TimedOut(s) \in SSLType
         /\ TimedOut(s).association = s.association
         /\ TimedOut(s).flight = s.flight
         /\ TimedOut(s).state \in {s.state, "failed"}
         /\ s.timeouts = MaxTimeouts => TimedOut(s).state = "failed"
<1>1. CASE s.timeouts = MaxTimeouts
  BY <1>1 DEF TimedOut, SSLType, States
<1>2. CASE s.timeouts # MaxTimeouts
  <2>1. s.timeouts + 1 \in 0..MaxTimeouts
    BY <1>2 DEF SSLType
  <2>2. TimedOut(s) = [s EXCEPT !.timeouts = @ + 1, !.due = FALSE]
    BY <1>2 DEF TimedOut
  <2> QED
    BY <1>2, <2>1, <2>2 DEF SSLType, States
<1> QED
  BY <1>1, <1>2

(* What SSL_read may leave behind: an association only begins on a cleared  *)
(* SSL object, and a handshake is completed by the last answer.            *)
LEMMA SSLReadType ==
  ASSUME NEW effect, TypeOK, StartedInv, dtls_ready_, effect \in Effects,
         ssl.state = "cleared" => ssl.association < MaxAssociations
  PROVE  LET s == SSLRead(effect) IN
           /\ s \in SSLType
           /\ s.state # "new" /\ s.association > 0
           /\ s.state = "handshake" => s.flight > 0
           /\ s.association >= ssl.association
           /\ s.state = "connected" /\ ssl.state = "handshake"
                => s.association = ssl.association
           /\ s.association = ssl.association => s.state # "new"
<1>0. ssl \in SSLType /\ ssl.association > 0 /\ ssl.state # "new"
      /\ (ssl.state = "handshake" => ssl.flight > 0)
  BY DEF TypeOK, SSLType, StartedInv
<1>1. CASE effect = "progress"
  <2>1. ssl.state = "handshake"
    BY <1>1 DEF Effects
  <2>2. CASE ssl.flight = Flights
    <3>1. SSLRead(effect) = [ssl EXCEPT !.state = "connected", !.due = FALSE]
      BY <1>1, <2>2 DEF SSLRead
    <3>2. SSLRead(effect) \in SSLType
      BY <1>0, <3>1 DEF SSLType, States
    <3>3. /\ SSLRead(effect).state = "connected"
          /\ SSLRead(effect).association = ssl.association
      BY <1>0, <3>1 DEF SSLType
    <3> QED
      BY <1>0, <3>2, <3>3 DEF SSLType
  <2>3. CASE ssl.flight # Flights
    <3>1. SSLRead(effect) =
            [ssl EXCEPT !.flight = @ + 1, !.timeouts = 0, !.due = FALSE]
      BY <1>1, <2>3 DEF SSLRead
    <3>2. ssl.flight + 1 \in 0..Flights
      BY <1>0, <2>3 DEF SSLType
    <3>3. SSLRead(effect) \in SSLType
      <4>1. [ssl EXCEPT !.flight = ssl.flight + 1] \in SSLType
        BY <1>0, <3>2 DEF SSLType
      <4>2. 0 \in 0..MaxTimeouts
        OBVIOUS
      <4> QED
        BY <1>0, <3>1, <4>1, <4>2 DEF SSLType
    <3>4. /\ SSLRead(effect).state = "handshake"
          /\ SSLRead(effect).association = ssl.association
          /\ SSLRead(effect).flight = ssl.flight + 1
      BY <1>0, <2>1, <3>1 DEF SSLType
    <3> QED
      BY <1>0, <3>3, <3>4 DEF SSLType
  <2> QED
    BY <2>2, <2>3
<1>2. CASE effect # "progress"
  <2>1. /\ Reading \in SSLType /\ Reading.association >= ssl.association
        /\ Reading.association > 0 /\ Reading.state # "new"
        /\ Reading.state = "handshake" => Reading.flight > 0
        /\ Reading.state = "connected" => ssl.state = "connected"
    <3>1. CASE ssl.state = "cleared"
      <4>1. ssl.association + 1 \in 1..MaxAssociations
        BY <1>0, <3>1 DEF SSLType
      <4> QED
        BY <1>0, <3>1, <4>1, HandshakeType DEF Reading, SSLType
    <3>2. CASE ssl.state # "cleared"
      BY <1>0, <3>2 DEF Reading, SSLType
    <3> QED
      BY <3>1, <3>2
  <2>2. CASE effect = "broken"
    <3>1. SSLRead(effect) = [Reading EXCEPT !.state = "failed"]
      BY <2>2 DEF SSLRead
    <3> QED
      BY <1>0, <2>1, <3>1 DEF SSLType, States
  <2>3. CASE effect # "broken"
    <3>1. SSLRead(effect) = IF Reading.state = "handshake" /\ Reading.due
                            THEN TimedOut(Reading) ELSE Reading
      BY <1>2, <2>3 DEF SSLRead
    <3>2. CASE Reading.state = "handshake" /\ Reading.due
      <4>1. HasTimeout(Reading)
        BY <3>2 DEF HasTimeout
      <4> QED
        BY <1>0, <2>1, <3>1, <3>2, <4>1, TimedOutType DEF SSLType
    <3>3. CASE ~(Reading.state = "handshake" /\ Reading.due)
      BY <1>0, <2>1, <3>1, <3>3 DEF SSLType
    <3> QED
      BY <3>2, <3>3
  <2> QED
    BY <2>2, <2>3
<1> QED
  BY <1>1, <1>2

-----------------------------------------------------------------------------
(* A check counts, and the second one of an endpoint makes two. *)
LEMMA ChecksGrow ==
  ASSUME NEW ep \in Endpoints, NEW use_candidate, TypeOK, SelectedInv,
         ProcessStunMessage(ep, use_candidate)
  PROVE  /\ checks' \in [Endpoints -> 0..2]
         /\ \A e \in Endpoints : checks[e] = 2 => checks'[e] = 2
         /\ \A e \in valid_candidates_' : checks'[e] \in {1, 2}
         /\ ep \in valid_candidates_ => checks'[ep] = 2
<1>1. /\ checks \in [Endpoints -> 0..2]
      /\ valid_candidates_ \subseteq Endpoints
      /\ \A e \in valid_candidates_ : checks[e] \in {1, 2}
  BY DEF TypeOK, SelectedInv
<1>2. /\ checks' = [checks EXCEPT ![ep] = IF @ < 2 THEN @ + 1 ELSE @]
      /\ valid_candidates_' = valid_candidates_ \cup {ep}
  BY DEF ProcessStunMessage
<1>3. (IF checks[ep] < 2 THEN checks[ep] + 1 ELSE checks[ep]) \in {1, 2}
  BY <1>1
<1>4. checks'[ep] \in {1, 2} /\ \A e \in Endpoints \ {ep} : checks'[e] = checks[e]
  BY <1>1, <1>2, <1>3
<1>5. checks' \in [Endpoints -> 0..2]
  BY <1>1, <1>2, <1>3
<1>6. checks[ep] \in {1, 2} => checks'[ep] = 2
  BY <1>1, <1>2
<1> QED
  BY <1>1, <1>2, <1>4, <1>5, <1>6

(* A binding request keeps the invariant, nominating or not. *)
LEMMA StunStep ==
  ASSUME IInv, NEW ep \in Endpoints, NEW use_candidate \in BOOLEAN,
         ProcessStunMessage(ep, use_candidate)
  PROVE  IInv'
<1> USE DEF IInv
<1>1. /\ checks' \in [Endpoints -> 0..2]
      /\ \A e \in Endpoints : checks[e] = 2 => checks'[e] = 2
      /\ \A e \in valid_candidates_' : checks'[e] \in {1, 2}
      /\ ep \in valid_candidates_ => checks'[ep] = 2
  BY ChecksGrow
<1>2. /\ valid_candidates_' \subseteq Endpoints
      /\ UNCHANGED <<connection_established_, latch_, keys, agreed, removal,
                     remote_setup_, expired, stopped, crashed>>
  BY DEF ProcessStunMessage, endVars, srtpVars, TypeOK
<1>3. LatchIffConcluded'
  BY <1>2 DEF LatchIffConcluded
<1>4. CASE Nominates(ep, use_candidate) /\ remote_setup_ \in {"passive", "actpass"}
  <2> DEFINE a == ssl.association + 1
  <2>1. /\ favored_candidate_' = ep /\ selected_endpoint_' = ep
        /\ ssl' = Handshake(a) /\ dtls_ready_' = TRUE
        /\ timer_' = timer_ + 1 /\ waiting' = TRUE
        /\ sent' = sent \cup {Dtls(ep, ssl')}
        /\ ssl.association < MaxAssociations /\ ep \in valid_candidates_
    BY <1>4 DEF ProcessStunMessage, OnIceConnectionCompleted, Nominates, Start, CanStart
  <2>2. ssl.association \in 0..MaxAssociations /\ timer_ \in 0..MaxAssociations
        /\ timer_ <= ssl.association /\ keys \in 0..MaxAssociations
        /\ keys <= ssl.association
    BY DEF TypeOK, StartedInv, KeyedInv
  <2>3. a \in 1..MaxAssociations
    BY <2>1, <2>2
  <2>4. /\ ssl' \in SSLType /\ ssl'.state = "handshake" /\ ssl'.flight = 1
        /\ ssl'.association = a
    BY <2>1, <2>3, HandshakeType
  <2>5. Dtls(ep, ssl') = [kind |-> "dtls", to |-> ep, association |-> a]
    BY <2>4 DEF Dtls
  <2>6. checks'[ep] = 2
    BY <1>1, <2>1
  <2> HIDE DEF a
  <2>7. TypeOK'
    BY <1>1, <1>2, <2>1, <2>2, <2>3, <2>4, <2>5 DEF TypeOK, SSLType, a
  <2>8. SelectedInv'
    BY <1>1, <2>1, <2>6 DEF SelectedInv
  <2>9. StartedInv' /\ KeyedInv'
    BY <1>2, <1>4, <2>1, <2>2, <2>3, <2>4 DEF StartedInv, KeyedInv, a
  <2>10. \A d \in sent : d.association \in 0..MaxAssociations /\ d.association < a
                         /\ d.to \in Endpoints /\ checks'[d.to] = 2
                         /\ (d.kind = "dtls" => d.association > 0)
                         /\ (d.kind # "dtls" => agreed # {})
                         /\ (d.kind = "protected" => d.association \in agreed)
    BY <1>1, <2>2 DEF TypeOK, SentInv, SentToNominated, a
  <2>11. SentInv'
    BY <2>1, <2>3, <2>4, <2>5, <2>10 DEF SentInv
  <2>12. SentToNominated'
    BY <1>2, <2>1, <2>2, <2>3, <2>4, <2>5, <2>6, <2>10 DEF SentToNominated
  <2>13. OneEndpointPerAssociation'
    BY <2>1, <2>3, <2>5, <2>10 DEF OneEndpointPerAssociation
  <2>14. FlightGuarded'
    BY <2>1 DEF FlightGuarded
  <2> QED
    BY <1>3, <2>7, <2>8, <2>9, <2>11, <2>12, <2>13, <2>14
<1>5. CASE ~(Nominates(ep, use_candidate) /\ remote_setup_ \in {"passive", "actpass"})
  <2>1. /\ UNCHANGED <<ssl, dtls_ready_, timer_, waiting, sent>>
        /\ \/ UNCHANGED <<favored_candidate_, selected_endpoint_>>
           \/ /\ favored_candidate_' = ep /\ selected_endpoint_' = ep
              /\ ep \in valid_candidates_ /\ ~dtls_ready_
    BY <1>5 DEF ProcessStunMessage, OnIceConnectionCompleted, Nominates, CanStart,
        StartedInv
  <2>2. TypeOK'
    BY <1>1, <1>2, <2>1 DEF TypeOK
  <2>3. SelectedInv'
    BY <1>1, <2>1 DEF SelectedInv
  <2>4. StartedInv' /\ KeyedInv'
    BY <1>2, <2>1 DEF StartedInv, KeyedInv
  <2>5. \A d \in sent : d.association \in 0..MaxAssociations
    BY DEF TypeOK
  <2>6. SentInv'
    BY <2>1, <2>5 DEF SentInv, StartedInv
  <2>7. SentToNominated' /\ OneEndpointPerAssociation' /\ FlightGuarded'
    BY <1>1, <1>2, <2>1
    DEF SentToNominated, OneEndpointPerAssociation, FlightGuarded
  <2> QED
    BY <1>3, <2>2, <2>3, <2>4, <2>6, <2>7
<1> QED
  BY <1>4, <1>5

-----------------------------------------------------------------------------
(* DTLS writes to the selected endpoint for an association that is not      *)
(* older than those before it.  What has been sent so far keeps its form.  *)
LEMMA DtlsSends ==
  ASSUME IInv, dtls_ready_, NEW s \in SSLType,
         s.association >= ssl.association, s.association > 0,
         UNCHANGED <<selected_endpoint_, checks>>, agreed \subseteq agreed',
         ssl'.association = s.association,
         sent' = sent \/ sent' = sent \cup {Dtls(selected_endpoint_, s)}
  PROVE  /\ sent' \subseteq [kind : {"dtls", "protected", "bare"}, to : Endpoints,
                              association : 0..MaxAssociations]
         /\ SentInv' /\ SentToNominated' /\ OneEndpointPerAssociation'
<1>1. /\ selected_endpoint_ \in Endpoints /\ checks[selected_endpoint_] = 2
      /\ ssl.association \in 1..MaxAssociations
      /\ s.association \in 1..MaxAssociations
  BY DEF IInv, TypeOK, StartedInv, SelectedInv, SSLType
<1>2. \A d \in sent : /\ d \in [kind : {"dtls", "protected", "bare"}, to : Endpoints,
                                  association : 0..MaxAssociations]
                      /\ d.association <= ssl.association
                      /\ d.kind = "dtls" => d.association > 0
                      /\ d.kind = "dtls" /\ d.association = ssl.association
                           => d.to = selected_endpoint_
                      /\ checks[d.to] = 2
                      /\ d.kind # "dtls" => agreed' # {}
                      /\ d.kind = "protected" => d.association \in agreed'
  BY DEF IInv, TypeOK, SentInv, SentToNominated
<1>3. Dtls(selected_endpoint_, s) =
        [kind |-> "dtls", to |-> selected_endpoint_, association |-> s.association]
  BY DEF Dtls
<1>4. \A d \in sent' : d \in sent \/ d = Dtls(selected_endpoint_, s)
  OBVIOUS
<1>5. sent' \subseteq [kind : {"dtls", "protected", "bare"}, to : Endpoints,
                       association : 0..MaxAssociations]
  BY <1>1, <1>2, <1>3, <1>4
<1>6. SentInv'
  BY <1>1, <1>2, <1>3, <1>4 DEF SentInv
<1>7. SentToNominated'
  BY <1>1, <1>2, <1>3, <1>4 DEF SentToNominated
<1>8. OneEndpointPerAssociation'
  <2> SUFFICES ASSUME NEW d \in sent', NEW e \in sent', d.kind = "dtls",
                      e.kind = "dtls", d.association = e.association
               PROVE  d.to = e.to
    BY DEF OneEndpointPerAssociation
  <2>1. CASE d \in sent /\ e \in sent
    BY <2>1 DEF IInv, OneEndpointPerAssociation
  <2>2. CASE ~(d \in sent /\ e \in sent)
    BY <1>1, <1>2, <1>3, <1>4, <2>2
  <2> QED
    BY <2>1, <2>2
<1> QED
  BY <1>5, <1>6, <1>7, <1>8

(* A datagram for DTLS keeps the invariant, whatever it does. *)
LEMMA ReadStep ==
  ASSUME IInv, NEW effect, ProcessDataFromPeer(effect)
  PROVE  IInv'
<1> DEFINE s == SSLRead(effect)
<1>1. /\ s \in SSLType /\ s.state # "new" /\ s.association > 0
      /\ s.state = "handshake" => s.flight > 0
      /\ s.association >= ssl.association
  BY SSLReadType DEF IInv, ProcessDataFromPeer, DtlsReady
<1>2. /\ dtls_ready_
      /\ ssl' = IF effect = "close" THEN SSLClear(s) ELSE s
      /\ sent' = sent \/ sent' = sent \cup {Dtls(selected_endpoint_, s)}
      /\ waiting' = (waiting \/ HasTimeout(s))
      /\ UNCHANGED <<valid_candidates_, favored_candidate_, checks,
                     selected_endpoint_, dtls_ready_, remote_setup_, timer_,
                     expired, stopped, crashed>>
  BY DEF ProcessDataFromPeer, DtlsReady, SetTimeout, iceVars
<1>3. \/ /\ connection_established_' = TRUE /\ latch_' = 0 /\ UNCHANGED removal
         /\ keys' \in {ssl.association, keys, 0}
         /\ agreed' = agreed \cup {ssl.association}
      \/ UNCHANGED <<connection_established_, latch_, keys, agreed, removal>>
      \/ /\ removal' = TRUE /\ latch_' = 0
         /\ UNCHANGED <<connection_established_, keys, agreed>>
  <2>1. CASE s.state = "connected" /\ ssl.state = "handshake"
    BY <2>1 DEF ProcessDataFromPeer, SetupSRTP, OnDtlsTransportSetup, srtpVars
  <2>2. CASE ~(s.state = "connected" /\ ssl.state = "handshake")
    BY <2>2 DEF ProcessDataFromPeer, Shutdown, srtpVars
  <2> QED
    BY <2>1, <2>2
<1>4. SSLClear(s) \in SSLType /\ SSLClear(s).state = "cleared"
      /\ SSLClear(s).association = s.association
  <2>1. 0 \in 0..Flights /\ 0 \in 0..MaxTimeouts
    OBVIOUS
  <2> QED
    BY <1>1, <2>1 DEF SSLClear, New, SSLType, States
<1> HIDE DEF s
<1>5. /\ ssl' \in SSLType /\ ssl'.association = s.association
      /\ ssl'.state # "new" /\ ssl'.state \in {s.state, "cleared"}
      /\ ssl'.state = "handshake" => s.state = "handshake" /\ ssl'.flight > 0
  BY <1>1, <1>2, <1>4
<1>6. /\ sent' \subseteq [kind : {"dtls", "protected", "bare"}, to : Endpoints,
                           association : 0..MaxAssociations]
      /\ SentInv' /\ SentToNominated' /\ OneEndpointPerAssociation'
  BY <1>1, <1>2, <1>3, <1>5, DtlsSends
<1>7. /\ ssl.association \in 1..MaxAssociations
      /\ keys \in 0..MaxAssociations /\ keys <= ssl.association
      /\ timer_ \in 0..MaxAssociations /\ timer_ <= ssl.association
  BY <1>2 DEF IInv, TypeOK, StartedInv, KeyedInv
<1>8. ssl'.association \in 1..MaxAssociations /\ ssl'.flight \in 0..Flights
  BY <1>1, <1>5 DEF SSLType
<1>9. TypeOK'
  <2>0. /\ agreed \subseteq 1..MaxAssociations
        /\ connection_established_ \in BOOLEAN /\ latch_ \in {0, 1}
        /\ removal \in BOOLEAN
    BY DEF IInv, TypeOK
  <2>1. agreed' \subseteq 1..MaxAssociations
    BY ONLY <2>0, <1>3, <1>7
  <2>3. keys' \in 0..MaxAssociations
    BY ONLY HandshakeAssumption, <1>3, <1>7
  <2>4. /\ connection_established_' \in BOOLEAN /\ latch_' \in {0, 1}
        /\ removal' \in BOOLEAN
    BY ONLY <2>0, <1>3
  <2>2. waiting' \in BOOLEAN
    BY <1>2 DEF IInv, TypeOK, HasTimeout
  <2> QED
    BY <1>2, <1>5, <1>6, <2>1, <2>2, <2>3, <2>4 DEF IInv, TypeOK, SSLType
<1>10. SelectedInv'
  BY <1>2 DEF IInv, SelectedInv
<1>11. StartedInv'
  BY <1>1, <1>2, <1>5, <1>7, <1>8 DEF IInv, StartedInv
<1>12. KeyedInv'
  BY <1>1, <1>2, <1>3, <1>5, <1>7, <1>8 DEF IInv, KeyedInv
<1>13. FlightGuarded'
  BY <1>2, <1>5 DEF FlightGuarded, HasTimeout
<1>14. LatchIffConcluded'
  BY <1>3 DEF IInv, TypeOK, LatchIffConcluded
<1> QED
  BY <1>6, <1>9, <1>10, <1>11, <1>12, <1>13, <1>14 DEF IInv

(* The end of a wait queues the handler that guards the flight. *)
LEMMA ExpireStep ==
  ASSUME IInv, Expire
  PROVE  IInv'
<1>1. /\ waiting' = FALSE /\ expired' = expired \cup {timer_}
      /\ ssl' = [ssl EXCEPT !.due = HasTimeout(ssl)]
      /\ UNCHANGED <<valid_candidates_, favored_candidate_, checks,
                     connection_established_, latch_, keys, agreed, removal,
                     timer_, selected_endpoint_, dtls_ready_, remote_setup_,
                     stopped, crashed, sent>>
  BY DEF Expire, iceVars, endVars, srtpVars
<1>2. /\ ssl \in SSLType /\ ssl' \in SSLType /\ ssl'.state = ssl.state
      /\ ssl'.association = ssl.association /\ ssl'.flight = ssl.flight
  <2>1. ssl \in SSLType /\ HasTimeout(ssl) \in BOOLEAN
    BY DEF IInv, TypeOK, SSLType, HasTimeout
  <2> QED
    BY <1>1, <2>1 DEF SSLType
<1>3. timer_ \in 1..MaxAssociations
  BY DEF IInv, TypeOK, StartedInv, Expire
<1>4. TypeOK'
  BY <1>1, <1>2, <1>3 DEF IInv, TypeOK, SSLType
<1>5. SelectedInv' /\ KeyedInv' /\ StartedInv'
  BY <1>1, <1>2 DEF IInv, SelectedInv, KeyedInv, StartedInv
<1>6. SentInv' /\ SentToNominated' /\ OneEndpointPerAssociation'
  BY <1>1, <1>2 DEF IInv, SentInv, SentToNominated, OneEndpointPerAssociation
<1>7. FlightGuarded' /\ LatchIffConcluded'
  BY <1>1 DEF IInv, FlightGuarded, LatchIffConcluded
<1> QED
  BY <1>4, <1>5, <1>6, <1>7 DEF IInv

(* A queued handler runs: on the live Timer it repeats the flight and arms  *)
(* the timer, or gives up; the handler of a destroyed one does the same or *)
(* nothing, and the handler of the live one is still queued if it was.     *)
LEMMA TimeoutStep ==
  ASSUME IInv, NEW g \in 1..MaxAssociations, OnTimeout(g)
  PROVE  IInv'
<1>1. /\ expired' = expired \ {g} /\ crashed' \in BOOLEAN
      /\ UNCHANGED <<valid_candidates_, favored_candidate_, checks,
                     connection_established_, latch_, keys, agreed, removal,
                     timer_, selected_endpoint_, dtls_ready_, remote_setup_,
                     stopped>>
  BY DEF OnTimeout, iceVars, endVars, srtpVars, IInv, TypeOK
<1>2. ssl \in SSLType
  BY DEF IInv, TypeOK, SSLType
<1>3. /\ ssl' \in SSLType /\ ssl'.association = ssl.association
      /\ ssl'.flight = ssl.flight /\ ssl'.state \in {ssl.state, "failed"}
      /\ ssl'.state = "new" <=> ssl.state = "new"
      /\ sent' = sent \/ (sent' = sent \cup {Dtls(selected_endpoint_, ssl)}
                           /\ ssl.state # "new")
      /\ waiting' \in BOOLEAN
      /\ waiting' => waiting \/ ssl.state # "new"
      /\ \/ UNCHANGED <<ssl, waiting>> /\ g # timer_
         \/ ssl'.state = "handshake" => waiting'
  <2>1. CASE g # timer_ /\ UNCHANGED <<ssl, waiting, sent>>
    BY <1>2, <2>1 DEF IInv, TypeOK
  <2>2. CASE OnTimerTimeout
    <3>1. CASE HasTimeout(ssl) /\ ssl.due
      <4>1. /\ ssl' = TimedOut(ssl)
            /\ \/ /\ ssl.timeouts = MaxTimeouts /\ UNCHANGED <<waiting, sent>>
               \/ /\ sent' = sent \cup {Dtls(selected_endpoint_, ssl)}
                  /\ waiting' = TRUE
        BY <2>2, <3>1 DEF OnTimerTimeout, SetTimeout
      <4>2. ssl.state # "new" /\ waiting \in BOOLEAN
        BY <3>1 DEF HasTimeout, IInv, TypeOK
      <4> QED
        BY <1>2, <3>1, <4>1, <4>2, TimedOutType
    <3>2. CASE ~(HasTimeout(ssl) /\ ssl.due)
      BY <1>2, <2>2, <3>2 DEF OnTimerTimeout, SetTimeout, HasTimeout, IInv, TypeOK
    <3> QED
      BY <3>1, <3>2
  <2> QED
    BY <2>1, <2>2 DEF OnTimeout
<1>4. SentInv' /\ SentToNominated' /\ OneEndpointPerAssociation'
      /\ sent' \subseteq [kind : {"dtls", "protected", "bare"}, to : Endpoints,
                          association : 0..MaxAssociations]
  <2>1. CASE sent' = sent
    BY <1>1, <1>3, <2>1
    DEF IInv, TypeOK, SentInv, SentToNominated, OneEndpointPerAssociation
  <2>2. CASE ssl.state # "new" /\ sent' = sent \cup {Dtls(selected_endpoint_, ssl)}
    <3>1. dtls_ready_ /\ ssl.association \in 0..MaxAssociations
          /\ ssl.association > 0
      BY <1>2, <2>2 DEF IInv, StartedInv, SSLType
    <3> QED
      BY <1>1, <1>2, <1>3, <2>2, <3>1, DtlsSends
  <2> QED
    BY <1>3, <2>1, <2>2
<1>5. TypeOK'
  BY <1>1, <1>3, <1>4 DEF IInv, TypeOK, SSLType
<1>6. SelectedInv' /\ KeyedInv'
  BY <1>1, <1>3 DEF IInv, SelectedInv, KeyedInv
<1>7. StartedInv'
  BY <1>1, <1>3 DEF IInv, StartedInv
<1>8. FlightGuarded' /\ LatchIffConcluded'
  BY <1>1, <1>3 DEF IInv, FlightGuarded, LatchIffConcluded
<1> QED
  BY <1>4, <1>5, <1>6, <1>7, <1>8 DEF IInv

(* Media goes to the selected endpoint, bare or under the keys there are. *)
LEMMA MediaStep ==
  ASSUME IInv, OnMediaPacket
  PROVE  IInv'
<1>1. PICK d \in Media : sent' = sent \cup {d}
  BY DEF OnMediaPacket
<1>2. /\ connection_established_
      /\ UNCHANGED <<valid_candidates_, favored_candidate_, checks,
                     connection_established_, latch_, keys, agreed, removal,
                     timer_, waiting, expired, selected_endpoint_, dtls_ready_,
                     remote_setup_, ssl, stopped, crashed>>
  BY DEF OnMediaPacket, iceVars, endVars, srtpVars, timerVars
<1>3. /\ selected_endpoint_ \in Endpoints /\ checks[selected_endpoint_] = 2
      /\ keys \in 0..MaxAssociations /\ keys <= ssl.association
      /\ keys # 0 => keys \in agreed
      /\ agreed # {} /\ ssl.association \in 0..MaxAssociations
  BY <1>2 DEF IInv, TypeOK, SelectedInv, StartedInv, KeyedInv
<1>4. /\ d \in [kind : {"dtls", "protected", "bare"}, to : Endpoints,
                association : 0..MaxAssociations]
      /\ d.kind # "dtls" /\ d.to = selected_endpoint_
      /\ d.association <= ssl.association
      /\ d.kind = "protected" => d.association \in agreed
  <2>1. CASE d = Bare
    BY <1>3, <2>1 DEF Bare
  <2>2. CASE keys # 0 /\ d = Protected
    BY <1>3, <2>2 DEF Protected
  <2> QED
    BY <1>1, <2>1, <2>2 DEF Media
<1>5. TypeOK'
  BY <1>1, <1>2, <1>4 DEF IInv, TypeOK
<1>6. SelectedInv' /\ StartedInv' /\ KeyedInv' /\ FlightGuarded'
      /\ LatchIffConcluded'
  BY <1>2
  DEF IInv, SelectedInv, StartedInv, KeyedInv, FlightGuarded, LatchIffConcluded
<1>7. SentInv'
  BY <1>1, <1>2, <1>3, <1>4 DEF IInv, SentInv
<1>8. SentToNominated'
  BY <1>1, <1>2, <1>3, <1>4 DEF IInv, SentToNominated
<1>9. OneEndpointPerAssociation'
  BY <1>1, <1>2, <1>4 DEF IInv, OneEndpointPerAssociation
<1> QED
  BY <1>5, <1>6, <1>7, <1>8, <1>9 DEF IInv

(* An error opens the latch and posts the removal, no more; Stop only stops. *)
LEMMA EndStep ==
  ASSUME IInv, OnError \/ Stop \/ UNCHANGED vars
  PROVE  IInv'
<1>1. /\ UNCHANGED <<valid_candidates_, favored_candidate_, checks,
                     connection_established_, keys, agreed, timer_, waiting,
                     expired, selected_endpoint_, dtls_ready_, remote_setup_,
                     ssl, crashed, sent>>
      /\ stopped' \in BOOLEAN
      /\ \/ UNCHANGED <<latch_, removal>>
         \/ removal' = TRUE /\ latch_' = 0
  BY DEF OnError, Stop, Shutdown, vars, iceVars, endVars, srtpVars, timerVars, IInv,
      TypeOK
<1>2. TypeOK'
  BY <1>1 DEF IInv, TypeOK
<1>3. SelectedInv' /\ StartedInv' /\ KeyedInv' /\ SentInv'
  BY <1>1 DEF IInv, SelectedInv, StartedInv, KeyedInv, SentInv
<1>4. SentToNominated' /\ OneEndpointPerAssociation' /\ FlightGuarded'
  BY <1>1 DEF IInv, SentToNominated, OneEndpointPerAssociation, FlightGuarded
<1>5. LatchIffConcluded'
  BY <1>1 DEF IInv, LatchIffConcluded
<1> QED
  BY <1>2, <1>3, <1>4, <1>5 DEF IInv

-----------------------------------------------------------------------------
(* The invariant holds at the start and every handler keeps it. *)
THEOREM Invariance == Spec => []IInv
<1>1. IInv /\ [Next]_vars => IInv'
  BY StunStep, ReadStep, ExpireStep, TimeoutStep, MediaStep, EndStep DEF Next
<1> QED
  BY InitIInv, <1>1, PTL DEF Spec

(* Every variable keeps its type. *)
THEOREM TypeCorrect == Spec => []TypeOK
BY Invariance, PTL DEF IInv

(* DTLS and media are sent only to an endpoint that has been checked and    *)
(* then nominated; nothing but DTLS is sent before a handshake has agreed  *)
(* on SRTP parameters, and what is sent protected is so under such ones,   *)
(* although a failed Init may leave the session without keys or with old   *)
(* ones and the results of ProtectRtp and ProtectRtcp are not looked at.   *)
THEOREM OnlyToNominated == Spec => []SentToNominated
BY Invariance, PTL DEF IInv

(* No DTLS association is ever spread over two endpoints. *)
THEOREM AssociationsKeepEndpoint == Spec => []OneEndpointPerAssociation
BY Invariance, PTL DEF IInv

(* An unanswered flight always has a timer or a queued handler behind it,   *)
(* also when DTLS is restarted with a handler of the old Timer queued.     *)
THEOREM FlightsGuarded == Spec => []FlightGuarded
BY Invariance, PTL DEF IInv

(* The latch is open exactly when the connection is established or ends. *)
THEOREM LatchConcludes == Spec => []LatchIffConcluded
BY Invariance, PTL DEF IInv
=============================================================================
