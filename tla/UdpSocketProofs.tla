----------------------------- MODULE UdpSocketProofs -----------------------------
(***************************************************************************)
(* Proofs of the safety properties of UdpSocket, for any width of a port   *)
(* and any number of datagrams sent and received.                          *)
(*                                                                         *)
(* The argument counts: the queue holds the newest datagrams, Front of     *)
(* them have left it (QueueInv), what the kernel or a queued completion    *)
(* has is the first one in the queue (PumpInv), and what has been sent or  *)
(* lost is what has left, or that first one too while its handler has not  *)
(* run, or never will because the socket is closed (GoneInv).              *)
(***************************************************************************)
EXTENDS UdpSocket, SequenceTheorems, TLAPS

(* The datagrams that have left the queue; those sent; those concluded.    *)
Front == accepted - Len(send_queue_)
Wired == {wire[k] : k \in 1..Len(wire)}
Gone == lost \cup Wired

Sending == handler \in {"do_send", "async"}

QueueInv ==
  /\ Len(send_queue_) <= accepted
  /\ \A k \in 1..Len(send_queue_) : send_queue_[k] = Front + k

PumpInv ==
  /\ Len(inflight) + Len(completed) <= 1
  /\ Len(inflight) = 1 => Len(send_queue_) > 0 /\ inflight[1] = Front + 1
  /\ Len(completed) = 1 =>
       Len(send_queue_) > 0 /\ completed[1].datagram = Front + 1
  /\ Sending => Len(inflight) = 0 /\ Len(completed) = 0 /\ Len(send_queue_) > 0
  /\ ~is_closing_ /\ Len(send_queue_) > 0 =>
       Len(inflight) = 1 \/ Len(completed) = 1 \/ Sending

Increasing == \A j, k \in 1..Len(wire) : j < k => wire[j] < wire[k]

GoneInv ==
  /\ Increasing /\ lost \cap Wired = {}
  /\ \/ Gone = 1..Front /\ Len(completed) = 0
     \/ /\ Gone = 1..(Front + 1)
        /\ Len(send_queue_) > 0 /\ Len(inflight) = 0 /\ ~Sending
        /\ Len(completed) = 1 \/ is_closing_

(* The ports tried so far cannot be bound.                                 *)
ScanInv ==
  max_port_ < PortModulus - 1 =>
    /\ phase \in {"scan", "open", "failed"} =>
         min_port_ <= i /\ \A p \in min_port_..(i - 1) : p \notin bindable
    /\ phase = "open" => i <= max_port_ /\ i \in bindable
    /\ phase = "failed" => i > max_port_

IInv ==
  TypeOK /\ QueueInv /\ PumpInv /\ GoneInv /\ ScanInv /\ DeafIsReported

-----------------------------------------------------------------------------
USE PortModulusAssumption, MaxMessagesAssumption, MaxReceivesAssumption

Messages == 1..MaxMessages
Completions == [datagram : 1..MaxMessages, error : BOOLEAN]

(* What of the state the search for a port does not touch, and the others. *)
SocketUnchanged == UNCHANGED <<handler, is_closing_, sendVars>>

LEMMA Appended ==
  ASSUME NEW S, NEW s \in Seq(S), NEW e \in S
  PROVE  /\ Append(s, e) \in Seq(S) /\ Len(Append(s, e)) = Len(s) + 1
         /\ \A k \in 1..Len(s) : Append(s, e)[k] = s[k]
         /\ Append(s, e)[Len(s) + 1] = e
  OBVIOUS

LEMMA SmallModulo ==
  ASSUME NEW n \in Nat, NEW m \in Nat, n < m
  PROVE  n % m = n
  OBVIOUS

LEMMA NotEmpty ==
  ASSUME NEW S, NEW s \in Seq(S)
  PROVE  Len(s) \in Nat /\ (s = <<>> <=> Len(s) = 0)
  BY LenProperties, EmptySeq

LEMMA AtMostOne ==
  ASSUME NEW a \in Nat, NEW b \in Nat, a + b <= 1
  PROVE  a \in {0, 1} /\ b \in {0, 1} /\ (a = 0 \/ b = 0)
  OBVIOUS

(* What the counting of PumpInv says of the sequences.                     *)
LEMMA OneOrNone ==
  ASSUME TypeOK, PumpInv
  PROVE  /\ Len(inflight) \in {0, 1} /\ (inflight = <<>> <=> Len(inflight) = 0)
         /\ Len(completed) \in {0, 1} /\ (completed = <<>> <=> Len(completed) = 0)
         /\ Len(inflight) = 0 \/ Len(completed) = 0
<1>1. inflight \in Seq(Messages) /\ completed \in Seq(Completions)
  BY DEF TypeOK, Messages, Completions
<1>2. /\ Len(inflight) \in Nat /\ (inflight = <<>> <=> Len(inflight) = 0)
      /\ Len(completed) \in Nat /\ (completed = <<>> <=> Len(completed) = 0)
  BY <1>1, NotEmpty
<1>3. Len(inflight) + Len(completed) <= 1
  BY DEF PumpInv
<1>4. Len(inflight) \in {0, 1} /\ Len(completed) \in {0, 1}
  BY <1>2, <1>3, AtMostOne
<1>5. Len(inflight) = 0 \/ Len(completed) = 0
  BY <1>2, <1>3, AtMostOne
<1> QED
  BY <1>2, <1>4, <1>5

LEMMA InitIInv == Init => IInv
<1> SUFFICES ASSUME Init PROVE IInv
  OBVIOUS
<1>1. TypeOK
  <2>1. 0 \in Port
    BY DEF Port
  <2>2. <<>> \in Seq(1..MaxMessages) /\ <<>> \in Seq([datagram : 1..MaxMessages, error : BOOLEAN])
    BY EmptySeq
  <2>3. /\ bindable \subseteq Port /\ lost \subseteq 1..MaxMessages
        /\ received \in 0..MaxReceives /\ accepted \in 0..MaxMessages
    BY DEF Init
  <2> QED
    BY <2>1, <2>2, <2>3 DEF Init, TypeOK
<1>2. QueueInv /\ PumpInv
  BY DEF Init, QueueInv, PumpInv, Front, Sending
<1>3. GoneInv
  <2>1. Len(wire) = 0 /\ Len(send_queue_) = 0 /\ Len(completed) = 0 /\ accepted = 0
    BY DEF Init
  <2>2. Wired = {} /\ Front = 0
    BY <2>1 DEF Wired, Front
  <2> QED
    BY <2>1, <2>2 DEF Init, GoneInv, Increasing, Gone
<1>4. ScanInv /\ DeafIsReported
  BY DEF Init, ScanInv, DeafIsReported
<1> QED
  BY <1>1, <1>2, <1>3, <1>4 DEF IInv

(* The invariants of the send queue rest on its variables only.            *)
LEMMA SendUnchanged ==
  ASSUME QueueInv, PumpInv, GoneInv, SocketUnchanged
  PROVE  QueueInv' /\ PumpInv' /\ GoneInv'
<1> USE DEF SocketUnchanged, sendVars
<1>1. Front' = Front /\ Wired' = Wired /\ Gone' = Gone /\ Sending' = Sending
  BY DEF Front, Wired, Gone, Sending
<1> QED
  BY <1>1 DEF QueueInv, PumpInv, GoneInv, Increasing

(* Listen and its loop.                                                    *)
LEMMA ScanStep ==
  ASSUME IInv, Scan
  PROVE  IInv'
<1> USE DEF IInv
<1>1. QueueInv' /\ PumpInv' /\ GoneInv'
  <2>1. SocketUnchanged
    BY DEF Scan, Listen, Bind, NextPort, NoPorts, SocketUnchanged, sendVars
  <2> QED
    BY <2>1, SendUnchanged
<1>2. CASE Listen
  BY <1>1, <1>2 DEF Listen, TypeOK, Port, ScanInv, DeafIsReported, sendVars, receiveVars
<1>3. CASE Bind
  BY <1>1, <1>3 DEF Bind, TypeOK, Port, ScanInv, DeafIsReported, sendVars
<1>4. CASE NextPort
  <2>1. (i + 1) % PortModulus \in Port
    BY DEF TypeOK, Port
  <2>2. max_port_ < PortModulus - 1 => (i + 1) % PortModulus = i + 1
    <3> SUFFICES ASSUME max_port_ < PortModulus - 1
                 PROVE  (i + 1) % PortModulus = i + 1
      OBVIOUS
    <3>1. i + 1 \in Nat /\ PortModulus \in Nat /\ i + 1 < PortModulus
      BY <1>4 DEF NextPort, TypeOK, Port
    <3> QED
      BY <3>1, SmallModulo
  <2>3. TypeOK'
    BY <1>4, <2>1 DEF NextPort, TypeOK, sendVars, receiveVars
  <2>4. ScanInv'
    BY <1>4, <2>2 DEF NextPort, TypeOK, Port, ScanInv
  <2>5. DeafIsReported'
    BY <1>4 DEF NextPort, DeafIsReported, receiveVars
  <2> QED
    BY <1>1, <2>3, <2>4, <2>5
<1>5. CASE NoPorts
  BY <1>1, <1>5 DEF NoPorts, TypeOK, ScanInv, DeafIsReported, sendVars, receiveVars
<1> QED
  BY <1>2, <1>3, <1>4, <1>5 DEF Scan

(* A handler begins or ends; DoSend decides.                               *)
LEMMA HandlerStep ==
  ASSUME IInv, BeginHandler \/ EndHandler \/ DoSend
  PROVE  IInv'
<1> USE DEF IInv
<1>1. /\ UNCHANGED <<listenVars, stopped, is_closing_, sendVars, receiveVars, reported>>
      /\ handler' \in {"none", "run", "async"}
      /\ handler' = "async" => handler = "do_send"
      /\ is_closing_ \/ Sending' = Sending
      /\ Sending' => Sending
  BY DEF BeginHandler, EndHandler, DoSend, Sending
<1>2. TypeOK' /\ ScanInv' /\ DeafIsReported'
  BY <1>1 DEF TypeOK, ScanInv, DeafIsReported, listenVars, sendVars, receiveVars
<1>3. Front' = Front /\ Wired' = Wired /\ Gone' = Gone
  BY <1>1 DEF Front, Wired, Gone, sendVars
<1>4. QueueInv' /\ PumpInv' /\ GoneInv'
  BY <1>1, <1>3 DEF QueueInv, PumpInv, GoneInv, Increasing, sendVars
<1> QED
  BY <1>2, <1>4

LEMMA SendDataStep ==
  ASSUME IInv, SendData
  PROVE  IInv'
<1> USE DEF IInv
<1> DEFINE d == accepted + 1
<1>1. d \in Messages /\ send_queue_ \in Seq(Messages) /\ accepted \in Nat
  BY DEF SendData, TypeOK, Messages
<1>2. /\ send_queue_' \in Seq(Messages) /\ Len(send_queue_') = Len(send_queue_) + 1
      /\ \A k \in 1..Len(send_queue_) : send_queue_'[k] = send_queue_[k]
      /\ send_queue_'[Len(send_queue_) + 1] = d
  BY <1>1, Appended DEF SendData
<1>3. Len(send_queue_) \in Nat
  BY <1>1, LenProperties
<1>4. /\ handler' \in {"do_send", "run"} /\ handler = "run"
      /\ handler' = "do_send" <=> Len(send_queue_) = 0
      /\ UNCHANGED <<listenVars, stopped, is_closing_, inflight, completed, wire,
                     lost, receiveVars, reported>>
      /\ accepted' = accepted + 1
  BY <1>2, <1>3 DEF SendData
<1>5. TypeOK'
  <2>1. accepted' \in 0..MaxMessages
    BY <1>1, <1>4 DEF Messages
  <2>2. send_queue_' \in Seq(1..MaxMessages)
    BY <1>2 DEF Messages
  <2> QED
    BY <1>4, <2>1, <2>2 DEF TypeOK, listenVars, receiveVars
<1>6. Front' = Front /\ Wired' = Wired /\ Gone' = Gone /\ ~Sending /\ Front \in Nat
  BY <1>1, <1>2, <1>3, <1>4 DEF Front, Wired, Gone, Sending, QueueInv
<1>7. QueueInv'
  <2>1. Len(send_queue_') <= accepted'
    BY <1>1, <1>2, <1>3, <1>4 DEF QueueInv
  <2>2. ASSUME NEW k \in 1..Len(send_queue_')
        PROVE  send_queue_'[k] = Front' + k
    <3>1. CASE k = Len(send_queue_) + 1
      BY <3>1, <1>1, <1>2, <1>3, <1>6 DEF Front
    <3>2. CASE k \in 1..Len(send_queue_)
      BY <3>2, <1>2, <1>6 DEF QueueInv
    <3> QED
      BY <3>1, <3>2, <1>2, <1>3
  <2> QED
    BY <2>1, <2>2 DEF QueueInv
<1>8. Sending' <=> Len(send_queue_) = 0
  BY <1>4 DEF Sending
<1>9. Len(inflight) \in Nat /\ Len(completed) \in Nat
  BY LenProperties DEF TypeOK
<1>10. PumpInv'
  <2>1. Len(send_queue_') > 0
    BY <1>2, <1>3
  <2>2. inflight' = inflight /\ completed' = completed /\ is_closing_' = is_closing_
    BY <1>4
  <2>3. Sending' => Len(inflight) = 0 /\ Len(completed) = 0
    <3>1. PumpInv
      OBVIOUS
    <3>2. Len(send_queue_) = 0 => Len(inflight) # 1 /\ Len(completed) # 1
      BY <3>1 DEF PumpInv
    <3> SUFFICES ASSUME Sending'
                 PROVE  Len(inflight) = 0 /\ Len(completed) = 0
      OBVIOUS
    <3>4. Len(send_queue_) = 0
      BY <1>8
    <3>5. Len(inflight) # 1 /\ Len(completed) # 1
      BY <3>2, <3>4
    <3>6. Len(inflight) \in {0, 1} /\ Len(completed) \in {0, 1}
      BY OneOrNone
    <3> QED
      BY <3>5, <3>6
  <2> QED
    BY <2>1, <2>2, <2>3, <1>3, <1>6, <1>8, <1>9 DEF PumpInv
<1>11. GoneInv'
  BY <1>2, <1>3, <1>4, <1>6, <1>8 DEF GoneInv, Increasing
<1>12. ScanInv' /\ DeafIsReported'
  BY <1>4 DEF ScanInv, DeafIsReported, listenVars, receiveVars
<1> QED
  BY <1>5, <1>7, <1>10, <1>11, <1>12

(* The front of the queue is given to asio.                                *)
LEMMA AsyncSendToStep ==
  ASSUME IInv, AsyncSendTo
  PROVE  IInv'
<1> USE DEF IInv
<1>1. /\ send_queue_ \in Seq(Messages) /\ Len(send_queue_) \in Nat
      /\ inflight \in Seq(Messages) /\ Len(inflight) \in Nat
      /\ completed \in Seq(Completions) /\ Len(completed) \in Nat
  BY LenProperties DEF TypeOK, Messages, Completions
<1>2. /\ handler = "async" /\ handler' = "run" /\ Sending /\ ~Sending'
      /\ inflight' = Append(inflight, Head(send_queue_))
      /\ UNCHANGED <<listenVars, stopped, is_closing_, send_queue_, completed,
                     accepted, wire, lost, receiveVars, reported>>
  BY DEF AsyncSendTo, Sending
<1>3. Len(inflight) = 0 /\ Len(completed) = 0 /\ Len(send_queue_) > 0
  BY <1>2 DEF PumpInv
<1>4. Head(send_queue_) = Front + 1 /\ Head(send_queue_) \in Messages
  <2>1. Head(send_queue_) = send_queue_[1]
    BY <1>1, <1>3
  <2>2. 1 \in 1..Len(send_queue_)
    BY <1>1, <1>3
  <2> QED
    BY <2>1, <2>2, <1>1, ElementOfSeq DEF QueueInv
<1>5. inflight' \in Seq(Messages) /\ Len(inflight') = 1 /\ inflight'[1] = Front + 1
  BY <1>1, <1>2, <1>3, <1>4, Appended
<1>6. TypeOK'
  BY <1>2, <1>5 DEF TypeOK, Messages, listenVars, receiveVars
<1>7. Front' = Front /\ Wired' = Wired /\ Gone' = Gone
  BY <1>2 DEF Front, Wired, Gone
<1>8. QueueInv'
  BY <1>2, <1>7 DEF QueueInv
<1>9. PumpInv'
  BY <1>1, <1>2, <1>3, <1>5, <1>7 DEF PumpInv
<1>10. GoneInv'
  BY <1>2, <1>3, <1>5, <1>7 DEF GoneInv, Increasing
<1>11. ScanInv' /\ DeafIsReported'
  BY <1>2 DEF ScanInv, DeafIsReported, listenVars, receiveVars
<1> QED
  BY <1>6, <1>8, <1>9, <1>10, <1>11

(* The handler of a completion pops the front, or leaves everything when   *)
(* the socket is closed.                                                   *)
LEMMA HandSendStep ==
  ASSUME IInv, HandSend
  PROVE  IInv'
<1> USE DEF IInv
<1>1. /\ send_queue_ \in Seq(Messages) /\ Len(send_queue_) \in Nat
      /\ inflight \in Seq(Messages) /\ Len(inflight) \in Nat
      /\ completed \in Seq(Completions) /\ Len(completed) \in Nat
      /\ accepted \in Nat
  BY LenProperties DEF TypeOK, Messages, Completions
<1>2. Len(completed) = 1 /\ Len(inflight) = 0 /\ Len(send_queue_) > 0 /\ completed # <<>>
  <2>1. completed # <<>>
    BY DEF HandSend
  <2>2. Len(completed) = 1 /\ Len(inflight) = 0
    BY <2>1, OneOrNone
  <2>3. Len(send_queue_) > 0
    BY <2>2 DEF PumpInv
  <2> QED
    BY <2>1, <2>2, <2>3
<1>3. completed' \in Seq(Completions) /\ Len(completed') = 0 /\ Head(completed) \in Completions
  BY <1>1, <1>2, HeadTailProperties DEF HandSend
<1>4. /\ handler = "none" /\ ~Sending
      /\ UNCHANGED <<listenVars, stopped, is_closing_, inflight, accepted, wire,
                     lost, receiveVars>>
  BY DEF HandSend, Sending
<1>5. Gone = 1..(Front + 1)
  BY <1>2 DEF GoneInv
<1>6. Wired' = Wired /\ Gone' = Gone
  BY <1>4 DEF Wired, Gone
<1>7. ScanInv' /\ (reported => reported') => DeafIsReported'
  BY <1>4 DEF DeafIsReported, listenVars, receiveVars
<1>8. ScanInv'
  BY <1>4 DEF ScanInv, listenVars
<1>9. CASE is_closing_
  <2>1. handler' = "run" /\ ~Sending' /\ UNCHANGED <<send_queue_, reported>>
    BY <1>9 DEF HandSend, Sending
  <2>2. TypeOK'
    BY <2>1, <1>3, <1>4 DEF TypeOK, Completions, listenVars, receiveVars
  <2>3. Front' = Front
    BY <2>1, <1>4 DEF Front
  <2>4. QueueInv' /\ PumpInv'
    BY <2>1, <2>3, <1>2, <1>3, <1>4, <1>9 DEF QueueInv, PumpInv
  <2>5. GoneInv'
    BY <2>1, <2>3, <1>2, <1>4, <1>5, <1>6, <1>9 DEF GoneInv, Increasing
  <2> QED
    BY <2>1, <2>2, <2>4, <2>5, <1>7, <1>8
<1>10. CASE ~is_closing_
  <2>1. /\ send_queue_' = Tail(send_queue_)
        /\ reported' = (reported \/ Head(completed).error)
        /\ handler' = IF Len(send_queue_') > 0 THEN "do_send" ELSE "run"
    BY <1>10 DEF HandSend
  <2>2. /\ send_queue_' \in Seq(Messages) /\ Len(send_queue_') = Len(send_queue_) - 1
        /\ \A k \in 1..Len(send_queue_') : send_queue_'[k] = send_queue_[k + 1]
    BY <2>1, <1>1, <1>2, HeadTailProperties
  <2>3. Sending' <=> Len(send_queue_') > 0
    BY <2>1 DEF Sending
  <2>4. Front' = Front + 1
    BY <2>2, <1>1, <1>4 DEF Front
  <2>5. TypeOK'
    <3>1. Head(completed).error \in BOOLEAN
      BY <1>3 DEF Completions
    <3> QED
      BY <3>1, <2>1, <2>2, <1>3, <1>4 DEF TypeOK, Messages, Completions, listenVars, receiveVars
  <2>6. QueueInv'
    BY <2>2, <2>4, <1>1, <1>4 DEF QueueInv, Front
  <2>7. PumpInv'
    BY <2>2, <2>3, <1>1, <1>2, <1>3, <1>4 DEF PumpInv
  <2>8. GoneInv'
    BY <2>4, <1>3, <1>4, <1>5, <1>6 DEF GoneInv, Increasing
  <2> QED
    BY <2>1, <2>5, <2>6, <2>7, <2>8, <1>7, <1>8
<1> QED
  BY <1>9, <1>10

LEMMA HandleReceiveStep ==
  ASSUME IInv, NEW error \in BOOLEAN, HandleReceive(error)
  PROVE  IInv'
<1> USE DEF IInv
<1>1. /\ handler = "none" /\ handler' = "run"
      /\ UNCHANGED <<listenVars, stopped, is_closing_, sendVars>>
      /\ received' = received + 1 /\ received < MaxReceives
      /\ receiving' = (~is_closing_ /\ ~error)
      /\ reported' = (reported \/ (~is_closing_ /\ error))
  BY DEF HandleReceive
<1>2. TypeOK'
  <2>1. received' \in 0..MaxReceives
    BY <1>1 DEF TypeOK
  <2>2. receiving' \in BOOLEAN /\ reported' \in BOOLEAN
    BY <1>1 DEF TypeOK
  <2> QED
    BY <2>1, <2>2, <1>1 DEF TypeOK, listenVars, sendVars
<1>3. Front' = Front /\ Wired' = Wired /\ Gone' = Gone /\ ~Sending /\ ~Sending'
  BY <1>1 DEF Front, Wired, Gone, Sending, sendVars
<1>4. QueueInv' /\ PumpInv' /\ GoneInv'
  BY <1>1, <1>3 DEF QueueInv, PumpInv, GoneInv, Increasing, sendVars
<1>5. ScanInv' /\ DeafIsReported'
  BY <1>1 DEF ScanInv, DeafIsReported, listenVars
<1> QED
  BY <1>2, <1>4, <1>5

(* The kernel concludes the send of the front.                             *)
LEMMA CompleteStep ==
  ASSUME IInv, NEW error \in BOOLEAN, Complete(error)
  PROVE  IInv'
<1> USE DEF IInv
<1> DEFINE c == [datagram |-> Head(inflight), error |-> error]
<1>1. /\ send_queue_ \in Seq(Messages) /\ Len(send_queue_) \in Nat
      /\ inflight \in Seq(Messages) /\ Len(inflight) \in Nat
      /\ completed \in Seq(Completions) /\ Len(completed) \in Nat
      /\ wire \in Seq(Messages) /\ Len(wire) \in Nat
      /\ accepted \in Nat
  BY LenProperties DEF TypeOK, Messages, Completions
<1>2. /\ inflight # <<>> /\ inflight' = Tail(inflight)
      /\ completed' = Append(completed, c)
      /\ UNCHANGED <<listenVars, handler, stopped, is_closing_, send_queue_,
                     accepted, receiveVars, reported>>
      /\ error => lost' = lost \cup {Head(inflight)} /\ wire' = wire
      /\ ~error => wire' = Append(wire, Head(inflight)) /\ lost' = lost
  BY DEF Complete
<1>3. Len(inflight) = 1 /\ Len(completed) = 0 /\ Len(send_queue_) > 0 /\ ~Sending
  <2>1. Len(inflight) = 1 /\ Len(completed) = 0
    BY <1>2, OneOrNone
  <2>2. Len(send_queue_) > 0
    BY <2>1 DEF PumpInv
  <2>3. ~Sending
    BY <2>1 DEF PumpInv
  <2> QED
    BY <2>1, <2>2, <2>3
<1>4. Head(inflight) = Front + 1 /\ Head(inflight) \in Messages
  BY <1>1, <1>2, <1>3, HeadTailProperties DEF PumpInv
<1>5. inflight' \in Seq(Messages) /\ Len(inflight') = 0
  BY <1>1, <1>2, <1>3, HeadTailProperties
<1>6. c \in Completions
  BY <1>4 DEF Completions, Messages
<1>7. completed' \in Seq(Completions) /\ Len(completed') = 1 /\ completed'[1] = c
  BY <1>1, <1>2, <1>3, <1>6, Appended
<1>8. Front' = Front /\ Front \in Nat /\ Sending' = Sending
  BY <1>1, <1>2 DEF Front, Sending, QueueInv
<1>9. Gone = 1..Front /\ Increasing /\ lost \cap Wired = {}
  BY <1>3 DEF GoneInv
<1>10. /\ wire' \in Seq(Messages) /\ lost' \subseteq Messages
       /\ Increasing' /\ lost' \cap Wired' = {} /\ Gone' = Gone \cup {Front + 1}
  <2>1. CASE error
    <3>1. Wired' = Wired /\ Increasing' /\ lost' = lost \cup {Front + 1}
      BY <2>1, <1>2, <1>4, <1>9 DEF Wired, Increasing
    <3>2. Front + 1 \notin Gone
      BY <1>8, <1>9
    <3> QED
      BY <2>1, <3>1, <3>2, <1>1, <1>2, <1>4, <1>9 DEF Gone, TypeOK, Messages
  <2>2. CASE ~error
    <3>1. /\ wire' \in Seq(Messages) /\ Len(wire') = Len(wire) + 1
          /\ \A k \in 1..Len(wire) : wire'[k] = wire[k]
          /\ wire'[Len(wire) + 1] = Front + 1
      <4>1. wire' = Append(wire, Head(inflight)) /\ wire \in Seq(Messages)
        BY <2>2, <1>1, <1>2
      <4>2. Head(inflight) \in Messages
        BY <1>4
      <4>3. /\ wire' \in Seq(Messages) /\ Len(wire') = Len(wire) + 1
            /\ \A k \in 1..Len(wire) : wire'[k] = wire[k]
            /\ wire'[Len(wire) + 1] = Head(inflight)
        BY ONLY <4>1, <4>2, Appended
      <4> QED
        BY <4>3, <1>4
    <3>2. Wired' = Wired \cup {Front + 1}
      <4>1. \A k \in 1..Len(wire) : wire'[k] \in Wired'
        BY <3>1, <1>1 DEF Wired
      <4>2. Front + 1 \in Wired'
        BY <3>1, <1>1 DEF Wired
      <4>3. \A k \in 1..Len(wire') : k = Len(wire) + 1 \/ k \in 1..Len(wire)
        BY <3>1, <1>1
      <4>4. Wired \subseteq Wired'
        BY <3>1, <4>1 DEF Wired
      <4>5. Wired' \subseteq Wired \cup {Front + 1}
        BY <3>1, <4>3 DEF Wired
      <4> QED
        BY <4>2, <4>4, <4>5
    <3>3. Front + 1 \notin Gone
      BY <1>8, <1>9
    <3>4. \A k \in 1..Len(wire) : wire[k] \in 1..Front
      BY <1>9 DEF Gone, Wired
    <3>5. Increasing'
      <4> SUFFICES ASSUME NEW j \in 1..Len(wire'), NEW k \in 1..Len(wire'), j < k
                   PROVE  wire'[j] < wire'[k]
        BY DEF Increasing
      <4>1. j \in 1..Len(wire) /\ wire'[j] = wire[j] /\ wire[j] <= Front
        BY <3>1, <3>4, <1>1, <1>8
      <4>2. CASE k = Len(wire) + 1
        BY <4>1, <4>2, <3>1, <3>4, <1>8
      <4>3. CASE k \in 1..Len(wire)
        BY <4>1, <4>3, <3>1, <1>9 DEF Increasing
      <4>4. Len(wire) \in Nat /\ Len(wire') = Len(wire) + 1
        BY <3>1, <1>1
      <4>5. k = Len(wire) + 1 \/ k \in 1..Len(wire)
        BY ONLY <4>4, k \in 1..Len(wire')
      <4> QED
        BY <4>2, <4>3, <4>5
    <3> QED
      BY <2>2, <3>1, <3>2, <3>3, <3>5, <1>2, <1>9 DEF Gone, TypeOK, Messages
  <2> QED
    BY <2>1, <2>2
<1>11. TypeOK'
  BY <1>2, <1>5, <1>7, <1>10 DEF TypeOK, Messages, Completions, listenVars, receiveVars
<1>12. QueueInv'
  BY <1>2, <1>8 DEF QueueInv
<1>13. PumpInv'
  BY <1>2, <1>3, <1>4, <1>5, <1>7, <1>8 DEF PumpInv
<1>14. GoneInv'
  <2>1. Gone' = 1..(Front + 1)
    BY <1>8, <1>9, <1>10
  <2> QED
    BY <2>1, <1>2, <1>3, <1>5, <1>7, <1>8, <1>10 DEF GoneInv
<1>15. ScanInv' /\ DeafIsReported'
  BY <1>2 DEF ScanInv, DeafIsReported, listenVars, receiveVars
<1> QED
  BY <1>11, <1>12, <1>13, <1>14, <1>15

(* Stop: the loop, then the socket.                                        *)
LEMMA StopStep ==
  ASSUME IInv, StopLoop \/ Close
  PROVE  IInv'
<1> USE DEF IInv
<1>1. /\ UNCHANGED <<listenVars, handler, sendVars, receiveVars, reported>>
      /\ stopped' \in BOOLEAN /\ is_closing_' \in BOOLEAN
      /\ is_closing_ => is_closing_'
  BY DEF StopLoop, Close, TypeOK
<1>2. TypeOK' /\ ScanInv' /\ DeafIsReported'
  <2>1. TypeOK'
    BY <1>1 DEF TypeOK, listenVars, sendVars, receiveVars
  <2>2. ScanInv'
    BY <1>1 DEF ScanInv, listenVars
  <2>3. DeafIsReported'
    BY <1>1 DEF DeafIsReported, listenVars, receiveVars
  <2> QED
    BY <2>1, <2>2, <2>3
<1>3. Front' = Front /\ Wired' = Wired /\ Gone' = Gone /\ Sending' = Sending
  BY <1>1 DEF Front, Wired, Gone, Sending, sendVars
<1>4. QueueInv' /\ PumpInv' /\ GoneInv'
  <2>1. UNCHANGED <<send_queue_, inflight, completed, accepted, wire, lost>>
    BY <1>1 DEF sendVars
  <2>2. QueueInv'
    BY <2>1, <1>3 DEF QueueInv
  <2>3. PumpInv'
    BY <2>1, <1>1, <1>3 DEF PumpInv
  <2>4. GoneInv'
    BY <2>1, <1>1, <1>3 DEF GoneInv, Increasing
  <2> QED
    BY <2>2, <2>3, <2>4
<1> QED
  BY <1>2, <1>4

LEMMA Stuttering ==
  ASSUME IInv, UNCHANGED vars
  PROVE  IInv'
<1>1. SocketUnchanged
  BY DEF vars, SocketUnchanged
<1>2. QueueInv' /\ PumpInv' /\ GoneInv'
  BY <1>1, SendUnchanged DEF IInv
<1> QED
  BY <1>2 DEF IInv, vars, TypeOK, ScanInv, DeafIsReported, listenVars, sendVars, receiveVars

LEMMA NextIInv == IInv /\ [Next]_vars => IInv'
<1> SUFFICES ASSUME IInv, [Next]_vars PROVE IInv'
  OBVIOUS
<1>1. CASE Scan
  BY <1>1, ScanStep
<1>2. CASE BeginHandler \/ InHandler
  BY <1>2, HandlerStep, AsyncSendToStep DEF InHandler
<1>3. CASE SendData
  BY <1>3, SendDataStep
<1>4. CASE HandSend
  BY <1>4, HandSendStep
<1>5. CASE \E error \in BOOLEAN : HandleReceive(error) \/ Complete(error)
  BY <1>5, HandleReceiveStep, CompleteStep
<1>6. CASE StopLoop \/ Close
  BY <1>6, StopStep
<1>7. CASE UNCHANGED vars
  BY <1>7, Stuttering
<1> QED
  BY <1>1, <1>2, <1>3, <1>4, <1>5, <1>6, <1>7 DEF Next

(* The inductive invariant holds in every reachable state.                 *)
THEOREM Invariance == Spec => []IInv
<1> QED
  BY InitIInv, NextIInv, PTL DEF Spec

-----------------------------------------------------------------------------
(* Type correctness of UdpSocket, whatever the bounds are.                 *)
THEOREM TypeCorrect == Spec => []TypeOK
<1>1. IInv => TypeOK
  BY DEF IInv
<1> QED
  BY <1>1, Invariance, PTL

(* Never two sends with asio, and the one that is has the front of the     *)
(* queue: the pop in HandSend neither frees a buffer in use nor meets an   *)
(* empty queue (udp_socket.cpp:50, :75).                                   *)
THEOREM OneAtATime == Spec => []OneSendOutstanding
<1>1. IInv => OneSendOutstanding
  <2> SUFFICES ASSUME IInv PROVE OneSendOutstanding
    OBVIOUS
  <2> USE DEF IInv
  <2>1. /\ send_queue_ \in Seq(Messages) /\ Len(send_queue_) \in Nat
        /\ inflight \in Seq(Messages) /\ Len(inflight) \in Nat
        /\ completed \in Seq(Completions) /\ Len(completed) \in Nat
    BY LenProperties DEF TypeOK, Messages, Completions
  <2>2. Len(send_queue_) > 0 => send_queue_ # <<>> /\ Head(send_queue_) = Front + 1
    <3> SUFFICES ASSUME Len(send_queue_) > 0
                 PROVE  send_queue_ # <<>> /\ Head(send_queue_) = Front + 1
      OBVIOUS
    <3>1. send_queue_ # <<>> /\ Head(send_queue_) = send_queue_[1]
      BY <2>1
    <3>2. 1 \in 1..Len(send_queue_)
      BY <2>1
    <3> QED
      BY <3>1, <3>2 DEF QueueInv
  <2>3. inflight # <<>> => Len(inflight) = 1
    BY OneOrNone
  <2>4. completed # <<>> => Len(completed) = 1
    BY OneOrNone
  <2> QED
    BY <2>2, <2>3, <2>4 DEF OneSendOutstanding, PumpInv
<1> QED
  BY <1>1, Invariance, PTL

(* A queue that is not empty always has its front on the way, after an     *)
(* error too: the pump does not stall (udp_socket.cpp:70).                 *)
THEOREM PumpGoesOn == Spec => []QueueIsPumped
<1>1. IInv => QueueIsPumped
  <2> SUFFICES ASSUME IInv PROVE QueueIsPumped
    OBVIOUS
  <2> USE DEF IInv
  <2>1. /\ send_queue_ \in Seq(Messages) /\ Len(send_queue_) \in Nat
    BY LenProperties DEF TypeOK, Messages
  <2>2. send_queue_ # <<>> => Len(send_queue_) > 0
    BY <2>1, EmptySeq
  <2>3. /\ Len(inflight) = 1 => inflight # <<>>
        /\ Len(completed) = 1 => completed # <<>>
    BY EmptySeq
  <2> QED
    BY <2>2, <2>3 DEF QueueIsPumped, PumpInv, Sending
<1> QED
  BY <1>1, Invariance, PTL

(* Datagrams are sent in the order of the calls, none twice, and those     *)
(* that are missing were reported as lost.                                 *)
THEOREM SentInOrder == Spec => []InOrder
<1>1. IInv => InOrder
  <2> SUFFICES ASSUME IInv PROVE InOrder
    OBVIOUS
  <2> USE DEF IInv
  <2>1. Front \in Int
    BY LenProperties DEF Front, TypeOK
  <2>2. PICK n \in Int : Gone = 1..n
    BY <2>1 DEF GoneInv
  <2>3. \A d \in Gone : \A e \in 1..d : e \in Gone
    BY <2>2
  <2> QED
    BY <2>3 DEF InOrder, GoneInv, Increasing, Gone, Wired
<1> QED
  BY <1>1, Invariance, PTL

(* A socket that has stopped receiving has said so, unless it was closed.  *)
THEOREM DeafnessReported == Spec => []DeafIsReported
<1>1. IInv => DeafIsReported
  BY DEF IInv
<1> QED
  BY <1>1, Invariance, PTL

(* With a maximal port that leaves room for the loop variable, Listen      *)
(* takes the first port of the range that can be bound, and gives up only  *)
(* when there is none.                                                     *)
THEOREM ListenFindsFirst == Spec => []FirstFreePort
<1>1. IInv => FirstFreePort
  BY DEF IInv, TypeOK, Port, ScanInv, FirstFreePort
<1> QED
  BY <1>1, Invariance, PTL
=============================================================================
