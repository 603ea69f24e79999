------------------------------- MODULE UdpSocket -------------------------------
(***************************************************************************)
(* The UDP socket of a transport: the search for a port (Listen), the send *)
(* queue that keeps at most one async_send_to outstanding, the receive     *)
(* that re-arms itself, and Close, which WebrtcTransport::Stop calls on    *)
(* the manager's thread while a handler may still run on the transport's.  *)
(*                                                                         *)
(* A datagram is the number of the SendData call that queued it.  The      *)
(* kernel and asio (external) complete the operations.                     *)
(***************************************************************************)
EXTENDS Integers, Sequences

CONSTANTS PortModulus,  \* a port is a uint16_t: 65536 in the code
          MaxMessages,  \* bound on the SendData calls
          MaxReceives   \* bound on the datagrams received

ASSUME PortModulusAssumption == PortModulus \in Nat \ {0}
ASSUME MaxMessagesAssumption == MaxMessages \in Nat
ASSUME MaxReceivesAssumption == MaxReceives \in Nat

Port == 0..(PortModulus - 1)

VARIABLES
  min_port_, max_port_,  \* SetMinMaxPort
  bindable,       \* ports that the system lets the process bind (port 0, which
                  \* makes the system choose one, is a port like the others)
  phase,          \* Listen: "new", "scan", "open" or "failed"
  i,              \* Listen: the port it tries next, then the one it has
  handler,        \* the transport's thread: "none", "run" (in a handler),
                  \* "do_send" and "async" (in DoSend)
  stopped,        \* io_context::stop was called
  is_closing_,
  send_queue_,
  inflight,       \* datagrams with the kernel: async_send_to not complete
  completed,      \* completions whose handler is queued: datagram and error
  receiving,      \* async_receive_from is armed
  received,       \* datagrams received so far
  accepted,       \* datagrams given to SendData so far
  wire, lost,     \* those the kernel sent, in order; those it reported as lost
  reported        \* OnUdpSocketError was called

listenVars == <<min_port_, max_port_, bindable, phase, i>>
sendVars == <<send_queue_, inflight, completed, accepted, wire, lost>>
receiveVars == <<receiving, received>>
vars == <<listenVars, handler, stopped, is_closing_, sendVars, receiveVars,
          reported>>

Init ==
  /\ min_port_ \in Port /\ max_port_ \in Port /\ bindable \in SUBSET Port
  /\ phase = "new" /\ i = 0
  /\ handler = "none" /\ stopped = FALSE /\ is_closing_ = FALSE
  /\ send_queue_ = <<>> /\ inflight = <<>> /\ completed = <<>>
  /\ receiving = FALSE /\ received = 0
  /\ accepted = 0 /\ wire = <<>> /\ lost = {}
  /\ reported = FALSE

-----------------------------------------------------------------------------
(* Bugs the properties have to catch: forms that actions below would have  *)
(* if the code were slightly wrong.  No action uses them.                  *)

(* Listen starts one port too late. *)
ListenOffByOne ==
  /\ phase = "new"
  /\ phase' = "scan" /\ i' = min_port_ + 1
  /\ UNCHANGED <<min_port_, max_port_, bindable, handler, stopped,
                 is_closing_, sendVars, receiveVars, reported>>

(* SendData sends without looking whether a send is outstanding. *)
SendDataAlways ==
  /\ handler = "run"
  /\ accepted < MaxMessages
  /\ accepted' = accepted + 1
  /\ send_queue_' = Append(send_queue_, accepted + 1)
  /\ handler' = "do_send"
  /\ UNCHANGED <<listenVars, stopped, is_closing_, inflight, completed, wire,
                 lost, receiveVars, reported>>

(* DoSend takes the back of the queue. *)
AsyncSendToBack ==
  /\ handler = "async"
  /\ inflight' = Append(inflight, send_queue_[Len(send_queue_)])
  /\ handler' = "run"
  /\ UNCHANGED <<listenVars, stopped, is_closing_, send_queue_, completed,
                 accepted, wire, lost, receiveVars, reported>>

(* HandSend returns after an error. *)
HandSendGivesUp ==
  /\ handler = "none" /\ ~stopped
  /\ completed # <<>>
  /\ completed' = Tail(completed)
  /\ IF is_closing_
     THEN /\ handler' = "run"
          /\ UNCHANGED <<send_queue_, reported>>
     ELSE /\ reported' = (reported \/ Head(completed).error)
          /\ send_queue_' = Tail(send_queue_)
          /\ handler' = IF Len(send_queue_') > 0 /\ ~Head(completed).error
                        THEN "do_send" ELSE "run"
  /\ UNCHANGED <<listenVars, stopped, is_closing_, inflight, accepted, wire,
                 lost, receiveVars>>

-----------------------------------------------------------------------------
(* Listen tries min_port_, min_port_ + 1, ... in a uint16_t.               *)

Listen ==
  /\ phase = "new"
  /\ phase' = "scan" /\ i' = min_port_
  /\ UNCHANGED <<min_port_, max_port_, bindable, handler, stopped,
                 is_closing_, sendVars, receiveVars, reported>>

(* The port can be bound: StartReceive arms the receive.                   *)
Bind ==
  /\ phase = "scan" /\ i <= max_port_ /\ i \in bindable
  /\ phase' = "open"
  /\ receiving' = TRUE
  /\ UNCHANGED <<min_port_, max_port_, bindable, i, handler, stopped,
                 is_closing_, sendVars, received, reported>>

(* It cannot: the constructor of the socket throws, the next one is tried. *)
NextPort ==
  /\ phase = "scan" /\ i <= max_port_ /\ i \notin bindable
  /\ i' = (i + 1) % PortModulus
  /\ UNCHANGED <<min_port_, max_port_, bindable, phase, handler, stopped,
                 is_closing_, sendVars, receiveVars, reported>>

(* "There are no ports available."                                         *)
NoPorts ==
  /\ phase = "scan" /\ i > max_port_
  /\ phase' = "failed"
  /\ UNCHANGED <<min_port_, max_port_, bindable, i, handler, stopped,
                 is_closing_, sendVars, receiveVars, reported>>

-----------------------------------------------------------------------------
(* The transport's thread runs one handler at a time, none after stop().   *)

(* A handler of the transport (a timer, a media packet) begins, ...        *)
BeginHandler ==
  /\ phase = "open" /\ handler = "none" /\ ~stopped
  /\ accepted < MaxMessages
  /\ handler' = "run"
  /\ UNCHANGED <<listenVars, stopped, is_closing_, sendVars, receiveVars,
                 reported>>

(* ... sends datagrams, ...                                                *)
SendData ==
  /\ handler = "run"
  /\ accepted < MaxMessages
  /\ accepted' = accepted + 1
  /\ send_queue_' = Append(send_queue_, accepted + 1)
  /\ handler' = IF Len(send_queue_') = 1 THEN "do_send" ELSE "run"
  /\ UNCHANGED <<listenVars, stopped, is_closing_, inflight, completed, wire,
                 lost, receiveVars, reported>>

(* ... where DoSend looks at is_closing_ first and then starts the send of *)
(* the front of the queue, ...                                             *)
DoSend ==
  /\ handler = "do_send"
  /\ handler' = IF is_closing_ THEN "run" ELSE "async"
  /\ UNCHANGED <<listenVars, stopped, is_closing_, sendVars, receiveVars,
                 reported>>

AsyncSendTo ==
  /\ handler = "async"
  /\ inflight' = Append(inflight, Head(send_queue_))
  /\ handler' = "run"
  /\ UNCHANGED <<listenVars, stopped, is_closing_, send_queue_, completed,
                 accepted, wire, lost, receiveVars, reported>>

(* ... and returns.                                                        *)
EndHandler ==
  /\ handler = "run"
  /\ handler' = "none"
  /\ UNCHANGED <<listenVars, stopped, is_closing_, sendVars, receiveVars,
                 reported>>

(* The handler of a send: an error is reported, the datagram popped either *)
(* way, and the next one sent.                                             *)
HandSend ==
  /\ handler = "none" /\ ~stopped
  /\ completed # <<>>
  /\ completed' = Tail(completed)
  /\ IF is_closing_
     THEN /\ handler' = "run"
          /\ UNCHANGED <<send_queue_, reported>>
     ELSE /\ reported' = (reported \/ Head(completed).error)
          /\ send_queue_' = Tail(send_queue_)
          /\ handler' = IF Len(send_queue_') > 0 THEN "do_send" ELSE "run"
  /\ UNCHANGED <<listenVars, stopped, is_closing_, inflight, accepted, wire,
                 lost, receiveVars>>

(* The handler of the receive: a datagram, even a truncated one, goes to   *)
(* the transport, which may answer it, and the receive is armed again; any *)
(* other error is reported.                                                *)
HandleReceive(error) ==
  /\ handler = "none" /\ ~stopped
  /\ receiving
  /\ received < MaxReceives
  /\ received' = received + 1
  /\ receiving' = (~is_closing_ /\ ~error)
  /\ reported' = (reported \/ (~is_closing_ /\ error))
  /\ handler' = "run"
  /\ UNCHANGED <<listenVars, stopped, is_closing_, sendVars>>

-----------------------------------------------------------------------------
(* External: the kernel sends the datagram or fails; on a closed socket it *)
(* fails.                                                                  *)
Complete(error) ==
  /\ inflight # <<>>
  /\ is_closing_ => error
  /\ inflight' = Tail(inflight)
  /\ completed' = Append(completed,
                         [datagram |-> Head(inflight), error |-> error])
  /\ IF error
     THEN lost' = lost \cup {Head(inflight)} /\ UNCHANGED wire
     ELSE wire' = Append(wire, Head(inflight)) /\ UNCHANGED lost
  /\ UNCHANGED <<listenVars, handler, stopped, is_closing_, send_queue_,
                 accepted, receiveVars, reported>>

(* WebrtcTransport::Stop on the manager's thread: message_loop_.stop() ... *)
StopLoop ==
  /\ phase = "open" /\ ~stopped
  /\ stopped' = TRUE
  /\ UNCHANGED <<listenVars, handler, is_closing_, sendVars, receiveVars,
                 reported>>

(* ... and Close.                                                          *)
Close ==
  /\ stopped /\ ~is_closing_
  /\ is_closing_' = TRUE
  /\ UNCHANGED <<listenVars, handler, stopped, sendVars, receiveVars,
                 reported>>

-----------------------------------------------------------------------------
Scan == Listen \/ Bind \/ NextPort \/ NoPorts

InHandler == DoSend \/ AsyncSendTo \/ EndHandler

Next ==
  \/ Scan
  \/ BeginHandler \/ SendData \/ InHandler \/ HandSend
  \/ \E error \in BOOLEAN : HandleReceive(error) \/ Complete(error)
  \/ StopLoop \/ Close

Spec == Init /\ [][Next]_vars

(* Listen goes on; a handler returns; a completed send has its handler run *)
(* and the kernel completes what it was given.                             *)
FairSpec ==
  /\ Spec
  /\ WF_vars(Scan)
  /\ WF_vars(InHandler)
  /\ SF_vars(HandSend)
  /\ WF_vars(\E error \in BOOLEAN : Complete(error))

-----------------------------------------------------------------------------
TypeOK ==
  /\ min_port_ \in Port /\ max_port_ \in Port /\ bindable \subseteq Port
  /\ phase \in {"new", "scan", "open", "failed"} /\ i \in Port
  /\ handler \in {"none", "run", "do_send", "async"}
  /\ stopped \in BOOLEAN /\ is_closing_ \in BOOLEAN
  /\ send_queue_ \in Seq(1..MaxMessages) /\ inflight \in Seq(1..MaxMessages)
  /\ completed \in Seq([datagram : 1..MaxMessages, error : BOOLEAN])
  /\ receiving \in BOOLEAN /\ received \in 0..MaxReceives
  /\ accepted \in 0..MaxMessages
  /\ wire \in Seq(1..MaxMessages) /\ lost \subseteq 1..MaxMessages
  /\ reported \in BOOLEAN

(* At most one send is with asio, and it is the front of the queue, whose  *)
(* buffer it reads: popping never frees a buffer that is being sent, and   *)
(* the assertion in HandSend (udp_socket.cpp:75) holds.                    *)
OneSendOutstanding ==
  /\ Len(inflight) + Len(completed) <= 1
  /\ inflight # <<>> => send_queue_ # <<>> /\ inflight[1] = Head(send_queue_)
  /\ completed # <<>> =>
       send_queue_ # <<>> /\ completed[1].datagram = Head(send_queue_)

(* The pump does not stall: while the socket is not closed, a queue that   *)
(* is not empty has its front with asio or about to be given to it.        *)
QueueIsPumped ==
  ~is_closing_ /\ send_queue_ # <<>> =>
    inflight # <<>> \/ completed # <<>> \/ handler \in {"do_send", "async"}

(* Datagrams leave in the order of the SendData calls, none twice, and     *)
(* none is skipped but those whose loss was reported.                      *)
InOrder ==
  /\ \A j, k \in 1..Len(wire) : j < k => wire[j] < wire[k]
  /\ {wire[k] : k \in 1..Len(wire)} \cap lost = {}
  /\ \A d \in lost \cup {wire[k] : k \in 1..Len(wire)} : \A e \in 1..d :
       e \in lost \/ \E k \in 1..Len(wire) : wire[k] = e

(* A socket that no longer listens has reported an error.                  *)
DeafIsReported ==
  phase = "open" /\ ~receiving /\ ~is_closing_ => reported

(* With a maximal port below the last one, Listen takes the first port of  *)
(* the range that can be bound, and fails only if there is none.           *)
FirstFreePort ==
  max_port_ < PortModulus - 1 =>
    /\ phase = "open" =>
         /\ i \in min_port_..max_port_ /\ i \in bindable
         /\ \A p \in min_port_..(i - 1) : p \notin bindable
    /\ phase = "failed" => bindable \cap (min_port_..max_port_) = {}

(* Every datagram leaves the queue, unless the loop is stopped.            *)
EverySendConcludes ==
  \A d \in 1..MaxMessages :
    (accepted >= d) ~>
      (d \in lost \/ (\E k \in 1..Len(wire) : wire[k] = d) \/ stopped)

(* Listen says that there are no ports available when none of the          *)
(* configured range can be bound.                                          *)
NoPortsIsReported ==
  (phase = "scan" /\ bindable \cap (min_port_..max_port_) = {})
    ~> (phase = "failed")
=============================================================================
