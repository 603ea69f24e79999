-------------------------------- MODULE Teardown --------------------------------
(***************************************************************************)
(* The beginning and the end of one WebrtcTransport.  The signaling thread *)
(* makes its members (Start, CreateAnswer) while its own thread already    *)
(* runs handlers; the manager's thread takes them down (Stop) while a      *)
(* handler is still running, and only then joins.  The other modules take  *)
(* a handler for one step; here it is the sequence of its accesses to the  *)
(* members that another thread changes, so that both can come in between.  *)
(*                                                                         *)
(* A label of a thread (mpc, spc) is the time in which the change of that  *)
(* name is going on.  An access in that time, or to a member that is not   *)
(* there, is undefined behaviour: `raced' remembers the member and in      *)
(* which time of the transport's life it was, and the process crashes or   *)
(* goes on.                                                                *)
(***************************************************************************)
EXTENDS Integers, Sequences

VARIABLES
  spc,           \* signaling thread: from Start to the answer of the request
  mpc,           \* manager's thread: its point in WebrtcTransport::Stop
  thread,        \* work_thread_: "none", "entering" or "in" run, "left", "joined"
  todo,          \* the accesses left in the handler that work_thread_ runs
  stopped,       \* message_loop_ is stopped
  is_closing_, socket,     \* UdpSocket
  inited_, ssl_, timer_,   \* DtlsTransport; ssl_ and timer_ are there or not
  dtls_ready_, connection_established_,
  media_stream_, \* the MediaStream is there
  rtcp_timer_,
  waits,         \* timers with a wait on the loop
  left,          \* members there when message_loop_ is destroyed
  raced, crashed

signalingVars == <<spc, media_stream_>>
loopVars == <<thread, todo, stopped>>
dtlsVars == <<inited_, ssl_, timer_>>
readyVars == <<dtls_ready_, connection_established_>>
memberVars == <<is_closing_, socket, dtlsVars, rtcp_timer_, waits>>
vars == <<signalingVars, mpc, loopVars, memberVars, readyVars, left, raced, crashed>>

Init ==
  /\ spc = "listen" /\ mpc = "idle" /\ thread = "none" /\ todo = <<>>
  /\ stopped = FALSE /\ is_closing_ = FALSE /\ socket = FALSE
  /\ inited_ = FALSE /\ ssl_ = FALSE /\ timer_ = FALSE
  /\ dtls_ready_ = FALSE /\ connection_established_ = FALSE
  /\ media_stream_ = FALSE /\ rtcp_timer_ = FALSE /\ waits = {}
  /\ left = {} /\ raced = {} /\ crashed = FALSE

-----------------------------------------------------------------------------
(* The signaling thread.  A Start that fails leaves the transport to its   *)
(* destructor, without Stop.                                               *)
Listen ==
  /\ spc = "listen"
  /\ socket' \in BOOLEAN
  /\ spc' = IF socket' THEN "dtls" ELSE "failed"
  /\ UNCHANGED <<media_stream_, mpc, loopVars, is_closing_, dtlsVars, rtcp_timer_,
                 waits, readyVars, left, raced, crashed>>

InitDtls ==
  /\ spc = "dtls"
  /\ ssl_' \in BOOLEAN
  /\ IF ssl_' THEN spc' = "answer" /\ thread' = "entering"
     ELSE spc' = "failed" /\ UNCHANGED thread
  /\ UNCHANGED <<media_stream_, mpc, todo, stopped, is_closing_, socket, inited_,
                 timer_, rtcp_timer_, waits, readyVars, left, raced, crashed>>

(* CreateAnswer: the constructor of MediaStream starts the timer of the    *)
(* reports, media_stream_ is assigned, and the tracks are added after it.  *)
MakeMediaStream ==
  /\ spc = "answer" /\ spc' = "tracks"
  /\ media_stream_' = TRUE /\ rtcp_timer_' = TRUE /\ waits' = waits \cup {"rtcp_timer_"}
  /\ UNCHANGED <<mpc, loopVars, is_closing_, socket, dtlsVars, readyVars, left,
                 raced, crashed>>

(* The tracks are there; WebrtcTransportManager::Add, and the answer goes  *)
(* to the client, which then knows the address and the credentials.        *)
AddTracks ==
  /\ spc = "tracks" /\ spc' = "answered"
  /\ UNCHANGED <<media_stream_, mpc, loopVars, memberVars, readyVars, left, raced,
                 crashed>>

-----------------------------------------------------------------------------
(* The handlers of the transport's thread, as their accesses.  "if_..." is *)
(* a test that skips some of those that follow.                            *)
SetTimeout == <<"if_timer", "ssl", "async_wait">>

Start == <<"if_ssl", "ssl", "send">> \o SetTimeout \o <<"new_timer">> \o SetTimeout

HandleReceive(accesses) == <<"if_open">> \o accesses \o <<"receive">>

Accesses(handler) ==
  CASE handler = "refused" -> HandleReceive(<<>>)
    [] handler = "check" -> HandleReceive(<<"send">>)
    [] handler = "nomination" -> HandleReceive(Start \o <<"send">>)
    [] handler = "dtls" -> HandleReceive(<<"ssl", "send">> \o SetTimeout \o <<"ssl">>)
    [] handler = "rtcp" ->
         HandleReceive(<<"media">> \o (IF connection_established_
                                       THEN <<"tracks", "send">> ELSE <<>>))
    [] handler = "sent" -> <<"if_open", "send">>
    [] handler = "packet" -> <<"media", "tracks", "send">>
    [] handler = "timer_" -> <<"if_inited", "ssl", "send">> \o SetTimeout
    [] handler = "rtcp_timer_" ->
         <<"tracks">> \o (IF connection_established_ THEN <<"send">> ELSE <<>>)
           \o <<"rtcp_async_wait">>

(* What can be on the loop: datagrams of this session's client once it has *)
(* the answer, those of an earlier one on the same port at any time.       *)
(* An RTCP datagram goes through media_stream_ in any case; without keys   *)
(* it has length 0 for ReceiveRctp, which then looks at no track.          *)
Queued ==
  {"refused", "rtcp"} \cup waits
  \cup (IF spc = "answered" THEN {"check", "nomination", "sent"} ELSE {})
  \cup (IF dtls_ready_ THEN {"dtls"} ELSE {})
  \cup (IF connection_established_ THEN {"packet"} ELSE {})

(* Bugs the properties have to catch: a stopped loop is run again; Stop    *)
(* destroys the MediaStream instead of its timer; it leaves both.          *)
EnterRunRestarts ==
  /\ thread = "entering" /\ thread' = "in" /\ stopped' = FALSE
  /\ UNCHANGED <<signalingVars, mpc, todo, memberVars, readyVars, left, raced, crashed>>
StopMediaStreamDestroys ==
  /\ mpc = "rtcp_timer_" /\ mpc' = "join"
  /\ media_stream_' = FALSE /\ rtcp_timer_' = FALSE /\ waits' = waits \ {"rtcp_timer_"}
  /\ UNCHANGED <<spc, loopVars, is_closing_, socket, dtlsVars, readyVars, left,
                 raced, crashed>>
StopMediaStreamNot ==
  /\ mpc = "rtcp_timer_" /\ mpc' = "join"
  /\ UNCHANGED <<signalingVars, loopVars, memberVars, readyVars, left, raced, crashed>>

EnterRun ==
  /\ thread = "entering" /\ thread' = "in"
  /\ UNCHANGED <<signalingVars, mpc, todo, stopped, memberVars, readyVars, left,
                 raced, crashed>>

(* The handshake is done in a DTLS datagram.                               *)
Run(handler) ==
  /\ thread = "in" /\ ~stopped /\ todo = <<>>
  /\ handler \in Queued
  /\ todo' = Accesses(handler)
  /\ waits' = waits \ {handler}
  /\ connection_established_' \in {connection_established_} \cup
       (IF handler = "dtls" THEN {TRUE} ELSE {})
  /\ UNCHANGED <<signalingVars, mpc, thread, stopped, is_closing_, socket, dtlsVars,
                 rtcp_timer_, dtls_ready_, left, raced, crashed>>

LeaveRun ==
  /\ thread = "in" /\ stopped /\ todo = <<>>
  /\ thread' = "left"
  /\ UNCHANGED <<signalingVars, mpc, todo, stopped, memberVars, readyVars, left,
                 raced, crashed>>

Skip(n) == todo' = SubSeq(todo, n + 2, Len(todo))

Test ==
  /\ CASE todo[1] = "if_open" -> Skip(IF is_closing_ THEN Len(todo) ELSE 0)
       [] todo[1] = "if_ssl" -> Skip(IF ssl_ THEN 0 ELSE Len(Start) - 1)
       [] todo[1] = "if_inited" -> Skip(IF inited_ THEN 0 ELSE Len(todo))
       [] todo[1] = "if_timer" -> Skip(IF timer_ THEN 0 ELSE 2)
       [] OTHER -> FALSE
  /\ inited_' = (inited_ \/ (todo[1] = "if_ssl" /\ ssl_))
  /\ UNCHANGED <<is_closing_, socket, ssl_, timer_, rtcp_timer_, waits, dtls_ready_,
                 raced, crashed>>

(* The member behind an access, and whether another thread changes it now  *)
(* or has taken it away.  DoSend looks at is_closing_ first, and may have  *)
(* looked before it was set; StartReceive does not look.  inited_ is an    *)
(* atomic.                                                                 *)
Member ==
  [send |-> "socket_", receive |-> "socket_", ssl |-> "ssl_", new_timer |-> "timer_",
   async_wait |-> "timer_", media |-> "media_stream_", tracks |-> "stream_tracks_",
   rtcp_async_wait |-> "rtcp_timer_"]

There(member) ==
  CASE member = "socket_" -> mpc # "socket_"
    [] member = "ssl_" -> ssl_ /\ mpc # "ssl_"
    [] member = "timer_" -> mpc # "timer_"
    [] member = "rtcp_timer_" -> rtcp_timer_ /\ mpc # "rtcp_timer_"
    [] member = "media_stream_" -> media_stream_
    [] member = "stream_tracks_" -> spc # "tracks"

Phase == IF stopped THEN "stopping" ELSE IF spc = "answered" THEN "playing" ELSE "answering"

Access ==
  /\ todo[1] \in DOMAIN Member
  /\ Skip(0)
  /\ LET member == Member[todo[1]]
         fine == There(member) /\ (todo[1] = "async_wait" => timer_)
     IN  \/ /\ fine \/ todo[1] = "send"
            /\ UNCHANGED <<raced, crashed>>
         \/ ~fine /\ raced' = raced \cup {<<Phase, member>>} /\ crashed' \in BOOLEAN
  /\ timer_' = (timer_ \/ todo[1] = "new_timer")
  /\ waits' = CASE todo[1] = "new_timer" -> waits \ {"timer_"}
                [] todo[1] = "async_wait" /\ timer_ -> waits \cup {"timer_"}
                [] todo[1] = "rtcp_async_wait" /\ rtcp_timer_ -> waits \cup {"rtcp_timer_"}
                [] OTHER -> waits
  /\ dtls_ready_' = (dtls_ready_ \/ todo[1] = "new_timer")
  /\ UNCHANGED <<is_closing_, socket, inited_, ssl_, rtcp_timer_>>

Step ==
  /\ todo # <<>>
  /\ Test \/ Access
  /\ UNCHANGED <<signalingVars, mpc, thread, stopped, connection_established_, left>>

-----------------------------------------------------------------------------
(* WebrtcTransport::Stop, for a transport that is in the manager's set.    *)
StopLoop ==
  /\ mpc = "idle" /\ spc = "answered"
  /\ stopped' = TRUE /\ mpc' = "close"
  /\ UNCHANGED <<signalingVars, thread, todo, memberVars, readyVars, left, raced, crashed>>

BeginClose ==
  /\ mpc = "close" /\ mpc' = "socket_"
  /\ is_closing_' = TRUE
  /\ UNCHANGED <<signalingVars, loopVars, socket, dtlsVars, rtcp_timer_, waits,
                 readyVars, left, raced, crashed>>

(* inited_ is cleared before the Timer is touched.                         *)
CloseSocket ==
  /\ mpc = "socket_" /\ mpc' = "timer_"
  /\ socket' = FALSE /\ inited_' = FALSE
  /\ UNCHANGED <<signalingVars, loopVars, is_closing_, ssl_, timer_, rtcp_timer_,
                 waits, readyVars, left, raced, crashed>>

StopTimer ==
  /\ mpc = "timer_" /\ mpc' = "ssl_"
  /\ timer_' = FALSE /\ waits' = waits \ {"timer_"}
  /\ UNCHANGED <<signalingVars, loopVars, is_closing_, socket, inited_, ssl_,
                 rtcp_timer_, readyVars, left, raced, crashed>>

FreeSsl ==
  /\ mpc = "ssl_" /\ mpc' = "rtcp_timer_"
  /\ ssl_' = FALSE
  /\ UNCHANGED <<signalingVars, loopVars, is_closing_, socket, inited_, timer_,
                 rtcp_timer_, waits, readyVars, left, raced, crashed>>

StopMediaStream ==
  /\ mpc = "rtcp_timer_" /\ mpc' = "join"
  /\ rtcp_timer_' = FALSE /\ waits' = waits \ {"rtcp_timer_"}
  /\ UNCHANGED <<signalingVars, loopVars, is_closing_, socket, dtlsVars, readyVars,
                 left, raced, crashed>>

Join ==
  /\ mpc = "join" /\ thread = "left"
  /\ thread' = "joined" /\ mpc' = "joined"
  /\ UNCHANGED <<signalingVars, todo, stopped, memberVars, readyVars, left, raced, crashed>>

(* The destructor destroys the members from the last to the first: the     *)
(* loop before what works on it.                                           *)
Destroy ==
  /\ mpc = "joined" \/ spc = "failed"
  /\ mpc' = "destroyed" /\ spc' = "over"
  /\ left' = (IF socket THEN {"socket_"} ELSE {}) \cup (IF timer_ THEN {"timer_"} ELSE {})
             \cup (IF rtcp_timer_ THEN {"rtcp_timer_"} ELSE {})
  /\ UNCHANGED <<media_stream_, loopVars, memberVars, readyVars, raced, crashed>>

Signaling == Listen \/ InitDtls \/ MakeMediaStream \/ AddTracks
WorkThread == EnterRun \/ (\E h \in Queued : Run(h)) \/ Step \/ LeaveRun
Stop == StopLoop \/ BeginClose \/ CloseSocket \/ StopTimer \/ FreeSsl
        \/ StopMediaStream \/ Join

Next == ~crashed /\ (Signaling \/ WorkThread \/ Stop \/ Destroy)

Spec == Init /\ [][Next]_vars

(* The threads are scheduled.  When the transport is stopped is not up to  *)
(* them.                                                                   *)
FairSpec ==
  /\ Spec
  /\ WF_vars(~crashed /\ (EnterRun \/ Step \/ LeaveRun))
  /\ WF_vars(~crashed /\ Stop /\ ~StopLoop)

-----------------------------------------------------------------------------
(* What a handler can meet while another thread changes it, or where it is *)
(* not there.  While the request is answered: the MediaStream, which an    *)
(* early RTCP datagram uses though CreateAnswer has not made it or is just *)
(* assigning it (webrtc_transport.cpp:443, :373), and the tracks, when     *)
(* adding them takes until the first report (media_stream.cpp:254).  While *)
(* the session plays: nothing.  Once Stop is under way: the socket, the    *)
(* SSL object and the two timers, and no longer the MediaStream or its     *)
(* tracks (webrtc_transport.cpp:63): the order of Stop sees to it.         *)
RacesConfined ==
  raced \subseteq {"answering"} \X {"media_stream_", "stream_tracks_"}
               \cup {"stopping"} \X {"socket_", "ssl_", "timer_", "rtcp_timer_"}

(* When the loop is destroyed, the work on it is over, but for a Timer     *)
(* that a nomination made while DTLS was being stopped, and, when Start    *)
(* has failed, the socket: their destructors run after the loop's.         *)
LoopLeftClean ==
  left \subseteq (IF mpc = "destroyed" /\ thread = "joined" THEN {"timer_"} ELSE {"socket_"})

(* Stop returns, whether the thread is in a handler, waits for one or has  *)
(* not got to run() yet, and whatever the handler finds.                   *)
StopReturns == stopped ~> (mpc \in {"joined", "destroyed"} \/ crashed)
=============================================================================
