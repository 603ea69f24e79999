# TLA+ models of WebrtcStreamServer

WebrtcStreamServer pulls RTMP streams with FFmpeg and plays each of them to any number of
browsers over WebRTC (ICE-lite, DTLS, SRTP). This directory models the parts of it that are
hard to test: four kinds of thread that share transports, media sources and a mutex, and the
32-bit and 16-bit arithmetic of the media path. Everything is plain TLA+. `tlc -config X.cfg M.tla`
checks a model, `tlapm` on a `*Proofs.tla` the proofs. `PROJECT.json` lists the runs, the lines
each definition translates, the hazards, and a mutant of the code for every property.

## 1. The system

### Threads

| thread | runs | started by |
| --- | --- | --- |
| signaling (main) | `ioc.run()`: every HTTP request, one at a time; the SIGINT handler | `main` |
| manager | the FIFO `message_loop_` of `WebrtcTransportManager` | `WebrtcTransportManager::Start` |
| transport, one each | `message_loop_` of a `WebrtcTransport`: UDP, ICE, DTLS, RTP, RTCP, timers | `WebrtcTransport::Start` |
| reader, one each | `MediaSource::ReadPacket` | `MediaSource::Start` |

### Components

* **MediaSource + GopCache** (`media_source`, `gop_cache`). State: `closed_`, the lists
  `observers_` and `new_observers_` under `observers_mutex_`, the cached packets. Operations:
  register and deregister an observer, the loop of the reader (serve new observers from the cache,
  read a frame, hand the packet out, cache it), end of stream, `Stop`, which joins the reader. The
  reader calls observers *while it holds the mutex*, and a call waits for the observer's latch.
  Correct means: every observer gets each packet once, in order, from a key frame on.
* **MediaSourceManager** (`media_source_manager`). State: `database_`, listed sources by id, without
  a lock. `Add`, `Remove`, `Query`, `StopAll` on the signaling thread; `Query` also in the destructor
  of a transport, on the manager's thread. Correct means: `Remove` ends the pull and returns; what is
  listed is pulled.
* **SignalingServer, SignalingSession** (`signaling_*`). No state beyond a request. `/play` creates a
  transport, starts it, registers it with its source, posts `Add`; on a failure the transport is
  dropped at once.
* **WebrtcTransportManager**. State: the set of transports and the queue of lambdas. Owns transports;
  `Remove` stops one (joins its thread) and drops the shared pointer.
* **WebrtcTransport**. State: its thread, `latch_`, `connection_established_`, the objects below.
  Registered with its source through a raw pointer. Correct means: not called after destruction, not
  destroyed before its thread is joined, latch opened before it is removed.
* **UdpSocket**. State: port range, send queue, the receive in flight, `is_closing_`. Correct means:
  one send with asio at a time, order kept, no stall after an error, errors reported, first free port.
* **MediaStream, StreamTrack**. State per track: ring of 1000 sent packets, time and timestamp of the
  newest packet, round-trip time, RTX sequence number. Correct means: a NACK is answered with the packet
  it asks for, not too often, in a form the receiver can put back; sender reports are exact.
* **IceLite**, **DtlsTransport + Timer**, **the dispatch of datagrams** in `WebrtcTransport`. State: the
  valid and the favoured candidates; the SSL object, its timer, `inited_`; `dtls_ready_`. Correct means:
  media and DTLS go only to a candidate that answered a check, the retransmission timer is armed while
  a handshake is under way, the latch opens when it is concluded.
* **H264 and Opus packetizers** (`rtp_packet`). State: a sequence number. Correct means: a receiver that
  puts the packets together again has the frames of the source, unit by unit.
* **RtcpCompound** (`rtcp_packet`). A function of a datagram. Correct means: what it makes of a datagram is
  what its sender wrote.
* **StunMessage**. A function of a datagram and the credentials. Correct means: the checks of this
  session's client are answered verifiably, signed ones of others refused. (A check without
  MESSAGE-INTEGRITY is accepted from anybody; no property is about it.)
* **OpusTranscoder** (`opus_transcoder`). State: samples in the decoder, the resampler and the FIFO, the time
  of the next Opus packet, members that a failed `Open` leaves out. Correct means: samples keep their order
  and their times.
* **SrtpSession, DtlsContext**: wrappers of libsrtp and OpenSSL. Their callers ignore what `Init`, `Protect` and
  `Unprotect` of `SrtpSession` return, which is the business of `Connection` and of `MediaStream`.
* **ServerConfig, byte buffers, utilities, web page, build**: no behaviour of their own.

### How they interact, and what is hard

`HandleRequest("/play")` -> `WebrtcTransport` constructor, `Start` (thread runs) -> `RegisterObserver`
-> post `Add`. Reader -> `OnMediaPacketGenerated` (waits for the latch, then posts to the transport's
thread) -> packetizer -> track -> SRTP -> `UdpSocket`. An error on the transport's thread, or the end of
the stream on the reader's thread -> `Shutdown`: opens the latch, posts `Remove` -> manager's thread:
`Stop`, join, drop -> destructor -> `Query`, `DeregisterObserver` (takes the mutex). `DELETE` ->
`Remove` -> `Stop` -> joins the reader.

Hard are therefore: the cycle reader -> latch -> transport's thread -> manager -> mutex -> reader; the
raw pointers in the lists against the reference count; `Add` and `Remove` posted by different threads
in either order; a stop in the middle of a handler; and, in the media path, wrapping counters and times.
`PROJECT.json` lists each of these at its line under "hazards".

## 2. Modules

| module | models | checked by |
| --- | --- | --- |
| `PacketFeed` | abstract: what a source promises an observer | `FeedRefined` |
| `MediaSource` | one source: reader, lists, mutex, GOP cache, end, stop | `MCMediaSource.cfg` |
| `MediaSourceProofs` | its inductive invariant, and that it implements `PacketFeed` | `tlapm` |
| `StreamServer` | sources, signaling, manager and transports composed: who lives, who waits | `MCStreamServer*.cfg` |
| `StreamServerProofs` | the inductive invariant of `StreamServer` and its theorems | `tlapm` |
| `Teardown` | one transport: its making and `Stop` against handlers, access by access | `MCTeardown.cfg` |
| `UdpSocket` | port search, send pump, receive loop, close | `MCUdpSocket*.cfg` |
| `UdpSocketProofs` | the inductive invariant of `UdpSocket` and its theorems | `tlapm` |
| `StunMessage`, `Session` | checks and responses; offer, answer and the credentials between them | `MCSession.cfg` |
| `SessionProofs` | offers, answers and checks, for all values | `tlapm` |
| `Connection` | checks, nomination, DTLS and its timer, latch, dispatch of one transport | `MCConnection.cfg` |
| `ConnectionProofs` | the inductive invariant of `Connection` and its theorems | `tlapm` |
| `RtpPacketizer`, `RtcpCompound` | frames to packets; bytes to RTCP packets; with their references | in `MediaStream` |
| `MediaStream` | frames out, compound RTCP packets in, which track gets which call | `MCMedia.cfg` |
| `OpusTranscoder` | `Open`, `Transcode`, `ReleaseResources`, and each call that may fail in them | `MCMedia.cfg` |
| `MediaProofs` | the transcoder's samples, the meaning of RTCP, frames as packets, for all values | `tlapm` |
| `StreamTrack` | sending, NACK, RTX, receiver and sender reports of a track | `MCStreamTrack.cfg` |
| `StreamTrackProofs` | retransmissions, sender reports and the round-trip time, for all values | `tlapm` |
| `FoldProofs` | what a loop over a sequence (`FoldLeft`) computes, for any operator; induction over `Nat` | `tlapm` |

`StreamServer` composes sources, managers and transports, `Session` the offer, the answer and the checks,
`MediaStream` the packetizers, the parser and the dispatch to the tracks. No module declares a `RECURSIVE`
operator: loops are folds, walks are recursive functions.

**MediaSource.** The variables are the members of the class, and the position of the reader: `pc` names
the points of `ReadPacket` where another thread can see it. `iter` and `citer` are the positions of the
loops over the observers and the cached packets. An action of the reader is the code between two such
points. The critical sections of other threads do not block inside and are one step, guarded by the free
mutex. `enable_gop_cache_`, which the configuration sets, is a variable that never changes.
A packet is its number; `delivered` and `told` are history.
In `RegisterObserver` the choice of the list is that of the code. A call of an observer (`Deliver`, `ReplayCached`) is
enabled when its latch is open. A frame that yields several packets (audio through the transcoder)
gives the mutex back between them, as the callback does.

**PacketFeed.** One log of packets and a cursor for each reader: a reader starts at the last key frame
(or at the next packet without the cache), reads one after the other, and the log does not run ahead of
any reader. `MediaSource` implements it under the mapping `Cursor`.

**StreamServer.** `spc`, `mpc` are the points of the signaling and the manager's thread in the request or the lambda
they execute, `reader` that of each reader, `work_thread_` and `life` the state of each transport. The reference count
is not stored: `Referenced(t)` says which places hold a `shared_ptr` (the local one of `HandleRequest`, lambdas in the
queue, the set, the one `Remove` has taken out, the parameter of `WebrtcTransportManager::Remove` on a reader's
thread), and a step that drops one runs the destructor if no other is left (`AliveIffReferenced` checks that the steps
do that on exactly the right occasions). On the transport's own thread that parameter needs no place, since the thread
is joined before any other pointer is dropped. A list is a set here, the cache one bit: order and content are the
business of `MediaSource`. `Url` maps each source to its address, so that two sources can be the same address added
twice. `PlayFails` is `/play` with a `Start` that fails, before a thread runs. `Shutdown` stands for every error of a
transport's thread (UDP, ICE, DTLS, the close of DTLS). `TellEnd` is `shared_from_this()` on the reader's thread and
the post: if the last pointer is gone, it throws there, and the process ends (`terminated`); else the reader keeps a
pointer (`told`) until `Remove` returns (`DropTold`). The manager may have run the lambda by then, so that the reader
drops the last one and runs the destructor while it holds `observers_mutex_`, which that destructor wants: `reader` is
`"destroy"`, and no step leads out of it.

**UdpSocket.** `handler` is where the transport's thread is in `SendData` or `DoSend`, so that `Close` on
the manager's thread can fall between the look at `is_closing_` and `async_send_to`. The kernel
completes a send at any later time, with or without an error. Ports are numbers modulo `PortModulus`.

**Connection.** One handler of the transport's thread is one step, since nothing else touches its
state while the loop runs; `Stop` comes between handlers. OpenSSL is external: `ssl` holds its state, the
number of the association, which of our flights awaits an answer, and the timeouts so far. A datagram
may progress the handshake, be of no use (lost ones simply do not come, repeated and late ones are of
no use), break it, or close it, in every state in which that can happen. `timer_` counts the `Timer`
objects; `waiting` is the pending wait of the last one, `expired` the Timers whose handler is queued. A
restart of DTLS destroys a Timer whose handler may be queued: `OnTimeout` of such a Timer does what the
live one's would, or nothing, or crashes. An offer with `setup:active` never gets DTLS (`CanStart`), as in the code.
`keys` is what `send_srtp_session_` is keyed with: a failed `Init` leaves 0, no session, or the old one, and
the latch opens all the same. What is then sent as media is `Bare`: an empty datagram without a session, an unprotected
one when libsrtp fails. `agreed` is history: the associations whose handshake gave SRTP parameters.

**StreamTrack.** One handler of the transport's thread is one step. A packet on the wire is its
sequence number and a payload of cells, enough to see an original sequence number inserted twice, a
payload cut off, or the wrong packet. Times are natural numbers; they are reduced where the code
stores them in 32 bits (`max_packet_millis_`, compact NTP time, RTP timestamps). Frames may be presented
before earlier ones (B-frames), and receivers report delays that are a unit too long, which rounding
permits. The conversion of a `double` beyond 2^32 to `uint32_t` in the packetizer is undefined in C++;
the model has the result of x86-64 builds, reduction modulo 2^32.

**Teardown.** The other modules take a handler for one step; here it is the sequence of its accesses to members that
another thread changes (`Accesses`), so that `Stop`, `Start` and `CreateAnswer` fall between any two. A label of the
manager's thread is the time in which the change of that name goes on. An access in that time, or to a member that is
gone, is undefined in C++: `raced` remembers the member, and the process crashes or goes on, by choice. `Phase` is the
time in the transport's life: while the request is answered, while it plays, once `Stop` is under way. An RTCP
datagram uses `media_stream_` in any case, the tracks only when there are keys. The accesses leave out what only the
transport's own thread uses.

**StunMessage, Session.** A message is its attributes with their lengths; a digest is the record of what it
was computed over and with which key, so that two digests are equal when bytes, length and key are. The client's side
(`Signed`, `Verified`) is written from RFC 5389, the server's from the code. An SDP is what its m-lines say.
`Check` is made by any client that the port may have had, and may arrive cut.

**RtpPacketizer, RtcpCompound, MediaStream.** These have lengths and positions as the code does, since the hazards are
there. A byte is 0, 1 or larger, which is what the search for start codes tells apart; an RTCP datagram is a sequence
of 16-bit halves, because the walk reads as a header whatever word it gets to. The references beside them say what a
frame and a compound packet are (`ByteStream`, `PacketWords`), what a receiver reassembles (`Receive`) and which
numbers a NACK asks for (`Asked`). `stream_tracks_` has the tracks of the answer; the null pointer that `operator[]`
makes for another ssrc is used at once, before anything else of the NACK is looked at, so that no state with one
outlives the step (`crashed`). A datagram that comes in is either *authentic*, which gives `ReceiveRctp` what the
receiver wrote (`ReceiveAuthentic`), or *refused* by `UnprotectRtcp`, which gives it the bytes as they are, or none
when there is no session (`ReceiveRefused`): `Refused` is any set of datagrams, as ciphertext may be any words. The
sender reports that the timer of `MediaStream` asks of a track are in `StreamTrack`.

**OpusTranscoder.** A sample is the time it was recorded. `members` says which members `Open` has left, by the
call that failed in it. Every call of FFmpeg and libopus may fail, and each failure leaves the decoder, the
resampler, the buffer and the FIFO as the code does at that return.

## 3. Runs

| run | instance | shows |
| --- | --- | --- |
| `source` | 2 observers, 3 packets, frames of 0..2 Opus packets, with and without GOP cache; fair | types, every observer in step, cache = packets from the last key frame on, `PacketFeed` implemented; `Stop` returns and new observers are served if clients conclude |
| `server` | 1 source, 2 transports, 1 error each | types, no call on a freed transport, thread joined first, latch opened first |
| `server_live` | 1 source, 2 transports, clients conclude | `DELETE` returns and the manager's queue drains, unless a reader locks itself out (section 4) |
| `teardown` | one transport, every handler, every access; fair | which members a handler can meet missing or half gone, when, and that nothing else is; what the loop leaves behind; the join always comes |
| `udp` | ports 0..3, every range and every set of free ports, 3 datagrams, 2 received; fair | types, one send outstanding, no stall, order; every datagram leaves |
| `session` | offers of 0..3 m-lines, H264 in two modes, 3 user fragments, 2 passwords, checks cut anywhere | what is answered was offered; acceptable offers are answered; this client's checks are answered verifiably, signed ones of others refused |
| `connection` | 2 endpoints, 2 flights, 1 repeated timeout, 3 handshakes; fair | traffic only to nominated endpoints, none but DTLS before keys are agreed on, no other keys than agreed ones, one endpoint per association, flights guarded by a timer; every handshake ends |
| `media` | 2 frames of 1 or 2 units, packets of 4 bytes; compounds of 1 or 2 packets; refused datagrams of 1 packet, cut anywhere, 3 ciphers; 15 samples, frames of 4 | frames survive, accepted RTCP means what it says, refused RTCP with 2 or 3 bytes over does nothing, null tracks only after accepted foreign NACKs or undecrypted bytes; audio keeps its time, missing members are used only after a failure |
| `track` | sequence numbers mod 5, ring of 3, 5-bit words, 6 packets, 2 lost numbers | NACKs answered, paced, well formed; sender reports exact; round-trip time bounded |
| `remove_stalls`, `add_of_ended`, `udp_ports` | | the disagreements of section 4 |

*Why the bounds suffice.* Two observers are what it takes for one to be served while another waits, joins, leaves or
is skipped; three packets give a key frame with a packet before and after it; the proofs bound neither. Two transports
contend for the mutex, the queue and the manager's thread; a third would wait behind them in the same way, and the
proofs bound neither them, nor the sources of one address, nor the errors. `teardown` has no bounds: a transport with
one wait per timer is finite, and the run is exhaustive. Ports of two bits have every shape of range, empty, full and
at both ends. The units of `media` have zeros and ones in every place, and sizes of one, of exactly a packet and of
two and three fragments; numbers wrap, the items of a NACK reach over 2^16, and the first and the last bit of `blp`
are set. Two packets in a compound have a first and a last. One datagram suffices, as `ReceiveRctp` leaves nothing
that the next one meets unless the process has crashed. Refused datagrams are SRTCP of each packet, whole (with its
index and its tag of ten bytes) or cut after any byte, and the "ciphers" put in place of its content make the walk see
empty packets, the ssrc of a track, or a NACK: both calls of a track and crashes come from them, and so the exceptions
of the properties are needed. 15 samples make three Opus packets with packets of the source shorter and longer than
they are. `session` has an H264 format with its RTX before and after another's, without RTX, and a second m-line of
video; one check at a time, since a check leaves nothing in `IceLite` that parsing the next one looks at (what
nominations do to each other is in `connection`). In `connection` two endpoints nominated in turn restart DTLS twice,
in any state; two flights have a first, which a restart repeats, and a last, which completes; of two timeouts in a row
the first repeats the flight and the second (`MaxTimeouts` is 1) is the failure. In `track` the sequence numbers wrap
within the six packets, and 32-bit times of every kind wrap one millisecond after the start; its ring relates to its
sequence numbers as 1000 to 65536 does in that the one does not divide the other. Symmetry is used in `server` only,
which has no liveness property.

Deadlock is not checked where the program, or the bounded instance, ends: the process exits
(`StreamServer`, `Teardown` and `media` after a crash), the reader is done (`MediaSource`), the datagrams,
handshakes or samples are used up. `track` checks it.

*Fairness.* `FairSpec` of `MediaSource`: the reader's thread runs when it can, and leaves `av_read_frame`
because of the interrupt callback (`closed_`, or ten seconds without data: `media_source.cpp:12`); `join`
returns when the reader is done. `FairSpec` of `StreamServer`: every thread runs; strong fairness for the
threads that wait for `observers_mutex_`, because the reader waits for the network between its sections;
strong fairness that a frame ends. Nothing is assumed of requests, errors or clients. `ClientSpec` adds what
the code does *not* ensure: each client concludes its handshake or fails visibly. In `MediaSource` that
is the premise `ClientsConclude` of the properties. `FairSpec` of `Connection`: a wait ends, because setting
it again keeps the deadline that DTLS has, and the loop runs what is queued; nothing is assumed of the
client. `FairSpec` of `UdpSocket`: handlers return, the kernel completes what it was given, and a completed
send has its handler run (strong, because other handlers run in between). `FairSpec` of `Teardown`: the
operating system runs the threads that have something to do; whether and when `Stop` is called is not assumed.

*Properties that no run checks*, because they are proved for every value of the constants: the lists hold live
transports, life is reference counting (`StreamServer`), a deaf socket has reported it, the first free port is taken
(`UdpSocket`), the latch is open exactly when the connection is concluded (`Connection`), an observer is on one list
(`MediaSource`, part of `IInv`). Mutations of the code break each run's properties; `PROJECT.json` lists one for each.

## 4. Findings

* **`Remove` may never return** (`remove_stalls`). `media_source_manager.h:29`: "Remove and stop pull
  stream." It joins the reader, which waits without limit for the latch of a transport whose client never
  starts the handshake; the signaling thread is stuck with it.
* **`Add` of a stream that has ended** (`add_of_ended`). `media_source_manager.h:21`: "Add and start pull
  stream." The ended source stays listed, and `Add` answers with its id.
* **The port search may never end** (`udp_ports`). The loop variable is a `uint16_t`, `config.toml:7` sets
  the maximum to 65535, and "There are no ports available." never comes.

Behaviours that no document denies, found in the models all the same:

* a reader can reach `shared_from_this()` of a transport whose last pointer is gone, and the process terminates
  (`webrtc_transport.cpp:508`);
* or the reader holds the last pointer itself, in the parameter of
  `WebrtcTransportManager::Remove`, when the manager has removed the transport before `post` has returned: the
  reader then runs `~WebrtcTransport` in the midst of `StreamEnd`, and `DeregisterObserver`
  (`media_source.cpp:127`) waits for the mutex that its own thread has locked (`:153`) — that reader, a `DELETE`
  of its stream and, at the next destructor of one of its transports, the manager hang for good;
* at SIGINT, live transports are destroyed with joinable threads (`main.cpp:58`);
* observers on `new_observers_` are not told of the end of a stream;
* `Remove` of a transport can be posted before its `Add`, which then keeps it in the set until another error;
* a handshake that fails, by timeouts (`dtls_transport.cpp:77`) or without SRTP parameters
  (`dtls_transport.cpp:303`), is only logged, and the latch stays shut;
* an SRTP session that cannot be made is only logged too (`webrtc_transport.cpp:486`), but there the latch
  opens, and media goes out as empty datagrams, or, when `srtp_protect` itself fails, unprotected (`:403`,
  `:413`);
* while DTLS is restarted with a new candidate, media already goes there under the keys of the old association;
* the handler of a destroyed Timer can still run (`timer.cpp:17`);
* a round trip shorter than the rounding of compact NTP time makes `rtt_` 65536 seconds
  (`media_stream.cpp:120`), after which a packet is resent once only;
* a packet presented after its successor (B-frames) counts as too old to be sent again (`media_stream.cpp:136`);
* for a lost packet older than the last 536, the packet that has taken its slot is sent
  (`media_stream.cpp:132`);
* a NACK for an ssrc without a track, even one without items, is a call on a null pointer
  (`media_stream.cpp:209`, `:126`);
* an RTCP datagram that `UnprotectRtcp` refuses is walked all the same, undecrypted
  (`webrtc_transport.cpp:440`), and what is ciphertext may pass for a report about a track, a NACK for one, or a
  NACK for none. Whole datagrams of the suites with HMAC-SHA1, repeated ones above all, are kept from that by
  the length of the tag alone: ten bytes leave two at the end, which the walk does not forgive. One cut on its
  way, or with a tag of another length, is not;
* nobody looks at what `OpusTranscoder::Open` returns, and missing members are used (`media_source.cpp:198`);
* the response to a check from an IPv6 address has the lengths of a message with an address, but no address
  (`stun_message.cpp:166`);
* with two m-lines of video, RTX may be that of another one (`webrtc_transport.cpp:119`);
* while `Stop` runs, a handler may use the socket, the SSL object and the timers that it takes down
  (`webrtc_transport.cpp:63`), and a Timer made in that time outlives the loop it works on;
* an RTCP datagram before the answer uses `media_stream_`, which is null or being assigned by the signaling
  thread (`webrtc_transport.cpp:443`, `:373`): undefined behaviour, which builds survive at most because there
  are no keys and the length is 0;
* the RTCP timer may walk over the tracks while they are added (`media_stream.cpp:254`).

## 5. Proofs

`StreamServerProofs` proves, for any sets of sources, transports and addresses, with and without the GOP
cache and for any number of errors:

| theorem | of |
| --- | --- |
| `Invariance` | `IInv`, the inductive invariant |
| `TypeCorrect` | `TypeOK` |
| `CallsAreSafe` | `NoCallOnFreed` |
| `ListedLive` | `ListedAreLive` |
| `AliveWhileReferenced` | `AliveIffReferenced` |
| `ThreadJoinedFirst` | `DestroyedAfterJoin` |
| `LatchOpenedFirst` | `RemovedAfterLatch` |

Assumptions: `NoneAssumption` (the values for "none" are not sources or transports), `UrlAssumption`,
`GopAssumption`, `MaxErrorsAssumption`. Nothing is assumed of the size of the sets.

Its argument: none of the properties is inductive. That a reader calls no freed transport rests on what it has yet to
call being part of a list that nobody changes meanwhile (`WalkInv`: all others take the mutex), on listed transports
being live (`ListedAreLive`), and on the destructor being allowed to skip a source that is not listed any more only
because its reader was joined before it was erased (`SourceInv`). While the reader has a pointer of its own it walks,
and the transport plays its source (`WalkInv`), so that no two readers have one to the same transport, and none that
is still inside `Remove` names a transport whose destructor runs. That the destructor runs after the join rests on the
reference count being exact (`AliveIffReferenced`) and on a running thread always having an owner that will stop it:
the request that created it, the `Add` in the queue, or the manager's set (`ThreadInv`). `BornInv` says that an object
not yet constructed is on no list and has no thread. `IInv` is the conjunction; each part has a lemma with one case
per action, and `IInvStep` combines them. `NoCallOnFreed` then follows from `WalkInv` and `ListedAreLive`: while the
reader walks it is not done. Lemmas about the queue (`PostedAppend`, `PostedTail`) say what posting and running a
lambda changes.

`ConnectionProofs` proves, for any endpoints and any number of flights, timeouts and handshakes:

| theorem | of |
| --- | --- |
| `Invariance` | `IInv`, the inductive invariant |
| `TypeCorrect` | `TypeOK` |
| `OnlyToNominated` | `SentToNominated` |
| `AssociationsKeepEndpoint` | `OneEndpointPerAssociation` |
| `FlightsGuarded` | `FlightGuarded` |
| `LatchConcludes` | `LatchIffConcluded` |

from `EndpointAssumption` and `HandshakeAssumption` alone. Its argument: the selected endpoint is the favoured
candidate, which was a valid candidate when it was nominated, so it has passed two checks (`SelectedInv`);
DTLS writes only after a nomination, and a nomination of another endpoint always begins a new
association (`StartedInv`), so what the current association has sent went to the selected endpoint and
older ones send no more (`SentInv`); media needs an established connection, and that needs a handshake that agreed on
SRTP parameters, which a failed `Init` does not undo; the keys of the session, if it has any, are those of such a handshake
(`KeyedInv`). Nothing is proved of media being protected, because it need not be. One lemma per handler.

`UdpSocketProofs` proves, for any width of a port and any number of datagrams:

| theorem | of |
| --- | --- |
| `Invariance` | `IInv`, the inductive invariant |
| `TypeCorrect` | `TypeOK` |
| `OneAtATime` | `OneSendOutstanding` |
| `PumpGoesOn` | `QueueIsPumped` |
| `SentInOrder` | `InOrder` |
| `DeafnessReported` | `DeafIsReported` |
| `ListenFindsFirst` | `FirstFreePort` |

Its argument counts. The queue holds the newest datagrams in order, so `Front` of them have left it (`QueueInv`); what
the kernel has, or a queued completion, is the datagram `Front + 1`, and an open socket whose queue is not
empty has it there (`PumpInv`); what is on the wire or lost is exactly `1..Front`, or that next one too while
its handler has not run (`GoneInv`). A completion moves one number from one place to the other. `ScanInv` says
that the ports already tried cannot be bound, if the maximum is below the last port; that condition is what
`udp_ports` violates.

`MediaSourceProofs` proves, for any observers and any number of packets, with and without the cache:

| theorem | of |
| --- | --- |
| `Invariance` | `IInv`, the inductive invariant |
| `TypeCorrect` | `TypeOK` |
| `EveryoneInStep` | `InStep` |
| `CacheExact` | `CacheIsGop` |
| `FeedImplemented` | `FeedRefined`: `Spec` implements `PacketFeed` |

Its argument: others change the lists only while the reader does not hold the mutex (`MutexHeld`); an observer is on
one list, once, but for those of `new_observers_` that the walk has served and not yet cleared (`OnOneList`),
so that calling one changes what no other has had; who has had nothing is known, so that its first packet
is the right one (`StartInv`); and the cache is a run that ends with the newest packet (`CacheIsGop`), so
that who has had all of it is in step. The refinement: the cursor of a listed observer is the newest packet
or, once served in this walk, the one after; that of the observer being served from the cache is inside the cache; all
others have none (`CursorFacts`). Each action then moves one cursor, adds one packet to the feed, or is a stutter;
one lemma per action.

`StreamTrackProofs` proves, for any widths of sequence numbers and words, any ring that is not longer than the
sequence numbers, any clock rate that is a multiple of 1000, any times and any number of packets, NACKs and reports:

| theorem | of |
| --- | --- |
| `Invariance` | `IInv`, the inductive invariant of the reports |
| `RingInvariance` | `RingInv`, the inductive invariant of the ring |
| `TypeCorrect` | `TypeOK` |
| `Answers` | `NackAnswered` |
| `Pacing` | `ResendsPaced` |
| `WellFormedResends` | `ResendsWellFormed` |
| `ReportsExact` | `SenderReportExact` |
| `RoundTripBounded` | `RttBounded` |

The argument for reports is arithmetic. The stored time is congruent to the time of sending modulo 2^32; times the
ticks per millisecond, a multiple of the modulus stays one, so that it vanishes from the timestamp (`ReportTime`,
which is where the clock rate has to be a multiple of 1000). Two compact NTP times are at most a unit further apart
than the times they round (`CompactPassed`), and rounding to milliseconds takes that unit off again (`RoundedBack`),
which needs compact units finer than half a millisecond (`TimeAssumption`; they are 1/65536 s). Retransmissions rest
on what the ring holds: each slot has the newest packet that fell into it (`HeldInv`), either as it was sent or, after
its first retransmission with RTX, with the original number put in front of the payload and the number of the last RTX
packet, and with the time of that retransmission. A NACK is a fold over its numbers; one number keeps `TrackInv`
(`ResendLostKeeps`), so `FoldProofs` gives it for the whole NACK.

`SessionProofs` proves, for any offers and any attributes of checks:

| theorem | of |
| --- | --- |
| `Invariance` | `IInv`, the inductive invariant |
| `AnswerFitting` | `AnswerFitsOffer` |
| `OffersAreAnswered` | `OffersAnswered` |
| `Answered` | `ChecksAnswered` |
| `StaleRefused` | `StaleChecksRefused` |

Assumptions: `AbsentAssumption` (what stands for a missing field is none), `OwnAssumption` and `UfragsAssumption` (the
password of the server is one of those that clients may know; user fragments are distinct tokens, as `RandomString`
makes them), `OffersAssumption` and `BodiesAssumption` (m-lines and attributes have the fields they have; attributes
are no longer than the 16 bits of their length, and the three that sign a check are added by `Check`, once each, as
RFC 5389 has it) and `RepeatsAssumption` (what repeats a format is itself a format of its line, `rtx`: RFC 4588, and
what browsers offer). Its argument: `SetOffer` is a fold over the m-lines; after each prefix the members are those of
the last lines of each kind (`LineSets`, `LinesKeep`). A check is its attributes, whole or up to a cut; `Parse` finds
those that are there, and the digest it computes is over what precedes `MESSAGE-INTEGRITY` with the length up to its
end (`ParseIs`), so that it equals the one of the client exactly when bytes and key do.

`MediaProofs` proves of the transcoder, for any frame size, sizes of the packets of the source, delays of
decoder and resampler and any failures of FFmpeg and libopus:

| theorem | of |
| --- | --- |
| `TranscoderInvariance` | `TranscoderInv`, the inductive invariant |
| `AudioTimes` | `AudioKeepsTime` |
| `FailureFirst` | `OnlyAfterFailure` |

from `FrameAssumption` and `ExternalAssumption`. Its argument: the samples that were given out, those of the FIFO, of
the resampler and of the decoder, in this order, are increasing and below the clock (`Sound`). A step of `Transcode`
that succeeds only moves the borders between the four; one that fails cuts a piece out, and what is left of an
increasing sequence is increasing (`Gap`). Without a failure nothing was cut out, so the whole is 0, 1, 2, ...
(`Ramp`). The k-th Opus packet has (k - 1) times 960 samples before it, and the source has no fewer before its first
sample (`NoSooner`): therefore the time it is given is never late.

And of the `MediaStream`, for any well-formed compound packets and any datagrams that are refused:

| theorem | of |
| --- | --- |
| `CompoundsKeepMeaning` | `CompoundMeaning` |
| `OnlyForeignNacks` | `OnlyForeignNacksCrash` |

from `CompoundsAssumption` and `RefusedAssumption`: the packets of a receiver fit the fields that RFC 3550 and RFC
4585 give them (less than 32 blocks in a report, lengths of 16 bits), without padding and extensions; a refused
datagram is any words and up to three bytes. Authentic datagrams that no receiver writes are outside the theorem, as
they are outside the run. Its argument: whatever word a packet begins at, the parser makes of it what was written
(`Parses`, a lemma for each kind); by induction from the end, the walk over the datagram of a compound gives its
packets (`WalkWhole`, `TakenIs`), and the walk over any words with two or three bytes behind them fails (`WalkFails`):
it can only end behind the last word, and is refused there. The items of a NACK stand for the numbers that `Asked`
names, because numbers modulo 2^16 are k apart when their distance is k (`Distance`, `LostIsAsked`). What the packets
do is a fold of `Dispatch`; after i of them, unless the process has crashed, the calls are the meanings of the first
i, one after the other (`PacketsDo`), and without a NACK for a foreign ssrc among them it has not. Before there is a
session the walk has no bytes (`NothingTaken`). The inductive invariant, `MediaInv`, is the two properties themselves:
a datagram leaves nothing that the next one meets.

And of the frames it sends, for any frames, any maximal payload above 2 and any modulus of the sequence numbers:

| theorem | of |
| --- | --- |
| `FramesInvariance` | `FramesInv`, the inductive invariant |
| `FramesArrive` | `FramesSurvive` |

with three steps on the way that are results of their own: `UnitsFound` (`ParseNaluPositions` finds the units of a
frame), `UnitArrives` (a unit survives `PackSingNalu` or `PackFuA`) and `FrameArrives` (a frame survives `Pack`). They
rest on `PacketizerAssumption` and `FramesAssumption`: a frame has at least one NAL unit, a unit consists of bytes,
begins with its header and ends with the byte of its stop bit, neither of which is 0, and emulation prevention keeps
0, 0, 0 and 0, 0, 1 out of it, as ITU-T H.264 has it. A packet of RTMP that is not such a frame is outside the
theorem, as it is outside the run. How long a unit is, and how many a frame has, does not matter; nor do `MaxFrames`
and `MaxDatagrams`, which bound only what TLC explores.

Its argument goes the way of the code. The scan looks at the third byte first and skips up to three; it still finds
all start codes and no other, in their order (`SearchFinds`, by induction from the end of the buffer: a byte there
that is not 0 belongs to no code but one that ends with it). In the byte stream of a frame, one code is in front of
each unit, and there is no other: inside of a unit emulation prevention excludes it, and one that began in a unit and
ended behind it would need a last byte that is 0 (`NoCodeInside`, `FrameCodes`). A zero before the three bytes is
therefore never one of the unit before, so that what is between two codes is that unit, whichever length the codes
have (`UnitsFound`). The rounded-up division of `PackFuA` gives at least two fragments, none of them empty or too
large (`FragmentSizes`); one after the other they grow to the unit (`PartGrows`). The receiver is a fold of `Receive`,
whose state after packets in order is `State(x, ...)` with x the number it expects, which is known modulo `SeqModulus`
only (`ModAdd`); each fragment, unit and frame moves it on (`ReceiveFragment`, `UnitArrives`, `FrameArrives`).
`FramesSurvive` alone is not inductive: the next frame is in order only if the counter of the packetizer is the number
the receiver expects, and nothing is left of a frame before; `FramesInv` says so, of video and of audio.

*Induction over data.* The induction theorems of the library take an operator, which the installed provers cannot
instantiate. `FoldProofs!NatInd` is induction for a *set* of numbers, from the well-foundedness of `<`; with it
`FoldProofs` shows that the recursive function in the definition of `FoldLeft` exists and what its steps are, for any
operator (a constant of the module, which each user instantiates: the loops over the numbers of a NACK, the m-lines of
an offer, the attributes of a message, the blocks of a report, the packets of a compound, the packets a receiver
takes). `MediaProofs` does the same for `FlattenSeq` (`FlattenSteps`) and for the recursive functions of
`ParseCompound` (`WalkExists`) and of `ParseNaluPositions` (`SearchExists`).

*Only model-checked.* Liveness and fairness (`StopReturns`, `NewObserverServed`, `RemoveReturns`,
`ManagerCatchesUp`, `EverySendConcludes`, `HandshakeEnds`) are out of the prover's reach. `RacesConfined`
and `LoopLeftClean` of `Teardown` need no proof: that model has no constants and is finite, and its run is a complete check.

## 6. Not modelled

* `SignalingServer`: an accept loop on one thread, without state. `DtlsContext`: makes a certificate once.
  `SrtpSession`: of it the models have what its callers see of a failure; the cryptography of libsrtp is
  outside what they tell apart. `ServerConfig`: read once,
  its values are constants and rigid variables here. The web page, the build, vendored libraries.
* OpenSSL's messages, keys and certificates (in `StreamServer` a client's handshake is the one step
  `OnDtlsTransportSetup` or `Shutdown`; `Connection` shows when each comes). HMAC-SHA1 and CRC-32 themselves.
* HTTP and JSON parsing, and exceptions of the JSON library from a malformed request; the text of SDP; the bytes
  of the RTP header, of sender reports and of byte buffers, which are fixed layouts; `PackStapA`, which has no caller.
* FFmpeg's opening of an RTMP stream and demuxing, abstracted to their outcomes.
* The outcome of the data race on `database_` (`media_source_manager.cpp:55`): `Query` is one step.
* The bound of `send_queue_` and of the loops' queues: there is none in the code.

## 7. Plan

Done: the life of transports and sources, the feed, the socket, the connection, the track, the media path both ways,
the session, the teardown; proofs for every component but the teardown, whose run is complete: every invariant of the
other runs is a theorem. Should the code change: a refinement of `StreamServer` by `Teardown` would need
handlers as sequences of accesses in both.
