------------------------------ MODULE StreamServer ------------------------------
(***************************************************************************)
(* The life of the transports that play the streams.  Four kinds of thread *)
(* take part:                                                              *)
(*   - the signaling thread (SignalingSession::HandleRequest), which adds  *)
(*     and removes streams and creates transports;                         *)
(*   - the reader of each MediaSource, which calls the transports on its   *)
(*     observer lists through raw pointers;                                *)
(*   - the thread of each WebrtcTransport, which runs its io_context;      *)
(*   - the thread of WebrtcTransportManager, which runs the lambdas posted *)
(*     by Add and Remove in order and owns the transports.                 *)
(* A transport lives as long as a shared_ptr to it does: the local one of  *)
(* HandleRequest, the copies in the queued lambdas, the one in             *)
(* webrtc_transports_, and the parameter of WebrtcTransportManager::Remove *)
(* on the thread that calls it.  The thread that drops the last one runs   *)
(* the destructor, which takes the source's observers_mutex_ to            *)
(* deregister.                                                             *)
(*                                                                         *)
(* The packets themselves are the business of MediaSource.tla: here the    *)
(* reader is its control, and an observer list is the set of its members   *)
(* (the order in which a list is walked is left open).  The mutex is the   *)
(* reader's while it walks a list, as MediaSource.tla shows.               *)
(***************************************************************************)
EXTENDS Integers, Sequences

CONSTANTS Sources,         \* MediaSource objects, one for each id given out
          Transports,      \* WebrtcTransport objects
          NoSource, NoTransport,
          Urls, Url,       \* the address each source pulls from
          EnableGopCache,  \* ServerConfig::GetEnableGopCache
          MaxErrors        \* bound on the errors a transport's thread meets

ASSUME NoneAssumption == NoSource \notin Sources /\ NoTransport \notin Transports
ASSUME UrlAssumption == Url \in [Sources -> Urls]
ASSUME GopAssumption == EnableGopCache \in BOOLEAN
ASSUME MaxErrorsAssumption == MaxErrors \in Nat

VARIABLES
  database_,          \* MediaSourceManager: the sources that are listed
  closed_,            \* MediaSource: Stop was called
  reader,             \* MediaSource: where ReadPacket is
  observers_, new_observers_,
  cached,             \* MediaSource: the GOP cache holds a packet
  todo,               \* observers the reader has yet to call in this walk
  told,               \* the transport whose end of stream the reader handles
  spc, source, created,    \* signaling thread: its point in HandleRequest,
                           \* the source and the transport it works on
  mpc, current,       \* manager thread: what it does, with which transport
  queue,              \* manager's message_loop_: the posted lambdas
  webrtc_transports_, \* manager's set
  stream_id_,         \* WebrtcTransport: the source it plays
  life,               \* WebrtcTransport: from constructor to destructor
  work_thread_,       \* WebrtcTransport: its thread
  latch_,             \* WebrtcTransport: transports whose latch is open
  connection_established_,
  errors,             \* errors each transport's thread has met
  terminated          \* std::terminate was called

sourceVars == <<database_, closed_, reader, observers_, new_observers_, cached,
                todo, told>>
signalingVars == <<spc, source, created>>
managerVars == <<mpc, current, webrtc_transports_>>
threadVars == <<work_thread_, latch_, connection_established_, errors>>
vars == <<sourceVars, signalingVars, managerVars, queue, stream_id_, life,
          threadVars, terminated>>

(* The points of ReadPacket where the reader owns observers_mutex_.        *)
Walking == {"check", "deliver", "end", "told", "destroy"}
ReaderLabels == {"unstarted", "loop", "wait_check", "read", "wait_deliver",
                 "wait_end", "done"} \cup Walking
MutexFree(s) == reader[s] \notin Walking

(* A lambda posted to the manager's message_loop_.                         *)
Lambdas == [op : {"Add", "Remove"}, transport : Transports]
Post(op, t) == queue' = Append(queue, [op |-> op, transport |-> t])

(* The process is there: no thread takes a step after it has ended.        *)
Running == ~terminated /\ spc # "exited"

(* The places where a shared_ptr to a transport can be.  (PostRemove needs *)
(* none on the transport's own thread, which is joined before the others   *)
(* are dropped.)                                                           *)
Posted(op, t, lambdas) ==
  \E i \in 1..Len(lambdas) : lambdas[i] = [op |-> op, transport |-> t]
InQueue(t, lambdas) == Posted("Add", t, lambdas) \/ Posted("Remove", t, lambdas)
LocalRef(t) == spc \in {"register", "add", "drop"} /\ created = t
ManagerRef(t) == t \in webrtc_transports_ \/ (mpc = "stop" /\ current = t)
ReaderRef(t) == \E s \in Sources : reader[s] = "told" /\ told[s] = t
Referenced(t) ==
  LocalRef(t) \/ ManagerRef(t) \/ ReaderRef(t) \/ InQueue(t, queue)

Init ==
  /\ database_ = {}
  /\ closed_ = [s \in Sources |-> FALSE]
  /\ reader = [s \in Sources |-> "unstarted"]
  /\ observers_ = [s \in Sources |-> {}]
  /\ new_observers_ = [s \in Sources |-> {}]
  /\ cached = [s \in Sources |-> FALSE]
  /\ todo = [s \in Sources |-> {}]
  /\ told = [s \in Sources |-> NoTransport]
  /\ spc = "idle" /\ source = NoSource /\ created = NoTransport
  /\ mpc = "idle" /\ current = NoTransport
  /\ queue = <<>>
  /\ webrtc_transports_ = {}
  /\ stream_id_ = [t \in Transports |-> NoSource]
  /\ life = [t \in Transports |-> "unborn"]
  /\ work_thread_ = [t \in Transports |-> "none"]
  /\ latch_ = {}
  /\ connection_established_ = {}
  /\ errors = [t \in Transports |-> 0]
  /\ terminated = FALSE

-----------------------------------------------------------------------------
(* Bugs the properties have to catch: forms that actions below would have  *)
(* if the code were slightly wrong.  No action uses them.                  *)

(* The constructor of WebrtcTransport forgets stream_id_. *)
PlayForgetsStream(s, t) ==
  /\ Running
  /\ spc = "idle" /\ s \in database_ /\ life[t] = "unborn"
  /\ life' = [life EXCEPT ![t] = "alive"]
  /\ work_thread_' = [work_thread_ EXCEPT ![t] = "running"]
  /\ spc' = "register" /\ source' = s /\ created' = t
  /\ UNCHANGED <<sourceVars, managerVars, queue, stream_id_, latch_,
                 connection_established_, errors, terminated>>

(* WebrtcTransport::Stop does not join. *)
StopUnjoined ==
  /\ Running
  /\ mpc = "stop"
  /\ webrtc_transports_' = webrtc_transports_ \ {current}
  /\ IF LocalRef(current) \/ ReaderRef(current) \/ InQueue(current, queue)
     THEN mpc' = "idle" /\ current' = NoTransport /\ UNCHANGED life
     ELSE /\ mpc' = "destroy" /\ UNCHANGED current
          /\ life' = [life EXCEPT ![current] = "destructor"]
  /\ UNCHANGED <<sourceVars, signalingVars, queue, stream_id_, threadVars,
                 terminated>>

(* DeregisterObserver without the lock_guard. *)
DeregisterUnlocked(t) ==
  /\ Running
  /\ life[t] = "deregister"
  /\ observers_' = [observers_ EXCEPT ![stream_id_[t]] = @ \ {t}]
  /\ new_observers_' = [new_observers_ EXCEPT ![stream_id_[t]] = @ \ {t}]
  /\ life' = [life EXCEPT ![t] = "freed"]
  /\ UNCHANGED <<database_, closed_, reader, cached, todo, told, signalingVars,
                 managerVars, queue, stream_id_, threadVars, terminated>>

(* Shutdown does not open the latch. *)
ShutdownLatchShut(t) ==
  /\ Running
  /\ work_thread_[t] = "running" /\ errors[t] < MaxErrors
  /\ work_thread_' = [work_thread_ EXCEPT ![t] = "shutdown"]
  /\ errors' = [errors EXCEPT ![t] = @ + 1]
  /\ UNCHANGED <<sourceVars, signalingVars, managerVars, queue, stream_id_,
                 life, latch_, connection_established_, terminated>>

-----------------------------------------------------------------------------
(* Signaling thread: POST and DELETE /streams.                             *)

(* MediaSourceManager::Add of a url that is listed: its id is returned.    *)
AddListed(u) ==
  /\ Running
  /\ spc = "idle"
  /\ \E s \in database_ : Url[s] = u /\ source' = s
  /\ spc' = "added"
  /\ UNCHANGED <<sourceVars, created, managerVars, queue, stream_id_, life,
                 threadVars, terminated>>

(* Add of another url: the source is opened, its reader started and the    *)
(* source listed.  (Where Open fails nothing changes.)                     *)
AddNew(u) ==
  /\ Running
  /\ spc = "idle"
  /\ \A s \in database_ : Url[s] # u
  /\ \E s \in Sources :
       /\ Url[s] = u /\ reader[s] = "unstarted"
       /\ reader' = [reader EXCEPT ![s] = "loop"]
       /\ database_' = database_ \cup {s}
       /\ source' = s
  /\ spc' = "added"
  /\ UNCHANGED <<closed_, observers_, new_observers_, cached, todo, told, created,
                 managerVars, queue, stream_id_, life, threadVars, terminated>>

(* The reply with the id is on its way.                                    *)
AddReplied ==
  /\ Running
  /\ spc = "added"
  /\ spc' = "idle" /\ source' = NoSource
  /\ UNCHANGED <<sourceVars, created, managerVars, queue, stream_id_, life,
                 threadVars, terminated>>

(* MediaSourceManager::Remove: MediaSource::Stop closes the source ...     *)
Remove(s) ==
  /\ Running
  /\ spc = "idle" /\ s \in database_
  /\ closed_' = [closed_ EXCEPT ![s] = TRUE]
  /\ spc' = "join" /\ source' = s
  /\ UNCHANGED <<database_, reader, observers_, new_observers_, cached, todo, told,
                 created, managerVars, queue, stream_id_, life, threadVars,
                 terminated>>

(* ... and joins its reader; then the source is erased.                    *)
RemoveJoined ==
  /\ Running
  /\ spc = "join" /\ reader[source] = "done"
  /\ database_' = database_ \ {source}
  /\ spc' = "idle" /\ source' = NoSource
  /\ UNCHANGED <<closed_, reader, observers_, new_observers_, cached, todo, told,
                 created, managerVars, queue, stream_id_, life, threadVars,
                 terminated>>

(* Signaling thread: POST /play.                                           *)

(* Query finds the source; the transport accepts the offer and starts its  *)
(* thread.                                                                 *)
Play(s, t) ==
  /\ Running
  /\ spc = "idle" /\ s \in database_ /\ life[t] = "unborn"
  /\ life' = [life EXCEPT ![t] = "alive"]
  /\ stream_id_' = [stream_id_ EXCEPT ![t] = s]
  /\ work_thread_' = [work_thread_ EXCEPT ![t] = "running"]
  /\ spc' = "register" /\ source' = s /\ created' = t
  /\ UNCHANGED <<sourceVars, managerVars, queue, latch_,
                 connection_established_, errors, terminated>>

(* SetOffer or Start fails: the transport is destroyed before it has a     *)
(* thread or is registered.                                                *)
PlayFails(s, t) ==
  /\ Running
  /\ spc = "idle" /\ s \in database_ /\ life[t] = "unborn"
  /\ life' = [life EXCEPT ![t] = "destructor"]
  /\ stream_id_' = [stream_id_ EXCEPT ![t] = s]
  /\ spc' = "destroy" /\ source' = s /\ created' = t
  /\ UNCHANGED <<sourceVars, managerVars, queue, threadVars, terminated>>

RegisterObserver ==
  /\ Running
  /\ spc = "register" /\ MutexFree(source)
  /\ IF EnableGopCache
     THEN /\ new_observers_' = [new_observers_ EXCEPT ![source] = @ \cup {created}]
          /\ UNCHANGED observers_
     ELSE /\ observers_' = [observers_ EXCEPT ![source] = @ \cup {created}]
          /\ UNCHANGED new_observers_
  /\ spc' = "add"
  /\ UNCHANGED <<database_, closed_, reader, cached, todo, told, source, created,
                 managerVars, queue, stream_id_, life, threadVars, terminated>>

(* After CreateAnswer, WebrtcTransportManager::Add.                        *)
PostAdd ==
  /\ Running
  /\ spc = "add"
  /\ Post("Add", created)
  /\ spc' = "drop"
  /\ UNCHANGED <<sourceVars, source, created, managerVars, stream_id_, life,
                 threadVars, terminated>>

(* The local shared_ptr goes out of scope: if the manager has added and    *)
(* removed the transport already, this thread destroys it.                 *)
DropLocal ==
  /\ Running
  /\ spc = "drop"
  /\ IF ManagerRef(created) \/ ReaderRef(created) \/ InQueue(created, queue)
     THEN /\ spc' = "idle" /\ source' = NoSource /\ created' = NoTransport
          /\ UNCHANGED life
     ELSE /\ spc' = "destroy"
          /\ life' = [life EXCEPT ![created] = "destructor"]
          /\ UNCHANGED <<source, created>>
  /\ UNCHANGED <<sourceVars, managerVars, queue, stream_id_, threadVars,
                 terminated>>

-----------------------------------------------------------------------------
(* WebrtcTransportManager's thread runs the lambda at the head.            *)

RunAdd ==
  /\ Running
  /\ mpc = "idle" /\ queue # <<>> /\ Head(queue).op = "Add"
  /\ webrtc_transports_' = webrtc_transports_ \cup {Head(queue).transport}
  /\ queue' = Tail(queue)
  /\ UNCHANGED <<sourceVars, signalingVars, mpc, current, stream_id_, life,
                 threadVars, terminated>>

(* Remove of a transport that is in the set: Stop stops its io_context.    *)
RunRemove ==
  /\ Running
  /\ mpc = "idle" /\ queue # <<>> /\ Head(queue).op = "Remove"
  /\ Head(queue).transport \in webrtc_transports_
  /\ mpc' = "stop" /\ current' = Head(queue).transport
  /\ queue' = Tail(queue)
  /\ work_thread_' = [work_thread_ EXCEPT ![current'] =
                        IF @ = "shutdown" THEN "last" ELSE "stopped"]
  /\ UNCHANGED <<sourceVars, signalingVars, webrtc_transports_, stream_id_,
                 life, latch_, connection_established_, errors, terminated>>

(* ... joins its thread, which first finishes the handler it is in; then   *)
(* the transport is erased and the lambda's shared_ptr dropped.            *)
StopJoined ==
  /\ Running
  /\ mpc = "stop" /\ work_thread_[current] = "stopped"
  /\ work_thread_' = [work_thread_ EXCEPT ![current] = "joined"]
  /\ webrtc_transports_' = webrtc_transports_ \ {current}
  /\ IF LocalRef(current) \/ ReaderRef(current) \/ InQueue(current, queue)
     THEN mpc' = "idle" /\ current' = NoTransport /\ UNCHANGED life
     ELSE /\ mpc' = "destroy" /\ UNCHANGED current
          /\ life' = [life EXCEPT ![current] = "destructor"]
  /\ UNCHANGED <<sourceVars, signalingVars, queue, stream_id_, latch_,
                 connection_established_, errors, terminated>>

(* Remove of a transport that is not in the set: not yet added, or removed *)
(* already, in which case this may have been the last shared_ptr.          *)
RunRemoveMissing ==
  /\ Running
  /\ mpc = "idle" /\ queue # <<>> /\ Head(queue).op = "Remove"
  /\ Head(queue).transport \notin webrtc_transports_
  /\ queue' = Tail(queue)
  /\ LET t == Head(queue).transport
     IN IF LocalRef(t) \/ ReaderRef(t) \/ InQueue(t, Tail(queue))
        THEN UNCHANGED <<mpc, current, life>>
        ELSE /\ mpc' = "destroy" /\ current' = t
             /\ life' = [life EXCEPT ![t] = "destructor"]
  /\ UNCHANGED <<sourceVars, signalingVars, webrtc_transports_, stream_id_,
                 threadVars, terminated>>

-----------------------------------------------------------------------------
(* ~WebrtcTransport, on the signaling, the manager or a reader's thread.   *)

(* Query: a source that is no longer listed has joined its reader, and the *)
(* transport is not deregistered from it.                                  *)
DestructorQuery(t) ==
  /\ Running
  /\ life[t] = "destructor"
  /\ life' = [life EXCEPT ![t] = IF stream_id_[t] \in database_
                                 THEN "deregister" ELSE "freed"]
  /\ UNCHANGED <<sourceVars, signalingVars, managerVars, queue, stream_id_,
                 threadVars, terminated>>

(* A reader that got here owns the mutex itself, and waits for it forever. *)
DeregisterObserver(t) ==
  /\ Running
  /\ life[t] = "deregister" /\ MutexFree(stream_id_[t])
  /\ observers_' = [observers_ EXCEPT ![stream_id_[t]] = @ \ {t}]
  /\ new_observers_' = IF EnableGopCache
                       THEN [new_observers_ EXCEPT ![stream_id_[t]] = @ \ {t}]
                       ELSE new_observers_
  /\ life' = [life EXCEPT ![t] = "freed"]
  /\ UNCHANGED <<database_, closed_, reader, cached, todo, told, signalingVars,
                 managerVars, queue, stream_id_, threadVars, terminated>>

(* The thread that ran the destructor goes on.                             *)
SignalingDestroyed ==
  /\ Running
  /\ spc = "destroy" /\ life[created] = "freed"
  /\ spc' = "idle" /\ source' = NoSource /\ created' = NoTransport
  /\ UNCHANGED <<sourceVars, managerVars, queue, stream_id_, life, threadVars,
                 terminated>>

ManagerDestroyed ==
  /\ Running
  /\ mpc = "destroy" /\ life[current] = "freed"
  /\ mpc' = "idle" /\ current' = NoTransport
  /\ UNCHANGED <<sourceVars, signalingVars, webrtc_transports_, queue,
                 stream_id_, life, threadVars, terminated>>

-----------------------------------------------------------------------------
(* The thread of a transport.                                              *)

(* OnDtlsTransportSetup: the client has the answer and the handshake is    *)
(* complete.                                                               *)
OnDtlsTransportSetup(t) ==
  /\ Running
  /\ work_thread_[t] = "running" /\ ~LocalRef(t)
  /\ t \notin connection_established_
  /\ connection_established_' = connection_established_ \cup {t}
  /\ latch_' = latch_ \cup {t}
  /\ UNCHANGED <<sourceVars, signalingVars, managerVars, queue, stream_id_,
                 life, work_thread_, errors, terminated>>

(* A socket, ICE or DTLS error, or the client's close_notify: Shutdown     *)
(* opens the latch ...                                                     *)
Shutdown(t) ==
  /\ Running
  /\ work_thread_[t] = "running" /\ errors[t] < MaxErrors
  /\ latch_' = latch_ \cup {t}
  /\ work_thread_' = [work_thread_ EXCEPT ![t] = "shutdown"]
  /\ errors' = [errors EXCEPT ![t] = @ + 1]
  /\ UNCHANGED <<sourceVars, signalingVars, managerVars, queue, stream_id_,
                 life, connection_established_, terminated>>

(* ... and posts the removal, even when Stop came in between.              *)
PostRemove(t) ==
  /\ Running
  /\ work_thread_[t] \in {"shutdown", "last"}
  /\ Post("Remove", t)
  /\ work_thread_' = [work_thread_ EXCEPT ![t] =
                        IF @ = "shutdown" THEN "running" ELSE "stopped"]
  /\ UNCHANGED <<sourceVars, signalingVars, managerVars, stream_id_, life,
                 latch_, connection_established_, errors, terminated>>

-----------------------------------------------------------------------------
(* The reader of a source: ReadPacket.                                     *)

LoopHead(s) ==
  /\ Running
  /\ reader[s] = "loop"
  /\ reader' = [reader EXCEPT ![s] = IF closed_[s] THEN "done"
                                     ELSE IF EnableGopCache THEN "wait_check"
                                     ELSE "read"]
  /\ UNCHANGED <<database_, closed_, observers_, new_observers_, cached, todo, told,
                 signalingVars, managerVars, queue, stream_id_, life,
                 threadVars, terminated>>

CheckNewObserver(s) ==
  /\ Running
  /\ reader[s] = "wait_check"
  /\ reader' = [reader EXCEPT ![s] = "check"]
  /\ todo' = [todo EXCEPT ![s] = new_observers_[s]]
  /\ UNCHANGED <<database_, closed_, observers_, new_observers_, cached, told,
                 signalingVars, managerVars, queue, stream_id_, life,
                 threadVars, terminated>>

(* The cached packets are replayed, which takes an open latch if there is  *)
(* one to replay.                                                          *)
ServeNewObserver(s, t) ==
  /\ Running
  /\ reader[s] = "check" /\ t \in todo[s]
  /\ cached[s] => t \in latch_
  /\ observers_' = [observers_ EXCEPT ![s] = @ \cup {t}]
  /\ todo' = [todo EXCEPT ![s] = @ \ {t}]
  /\ UNCHANGED <<database_, closed_, reader, new_observers_, cached, told,
                 signalingVars, managerVars, queue, stream_id_, life,
                 threadVars, terminated>>

EndCheck(s) ==
  /\ Running
  /\ reader[s] = "check" /\ todo[s] = {}
  /\ new_observers_' = [new_observers_ EXCEPT ![s] = {}]
  /\ reader' = [reader EXCEPT ![s] = "read"]
  /\ UNCHANGED <<database_, closed_, observers_, cached, todo, told, signalingVars,
                 managerVars, queue, stream_id_, life, threadVars, terminated>>

(* A frame that makes a packet, one that makes none, or a failure.         *)
ReadFrame(s) ==
  /\ Running
  /\ reader[s] = "read"
  /\ \E next \in {"wait_deliver", "loop", "wait_end"} :
       reader' = [reader EXCEPT ![s] = next]
  /\ UNCHANGED <<database_, closed_, observers_, new_observers_, cached, todo, told,
                 signalingVars, managerVars, queue, stream_id_, life,
                 threadVars, terminated>>

(* The reader takes the mutex to walk observers_.                          *)
BeginWalk(s) ==
  /\ Running
  /\ reader[s] \in {"wait_deliver", "wait_end"}
  /\ reader' = [reader EXCEPT ![s] = IF @ = "wait_end" THEN "end" ELSE "deliver"]
  /\ todo' = [todo EXCEPT ![s] = observers_[s]]
  /\ UNCHANGED <<database_, closed_, observers_, new_observers_, cached, told,
                 signalingVars, managerVars, queue, stream_id_, life,
                 threadVars, terminated>>

(* OnMediaPacketGenerated returns once the latch is open.                  *)
Deliver(s, t) ==
  /\ Running
  /\ reader[s] = "deliver" /\ t \in todo[s] /\ t \in latch_
  /\ todo' = [todo EXCEPT ![s] = @ \ {t}]
  /\ UNCHANGED <<database_, closed_, reader, observers_, new_observers_,
                 cached, told, signalingVars, managerVars, queue, stream_id_,
                 life, threadVars, terminated>>

(* Every observer has the packet, which is cached.  Another Opus packet of *)
(* the same audio frame may follow, or the frame is finished.              *)
EndDelivery(s, next) ==
  /\ Running
  /\ reader[s] = "deliver" /\ todo[s] = {}
  /\ cached' = [cached EXCEPT ![s] = EnableGopCache]
  /\ reader' = [reader EXCEPT ![s] = next]
  /\ UNCHANGED <<database_, closed_, observers_, new_observers_, todo, told,
                 signalingVars, managerVars, queue, stream_id_, life,
                 threadVars, terminated>>
NextOpusPacket(s) == EndDelivery(s, "wait_deliver")
EndFrame(s) == EndDelivery(s, "loop")

(* OnMediaSouceEnd: Shutdown opens the latch and posts the removal with    *)
(* shared_from_this(), which the parameter of Remove keeps.  It throws for *)
(* a transport whose last shared_ptr is gone, and nothing catches that on  *)
(* this thread.  (Only the reader waits for the latch, so that it opens    *)
(* and the removal is posted in one step.)                                 *)
TellEnd(s, t) ==
  /\ Running
  /\ reader[s] = "end" /\ t \in todo[s]
  /\ todo' = [todo EXCEPT ![s] = @ \ {t}]
  /\ latch_' = latch_ \cup {t}
  /\ \/ /\ Referenced(t)
        /\ Post("Remove", t)
        /\ reader' = [reader EXCEPT ![s] = "told"]
        /\ told' = [told EXCEPT ![s] = t]
        /\ UNCHANGED terminated
     \/ ~Referenced(t) /\ terminated' = TRUE /\ UNCHANGED <<queue, reader, told>>
  /\ UNCHANGED <<database_, closed_, observers_, new_observers_, cached,
                 signalingVars, managerVars, stream_id_, life, work_thread_,
                 connection_established_, errors>>

(* Remove returns and drops its parameter.  If the manager has removed the *)
(* transport by then and nobody else has it, the reader destroys it, with  *)
(* observers_mutex_ locked; the source is still listed, so that the        *)
(* destructor wants that mutex, and there is no step that ends this.       *)
DropTold(s) ==
  /\ Running
  /\ reader[s] = "told"
  /\ IF LocalRef(told[s]) \/ ManagerRef(told[s]) \/ InQueue(told[s], queue)
     THEN /\ reader' = [reader EXCEPT ![s] = "end"]
          /\ told' = [told EXCEPT ![s] = NoTransport]
          /\ UNCHANGED life
     ELSE /\ reader' = [reader EXCEPT ![s] = "destroy"]
          /\ life' = [life EXCEPT ![told[s]] = "destructor"]
          /\ UNCHANGED told
  /\ UNCHANGED <<database_, closed_, observers_, new_observers_, cached, todo,
                 signalingVars, managerVars, queue, stream_id_, threadVars,
                 terminated>>

EndOfStream(s) ==
  /\ Running
  /\ reader[s] = "end" /\ todo[s] = {}
  /\ reader' = [reader EXCEPT ![s] = "done"]
  /\ UNCHANGED <<database_, closed_, observers_, new_observers_, cached, todo, told,
                 signalingVars, managerVars, queue, stream_id_, life,
                 threadVars, terminated>>

-----------------------------------------------------------------------------
(* SIGINT, handled on the signaling thread, which takes no more requests:  *)
(* StopAll stops the sources one after the other and leaves them listed,   *)
(* WebrtcTransportManager::Stop waits until the posted lambdas have run.   *)

StopNext(s) ==
  /\ Running
  /\ spc \in {"idle", "stop_all"}
  /\ s \in database_ /\ ~closed_[s]
  /\ closed_' = [closed_ EXCEPT ![s] = TRUE]
  /\ spc' = "stop_join" /\ source' = s
  /\ UNCHANGED <<database_, reader, observers_, new_observers_, cached, todo, told,
                 created, managerVars, queue, stream_id_, life, threadVars,
                 terminated>>

StopNextJoined ==
  /\ Running
  /\ spc = "stop_join" /\ reader[source] = "done"
  /\ spc' = "stop_all" /\ source' = NoSource
  /\ UNCHANGED <<sourceVars, created, managerVars, queue, stream_id_, life,
                 threadVars, terminated>>

(* The process exits.  A transport that is still in webrtc_transports_ is  *)
(* then destroyed with a joinable thread: std::terminate.                  *)
Exit ==
  /\ Running
  /\ spc \in {"idle", "stop_all"}
  /\ \A s \in database_ : closed_[s]
  /\ mpc = "idle" /\ queue = <<>>
  /\ spc' = "exited" /\ source' = NoSource
  /\ terminated' = (webrtc_transports_ # {})
  /\ UNCHANGED <<sourceVars, created, managerVars, queue, stream_id_, life,
                 threadVars>>

-----------------------------------------------------------------------------
Signaling ==
  \/ \E u \in Urls : AddListed(u) \/ AddNew(u)
  \/ \E s \in Sources : Remove(s) \/ StopNext(s)
  \/ \E s \in Sources, t \in Transports : Play(s, t) \/ PlayFails(s, t)
  \/ Exit

SignalingGoesOn ==
  \/ AddReplied \/ RemoveJoined \/ RegisterObserver \/ PostAdd \/ DropLocal
  \/ SignalingDestroyed \/ StopNextJoined

Manager ==
  \/ RunAdd \/ RunRemove \/ StopJoined \/ RunRemoveMissing \/ ManagerDestroyed

Destructor(t) == DestructorQuery(t) \/ DeregisterObserver(t)

Transport(t) == OnDtlsTransportSetup(t) \/ Shutdown(t)

Reader(s) ==
  \/ LoopHead(s) \/ CheckNewObserver(s) \/ EndCheck(s)
  \/ ReadFrame(s) \/ BeginWalk(s) \/ NextOpusPacket(s) \/ EndFrame(s)
  \/ DropTold(s) \/ EndOfStream(s)
  \/ \E t \in Transports :
       ServeNewObserver(s, t) \/ Deliver(s, t) \/ TellEnd(s, t)

Next ==
  \/ Signaling \/ SignalingGoesOn \/ Manager
  \/ \E t \in Transports : Destructor(t) \/ Transport(t) \/ PostRemove(t)
  \/ \E s \in Sources : Reader(s)

Spec == Init /\ [][Next]_vars

(* Every thread of the server runs when it can; a reader leaves            *)
(* av_read_frame in the end (its interrupt callback), and a frame holds    *)
(* finitely many packets.  A thread that waits for observers_mutex_ gets   *)
(* it if it is free again and again: the reader waits for the network      *)
(* between its critical sections.  Nothing is assumed of requests, of      *)
(* errors and of the clients.                                              *)
FairSpec ==
  /\ Spec
  /\ WF_vars(SignalingGoesOn) /\ SF_vars(RegisterObserver)
  /\ WF_vars(Manager)
  /\ WF_vars(\E t \in Transports : DestructorQuery(t) \/ PostRemove(t))
  /\ SF_vars(\E t \in Transports : DeregisterObserver(t))
  /\ \A s \in Sources : WF_vars(Reader(s)) /\ SF_vars(EndFrame(s))

(* What liveness rests on and the code does not ensure: the client of      *)
(* every transport completes the handshake or fails visibly.               *)
ClientSpec ==
  FairSpec /\ \A t \in Transports : WF_vars(t \notin latch_ /\ Transport(t))

-----------------------------------------------------------------------------
TypeOK ==
  /\ database_ \subseteq Sources
  /\ closed_ \in [Sources -> BOOLEAN]
  /\ reader \in [Sources -> ReaderLabels]
  /\ observers_ \in [Sources -> SUBSET Transports]
  /\ new_observers_ \in [Sources -> SUBSET Transports]
  /\ cached \in [Sources -> BOOLEAN]
  /\ todo \in [Sources -> SUBSET Transports]
  /\ told \in [Sources -> Transports \cup {NoTransport}]
  /\ \A s \in Sources : reader[s] \in {"told", "destroy"} => told[s] \in Transports
  /\ spc \in {"idle", "added", "join", "register", "add", "drop", "destroy",
              "stop_all", "stop_join", "exited"}
  /\ source \in Sources \cup {NoSource}
  /\ created \in Transports \cup {NoTransport}
  /\ spc \in {"join", "register", "stop_join"} => source \in Sources
  /\ spc \in {"register", "add", "drop", "destroy"} => created \in Transports
  /\ mpc \in {"idle", "stop", "destroy"}
  /\ current \in Transports \cup {NoTransport}
  /\ mpc # "idle" => current \in Transports
  /\ queue \in Seq(Lambdas)
  /\ webrtc_transports_ \subseteq Transports
  /\ stream_id_ \in [Transports -> Sources \cup {NoSource}]
  /\ life \in [Transports -> {"unborn", "alive", "destructor", "deregister",
                              "freed"}]
  /\ \A t \in Transports : life[t] # "unborn" => stream_id_[t] \in Sources
  /\ work_thread_ \in [Transports -> {"none", "running", "shutdown", "last",
                                      "stopped", "joined"}]
  /\ latch_ \subseteq Transports
  /\ connection_established_ \subseteq Transports
  /\ errors \in [Transports -> 0..MaxErrors]
  /\ terminated \in BOOLEAN

(* A reader calls only transports whose memory is still there: what is on  *)
(* the list it walks has been constructed and has not finished its         *)
(* destructor.  Deregistering under the mutex ensures it for a listed      *)
(* source; one that is not listed any more has joined its reader, which is *)
(* why the destructor may skip it.                                         *)
NoCallOnFreed ==
  \A s \in Sources : \A t \in todo[s] :
    life[t] \in {"alive", "destructor", "deregister"}

(* While the source can still call anybody, every transport on its lists   *)
(* is one that plays it and is not yet destroyed.                          *)
ListedAreLive ==
  \A s \in Sources : \A t \in observers_[s] \cup new_observers_[s] :
    /\ stream_id_[t] = s
    /\ reader[s] # "done" => life[t] \in {"alive", "destructor", "deregister"}

(* The shared_ptrs keep a transport alive, exactly; until the last of them *)
(* is dropped, shared_from_this() does not throw on any thread.            *)
AliveIffReferenced ==
  \A t \in Transports : life[t] = "alive" <=> Referenced(t)

(* No destructor runs before the transport's thread was joined (or where   *)
(* none was started): no handler runs on a freed transport, and no         *)
(* joinable std::thread is destroyed while the server serves.              *)
DestroyedAfterJoin ==
  \A t \in Transports :
    life[t] \in {"destructor", "deregister", "freed"} =>
      work_thread_[t] \in {"none", "joined"}

(* The latch of a transport that is being removed is open.  Once its       *)
(* io_context is stopped nothing else could open it, and a reader that     *)
(* waited for it would keep the mutex the destructor needs.                *)
RemovedAfterLatch ==
  \A t \in Transports :
    \/ Posted("Remove", t, queue)
    \/ work_thread_[t] \in {"shutdown", "last", "stopped", "joined"}
    => t \in latch_

-----------------------------------------------------------------------------
(* What the safety properties rest on: the inductive invariant.            *)

(* The reader walks (part of) a list that nobody changes meanwhile, and    *)
(* the shared_ptr it holds is to a transport that plays its source: no two *)
(* readers hold one to the same.                                           *)
WalkInv ==
  \A s \in Sources :
    /\ reader[s] = "check" => todo[s] \subseteq new_observers_[s]
    /\ reader[s] \in {"deliver", "end", "told", "destroy"} => todo[s] \subseteq observers_[s]
    /\ reader[s] \notin Walking => todo[s] = {}
    /\ reader[s] = "told" => stream_id_[told[s]] = s

(* A source that is not listed was never started or has joined its reader. *)
SourceInv ==
  /\ \A s \in Sources :
       /\ s \notin database_ => reader[s] \in {"unstarted", "done"}
       /\ s \in database_ => reader[s] # "unstarted"
       /\ reader[s] = "unstarted" => observers_[s] = {} /\ new_observers_[s] = {}
       /\ ~EnableGopCache => new_observers_[s] = {}
  /\ spc = "register" => source \in database_ /\ stream_id_[created] = source

(* Only what was constructed is on a list or has a thread.                 *)
BornInv ==
  \A t \in Transports : life[t] = "unborn" =>
    /\ \A s \in Sources : t \notin observers_[s] /\ t \notin new_observers_[s]
    /\ work_thread_[t] = "none"

(* A running thread has an owner that will stop it or is to be added; Stop *)
(* is at work on a stopped one.                                            *)
ThreadInv ==
  /\ \A t \in Transports :
       /\ work_thread_[t] \in {"running", "shutdown"} =>
            \/ spc \in {"register", "add"} /\ created = t
            \/ Posted("Add", t, queue)
            \/ t \in webrtc_transports_
       /\ work_thread_[t] \in {"last", "stopped"} => mpc = "stop" /\ current = t
  /\ mpc = "stop" => work_thread_[current] \in {"last", "stopped"}

IInv ==
  /\ TypeOK /\ WalkInv /\ SourceInv /\ BornInv /\ ThreadInv
  /\ ListedAreLive /\ AliveIffReferenced /\ DestroyedAfterJoin
  /\ RemovedAfterLatch

-----------------------------------------------------------------------------
(* The self-deadlock that TellEnd can end in: the reader destroys the      *)
(* transport, and keeps the mutex that its destructor waits for.           *)
ReaderDestroys(s) == reader[s] = "destroy"

(* MediaSourceManager::Remove returns and has stopped the pull, unless the *)
(* reader it joins has locked itself out: if every client concludes, there *)
(* is no other way to hang.                                                *)
RemoveReturns ==
  \A s \in Sources :
    (spc = "join" /\ source = s) ~> (s \notin database_ \/ ReaderDestroys(s) \/ ~Running)

(* The manager's thread never gets stuck: it always comes back to an empty *)
(* queue, although its destructors wait for readers that wait for latches, *)
(* unless a reader has locked itself out and keeps the mutex.              *)
ManagerCatchesUp ==
  []<>(~Running \/ (mpc = "idle" /\ queue = <<>>) \/ \E s \in Sources : ReaderDestroys(s))

(* A successful Add is answered while the url is being pulled.             *)
AddStartsPull ==
  [][spc # "added" /\ spc' = "added" => reader'[source'] # "done"]_vars
=============================================================================
