------------------------------ MODULE MediaSource ------------------------------
(***************************************************************************)
(* One MediaSource: the thread that reads packets from the RTMP server,    *)
(* the observers it hands them to, and the GOP cache that lets a late      *)
(* observer start at a key frame.  Three kinds of thread meet here: the    *)
(* reader (ReadPacket), the signaling thread (RegisterObserver, Stop) and  *)
(* the transport manager's thread (DeregisterObserver, called by the       *)
(* destructor of WebrtcTransport).  They share the two observer lists      *)
(* under observers_mutex_.  The reader keeps the mutex while it calls the  *)
(* observers, and a call blocks until the observer's latch is open         *)
(* (WebrtcTransport::OnMediaPacketGenerated), so the reader's critical     *)
(* sections take many steps; those of the other threads take one.          *)
(*                                                                         *)
(* A packet is the number it gets when it is created.  delivered and told  *)
(* are history variables: what each observer was called with.  An observer *)
(* is the address of a transport: once deregistered, the address may serve *)
(* a new transport.                                                        *)
(***************************************************************************)
EXTENDS Integers, SequencesExt

CONSTANTS Observers,       \* addresses of transports
          MaxPackets,      \* bound on the packets of a run
          MaxOpus          \* bound on the Opus packets of one audio frame

ASSUME MaxPacketsAssumption == MaxPackets \in Nat
ASSUME MaxOpusAssumption == MaxOpus \in Nat

VARIABLES
  enable_gop_cache_, \* ServerConfig: read once, at the start of the program
  closed_,          \* Stop was called
  stopping,         \* Stop: "no", "joining" the reader, "joined"
  pc,               \* where the reader is
  observers_mutex_, \* TRUE while the reader holds it
  observers_,       \* list of observers that get every packet
  new_observers_,   \* list of observers that wait for the cached packets
  gop_cache_,       \* cached_packets_ of the GopCache
  pending,          \* packets the frame at hand still yields
  key,              \* the frame at hand is a key video frame
  count,            \* packets created so far
  keys,             \* those that are key video frames
  iter,             \* position of the reader in the list it walks
  citer,            \* position in the cached packets (CheckNewObserver)
  ready,            \* observers whose latch is open
  delivered,        \* packets handed to each observer, in order
  told              \* observers that were told of the end of the stream

listVars == <<observers_, new_observers_, observers_mutex_>>
frameVars == <<pending, key>>
logVars == <<count, keys>>
iterVars == <<iter, citer>>
stopVars == <<closed_, stopping>>
historyVars == <<ready, delivered, told>>
vars == <<enable_gop_cache_, stopVars, pc, listVars, gop_cache_, frameVars, logVars, iterVars,
          historyVars>>

(* Points of ReadPacket at which another thread can see the reader.        *)
Labels == {"unstarted", "loop", "wait_check", "check", "read",
           "wait_deliver", "deliver", "wait_end", "done"}

Registered(o) == Contains(observers_, o) \/ Contains(new_observers_, o)

(* push_back unless std::find finds it, as both lists are appended to.     *)
PushIfAbsent(list, o) == IF Contains(list, o) THEN list ELSE Append(list, o)

Init ==
  /\ enable_gop_cache_ \in BOOLEAN
  /\ closed_ = FALSE /\ stopping = "no"
  /\ pc = "unstarted"
  /\ observers_mutex_ = FALSE
  /\ observers_ = <<>> /\ new_observers_ = <<>>
  /\ gop_cache_ = <<>>
  /\ pending = 0 /\ key = FALSE
  /\ count = 0 /\ keys = {}
  /\ iter = 1 /\ citer = 1
  /\ ready = {}
  /\ delivered = [o \in Observers |-> <<>>]
  /\ told = {}

-----------------------------------------------------------------------------
(* Bugs the properties have to catch: forms that actions below would have  *)
(* if the code were slightly wrong.  No action uses them.                  *)

(* while (true) in ReadPacket. *)
LoopForever ==
  /\ pc = "loop"
  /\ pc' = IF enable_gop_cache_ THEN "wait_check" ELSE "read"
  /\ UNCHANGED <<stopVars, listVars, gop_cache_, frameVars, logVars, iterVars,
                 historyVars>>

(* New observers are looked at only when there is something to replay. *)
LoopHeadChecksIfCached ==
  /\ pc = "loop"
  /\ pc' = IF closed_ THEN "done"
           ELSE IF gop_cache_ # <<>> THEN "wait_check" ELSE "read"
  /\ UNCHANGED <<stopVars, listVars, gop_cache_, frameVars, logVars, iterVars,
                 historyVars>>

(* GopCache::AddPacket never clears. *)
AddPacketKeepsAll == Append(gop_cache_, count)

(* One packet too many is made of a frame. *)
EndDeliveryOffByOne ==
  /\ pc = "deliver"
  /\ iter > Len(observers_)
  /\ gop_cache_' = IF enable_gop_cache_ THEN Append(gop_cache_, count)
                   ELSE gop_cache_
  /\ observers_mutex_' = FALSE
  /\ pending' = pending - 1
  /\ pc' = IF pending = 0 THEN "loop" ELSE "wait_deliver"
  /\ UNCHANGED <<stopVars, observers_, new_observers_, key, logVars, iterVars,
                 historyVars>>

(* RegisterObserver does not look at the configuration. *)
RegisterAtOnce(o) ==
  /\ pc # "unstarted" /\ stopping = "no"
  /\ ~Registered(o) /\ ~observers_mutex_
  /\ observers_' = PushIfAbsent(observers_, o)
  /\ UNCHANGED <<stopVars, pc, new_observers_, observers_mutex_, gop_cache_,
                 frameVars, logVars, iterVars, historyVars>>

(* DeregisterObserver without the lock_guard. *)
DeregisterUnlocked(o) ==
  /\ Registered(o) /\ o \in ready
  /\ observers_' = RemoveFirst(observers_, o)
  /\ new_observers_' = RemoveFirst(new_observers_, o)
  /\ ready' = ready \ {o}
  /\ delivered' = [delivered EXCEPT ![o] = <<>>]
  /\ told' = told \ {o}
  /\ UNCHANGED <<stopVars, pc, observers_mutex_, gop_cache_, frameVars,
                 logVars, iterVars>>

-----------------------------------------------------------------------------
(* The reader thread.                                                      *)

Start ==
  /\ pc = "unstarted"
  /\ pc' = "loop"
  /\ UNCHANGED <<stopVars, listVars, gop_cache_, frameVars, logVars, iterVars,
                 historyVars>>

(* The head of the loop.  Leaving it because of closed_ tells nobody that  *)
(* the stream has ended.                                                   *)
LoopHead ==
  /\ pc = "loop"
  /\ pc' = IF closed_ THEN "done"
           ELSE IF enable_gop_cache_ THEN "wait_check" ELSE "read"
  /\ UNCHANGED <<stopVars, listVars, gop_cache_, frameVars, logVars, iterVars,
                 historyVars>>

(* CheckNewObserver takes the mutex.                                       *)
CheckNewObserver ==
  /\ pc = "wait_check"
  /\ ~observers_mutex_
  /\ observers_mutex_' = TRUE
  /\ iter' = 1 /\ citer' = 1
  /\ pc' = "check"
  /\ UNCHANGED <<stopVars, observers_, new_observers_, gop_cache_, frameVars,
                 logVars, historyVars>>

(* It hands a new observer the next cached packet, once the latch is open. *)
ReplayCached ==
  /\ pc = "check"
  /\ iter <= Len(new_observers_)
  /\ citer <= Len(gop_cache_)
  /\ new_observers_[iter] \in ready
  /\ delivered' = [delivered EXCEPT ![new_observers_[iter]] =
                     Append(@, gop_cache_[citer])]
  /\ citer' = citer + 1
  /\ UNCHANGED <<stopVars, pc, listVars, gop_cache_, frameVars, logVars, iter,
                 ready, told>>

(* The new observer has had all of them and joins observers_.              *)
Promote ==
  /\ pc = "check"
  /\ iter <= Len(new_observers_)
  /\ citer > Len(gop_cache_)
  /\ observers_' = PushIfAbsent(observers_, new_observers_[iter])
  /\ iter' = iter + 1 /\ citer' = 1
  /\ UNCHANGED <<stopVars, pc, observers_mutex_, new_observers_, gop_cache_,
                 frameVars, logVars, historyVars>>

EndCheck ==
  /\ pc = "check"
  /\ iter > Len(new_observers_)
  /\ new_observers_' = <<>>
  /\ observers_mutex_' = FALSE
  /\ pc' = "read"
  /\ UNCHANGED <<stopVars, observers_, gop_cache_, frameVars, logVars,
                 iterVars, historyVars>>

(* av_read_frame returns a video frame; the bitstream filter makes one     *)
(* packet of it.                                                           *)
ReadVideo ==
  /\ pc = "read"
  /\ count < MaxPackets
  /\ key' \in BOOLEAN
  /\ pending' = 1
  /\ pc' = "wait_deliver"
  /\ UNCHANGED <<stopVars, listVars, gop_cache_, logVars, iterVars,
                 historyVars>>

(* An audio frame: the transcoder calls back with one Opus packet for each *)
(* 20 ms it has gathered, perhaps none.                                    *)
ReadAudio ==
  /\ pc = "read"
  /\ \E n \in 0..MaxOpus :
       /\ count + n <= MaxPackets
       /\ pending' = n
       /\ pc' = IF n = 0 THEN "loop" ELSE "wait_deliver"
  /\ key' = FALSE
  /\ UNCHANGED <<stopVars, listVars, gop_cache_, logVars, iterVars,
                 historyVars>>

(* av_read_frame fails (end of stream, I/O timeout, closed_ seen by the    *)
(* interrupt callback) or the bitstream filter does.                       *)
ReadFails ==
  /\ pc = "read"
  /\ pc' = "wait_end"
  /\ UNCHANGED <<stopVars, listVars, gop_cache_, frameVars, logVars, iterVars,
                 historyVars>>

(* A packet is created and the mutex taken to hand it out.                 *)
BeginDelivery ==
  /\ pc = "wait_deliver"
  /\ ~observers_mutex_
  /\ observers_mutex_' = TRUE
  /\ count' = count + 1
  /\ keys' = IF key THEN keys \cup {count + 1} ELSE keys
  /\ iter' = 1
  /\ pc' = "deliver"
  /\ UNCHANGED <<stopVars, observers_, new_observers_, gop_cache_, frameVars,
                 citer, historyVars>>

(* OnMediaPacketGenerated of the next observer, once its latch is open.    *)
Deliver ==
  /\ pc = "deliver"
  /\ iter <= Len(observers_)
  /\ observers_[iter] \in ready
  /\ delivered' = [delivered EXCEPT ![observers_[iter]] = Append(@, count)]
  /\ iter' = iter + 1
  /\ UNCHANGED <<stopVars, pc, listVars, gop_cache_, frameVars, logVars,
                 citer, ready, told>>

(* GopCache::AddPacket: a key frame clears what was cached before.         *)
AddPacket == IF key THEN <<count>> ELSE Append(gop_cache_, count)

(* After the last observer the packet is cached and the mutex released.    *)
EndDelivery ==
  /\ pc = "deliver"
  /\ iter > Len(observers_)
  /\ gop_cache_' = IF enable_gop_cache_ THEN AddPacket ELSE gop_cache_
  /\ observers_mutex_' = FALSE
  /\ pending' = pending - 1
  /\ pc' = IF pending = 1 THEN "loop" ELSE "wait_deliver"
  /\ UNCHANGED <<stopVars, observers_, new_observers_, key, logVars, iterVars,
                 historyVars>>

(* Only observers_ are told.  OnMediaSouceEnd does not block; the Shutdown *)
(* it calls opens the latch.                                               *)
StreamEnd ==
  /\ pc = "wait_end"
  /\ ~observers_mutex_
  /\ told' = told \cup ToSet(observers_)
  /\ ready' = ready \cup ToSet(observers_)
  /\ pc' = "done"
  /\ UNCHANGED <<stopVars, listVars, gop_cache_, frameVars, logVars, iterVars,
                 delivered>>

-----------------------------------------------------------------------------
(* The other threads.                                                      *)

(* The signaling thread registers a transport it has just created.         *)
RegisterObserver(o) ==
  /\ pc # "unstarted" /\ stopping = "no"
  /\ ~Registered(o)
  /\ ~observers_mutex_
  /\ IF enable_gop_cache_
     THEN /\ new_observers_' = PushIfAbsent(new_observers_, o)
          /\ UNCHANGED observers_
     ELSE /\ observers_' = PushIfAbsent(observers_, o)
          /\ UNCHANGED new_observers_
  /\ UNCHANGED <<stopVars, pc, observers_mutex_, gop_cache_, frameVars,
                 logVars, iterVars, historyVars>>

(* The destructor of a transport, which was stopped after its latch was    *)
(* opened.  What the address was called with is forgotten with it.         *)
DeregisterObserver(o) ==
  /\ Registered(o) /\ o \in ready
  /\ ~observers_mutex_
  /\ observers_' = RemoveFirst(observers_, o)
  /\ new_observers_' = IF enable_gop_cache_ THEN RemoveFirst(new_observers_, o)
                       ELSE new_observers_
  /\ ready' = ready \ {o}
  /\ delivered' = [delivered EXCEPT ![o] = <<>>]
  /\ told' = told \ {o}
  /\ UNCHANGED <<stopVars, pc, observers_mutex_, gop_cache_, frameVars,
                 logVars, iterVars>>

(* The transport's thread opens the latch: the connection is established   *)
(* or has failed.  (It may do so before the transport is registered, which *)
(* nobody can tell from its doing so right after.)                         *)
OpenLatch(o) ==
  /\ o \notin ready
  /\ Registered(o)
  /\ ready' = ready \cup {o}
  /\ UNCHANGED <<stopVars, pc, listVars, gop_cache_, frameVars, logVars,
                 iterVars, delivered, told>>

(* Stop: close, then join the reader.                                      *)
Stop ==
  /\ pc # "unstarted" /\ stopping = "no"
  /\ closed_' = TRUE
  /\ stopping' = "joining"
  /\ UNCHANGED <<pc, listVars, gop_cache_, frameVars, logVars, iterVars,
                 historyVars>>

Joined ==
  /\ stopping = "joining"
  /\ pc = "done"
  /\ stopping' = "joined"
  /\ UNCHANGED <<enable_gop_cache_, closed_, pc, listVars, gop_cache_, frameVars, logVars,
                 iterVars, historyVars>>

-----------------------------------------------------------------------------
Reader ==
  /\ \/ LoopHead \/ CheckNewObserver \/ ReplayCached \/ Promote \/ EndCheck
     \/ ReadVideo \/ ReadAudio \/ ReadFails
     \/ BeginDelivery \/ Deliver \/ EndDelivery \/ StreamEnd
  /\ UNCHANGED enable_gop_cache_

Others ==
  /\ \/ Start \/ Stop
     \/ \E o \in Observers :
          RegisterObserver(o) \/ DeregisterObserver(o) \/ OpenLatch(o)
  /\ UNCHANGED enable_gop_cache_

Next == Reader \/ Others \/ Joined

Spec == Init /\ [][Next]_vars

(* The reader runs whenever it can: av_read_frame returns, if only because *)
(* of the interrupt callback.  Nothing is assumed of the latches.          *)
FairSpec == Spec /\ WF_vars(Reader) /\ WF_vars(Joined)

-----------------------------------------------------------------------------
(* Types, and the bounds of the counters.                                  *)
TypeOK ==
  /\ enable_gop_cache_ \in BOOLEAN
  /\ closed_ \in BOOLEAN
  /\ stopping \in {"no", "joining", "joined"}
  /\ pc \in Labels
  /\ observers_mutex_ \in BOOLEAN
  /\ observers_ \in Seq(Observers) /\ new_observers_ \in Seq(Observers)
  /\ gop_cache_ \in Seq(Nat)
  /\ pending \in 0..(MaxOpus + 1) /\ key \in BOOLEAN
  /\ count \in 0..MaxPackets /\ keys \subseteq 1..count
  /\ iter \in Nat \ {0} /\ citer \in Nat \ {0}
  /\ ready \subseteq Observers /\ told \subseteq Observers
  /\ delivered \in [Observers -> Seq(Nat)]

(* The mutex is the reader's exactly in the two sections that call         *)
(* observers.                                                              *)
MutexHeld == observers_mutex_ <=> pc \in {"check", "deliver"}

(* No observer is on a list twice, and outside CheckNewObserver none is on *)
(* both: it would get every packet twice, and a destroyed transport would  *)
(* stay on a list (DeregisterObserver erases one element of each).         *)
NoDuplicates(list) == \A i, j \in 1..Len(list) : list[i] = list[j] => i = j
OnOneList ==
  /\ NoDuplicates(observers_) /\ NoDuplicates(new_observers_)
  /\ \A i \in 1..Len(new_observers_) :
       Contains(observers_, new_observers_[i]) <=> (pc = "check" /\ i < iter)

(* s ends with packet last and has no gap and no repetition.               *)
IsRun(s, last) ==
  /\ Len(s) <= last
  /\ \A k \in 1..Len(s) : s[k] = last - Len(s) + k

(* What an observer was called with is a run of the packets.  Outside a    *)
(* delivery it ends with the newest one, within it those behind iter lack  *)
(* that one; one that waits on new_observers_ has nothing, and the one     *)
(* being served has a prefix of the cache.                                 *)
InStep ==
  /\ \A i \in 1..Len(observers_) :
       IsRun(delivered[observers_[i]],
             IF pc = "deliver" /\ i >= iter THEN count - 1 ELSE count)
  /\ \A i \in 1..Len(new_observers_) :
       (pc = "check" => i >= iter) =>
         delivered[new_observers_[i]] =
           (IF pc = "check" /\ i = iter THEN SubSeq(gop_cache_, 1, citer - 1)
            ELSE <<>>)

(* The cache holds the packets from the last key frame (the first packet   *)
(* while there has been none) to the newest one handed out.                *)
CacheIsGop ==
  LET last == IF pc = "deliver" THEN count - 1 ELSE count
  IN enable_gop_cache_ =>
       /\ IsRun(gop_cache_, last)
       /\ last > 0 => Len(gop_cache_) > 0
       /\ Len(gop_cache_) > 0 =>
            /\ gop_cache_[1] \in keys \cup {1}
            /\ \A k \in keys : k <= last => k <= gop_cache_[1]

(* The next packet of an observer, 0 if it does not read: the refinement   *)
(* mapping to PacketFeed.                                                  *)
Reading(o) ==
  \/ Contains(observers_, o)
  \/ pc = "check" /\ iter <= Len(new_observers_) /\ new_observers_[iter] = o
Cursor(o) ==
  IF ~Reading(o) THEN 0
  ELSE IF delivered[o] # <<>> THEN delivered[o][Len(delivered[o])] + 1
  ELSE IF pc = "deliver" THEN count
  ELSE IF gop_cache_ # <<>> THEN gop_cache_[1]
  ELSE count + 1

Feed == INSTANCE PacketFeed WITH
          enabled <- enable_gop_cache_, length <- count, keyed <- keys,
          cursor <- [o \in Observers |-> Cursor(o)]

(* The source gives every observer what PacketFeed promises.               *)
FeedRefined == Feed!FeedSpec

(* What the liveness of the source rests on and the code does not ensure:  *)
(* every client completes the DTLS handshake or fails in a way the server  *)
(* sees, so that its latch opens.                                          *)
ClientsConclude ==
  \A o \in Observers : Registered(o) ~> (o \in ready \/ ~Registered(o))

(* Stop returns, whatever the reader was doing when it was called.         *)
StopReturns ==
  ClientsConclude => ((stopping = "joining") ~> (stopping = "joined"))

(* A new observer is moved to observers_ unless the reader ends first.     *)
NewObserverServed ==
  ClientsConclude =>
    \A o \in Observers :
      Contains(new_observers_, o) ~>
        (~Contains(new_observers_, o) \/ pc = "done")
=============================================================================
