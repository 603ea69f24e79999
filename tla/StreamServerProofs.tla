-------------------------- MODULE StreamServerProofs --------------------------
(***************************************************************************)
(* Safety of the life of a transport, for every number of sources and      *)
(* transports, with and without the GOP cache.                             *)
(***************************************************************************)
EXTENDS StreamServer, TLAPS

-----------------------------------------------------------------------------
(* What the manager's queue holds after a lambda was posted or run.        *)

LEMMA PostedAppend ==
  ASSUME NEW q \in Seq(Lambdas), NEW op \in {"Add", "Remove"},
         NEW a \in {"Add", "Remove"}, NEW t \in Transports, NEW u \in Transports
  PROVE  Posted(op, t, Append(q, [op |-> a, transport |-> u]))
           <=> Posted(op, t, q) \/ (a = op /\ u = t)
  BY DEF Posted, Lambdas

LEMMA PostedTail ==
  ASSUME NEW q \in Seq(Lambdas), q # <<>>, NEW op \in {"Add", "Remove"},
         NEW t \in Transports
  PROVE  Posted(op, t, q)
           <=> Posted(op, t, Tail(q))
                 \/ (Head(q).op = op /\ Head(q).transport = t)
<1> DEFINE m == [op |-> op, transport |-> t]
<1>1. Len(Tail(q)) = Len(q) - 1 /\ Len(q) \in Nat \ {0} /\ Head(q) = q[1]
  OBVIOUS
<1>2. \A i \in 1..Len(Tail(q)) : Tail(q)[i] = q[i + 1]
  OBVIOUS
<1>3. Head(q) \in Lambdas
  OBVIOUS
<1>4. Head(q) = m <=> Head(q).op = op /\ Head(q).transport = t
  BY <1>3 DEF Lambdas
<1>5. ASSUME NEW i \in 1..Len(q), q[i] = m
      PROVE  Head(q) = m \/ \E k \in 1..Len(Tail(q)) : Tail(q)[k] = m
  <2>1. CASE i = 1
    BY <2>1, <1>1, <1>5
  <2>2. CASE i # 1
    <3>1. i - 1 \in 1..Len(Tail(q)) /\ (i - 1) + 1 = i
      BY <2>2, <1>1
    <3>2. Tail(q)[i - 1] = m
      BY <3>1, <1>2, <1>5
    <3> QED BY <3>1, <3>2
  <2> QED BY <2>1, <2>2
<1>6. ASSUME NEW k \in 1..Len(Tail(q)), Tail(q)[k] = m
      PROVE  \E i \in 1..Len(q) : q[i] = m
  <2>1. k + 1 \in 1..Len(q) /\ q[k + 1] = m
    BY <1>1, <1>2, <1>6
  <2> QED BY <2>1
<1>7. Head(q) = m => \E i \in 1..Len(q) : q[i] = m
  BY <1>1
<1> QED BY <1>4, <1>5, <1>6, <1>7 DEF Posted

(* The lambda at the head is of a transport that is alive.                 *)
LEMMA HeadOfQueue ==
  ASSUME IInv, queue # <<>>
  PROVE  /\ Head(queue) \in Lambdas /\ Head(queue).transport \in Transports
         /\ Tail(queue) \in Seq(Lambdas)
         /\ Posted(Head(queue).op, Head(queue).transport, queue)
         /\ life[Head(queue).transport] = "alive"
<1>1. queue \in Seq(Lambdas)
  BY DEF IInv, TypeOK
<1>2. Head(queue) \in Lambdas /\ Tail(queue) \in Seq(Lambdas)
  BY <1>1
<1>3. Head(queue).op \in {"Add", "Remove"} /\ Head(queue).transport \in
    Transports
  BY <1>2 DEF Lambdas
<1>4. Posted(Head(queue).op, Head(queue).transport, queue)
  BY <1>1, <1>3, PostedTail
<1>5. Referenced(Head(queue).transport)
  BY <1>3, <1>4 DEF Referenced, InQueue
<1> QED BY <1>2, <1>3, <1>4, <1>5 DEF IInv, AliveIffReferenced

LEMMA HolderOfRef ==
  ASSUME IInv
  PROVE  /\ spc \in {"register", "add", "drop"} =>
              created \in Transports /\ life[created] = "alive"
         /\ mpc = "stop" => current \in Transports /\ life[current] = "alive"
         /\ \A s \in Sources : reader[s] = "told" =>
              /\ told[s] \in Transports /\ life[told[s]] = "alive"
              /\ stream_id_[told[s]] = s
  BY DEF IInv, TypeOK, AliveIffReferenced, Referenced, LocalRef, ManagerRef,
      ReaderRef, WalkInv

LEMMA QueueAfterPost ==
  ASSUME IInv, NEW a \in {"Add", "Remove"}, NEW u \in Transports, Post(a, u)
  PROVE  /\ queue' \in Seq(Lambdas)
         /\ \A op \in {"Add", "Remove"}, t \in Transports :
              Posted(op, t, queue')
                <=> Posted(op, t, queue) \/ (a = op /\ u = t)
<1>1. queue \in Seq(Lambdas) /\ [op |-> a, transport |-> u] \in Lambdas
  BY DEF IInv, TypeOK, Lambdas
<1>2. queue' = Append(queue, [op |-> a, transport |-> u])
  BY DEF Post
<1> QED BY <1>1, <1>2, PostedAppend

LEMMA QueueAfterRun ==
  ASSUME IInv, queue # <<>>, queue' = Tail(queue)
  PROVE  \A op \in {"Add", "Remove"}, t \in Transports :
           Posted(op, t, queue)
             <=> Posted(op, t, queue')
                   \/ (Head(queue).op = op /\ Head(queue).transport = t)
  BY PostedTail DEF IInv, TypeOK

(* What registering changes: the transport, which is alive, joins one list *)
(* of the source that the signaling thread looked up.                      *)
LEMMA RegisterEffect ==
  ASSUME IInv, RegisterObserver
  PROVE  /\ source \in database_ /\ source \in Sources
         /\ created \in Transports /\ life[created] = "alive"
         /\ stream_id_[created] = source
         /\ MutexFree(source)
         /\ spc = "register" /\ spc' = "add"
         /\ observers_' \in [Sources -> SUBSET Transports]
         /\ new_observers_' \in [Sources -> SUBSET Transports]
         /\ \A s \in Sources, t \in Transports :
              t \in observers_'[s] \cup new_observers_'[s] =>
                t \in observers_[s] \cup new_observers_[s]
                  \/ (s = source /\ t = created)
         /\ \A s \in Sources :
              /\ \/ observers_'[s] = observers_[s]
                 \/ s = source /\ observers_'[s] = observers_[s] \cup {created}
              /\ \/ new_observers_'[s] = new_observers_[s]
                 \/ /\ s = source /\ EnableGopCache
                    /\ new_observers_'[s] = new_observers_[s] \cup {created}
         /\ UNCHANGED <<database_, closed_, reader, cached, todo, told, source,
                        created, managerVars, queue, stream_id_, life,
                        threadVars, terminated>>
<1>1. /\ source \in Sources /\ created \in Transports
      /\ observers_ \in [Sources -> SUBSET Transports]
      /\ new_observers_ \in [Sources -> SUBSET Transports]
  BY DEF RegisterObserver, IInv, TypeOK
<1>2. CASE EnableGopCache
  <2>1. /\ new_observers_' =
              [new_observers_ EXCEPT ![source] = new_observers_[source] \cup {created}]
        /\ observers_' = observers_
    BY <1>2 DEF RegisterObserver
  <2> QED BY <1>1, <1>2, <2>1, HolderOfRef DEF RegisterObserver, IInv,
             SourceInv
<1>3. CASE ~EnableGopCache
  <2>1. /\ observers_' =
              [observers_ EXCEPT ![source] = observers_[source] \cup {created}]
        /\ new_observers_' = new_observers_
    BY <1>3 DEF RegisterObserver
  <2> QED BY <1>1, <2>1, HolderOfRef DEF RegisterObserver, IInv, SourceInv
<1> QED BY <1>2, <1>3

(* Dropping a shared_ptr changes the life of no transport but the one, and *)
(* that only from alive to its destructor.                                 *)
LEMMA DropEffect ==
  ASSUME IInv, \/ DropLocal \/ StopJoined \/ RunRemoveMissing
               \/ \E s \in Sources : DropTold(s)
  PROVE  /\ life' \in [Transports -> {"unborn", "alive", "destructor",
                                     "deregister", "freed"}]
         /\ \A u \in Transports :
              life'[u] = life[u] \/ (life[u] = "alive" /\ life'[u] = "destructor")
<1>1. life \in [Transports -> {"unborn", "alive", "destructor", "deregister",
                              "freed"}]
  BY DEF IInv, TypeOK
<1>2. CASE DropLocal
  BY <1>1, <1>2, HolderOfRef DEF DropLocal
<1>3. CASE StopJoined
  BY <1>1, <1>3, HolderOfRef DEF StopJoined
<1>4. CASE RunRemoveMissing
  BY <1>1, <1>4, HeadOfQueue DEF RunRemoveMissing
<1>5. ASSUME NEW s \in Sources, DropTold(s)
      PROVE  \/ UNCHANGED life
             \/ /\ life' = [life EXCEPT ![told[s]] = "destructor"]
                /\ told[s] \in Transports /\ life[told[s]] = "alive"
  BY <1>5, HolderOfRef DEF DropTold
<1>6. CASE \E s \in Sources : DropTold(s)
  BY <1>1, <1>5, <1>6
<1> QED BY <1>2, <1>3, <1>4, <1>6

(* What telling the end of a stream changes: the reader takes a reference  *)
(* to an observer, which plays the source of the reader, ...               *)
LEMMA TellEffect ==
  ASSUME IInv, NEW s \in Sources, NEW t \in Transports, TellEnd(s, t)
  PROVE  /\ reader[s] = "end" /\ stream_id_[t] = s
         /\ reader' \in [Sources -> ReaderLabels]
         /\ told' \in [Sources -> Transports \cup {NoTransport}]
         /\ todo' \in [Sources -> SUBSET Transports]
         /\ \A r \in Sources : todo'[r] \subseteq todo[r]
         /\ \A r \in Sources : r # s => reader'[r] = reader[r] /\ told'[r] = told[r]
         /\ \/ Referenced(t) /\ reader'[s] = "told" /\ told'[s] = t
            \/ ~Referenced(t) /\ reader'[s] = "end" /\ told'[s] = told[s]
<1>1. /\ reader \in [Sources -> ReaderLabels]
      /\ told \in [Sources -> Transports \cup {NoTransport}]
      /\ todo \in [Sources -> SUBSET Transports]
  BY DEF IInv, TypeOK
<1>2. reader[s] = "end" /\ t \in todo[s]
  BY DEF TellEnd
<1>3. stream_id_[t] = s
  <2>1. t \in observers_[s]
    BY <1>2 DEF IInv, WalkInv
  <2> QED BY ONLY <2>1, IInv DEF IInv, ListedAreLive
<1>4. todo' = [todo EXCEPT ![s] = @ \ {t}]
  BY DEF TellEnd
<1>5. CASE Referenced(t)
  <2>1. reader' = [reader EXCEPT ![s] = "told"] /\ told' = [told EXCEPT ![s] = t]
    BY <1>5 DEF TellEnd
  <2> QED BY ONLY <1>1, <1>2, <1>3, <1>4, <1>5, <2>1 DEF ReaderLabels, Walking
<1>6. CASE ~Referenced(t)
  <2>1. reader' = reader /\ told' = told
    BY <1>6 DEF TellEnd
  <2> QED BY ONLY <1>1, <1>2, <1>3, <1>4, <1>6, <2>1
<1> QED BY <1>5, <1>6

(* ... and what dropping it changes.                                       *)
LEMMA DropToldEffect ==
  ASSUME IInv, NEW s \in Sources, DropTold(s)
  PROVE  /\ reader[s] = "told" /\ told[s] \in Transports
         /\ stream_id_[told[s]] = s /\ life[told[s]] = "alive"
         /\ reader' \in [Sources -> ReaderLabels]
         /\ told' \in [Sources -> Transports \cup {NoTransport}]
         /\ \A r \in Sources : r # s => reader'[r] = reader[r] /\ told'[r] = told[r]
         /\ \/ /\ LocalRef(told[s]) \/ ManagerRef(told[s]) \/ InQueue(told[s], queue)
               /\ reader'[s] = "end" /\ UNCHANGED life
            \/ /\ ~(LocalRef(told[s]) \/ ManagerRef(told[s]) \/ InQueue(told[s], queue))
               /\ reader'[s] = "destroy" /\ told'[s] = told[s]
               /\ life' = [life EXCEPT ![told[s]] = "destructor"]
<1>1. /\ reader \in [Sources -> ReaderLabels]
      /\ told \in [Sources -> Transports \cup {NoTransport}]
  BY DEF IInv, TypeOK
<1>2. reader[s] = "told"
  BY DEF DropTold
<1>3. /\ told[s] \in Transports /\ stream_id_[told[s]] = s
      /\ life[told[s]] = "alive"
  BY <1>2, HolderOfRef
<1>4. CASE LocalRef(told[s]) \/ ManagerRef(told[s]) \/ InQueue(told[s], queue)
  <2>1. /\ reader' = [reader EXCEPT ![s] = "end"]
        /\ told' = [told EXCEPT ![s] = NoTransport] /\ UNCHANGED life
    BY <1>4 DEF DropTold
  <2> QED BY ONLY <1>1, <1>2, <1>3, <1>4, <2>1 DEF ReaderLabels, Walking
<1>5. CASE ~(LocalRef(told[s]) \/ ManagerRef(told[s]) \/ InQueue(told[s], queue))
  <2>1. /\ reader' = [reader EXCEPT ![s] = "destroy"] /\ told' = told
        /\ life' = [life EXCEPT ![told[s]] = "destructor"]
    BY <1>5 DEF DropTold
  <2> QED BY ONLY <1>1, <1>2, <1>3, <1>5, <2>1 DEF ReaderLabels, Walking
<1> QED BY <1>4, <1>5

-----------------------------------------------------------------------------
(* Every step preserves the types. *)
LEMMA TypeOKStep == IInv /\ [Next]_vars => TypeOK'
<1> SUFFICES ASSUME IInv, [Next]_vars PROVE TypeOK'
  OBVIOUS
<1> USE DEF IInv, TypeOK, sourceVars, signalingVars, managerVars, threadVars,
        Walking, ReaderLabels, Post, Lambdas
<1>1. ASSUME NEW u \in Urls, AddListed(u)
       PROVE  TypeOK'
  BY <1>1 DEF AddListed
<1>2. ASSUME NEW u \in Urls, AddNew(u)
       PROVE  TypeOK'
  BY <1>2 DEF AddNew
<1>3. CASE AddReplied
  BY <1>3 DEF AddReplied
<1>4. ASSUME NEW s \in Sources, Remove(s)
       PROVE  TypeOK'
  BY <1>4 DEF Remove
<1>5. CASE RemoveJoined
  BY <1>5 DEF RemoveJoined
<1>6. ASSUME NEW s \in Sources, NEW t \in Transports, Play(s, t)
       PROVE  TypeOK'
  BY <1>6 DEF Play
<1>7. ASSUME NEW s \in Sources, NEW t \in Transports, PlayFails(s, t)
       PROVE  TypeOK'
  BY <1>7 DEF PlayFails
<1>8. CASE RegisterObserver
  BY <1>8, RegisterEffect
<1>9. CASE PostAdd
  BY <1>9 DEF PostAdd
<1>10. CASE DropLocal
  BY <1>10, HolderOfRef, DropEffect DEF DropLocal
<1>11. CASE RunAdd
  BY <1>11, HeadOfQueue DEF RunAdd
<1>12. CASE RunRemove
  BY <1>12, HeadOfQueue DEF RunRemove
<1>13. CASE StopJoined
  BY <1>13, HolderOfRef, DropEffect DEF StopJoined
<1>14. CASE RunRemoveMissing
  BY <1>14, HeadOfQueue, DropEffect DEF RunRemoveMissing
<1>15. ASSUME NEW t \in Transports, DestructorQuery(t)
       PROVE  TypeOK'
  BY <1>15 DEF DestructorQuery
<1>16. ASSUME NEW t \in Transports, DeregisterObserver(t)
       PROVE  TypeOK'
  BY <1>16 DEF DeregisterObserver
<1>17. CASE SignalingDestroyed
  BY <1>17 DEF SignalingDestroyed
<1>18. CASE ManagerDestroyed
  BY <1>18 DEF ManagerDestroyed
<1>19. ASSUME NEW t \in Transports, OnDtlsTransportSetup(t)
       PROVE  TypeOK'
  BY <1>19 DEF OnDtlsTransportSetup
<1>20. ASSUME NEW t \in Transports, Shutdown(t)
       PROVE  TypeOK'
  BY <1>20, MaxErrorsAssumption DEF Shutdown
<1>21. ASSUME NEW t \in Transports, PostRemove(t)
       PROVE  TypeOK'
  BY <1>21 DEF PostRemove
<1>22. ASSUME NEW s \in Sources, LoopHead(s)
       PROVE  TypeOK'
  BY <1>22 DEF LoopHead
<1>23. ASSUME NEW s \in Sources, CheckNewObserver(s)
       PROVE  TypeOK'
  BY <1>23 DEF CheckNewObserver
<1>24. ASSUME NEW s \in Sources, NEW t \in Transports, ServeNewObserver(s, t)
       PROVE  TypeOK'
  BY <1>24 DEF ServeNewObserver
<1>25. ASSUME NEW s \in Sources, EndCheck(s)
       PROVE  TypeOK'
  BY <1>25 DEF EndCheck
<1>26. ASSUME NEW s \in Sources, ReadFrame(s)
       PROVE  TypeOK'
  BY <1>26 DEF ReadFrame
<1>27. ASSUME NEW s \in Sources, BeginWalk(s)
       PROVE  TypeOK'
  BY <1>27 DEF BeginWalk
<1>28. ASSUME NEW s \in Sources, NEW t \in Transports, Deliver(s, t)
       PROVE  TypeOK'
  BY <1>28 DEF Deliver
<1>29. ASSUME NEW s \in Sources, NEW next \in {"loop", "wait_deliver"},
              EndDelivery(s, next)
       PROVE  TypeOK'
  BY <1>29, GopAssumption DEF EndDelivery
<1>30. ASSUME NEW s \in Sources, NEW t \in Transports, TellEnd(s, t)
       PROVE  TypeOK'
  <2>1. queue' \in Seq(Lambdas) /\ terminated' \in BOOLEAN
    <3>1. CASE Referenced(t)
      BY <1>30, <3>1, QueueAfterPost DEF TellEnd
    <3>2. CASE ~Referenced(t)
      BY <1>30, <3>2 DEF TellEnd
    <3> QED BY <3>1, <3>2
  <2>2. /\ reader' \in [Sources -> ReaderLabels]
        /\ told' \in [Sources -> Transports \cup {NoTransport}]
        /\ todo' \in [Sources -> SUBSET Transports]
        /\ \A r \in Sources :
             reader'[r] \in {"told", "destroy"} => told'[r] \in Transports
    <3> HIDE DEF IInv, TypeOK, ReaderLabels
    <3>1. /\ reader' \in [Sources -> ReaderLabels]
          /\ told' \in [Sources -> Transports \cup {NoTransport}]
          /\ todo' \in [Sources -> SUBSET Transports]
      BY ONLY IInv, <1>30, TellEffect
    <3>2. /\ \A r \in Sources : r # s => reader'[r] = reader[r] /\ told'[r] = told[r]
          /\ (reader'[s] = "told" /\ told'[s] = t) \/ reader'[s] = "end"
      BY ONLY IInv, <1>30, TellEffect
    <3>3. \A r \in Sources : reader[r] \in {"told", "destroy"} => told[r] \in Transports
      BY DEF IInv, TypeOK
    <3> QED BY ONLY <3>1, <3>2, <3>3
  <2> QED BY <1>30, <2>1, <2>2 DEF TellEnd
<1>31. ASSUME NEW s \in Sources, EndOfStream(s)
       PROVE  TypeOK'
  BY <1>31 DEF EndOfStream
<1>32. ASSUME NEW s \in Sources, StopNext(s)
       PROVE  TypeOK'
  BY <1>32 DEF StopNext
<1>33. CASE StopNextJoined
  BY <1>33 DEF StopNextJoined
<1>34. CASE Exit
  BY <1>34 DEF Exit
<1>35. CASE UNCHANGED vars
  BY <1>35 DEF vars
<1>36. ASSUME NEW s \in Sources, DropTold(s)
       PROVE  TypeOK'
  <2>1. /\ reader' \in [Sources -> ReaderLabels]
        /\ told' \in [Sources -> Transports \cup {NoTransport}]
        /\ \A r \in Sources :
             reader'[r] \in {"told", "destroy"} => told'[r] \in Transports
    BY ONLY IInv, <1>36, DropToldEffect DEF IInv, TypeOK
  <2>2. /\ life' \in [Transports -> {"unborn", "alive", "destructor",
                                     "deregister", "freed"}]
        /\ \A t \in Transports : life'[t] # "unborn" => stream_id_[t] \in Sources
    BY ONLY IInv, <1>36, DropEffect DEF IInv, TypeOK
  <2> QED BY <1>36, <2>1, <2>2 DEF DropTold
<1> QED
  BY <1>1, <1>2, <1>3, <1>4, <1>5, <1>6, <1>7, <1>8, <1>9, <1>10, <1>11,
     <1>12, <1>13, <1>14, <1>15, <1>16, <1>17, <1>18, <1>19, <1>20, <1>21,
     <1>22, <1>23, <1>24, <1>25, <1>26, <1>27, <1>28, <1>29, <1>30, <1>31,
     <1>32, <1>33, <1>34, <1>35, <1>36
  DEF Next, Signaling, SignalingGoesOn, Manager, Destructor, Transport, Reader,
      NextOpusPacket, EndFrame

(* Nobody else changes a list while the reader walks it. *)
LEMMA WalkInvStep == IInv /\ [Next]_vars => WalkInv'
<1> SUFFICES ASSUME IInv, [Next]_vars PROVE WalkInv'
  OBVIOUS
<1> USE DEF IInv, WalkInv, TypeOK, sourceVars, signalingVars, managerVars,
        threadVars, Walking, ReaderLabels, MutexFree
<1>1. ASSUME NEW u \in Urls, AddListed(u)
       PROVE  WalkInv'
  BY <1>1 DEF AddListed
<1>2. ASSUME NEW u \in Urls, AddNew(u)
       PROVE  WalkInv'
  BY <1>2 DEF AddNew
<1>3. CASE AddReplied
  BY <1>3 DEF AddReplied
<1>4. ASSUME NEW s \in Sources, Remove(s)
       PROVE  WalkInv'
  BY <1>4 DEF Remove
<1>5. CASE RemoveJoined
  BY <1>5 DEF RemoveJoined
<1>6. ASSUME NEW s \in Sources, NEW t \in Transports, Play(s, t)
       PROVE  WalkInv'
  <2>1. \A r \in Sources : reader[r] = "told" => told[r] # t /\ told[r] \in Transports
    BY ONLY IInv, <1>6, HolderOfRef DEF Play
  <2>2. \A r \in Sources : reader[r] = "told" => stream_id_'[told[r]] = r
    BY ONLY IInv, <1>6, <2>1, HolderOfRef DEF Play, IInv, TypeOK
  <2> QED BY <1>6, <2>2 DEF Play
<1>7. ASSUME NEW s \in Sources, NEW t \in Transports, PlayFails(s, t)
       PROVE  WalkInv'
  <2>1. \A r \in Sources : reader[r] = "told" => told[r] # t /\ told[r] \in Transports
    BY ONLY IInv, <1>7, HolderOfRef DEF PlayFails
  <2>2. \A r \in Sources : reader[r] = "told" => stream_id_'[told[r]] = r
    BY ONLY IInv, <1>7, <2>1, HolderOfRef DEF PlayFails, IInv, TypeOK
  <2> QED BY <1>7, <2>2 DEF PlayFails
<1>8. CASE RegisterObserver
  BY <1>8, RegisterEffect
<1>9. CASE PostAdd
  BY <1>9 DEF PostAdd
<1>10. CASE DropLocal
  BY <1>10 DEF DropLocal
<1>11. CASE RunAdd
  BY <1>11 DEF RunAdd
<1>12. CASE RunRemove
  BY <1>12 DEF RunRemove
<1>13. CASE StopJoined
  BY <1>13 DEF StopJoined
<1>14. CASE RunRemoveMissing
  BY <1>14 DEF RunRemoveMissing
<1>15. ASSUME NEW t \in Transports, DestructorQuery(t)
       PROVE  WalkInv'
  BY <1>15 DEF DestructorQuery
<1>16. ASSUME NEW t \in Transports, DeregisterObserver(t)
       PROVE  WalkInv'
  BY <1>16 DEF DeregisterObserver
<1>17. CASE SignalingDestroyed
  BY <1>17 DEF SignalingDestroyed
<1>18. CASE ManagerDestroyed
  BY <1>18 DEF ManagerDestroyed
<1>19. ASSUME NEW t \in Transports, OnDtlsTransportSetup(t)
       PROVE  WalkInv'
  BY <1>19 DEF OnDtlsTransportSetup
<1>20. ASSUME NEW t \in Transports, Shutdown(t)
       PROVE  WalkInv'
  BY <1>20 DEF Shutdown
<1>21. ASSUME NEW t \in Transports, PostRemove(t)
       PROVE  WalkInv'
  BY <1>21 DEF PostRemove
<1>22. ASSUME NEW s \in Sources, LoopHead(s)
       PROVE  WalkInv'
  BY <1>22 DEF LoopHead
<1>23. ASSUME NEW s \in Sources, CheckNewObserver(s)
       PROVE  WalkInv'
  BY <1>23 DEF CheckNewObserver
<1>24. ASSUME NEW s \in Sources, NEW t \in Transports, ServeNewObserver(s, t)
       PROVE  WalkInv'
  BY <1>24 DEF ServeNewObserver
<1>25. ASSUME NEW s \in Sources, EndCheck(s)
       PROVE  WalkInv'
  BY <1>25 DEF EndCheck
<1>26. ASSUME NEW s \in Sources, ReadFrame(s)
       PROVE  WalkInv'
  BY <1>26 DEF ReadFrame
<1>27. ASSUME NEW s \in Sources, BeginWalk(s)
       PROVE  WalkInv'
  BY <1>27 DEF BeginWalk
<1>28. ASSUME NEW s \in Sources, NEW t \in Transports, Deliver(s, t)
       PROVE  WalkInv'
  BY <1>28 DEF Deliver
<1>29. ASSUME NEW s \in Sources, NEW next \in {"loop", "wait_deliver"},
              EndDelivery(s, next)
       PROVE  WalkInv'
  BY <1>29 DEF EndDelivery
<1>30. ASSUME NEW s \in Sources, NEW t \in Transports, TellEnd(s, t)
       PROVE  WalkInv'
  <2>1. UNCHANGED <<observers_, new_observers_, stream_id_>>
    BY <1>30 DEF TellEnd
  <2>2. WalkInv
    OBVIOUS
  <2> HIDE DEF IInv, TypeOK, WalkInv, ReaderLabels
  <2>3. /\ reader[s] = "end" /\ stream_id_[t] = s
        /\ \A r \in Sources : todo'[r] \subseteq todo[r]
        /\ \A r \in Sources : r # s => reader'[r] = reader[r] /\ told'[r] = told[r]
        /\ (reader'[s] = "told" /\ told'[s] = t) \/ reader'[s] = "end"
    BY ONLY IInv, <1>30, TellEffect
  <2> QED BY ONLY <2>1, <2>2, <2>3 DEF WalkInv, Walking
<1>31. ASSUME NEW s \in Sources, EndOfStream(s)
       PROVE  WalkInv'
  BY <1>31 DEF EndOfStream
<1>32. ASSUME NEW s \in Sources, StopNext(s)
       PROVE  WalkInv'
  BY <1>32 DEF StopNext
<1>33. CASE StopNextJoined
  BY <1>33 DEF StopNextJoined
<1>34. CASE Exit
  BY <1>34 DEF Exit
<1>35. CASE UNCHANGED vars
  BY <1>35 DEF vars
<1>36. ASSUME NEW s \in Sources, DropTold(s)
       PROVE  WalkInv'
  <2>1. UNCHANGED <<todo, observers_, new_observers_, stream_id_>>
    BY <1>36 DEF DropTold
  <2> QED BY ONLY IInv, <1>36, <2>1, DropToldEffect DEF IInv, WalkInv, Walking
<1> QED
  BY <1>1, <1>2, <1>3, <1>4, <1>5, <1>6, <1>7, <1>8, <1>9, <1>10, <1>11,
     <1>12, <1>13, <1>14, <1>15, <1>16, <1>17, <1>18, <1>19, <1>20, <1>21,
     <1>22, <1>23, <1>24, <1>25, <1>26, <1>27, <1>28, <1>29, <1>30, <1>31,
     <1>32, <1>33, <1>34, <1>35, <1>36
  DEF Next, Signaling, SignalingGoesOn, Manager, Destructor, Transport, Reader,
      NextOpusPacket, EndFrame

(* A source is erased only after its reader was joined, and a transport
   is registered only with a source that is listed. *)
LEMMA SourceInvStep == IInv /\ [Next]_vars => SourceInv'
<1> SUFFICES ASSUME IInv, [Next]_vars PROVE SourceInv'
  OBVIOUS
<1> USE DEF IInv, SourceInv, TypeOK, sourceVars, signalingVars, managerVars,
        threadVars, Walking, ReaderLabels, MutexFree, BornInv, ListedAreLive
<1>1. ASSUME NEW u \in Urls, AddListed(u)
       PROVE  SourceInv'
  BY <1>1 DEF AddListed
<1>2. ASSUME NEW u \in Urls, AddNew(u)
       PROVE  SourceInv'
  BY <1>2 DEF AddNew
<1>3. CASE AddReplied
  BY <1>3 DEF AddReplied
<1>4. ASSUME NEW s \in Sources, Remove(s)
       PROVE  SourceInv'
  BY <1>4 DEF Remove
<1>5. CASE RemoveJoined
  BY <1>5 DEF RemoveJoined
<1>6. ASSUME NEW s \in Sources, NEW t \in Transports, Play(s, t)
       PROVE  SourceInv'
  BY <1>6 DEF Play
<1>7. ASSUME NEW s \in Sources, NEW t \in Transports, PlayFails(s, t)
       PROVE  SourceInv'
  BY <1>7 DEF PlayFails
<1>8. CASE RegisterObserver
  <2>1. reader' = reader /\ database_' = database_ /\ spc' = "add"
    BY <1>8, RegisterEffect
  <2>2. ASSUME NEW s \in Sources, reader[s] = "unstarted"
        PROVE  observers_'[s] = {} /\ new_observers_'[s] = {}
    <3>1. s # source
      BY <1>8, <2>2, RegisterEffect
    <3> QED BY <1>8, <2>2, <3>1, RegisterEffect
  <2>3. ASSUME NEW s \in Sources, ~EnableGopCache
        PROVE  new_observers_'[s] = {}
    BY <1>8, <2>3, RegisterEffect
  <2> QED BY <2>1, <2>2, <2>3
<1>9. CASE PostAdd
  BY <1>9 DEF PostAdd
<1>10. CASE DropLocal
  BY <1>10 DEF DropLocal
<1>11. CASE RunAdd
  BY <1>11 DEF RunAdd
<1>12. CASE RunRemove
  BY <1>12 DEF RunRemove
<1>13. CASE StopJoined
  BY <1>13 DEF StopJoined
<1>14. CASE RunRemoveMissing
  BY <1>14 DEF RunRemoveMissing
<1>15. ASSUME NEW t \in Transports, DestructorQuery(t)
       PROVE  SourceInv'
  BY <1>15 DEF DestructorQuery
<1>16. ASSUME NEW t \in Transports, DeregisterObserver(t)
       PROVE  SourceInv'
  BY <1>16 DEF DeregisterObserver
<1>17. CASE SignalingDestroyed
  BY <1>17 DEF SignalingDestroyed
<1>18. CASE ManagerDestroyed
  BY <1>18 DEF ManagerDestroyed
<1>19. ASSUME NEW t \in Transports, OnDtlsTransportSetup(t)
       PROVE  SourceInv'
  BY <1>19 DEF OnDtlsTransportSetup
<1>20. ASSUME NEW t \in Transports, Shutdown(t)
       PROVE  SourceInv'
  BY <1>20 DEF Shutdown
<1>21. ASSUME NEW t \in Transports, PostRemove(t)
       PROVE  SourceInv'
  BY <1>21 DEF PostRemove
<1>22. ASSUME NEW s \in Sources, LoopHead(s)
       PROVE  SourceInv'
  BY <1>22 DEF LoopHead
<1>23. ASSUME NEW s \in Sources, CheckNewObserver(s)
       PROVE  SourceInv'
  BY <1>23 DEF CheckNewObserver
<1>24. ASSUME NEW s \in Sources, NEW t \in Transports, ServeNewObserver(s, t)
       PROVE  SourceInv'
  BY <1>24 DEF ServeNewObserver
<1>25. ASSUME NEW s \in Sources, EndCheck(s)
       PROVE  SourceInv'
  BY <1>25 DEF EndCheck
<1>26. ASSUME NEW s \in Sources, ReadFrame(s)
       PROVE  SourceInv'
  BY <1>26 DEF ReadFrame
<1>27. ASSUME NEW s \in Sources, BeginWalk(s)
       PROVE  SourceInv'
  BY <1>27 DEF BeginWalk
<1>28. ASSUME NEW s \in Sources, NEW t \in Transports, Deliver(s, t)
       PROVE  SourceInv'
  BY <1>28 DEF Deliver
<1>29. ASSUME NEW s \in Sources, NEW next \in {"loop", "wait_deliver"},
              EndDelivery(s, next)
       PROVE  SourceInv'
  BY <1>29 DEF EndDelivery
<1>30. ASSUME NEW s \in Sources, NEW t \in Transports, TellEnd(s, t)
       PROVE  SourceInv'
  BY <1>30 DEF TellEnd
<1>31. ASSUME NEW s \in Sources, EndOfStream(s)
       PROVE  SourceInv'
  BY <1>31 DEF EndOfStream
<1>32. ASSUME NEW s \in Sources, StopNext(s)
       PROVE  SourceInv'
  BY <1>32 DEF StopNext
<1>33. CASE StopNextJoined
  BY <1>33 DEF StopNextJoined
<1>34. CASE Exit
  BY <1>34 DEF Exit
<1>35. CASE UNCHANGED vars
  BY <1>35 DEF vars
<1>36. ASSUME NEW s \in Sources, DropTold(s)
       PROVE  SourceInv'
  BY <1>36 DEF DropTold
<1> QED
  BY <1>1, <1>2, <1>3, <1>4, <1>5, <1>6, <1>7, <1>8, <1>9, <1>10, <1>11,
     <1>12, <1>13, <1>14, <1>15, <1>16, <1>17, <1>18, <1>19, <1>20, <1>21,
     <1>22, <1>23, <1>24, <1>25, <1>26, <1>27, <1>28, <1>29, <1>30, <1>31,
     <1>32, <1>33, <1>34, <1>35, <1>36
  DEF Next, Signaling, SignalingGoesOn, Manager, Destructor, Transport, Reader,
      NextOpusPacket, EndFrame

(* What is on a list or has a thread was constructed. *)
LEMMA BornInvStep == IInv /\ [Next]_vars => BornInv'
<1> SUFFICES ASSUME IInv, [Next]_vars PROVE BornInv'
  OBVIOUS
<1> USE DEF IInv, BornInv, TypeOK, sourceVars, signalingVars, managerVars,
        threadVars, Walking, WalkInv, SourceInv
<1>1. ASSUME NEW u \in Urls, AddListed(u)
       PROVE  BornInv'
  BY <1>1 DEF AddListed
<1>2. ASSUME NEW u \in Urls, AddNew(u)
       PROVE  BornInv'
  BY <1>2 DEF AddNew
<1>3. CASE AddReplied
  BY <1>3 DEF AddReplied
<1>4. ASSUME NEW s \in Sources, Remove(s)
       PROVE  BornInv'
  BY <1>4 DEF Remove
<1>5. CASE RemoveJoined
  BY <1>5 DEF RemoveJoined
<1>6. ASSUME NEW s \in Sources, NEW t \in Transports, Play(s, t)
       PROVE  BornInv'
  BY <1>6 DEF Play
<1>7. ASSUME NEW s \in Sources, NEW t \in Transports, PlayFails(s, t)
       PROVE  BornInv'
  BY <1>7 DEF PlayFails
<1>8. CASE RegisterObserver
  <2>1. UNCHANGED <<life, work_thread_>>
    BY <1>8, RegisterEffect
  <2>2. ASSUME NEW t \in Transports, life[t] = "unborn", NEW s \in Sources
        PROVE  t \notin observers_'[s] /\ t \notin new_observers_'[s]
    <3>1. t # created /\ t \notin observers_[s] \cup new_observers_[s]
      BY <1>8, <2>2, RegisterEffect
    <3> QED BY <1>8, <3>1, RegisterEffect
  <2> QED BY <2>1, <2>2
<1>9. CASE PostAdd
  BY <1>9 DEF PostAdd
<1>10. CASE DropLocal
  BY <1>10, DropEffect DEF DropLocal
<1>11. CASE RunAdd
  BY <1>11 DEF RunAdd
<1>12. CASE RunRemove
  BY <1>12, HeadOfQueue DEF RunRemove
<1>13. CASE StopJoined
  BY <1>13, DropEffect DEF StopJoined
<1>14. CASE RunRemoveMissing
  BY <1>14, DropEffect DEF RunRemoveMissing
<1>15. ASSUME NEW t \in Transports, DestructorQuery(t)
       PROVE  BornInv'
  BY <1>15 DEF DestructorQuery
<1>16. ASSUME NEW t \in Transports, DeregisterObserver(t)
       PROVE  BornInv'
  BY <1>16 DEF DeregisterObserver
<1>17. CASE SignalingDestroyed
  BY <1>17 DEF SignalingDestroyed
<1>18. CASE ManagerDestroyed
  BY <1>18 DEF ManagerDestroyed
<1>19. ASSUME NEW t \in Transports, OnDtlsTransportSetup(t)
       PROVE  BornInv'
  BY <1>19 DEF OnDtlsTransportSetup
<1>20. ASSUME NEW t \in Transports, Shutdown(t)
       PROVE  BornInv'
  BY <1>20 DEF Shutdown
<1>21. ASSUME NEW t \in Transports, PostRemove(t)
       PROVE  BornInv'
  BY <1>21 DEF PostRemove
<1>22. ASSUME NEW s \in Sources, LoopHead(s)
       PROVE  BornInv'
  BY <1>22 DEF LoopHead
<1>23. ASSUME NEW s \in Sources, CheckNewObserver(s)
       PROVE  BornInv'
  BY <1>23 DEF CheckNewObserver
<1>24. ASSUME NEW s \in Sources, NEW t \in Transports, ServeNewObserver(s, t)
       PROVE  BornInv'
  BY <1>24 DEF ServeNewObserver
<1>25. ASSUME NEW s \in Sources, EndCheck(s)
       PROVE  BornInv'
  BY <1>25 DEF EndCheck
<1>26. ASSUME NEW s \in Sources, ReadFrame(s)
       PROVE  BornInv'
  BY <1>26 DEF ReadFrame
<1>27. ASSUME NEW s \in Sources, BeginWalk(s)
       PROVE  BornInv'
  BY <1>27 DEF BeginWalk
<1>28. ASSUME NEW s \in Sources, NEW t \in Transports, Deliver(s, t)
       PROVE  BornInv'
  BY <1>28 DEF Deliver
<1>29. ASSUME NEW s \in Sources, NEW next \in {"loop", "wait_deliver"},
              EndDelivery(s, next)
       PROVE  BornInv'
  BY <1>29 DEF EndDelivery
<1>30. ASSUME NEW s \in Sources, NEW t \in Transports, TellEnd(s, t)
       PROVE  BornInv'
  BY <1>30 DEF TellEnd
<1>31. ASSUME NEW s \in Sources, EndOfStream(s)
       PROVE  BornInv'
  BY <1>31 DEF EndOfStream
<1>32. ASSUME NEW s \in Sources, StopNext(s)
       PROVE  BornInv'
  BY <1>32 DEF StopNext
<1>33. CASE StopNextJoined
  BY <1>33 DEF StopNextJoined
<1>34. CASE Exit
  BY <1>34 DEF Exit
<1>35. CASE UNCHANGED vars
  BY <1>35 DEF vars
<1>36. ASSUME NEW s \in Sources, DropTold(s)
       PROVE  BornInv'
  BY <1>36, DropEffect DEF DropTold
<1> QED
  BY <1>1, <1>2, <1>3, <1>4, <1>5, <1>6, <1>7, <1>8, <1>9, <1>10, <1>11,
     <1>12, <1>13, <1>14, <1>15, <1>16, <1>17, <1>18, <1>19, <1>20, <1>21,
     <1>22, <1>23, <1>24, <1>25, <1>26, <1>27, <1>28, <1>29, <1>30, <1>31,
     <1>32, <1>33, <1>34, <1>35, <1>36
  DEF Next, Signaling, SignalingGoesOn, Manager, Destructor, Transport, Reader,
      NextOpusPacket, EndFrame

(* A transport leaves the lists before its destructor ends, or the source
   has no reader any more. *)
LEMMA ListedAreLiveStep == IInv /\ [Next]_vars => ListedAreLive'
<1> SUFFICES ASSUME IInv, [Next]_vars PROVE ListedAreLive'
  OBVIOUS
<1> USE DEF IInv, ListedAreLive, TypeOK, sourceVars, signalingVars,
        managerVars, threadVars, Walking, ReaderLabels, MutexFree, WalkInv,
        SourceInv, BornInv
<1>1. ASSUME NEW u \in Urls, AddListed(u)
       PROVE  ListedAreLive'
  BY <1>1 DEF AddListed
<1>2. ASSUME NEW u \in Urls, AddNew(u)
       PROVE  ListedAreLive'
  BY <1>2 DEF AddNew
<1>3. CASE AddReplied
  BY <1>3 DEF AddReplied
<1>4. ASSUME NEW s \in Sources, Remove(s)
       PROVE  ListedAreLive'
  BY <1>4 DEF Remove
<1>5. CASE RemoveJoined
  BY <1>5 DEF RemoveJoined
<1>6. ASSUME NEW s \in Sources, NEW t \in Transports, Play(s, t)
       PROVE  ListedAreLive'
  BY <1>6 DEF Play
<1>7. ASSUME NEW s \in Sources, NEW t \in Transports, PlayFails(s, t)
       PROVE  ListedAreLive'
  BY <1>7 DEF PlayFails
<1>8. CASE RegisterObserver
  <2> SUFFICES ASSUME NEW s \in Sources,
                      NEW t \in observers_'[s] \cup new_observers_'[s]
               PROVE  /\ stream_id_'[t] = s
                      /\ reader'[s] # "done" =>
                           life'[t] \in {"alive", "destructor", "deregister"}
    OBVIOUS
  <2>1. t \in Transports
    BY <1>8, RegisterEffect
  <2>2. UNCHANGED <<stream_id_, reader, life>>
    BY <1>8, RegisterEffect
  <2>3. CASE t \in observers_[s] \cup new_observers_[s]
    BY <2>2, <2>3
  <2>4. CASE s = source /\ t = created
    BY <1>8, <2>2, <2>4, RegisterEffect
  <2> QED BY <1>8, <2>1, <2>3, <2>4, RegisterEffect
<1>9. CASE PostAdd
  BY <1>9 DEF PostAdd
<1>10. CASE DropLocal
  BY <1>10, DropEffect DEF DropLocal
<1>11. CASE RunAdd
  BY <1>11 DEF RunAdd
<1>12. CASE RunRemove
  BY <1>12 DEF RunRemove
<1>13. CASE StopJoined
  BY <1>13, DropEffect DEF StopJoined
<1>14. CASE RunRemoveMissing
  BY <1>14, DropEffect DEF RunRemoveMissing
<1>15. ASSUME NEW t \in Transports, DestructorQuery(t)
       PROVE  ListedAreLive'
  BY <1>15 DEF DestructorQuery
<1>16. ASSUME NEW t \in Transports, DeregisterObserver(t)
       PROVE  ListedAreLive'
  BY <1>16 DEF DeregisterObserver
<1>17. CASE SignalingDestroyed
  BY <1>17 DEF SignalingDestroyed
<1>18. CASE ManagerDestroyed
  BY <1>18 DEF ManagerDestroyed
<1>19. ASSUME NEW t \in Transports, OnDtlsTransportSetup(t)
       PROVE  ListedAreLive'
  BY <1>19 DEF OnDtlsTransportSetup
<1>20. ASSUME NEW t \in Transports, Shutdown(t)
       PROVE  ListedAreLive'
  BY <1>20 DEF Shutdown
<1>21. ASSUME NEW t \in Transports, PostRemove(t)
       PROVE  ListedAreLive'
  BY <1>21 DEF PostRemove
<1>22. ASSUME NEW s \in Sources, LoopHead(s)
       PROVE  ListedAreLive'
  BY <1>22 DEF LoopHead
<1>23. ASSUME NEW s \in Sources, CheckNewObserver(s)
       PROVE  ListedAreLive'
  BY <1>23 DEF CheckNewObserver
<1>24. ASSUME NEW s \in Sources, NEW t \in Transports, ServeNewObserver(s, t)
       PROVE  ListedAreLive'
  BY <1>24 DEF ServeNewObserver
<1>25. ASSUME NEW s \in Sources, EndCheck(s)
       PROVE  ListedAreLive'
  BY <1>25 DEF EndCheck
<1>26. ASSUME NEW s \in Sources, ReadFrame(s)
       PROVE  ListedAreLive'
  BY <1>26 DEF ReadFrame
<1>27. ASSUME NEW s \in Sources, BeginWalk(s)
       PROVE  ListedAreLive'
  BY <1>27 DEF BeginWalk
<1>28. ASSUME NEW s \in Sources, NEW t \in Transports, Deliver(s, t)
       PROVE  ListedAreLive'
  BY <1>28 DEF Deliver
<1>29. ASSUME NEW s \in Sources, NEW next \in {"loop", "wait_deliver"},
              EndDelivery(s, next)
       PROVE  ListedAreLive'
  BY <1>29 DEF EndDelivery
<1>30. ASSUME NEW s \in Sources, NEW t \in Transports, TellEnd(s, t)
       PROVE  ListedAreLive'
  BY <1>30 DEF TellEnd
<1>31. ASSUME NEW s \in Sources, EndOfStream(s)
       PROVE  ListedAreLive'
  BY <1>31 DEF EndOfStream
<1>32. ASSUME NEW s \in Sources, StopNext(s)
       PROVE  ListedAreLive'
  BY <1>32 DEF StopNext
<1>33. CASE StopNextJoined
  BY <1>33 DEF StopNextJoined
<1>34. CASE Exit
  BY <1>34 DEF Exit
<1>35. CASE UNCHANGED vars
  BY <1>35 DEF vars
<1>36. ASSUME NEW s \in Sources, DropTold(s)
       PROVE  ListedAreLive'
  BY <1>36, DropEffect DEF DropTold
<1> QED
  BY <1>1, <1>2, <1>3, <1>4, <1>5, <1>6, <1>7, <1>8, <1>9, <1>10, <1>11,
     <1>12, <1>13, <1>14, <1>15, <1>16, <1>17, <1>18, <1>19, <1>20, <1>21,
     <1>22, <1>23, <1>24, <1>25, <1>26, <1>27, <1>28, <1>29, <1>30, <1>31,
     <1>32, <1>33, <1>34, <1>35, <1>36
  DEF Next, Signaling, SignalingGoesOn, Manager, Destructor, Transport, Reader,
      NextOpusPacket, EndFrame

(* Every removal is posted after the latch was opened. *)
LEMMA RemovedAfterLatchStep == IInv /\ [Next]_vars => RemovedAfterLatch'
<1> SUFFICES ASSUME IInv, [Next]_vars PROVE RemovedAfterLatch'
  OBVIOUS
<1> USE DEF IInv, RemovedAfterLatch, TypeOK, sourceVars, signalingVars,
        managerVars, threadVars
<1>1. ASSUME NEW u \in Urls, AddListed(u)
       PROVE  RemovedAfterLatch'
  BY <1>1 DEF AddListed
<1>2. ASSUME NEW u \in Urls, AddNew(u)
       PROVE  RemovedAfterLatch'
  BY <1>2 DEF AddNew
<1>3. CASE AddReplied
  BY <1>3 DEF AddReplied
<1>4. ASSUME NEW s \in Sources, Remove(s)
       PROVE  RemovedAfterLatch'
  BY <1>4 DEF Remove
<1>5. CASE RemoveJoined
  BY <1>5 DEF RemoveJoined
<1>6. ASSUME NEW s \in Sources, NEW t \in Transports, Play(s, t)
       PROVE  RemovedAfterLatch'
  BY <1>6 DEF Play
<1>7. ASSUME NEW s \in Sources, NEW t \in Transports, PlayFails(s, t)
       PROVE  RemovedAfterLatch'
  BY <1>7 DEF PlayFails
<1>8. CASE RegisterObserver
  BY <1>8 DEF RegisterObserver
<1>9. CASE PostAdd
  BY <1>9, QueueAfterPost DEF PostAdd
<1>10. CASE DropLocal
  BY <1>10 DEF DropLocal
<1>11. CASE RunAdd
  BY <1>11, HeadOfQueue, QueueAfterRun DEF RunAdd
<1>12. CASE RunRemove
  BY <1>12, HeadOfQueue, QueueAfterRun DEF RunRemove
<1>13. CASE StopJoined
  BY <1>13 DEF StopJoined
<1>14. CASE RunRemoveMissing
  BY <1>14, HeadOfQueue, QueueAfterRun DEF RunRemoveMissing
<1>15. ASSUME NEW t \in Transports, DestructorQuery(t)
       PROVE  RemovedAfterLatch'
  BY <1>15 DEF DestructorQuery
<1>16. ASSUME NEW t \in Transports, DeregisterObserver(t)
       PROVE  RemovedAfterLatch'
  BY <1>16 DEF DeregisterObserver
<1>17. CASE SignalingDestroyed
  BY <1>17 DEF SignalingDestroyed
<1>18. CASE ManagerDestroyed
  BY <1>18 DEF ManagerDestroyed
<1>19. ASSUME NEW t \in Transports, OnDtlsTransportSetup(t)
       PROVE  RemovedAfterLatch'
  BY <1>19 DEF OnDtlsTransportSetup
<1>20. ASSUME NEW t \in Transports, Shutdown(t)
       PROVE  RemovedAfterLatch'
  BY <1>20 DEF Shutdown
<1>21. ASSUME NEW t \in Transports, PostRemove(t)
       PROVE  RemovedAfterLatch'
  BY <1>21, QueueAfterPost DEF PostRemove
<1>22. ASSUME NEW s \in Sources, LoopHead(s)
       PROVE  RemovedAfterLatch'
  BY <1>22 DEF LoopHead
<1>23. ASSUME NEW s \in Sources, CheckNewObserver(s)
       PROVE  RemovedAfterLatch'
  BY <1>23 DEF CheckNewObserver
<1>24. ASSUME NEW s \in Sources, NEW t \in Transports, ServeNewObserver(s, t)
       PROVE  RemovedAfterLatch'
  BY <1>24 DEF ServeNewObserver
<1>25. ASSUME NEW s \in Sources, EndCheck(s)
       PROVE  RemovedAfterLatch'
  BY <1>25 DEF EndCheck
<1>26. ASSUME NEW s \in Sources, ReadFrame(s)
       PROVE  RemovedAfterLatch'
  BY <1>26 DEF ReadFrame
<1>27. ASSUME NEW s \in Sources, BeginWalk(s)
       PROVE  RemovedAfterLatch'
  BY <1>27 DEF BeginWalk
<1>28. ASSUME NEW s \in Sources, NEW t \in Transports, Deliver(s, t)
       PROVE  RemovedAfterLatch'
  BY <1>28 DEF Deliver
<1>29. ASSUME NEW s \in Sources, NEW next \in {"loop", "wait_deliver"},
              EndDelivery(s, next)
       PROVE  RemovedAfterLatch'
  BY <1>29 DEF EndDelivery
<1>30. ASSUME NEW s \in Sources, NEW t \in Transports, TellEnd(s, t)
       PROVE  RemovedAfterLatch'
  <2>1. CASE Referenced(t)
    BY <1>30, <2>1, QueueAfterPost DEF TellEnd
  <2>2. CASE ~Referenced(t)
    BY <1>30, <2>2 DEF TellEnd
  <2> QED BY <2>1, <2>2
<1>31. ASSUME NEW s \in Sources, EndOfStream(s)
       PROVE  RemovedAfterLatch'
  BY <1>31 DEF EndOfStream
<1>32. ASSUME NEW s \in Sources, StopNext(s)
       PROVE  RemovedAfterLatch'
  BY <1>32 DEF StopNext
<1>33. CASE StopNextJoined
  BY <1>33 DEF StopNextJoined
<1>34. CASE Exit
  BY <1>34 DEF Exit
<1>35. CASE UNCHANGED vars
  BY <1>35 DEF vars
<1>36. ASSUME NEW s \in Sources, DropTold(s)
       PROVE  RemovedAfterLatch'
  BY <1>36 DEF DropTold
<1> QED
  BY <1>1, <1>2, <1>3, <1>4, <1>5, <1>6, <1>7, <1>8, <1>9, <1>10, <1>11,
     <1>12, <1>13, <1>14, <1>15, <1>16, <1>17, <1>18, <1>19, <1>20, <1>21,
     <1>22, <1>23, <1>24, <1>25, <1>26, <1>27, <1>28, <1>29, <1>30, <1>31,
     <1>32, <1>33, <1>34, <1>35, <1>36
  DEF Next, Signaling, SignalingGoesOn, Manager, Destructor, Transport, Reader,
      NextOpusPacket, EndFrame

(* A thread that runs has an owner that will stop it. *)
LEMMA ThreadInvStep == IInv /\ [Next]_vars => ThreadInv'
<1> SUFFICES ASSUME IInv, [Next]_vars PROVE ThreadInv'
  OBVIOUS
<1> USE DEF IInv, ThreadInv, TypeOK, sourceVars, signalingVars, managerVars,
        threadVars, InQueue, LocalRef, Referenced, ManagerRef, BornInv
<1>1. ASSUME NEW u \in Urls, AddListed(u)
       PROVE  ThreadInv'
  BY <1>1 DEF AddListed
<1>2. ASSUME NEW u \in Urls, AddNew(u)
       PROVE  ThreadInv'
  BY <1>2 DEF AddNew
<1>3. CASE AddReplied
  BY <1>3 DEF AddReplied
<1>4. ASSUME NEW s \in Sources, Remove(s)
       PROVE  ThreadInv'
  BY <1>4 DEF Remove
<1>5. CASE RemoveJoined
  BY <1>5 DEF RemoveJoined
<1>6. ASSUME NEW s \in Sources, NEW t \in Transports, Play(s, t)
       PROVE  ThreadInv'
  BY <1>6 DEF Play
<1>7. ASSUME NEW s \in Sources, NEW t \in Transports, PlayFails(s, t)
       PROVE  ThreadInv'
  BY <1>7 DEF PlayFails
<1>8. CASE RegisterObserver
  BY <1>8 DEF RegisterObserver
<1>9. CASE PostAdd
  BY <1>9, QueueAfterPost DEF PostAdd
<1>10. CASE DropLocal
  BY <1>10 DEF DropLocal
<1>11. CASE RunAdd
  BY <1>11, HeadOfQueue, QueueAfterRun DEF RunAdd
<1>12. CASE RunRemove
  BY <1>12, HeadOfQueue, QueueAfterRun DEF RunRemove
<1>13. CASE StopJoined
  BY <1>13 DEF StopJoined
<1>14. CASE RunRemoveMissing
  BY <1>14, HeadOfQueue, QueueAfterRun DEF RunRemoveMissing
<1>15. ASSUME NEW t \in Transports, DestructorQuery(t)
       PROVE  ThreadInv'
  BY <1>15 DEF DestructorQuery
<1>16. ASSUME NEW t \in Transports, DeregisterObserver(t)
       PROVE  ThreadInv'
  BY <1>16 DEF DeregisterObserver
<1>17. CASE SignalingDestroyed
  BY <1>17 DEF SignalingDestroyed
<1>18. CASE ManagerDestroyed
  BY <1>18 DEF ManagerDestroyed
<1>19. ASSUME NEW t \in Transports, OnDtlsTransportSetup(t)
       PROVE  ThreadInv'
  BY <1>19 DEF OnDtlsTransportSetup
<1>20. ASSUME NEW t \in Transports, Shutdown(t)
       PROVE  ThreadInv'
  BY <1>20 DEF Shutdown
<1>21. ASSUME NEW t \in Transports, PostRemove(t)
       PROVE  ThreadInv'
  BY <1>21, QueueAfterPost DEF PostRemove
<1>22. ASSUME NEW s \in Sources, LoopHead(s)
       PROVE  ThreadInv'
  BY <1>22 DEF LoopHead
<1>23. ASSUME NEW s \in Sources, CheckNewObserver(s)
       PROVE  ThreadInv'
  BY <1>23 DEF CheckNewObserver
<1>24. ASSUME NEW s \in Sources, NEW t \in Transports, ServeNewObserver(s, t)
       PROVE  ThreadInv'
  BY <1>24 DEF ServeNewObserver
<1>25. ASSUME NEW s \in Sources, EndCheck(s)
       PROVE  ThreadInv'
  BY <1>25 DEF EndCheck
<1>26. ASSUME NEW s \in Sources, ReadFrame(s)
       PROVE  ThreadInv'
  BY <1>26 DEF ReadFrame
<1>27. ASSUME NEW s \in Sources, BeginWalk(s)
       PROVE  ThreadInv'
  BY <1>27 DEF BeginWalk
<1>28. ASSUME NEW s \in Sources, NEW t \in Transports, Deliver(s, t)
       PROVE  ThreadInv'
  BY <1>28 DEF Deliver
<1>29. ASSUME NEW s \in Sources, NEW next \in {"loop", "wait_deliver"},
              EndDelivery(s, next)
       PROVE  ThreadInv'
  BY <1>29 DEF EndDelivery
<1>30. ASSUME NEW s \in Sources, NEW t \in Transports, TellEnd(s, t)
       PROVE  ThreadInv'
  <2>1. CASE Referenced(t)
    BY <1>30, <2>1, QueueAfterPost DEF TellEnd
  <2>2. CASE ~Referenced(t)
    BY <1>30, <2>2 DEF TellEnd
  <2> QED BY <2>1, <2>2
<1>31. ASSUME NEW s \in Sources, EndOfStream(s)
       PROVE  ThreadInv'
  BY <1>31 DEF EndOfStream
<1>32. ASSUME NEW s \in Sources, StopNext(s)
       PROVE  ThreadInv'
  BY <1>32 DEF StopNext
<1>33. CASE StopNextJoined
  BY <1>33 DEF StopNextJoined
<1>34. CASE Exit
  BY <1>34 DEF Exit
<1>35. CASE UNCHANGED vars
  BY <1>35 DEF vars
<1>36. ASSUME NEW s \in Sources, DropTold(s)
       PROVE  ThreadInv'
  BY <1>36 DEF DropTold
<1> QED
  BY <1>1, <1>2, <1>3, <1>4, <1>5, <1>6, <1>7, <1>8, <1>9, <1>10, <1>11,
     <1>12, <1>13, <1>14, <1>15, <1>16, <1>17, <1>18, <1>19, <1>20, <1>21,
     <1>22, <1>23, <1>24, <1>25, <1>26, <1>27, <1>28, <1>29, <1>30, <1>31,
     <1>32, <1>33, <1>34, <1>35, <1>36
  DEF Next, Signaling, SignalingGoesOn, Manager, Destructor, Transport, Reader,
      NextOpusPacket, EndFrame

(* The destructor begins after the thread was joined. *)
LEMMA DestroyedAfterJoinStep == IInv /\ [Next]_vars => DestroyedAfterJoin'
<1> SUFFICES ASSUME IInv, [Next]_vars PROVE DestroyedAfterJoin'
  OBVIOUS
<1> USE DEF IInv, DestroyedAfterJoin, TypeOK, sourceVars, signalingVars,
        managerVars, threadVars, AliveIffReferenced, ThreadInv, BornInv,
        LocalRef, Referenced, ManagerRef, InQueue
<1>1. ASSUME NEW u \in Urls, AddListed(u)
       PROVE  DestroyedAfterJoin'
  BY <1>1 DEF AddListed
<1>2. ASSUME NEW u \in Urls, AddNew(u)
       PROVE  DestroyedAfterJoin'
  BY <1>2 DEF AddNew
<1>3. CASE AddReplied
  BY <1>3 DEF AddReplied
<1>4. ASSUME NEW s \in Sources, Remove(s)
       PROVE  DestroyedAfterJoin'
  BY <1>4 DEF Remove
<1>5. CASE RemoveJoined
  BY <1>5 DEF RemoveJoined
<1>6. ASSUME NEW s \in Sources, NEW t \in Transports, Play(s, t)
       PROVE  DestroyedAfterJoin'
  BY <1>6 DEF Play
<1>7. ASSUME NEW s \in Sources, NEW t \in Transports, PlayFails(s, t)
       PROVE  DestroyedAfterJoin'
  BY <1>7 DEF PlayFails
<1>8. CASE RegisterObserver
  BY <1>8 DEF RegisterObserver
<1>9. CASE PostAdd
  BY <1>9, QueueAfterPost DEF PostAdd
<1>10. CASE DropLocal
  BY <1>10 DEF DropLocal
<1>11. CASE RunAdd
  BY <1>11, HeadOfQueue, QueueAfterRun DEF RunAdd
<1>12. CASE RunRemove
  BY <1>12, HeadOfQueue, QueueAfterRun DEF RunRemove
<1>13. CASE StopJoined
  BY <1>13 DEF StopJoined
<1>14. CASE RunRemoveMissing
  <2> HIDE DEF IInv
  <2>1. PICK u \in Transports : u = Head(queue).transport
    BY ONLY IInv, <1>14, HeadOfQueue DEF RunRemoveMissing
  <2>2. u \notin webrtc_transports_ /\ mpc = "idle"
    BY ONLY <1>14, <2>1 DEF RunRemoveMissing
  <2>3. life' # life => ~LocalRef(u) /\ ~InQueue(u, queue')
    BY ONLY <1>14, <2>1 DEF RunRemoveMissing
  <2>4. ~InQueue(u, queue') => ~Posted("Add", u, queue)
    BY ONLY IInv, <1>14, <2>1, QueueAfterRun DEF RunRemoveMissing, InQueue
  <2>5. life' # life => work_thread_[u] \in {"none", "joined"}
    BY ONLY IInv, <2>2, <2>3, <2>4 DEF IInv, ThreadInv, TypeOK, LocalRef
  <2>6. /\ UNCHANGED work_thread_
        /\ life' = life \/ life' = [life EXCEPT ![u] = "destructor"]
    BY ONLY <1>14, <2>1 DEF RunRemoveMissing, threadVars
  <2> QED BY ONLY IInv, <2>5, <2>6 DEF IInv, TypeOK, DestroyedAfterJoin
<1>15. ASSUME NEW t \in Transports, DestructorQuery(t)
       PROVE  DestroyedAfterJoin'
  BY <1>15 DEF DestructorQuery
<1>16. ASSUME NEW t \in Transports, DeregisterObserver(t)
       PROVE  DestroyedAfterJoin'
  BY <1>16 DEF DeregisterObserver
<1>17. CASE SignalingDestroyed
  BY <1>17 DEF SignalingDestroyed
<1>18. CASE ManagerDestroyed
  BY <1>18 DEF ManagerDestroyed
<1>19. ASSUME NEW t \in Transports, OnDtlsTransportSetup(t)
       PROVE  DestroyedAfterJoin'
  BY <1>19 DEF OnDtlsTransportSetup
<1>20. ASSUME NEW t \in Transports, Shutdown(t)
       PROVE  DestroyedAfterJoin'
  BY <1>20 DEF Shutdown
<1>21. ASSUME NEW t \in Transports, PostRemove(t)
       PROVE  DestroyedAfterJoin'
  BY <1>21, QueueAfterPost DEF PostRemove
<1>22. ASSUME NEW s \in Sources, LoopHead(s)
       PROVE  DestroyedAfterJoin'
  BY <1>22 DEF LoopHead
<1>23. ASSUME NEW s \in Sources, CheckNewObserver(s)
       PROVE  DestroyedAfterJoin'
  BY <1>23 DEF CheckNewObserver
<1>24. ASSUME NEW s \in Sources, NEW t \in Transports, ServeNewObserver(s, t)
       PROVE  DestroyedAfterJoin'
  BY <1>24 DEF ServeNewObserver
<1>25. ASSUME NEW s \in Sources, EndCheck(s)
       PROVE  DestroyedAfterJoin'
  BY <1>25 DEF EndCheck
<1>26. ASSUME NEW s \in Sources, ReadFrame(s)
       PROVE  DestroyedAfterJoin'
  BY <1>26 DEF ReadFrame
<1>27. ASSUME NEW s \in Sources, BeginWalk(s)
       PROVE  DestroyedAfterJoin'
  BY <1>27 DEF BeginWalk
<1>28. ASSUME NEW s \in Sources, NEW t \in Transports, Deliver(s, t)
       PROVE  DestroyedAfterJoin'
  BY <1>28 DEF Deliver
<1>29. ASSUME NEW s \in Sources, NEW next \in {"loop", "wait_deliver"},
              EndDelivery(s, next)
       PROVE  DestroyedAfterJoin'
  BY <1>29 DEF EndDelivery
<1>30. ASSUME NEW s \in Sources, NEW t \in Transports, TellEnd(s, t)
       PROVE  DestroyedAfterJoin'
  <2>1. CASE Referenced(t)
    BY <1>30, <2>1, QueueAfterPost DEF TellEnd
  <2>2. CASE ~Referenced(t)
    BY <1>30, <2>2 DEF TellEnd
  <2> QED BY <2>1, <2>2
<1>31. ASSUME NEW s \in Sources, EndOfStream(s)
       PROVE  DestroyedAfterJoin'
  BY <1>31 DEF EndOfStream
<1>32. ASSUME NEW s \in Sources, StopNext(s)
       PROVE  DestroyedAfterJoin'
  BY <1>32 DEF StopNext
<1>33. CASE StopNextJoined
  BY <1>33 DEF StopNextJoined
<1>34. CASE Exit
  BY <1>34 DEF Exit
<1>35. CASE UNCHANGED vars
  BY <1>35 DEF vars
<1>36. ASSUME NEW s \in Sources, DropTold(s)
       PROVE  DestroyedAfterJoin'
  BY <1>36, HolderOfRef DEF DropTold
<1> QED
  BY <1>1, <1>2, <1>3, <1>4, <1>5, <1>6, <1>7, <1>8, <1>9, <1>10, <1>11,
     <1>12, <1>13, <1>14, <1>15, <1>16, <1>17, <1>18, <1>19, <1>20, <1>21,
     <1>22, <1>23, <1>24, <1>25, <1>26, <1>27, <1>28, <1>29, <1>30, <1>31,
     <1>32, <1>33, <1>34, <1>35, <1>36
  DEF Next, Signaling, SignalingGoesOn, Manager, Destructor, Transport, Reader,
      NextOpusPacket, EndFrame

(* The destructor begins exactly when the last shared_ptr is dropped. *)
LEMMA AliveIffReferencedStep == IInv /\ [Next]_vars => AliveIffReferenced'
<1> SUFFICES ASSUME IInv, [Next]_vars PROVE AliveIffReferenced'
  OBVIOUS
<1> USE DEF IInv, AliveIffReferenced, TypeOK, sourceVars, signalingVars,
        managerVars, threadVars, LocalRef, Referenced, ManagerRef, ReaderRef,
        InQueue, ThreadInv, BornInv, DestroyedAfterJoin
<1>1. ASSUME NEW u \in Urls, AddListed(u)
       PROVE  AliveIffReferenced'
  BY <1>1 DEF AddListed
<1>2. ASSUME NEW u \in Urls, AddNew(u)
       PROVE  AliveIffReferenced'
  BY <1>2 DEF AddNew
<1>3. CASE AddReplied
  BY <1>3 DEF AddReplied
<1>4. ASSUME NEW s \in Sources, Remove(s)
       PROVE  AliveIffReferenced'
  BY <1>4 DEF Remove
<1>5. CASE RemoveJoined
  BY <1>5 DEF RemoveJoined
<1>6. ASSUME NEW s \in Sources, NEW t \in Transports, Play(s, t)
       PROVE  AliveIffReferenced'
  BY <1>6 DEF Play
<1>7. ASSUME NEW s \in Sources, NEW t \in Transports, PlayFails(s, t)
       PROVE  AliveIffReferenced'
  BY <1>7 DEF PlayFails
<1>8. CASE RegisterObserver
  BY <1>8 DEF RegisterObserver
<1>9. CASE PostAdd
  BY <1>9, QueueAfterPost DEF PostAdd
<1>10. CASE DropLocal
  BY <1>10 DEF DropLocal
<1>11. CASE RunAdd
  BY <1>11, HeadOfQueue, QueueAfterRun DEF RunAdd
<1>12. CASE RunRemove
  BY <1>12, HeadOfQueue, QueueAfterRun DEF RunRemove
<1>13. CASE StopJoined
  BY <1>13 DEF StopJoined
<1>14. CASE RunRemoveMissing
  BY <1>14, HeadOfQueue, QueueAfterRun DEF RunRemoveMissing
<1>15. ASSUME NEW t \in Transports, DestructorQuery(t)
       PROVE  AliveIffReferenced'
  BY <1>15 DEF DestructorQuery
<1>16. ASSUME NEW t \in Transports, DeregisterObserver(t)
       PROVE  AliveIffReferenced'
  BY <1>16 DEF DeregisterObserver
<1>17. CASE SignalingDestroyed
  BY <1>17 DEF SignalingDestroyed
<1>18. CASE ManagerDestroyed
  BY <1>18 DEF ManagerDestroyed
<1>19. ASSUME NEW t \in Transports, OnDtlsTransportSetup(t)
       PROVE  AliveIffReferenced'
  BY <1>19 DEF OnDtlsTransportSetup
<1>20. ASSUME NEW t \in Transports, Shutdown(t)
       PROVE  AliveIffReferenced'
  BY <1>20 DEF Shutdown
<1>21. ASSUME NEW t \in Transports, PostRemove(t)
       PROVE  AliveIffReferenced'
  BY <1>21, QueueAfterPost DEF PostRemove
<1>22. ASSUME NEW s \in Sources, LoopHead(s)
       PROVE  AliveIffReferenced'
  BY <1>22 DEF LoopHead
<1>23. ASSUME NEW s \in Sources, CheckNewObserver(s)
       PROVE  AliveIffReferenced'
  BY <1>23 DEF CheckNewObserver
<1>24. ASSUME NEW s \in Sources, NEW t \in Transports, ServeNewObserver(s, t)
       PROVE  AliveIffReferenced'
  BY <1>24 DEF ServeNewObserver
<1>25. ASSUME NEW s \in Sources, EndCheck(s)
       PROVE  AliveIffReferenced'
  BY <1>25 DEF EndCheck
<1>26. ASSUME NEW s \in Sources, ReadFrame(s)
       PROVE  AliveIffReferenced'
  BY <1>26 DEF ReadFrame
<1>27. ASSUME NEW s \in Sources, BeginWalk(s)
       PROVE  AliveIffReferenced'
  BY <1>27 DEF BeginWalk
<1>28. ASSUME NEW s \in Sources, NEW t \in Transports, Deliver(s, t)
       PROVE  AliveIffReferenced'
  BY <1>28 DEF Deliver
<1>29. ASSUME NEW s \in Sources, NEW next \in {"loop", "wait_deliver"},
              EndDelivery(s, next)
       PROVE  AliveIffReferenced'
  BY <1>29 DEF EndDelivery
<1>30. ASSUME NEW s \in Sources, NEW t \in Transports, TellEnd(s, t)
       PROVE  AliveIffReferenced'
  <2>1. CASE Referenced(t)
    <3>1. /\ UNCHANGED <<life, spc, created, webrtc_transports_, mpc, current>>
          /\ Post("Remove", t)
      BY <1>30, <2>1 DEF TellEnd
    <3>2. \A u \in Transports : InQueue(u, queue)' <=> InQueue(u, queue) \/ u = t
      BY <3>1, QueueAfterPost
    <3>3. \A u \in Transports : ReaderRef(u)' <=> ReaderRef(u) \/ u = t
      <4> HIDE DEF IInv, TypeOK, Referenced
      <4>1. /\ reader[s] = "end" /\ reader'[s] = "told" /\ told'[s] = t
            /\ \A r \in Sources : r # s => reader'[r] = reader[r] /\ told'[r] = told[r]
        BY ONLY IInv, <1>30, <2>1, TellEffect
      <4> QED BY ONLY <4>1 DEF ReaderRef
    <3>4. \A u \in Transports :
            (LocalRef(u)' <=> LocalRef(u)) /\ (ManagerRef(u)' <=> ManagerRef(u))
      BY ONLY <3>1 DEF LocalRef, ManagerRef
    <3>5. \A u \in Transports : Referenced(u)' <=> Referenced(u) \/ u = t
      BY ONLY <3>2, <3>3, <3>4 DEF Referenced
    <3> QED BY ONLY IInv, <2>1, <3>1, <3>5 DEF IInv, AliveIffReferenced
  <2>2. CASE ~Referenced(t)
    BY <1>30, <2>2 DEF TellEnd
  <2> QED BY <2>1, <2>2
<1>31. ASSUME NEW s \in Sources, EndOfStream(s)
       PROVE  AliveIffReferenced'
  BY <1>31 DEF EndOfStream
<1>32. ASSUME NEW s \in Sources, StopNext(s)
       PROVE  AliveIffReferenced'
  BY <1>32 DEF StopNext
<1>33. CASE StopNextJoined
  BY <1>33 DEF StopNextJoined
<1>34. CASE Exit
  BY <1>34 DEF Exit
<1>35. CASE UNCHANGED vars
  BY <1>35 DEF vars
<1>36. ASSUME NEW s \in Sources, DropTold(s)
       PROVE  AliveIffReferenced'
  <2> DEFINE Elsewhere(u) == LocalRef(u) \/ ManagerRef(u) \/ InQueue(u, queue)
  <2>1. PICK u \in Transports : u = told[s]
    BY ONLY IInv, <1>36, DropToldEffect
  <2>2. \A v \in Transports : Elsewhere(v)' <=> Elsewhere(v)
    BY ONLY <1>36 DEF DropTold, LocalRef, ManagerRef, InQueue, Posted,
         signalingVars, managerVars
  <2>3. \A v \in Transports : Referenced(v) <=> Elsewhere(v) \/ ReaderRef(v)
    BY ONLY DEF Referenced
  <2>4. \A v \in Transports : v # u => (ReaderRef(v)' <=> ReaderRef(v))
    <3>1. /\ reader[s] = "told" /\ reader'[s] # "told"
          /\ \A r \in Sources : r # s => reader'[r] = reader[r] /\ told'[r] = told[r]
      BY ONLY IInv, <1>36, DropToldEffect
    <3> QED BY ONLY <2>1, <3>1 DEF ReaderRef
  <2>5. ~ReaderRef(u)'
    <3>1. \A r \in Sources : r # s /\ reader[r] = "told" => told[r] # u
      BY ONLY IInv, <1>36, <2>1, DropToldEffect, HolderOfRef
    <3> QED BY ONLY IInv, <1>36, <3>1, DropToldEffect DEF ReaderRef
  <2>6. \A v \in Transports : Referenced(v)' <=> Elsewhere(v)' \/ ReaderRef(v)'
    BY ONLY DEF Referenced
  <2>7. \/ Elsewhere(u) /\ UNCHANGED life
        \/ ~Elsewhere(u) /\ life' = [life EXCEPT ![u] = "destructor"]
    BY ONLY IInv, <1>36, <2>1, DropToldEffect
  <2>8. life[u] = "alive"
    BY ONLY IInv, <1>36, <2>1, DropToldEffect
  <2>9. life'[u] = "alive" <=> Elsewhere(u)
    BY ONLY IInv, <2>7, <2>8 DEF IInv, TypeOK
  <2>10. \A v \in Transports : v # u => life'[v] = life[v]
    BY ONLY IInv, <2>7 DEF IInv, TypeOK
  <2>11. \A v \in Transports : life[v] = "alive" <=> Elsewhere(v) \/ ReaderRef(v)
    BY ONLY IInv, <2>3 DEF IInv, AliveIffReferenced
  <2> HIDE DEF Elsewhere
  <2>12. \A v \in Transports : life'[v] = "alive" <=> Referenced(v)'
    BY ONLY <2>2, <2>4, <2>5, <2>6, <2>9, <2>10, <2>11
  <2> QED BY ONLY <2>12 DEF AliveIffReferenced
<1> QED
  BY <1>1, <1>2, <1>3, <1>4, <1>5, <1>6, <1>7, <1>8, <1>9, <1>10, <1>11,
     <1>12, <1>13, <1>14, <1>15, <1>16, <1>17, <1>18, <1>19, <1>20, <1>21,
     <1>22, <1>23, <1>24, <1>25, <1>26, <1>27, <1>28, <1>29, <1>30, <1>31,
     <1>32, <1>33, <1>34, <1>35, <1>36
  DEF Next, Signaling, SignalingGoesOn, Manager, Destructor, Transport, Reader,
      NextOpusPacket, EndFrame

-----------------------------------------------------------------------------
LEMMA InitIInv == Init => IInv
<1> SUFFICES ASSUME Init PROVE IInv
  OBVIOUS
<1>1. TypeOK
  <2>1. queue \in Seq(Lambdas)
    BY DEF Init
  <2>2. errors \in [Transports -> 0..MaxErrors]
    <3>1. 0 \in 0..MaxErrors
      BY MaxErrorsAssumption
    <3> QED BY <3>1 DEF Init
  <2>3. /\ closed_ \in [Sources -> BOOLEAN]
        /\ reader \in [Sources -> ReaderLabels]
        /\ observers_ \in [Sources -> SUBSET Transports]
        /\ new_observers_ \in [Sources -> SUBSET Transports]
        /\ cached \in [Sources -> BOOLEAN]
        /\ todo \in [Sources -> SUBSET Transports]
        /\ told \in [Sources -> Transports \cup {NoTransport}]
    BY DEF Init, ReaderLabels, Walking
  <2> QED BY <2>1, <2>2, <2>3 DEF Init, TypeOK
<1>2. \A t \in Transports : ~Referenced(t)
  BY DEF Init, Referenced, LocalRef, ManagerRef, ReaderRef, InQueue, Posted
<1>3. WalkInv /\ SourceInv /\ BornInv /\ ListedAreLive
  BY DEF Init, WalkInv, Walking, SourceInv, BornInv, ListedAreLive
<1>4. AliveIffReferenced
  BY <1>2 DEF Init, AliveIffReferenced
<1>5. ThreadInv /\ DestroyedAfterJoin
  BY DEF Init, ThreadInv, DestroyedAfterJoin
<1>6. RemovedAfterLatch
  BY DEF Init, RemovedAfterLatch, Posted
<1> QED BY <1>1, <1>3, <1>4, <1>5, <1>6 DEF IInv

LEMMA IInvStep == IInv /\ [Next]_vars => IInv'
<1> SUFFICES ASSUME IInv, [Next]_vars PROVE IInv'
  OBVIOUS
<1>1. TypeOK' /\ WalkInv' /\ SourceInv' /\ BornInv'
  BY TypeOKStep, WalkInvStep, SourceInvStep, BornInvStep
<1>2. ThreadInv' /\ ListedAreLive' /\ AliveIffReferenced'
  BY ThreadInvStep, ListedAreLiveStep, AliveIffReferencedStep
<1>3. DestroyedAfterJoin' /\ RemovedAfterLatch'
  BY DestroyedAfterJoinStep, RemovedAfterLatchStep
<1> QED BY <1>1, <1>2, <1>3 DEF IInv

(* The invariant that all safety properties of the life of transports are  *)
(* read off.                                                               *)
THEOREM Invariance == Spec => []IInv
<1> QED BY InitIInv, IInvStep, PTL DEF Spec

(* Types are correct whatever the number of sources and transports.        *)
THEOREM TypeCorrect == Spec => []TypeOK
<1>1. IInv => TypeOK
  BY DEF IInv
<1> QED BY <1>1, Invariance, PTL

(* A source that can still call anybody lists only transports that play it *)
(* and whose destructor has not ended: RegisterObserver, the destructor    *)
(* and MediaSourceManager::Remove keep the raw pointers valid.             *)
THEOREM ListedLive == Spec => []ListedAreLive
<1>1. IInv => ListedAreLive
  BY DEF IInv
<1> QED BY <1>1, Invariance, PTL

(* ReadPacket never calls a transport that is gone.                        *)
THEOREM CallsAreSafe == Spec => []NoCallOnFreed
<1>1. IInv => NoCallOnFreed
  <2> SUFFICES ASSUME IInv, NEW s \in Sources, NEW t \in todo[s]
               PROVE  life[t] \in {"alive", "destructor", "deregister"}
    BY DEF NoCallOnFreed
  <2>1. t \in observers_[s] \cup new_observers_[s] /\ reader[s] # "done"
    BY DEF IInv, WalkInv, Walking
  <2> QED BY <2>1 DEF IInv, ListedAreLive
<1> QED BY <1>1, Invariance, PTL

(* A transport is alive as long as, and no longer than, a shared_ptr to it *)
(* is held by HandleRequest, by a queued lambda, by the manager's set, by  *)
(* the Stop in progress or by a reader that is in                          *)
(* WebrtcTransportManager::Remove.                                         *)
THEOREM AliveWhileReferenced == Spec => []AliveIffReferenced
<1>1. IInv => AliveIffReferenced
  BY DEF IInv
<1> QED BY <1>1, Invariance, PTL

(* While the server serves, no transport is destroyed with a thread that   *)
(* could still run its handlers.                                           *)
THEOREM ThreadJoinedFirst == Spec => []DestroyedAfterJoin
<1>1. IInv => DestroyedAfterJoin
  BY DEF IInv
<1> QED BY <1>1, Invariance, PTL

(* A transport is stopped only after its latch was opened, so that Stop    *)
(* leaves no reader waiting for it.                                        *)
THEOREM LatchOpenedFirst == Spec => []RemovedAfterLatch
<1>1. IInv => RemovedAfterLatch
  BY DEF IInv
<1> QED BY <1>1, Invariance, PTL
=============================================================================
