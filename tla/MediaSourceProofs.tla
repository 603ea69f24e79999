--------------------------- MODULE MediaSourceProofs ---------------------------
(***************************************************************************)
(* Proofs about MediaSource, for any observers and any number of packets,  *)
(* with and without the GOP cache: types, every observer in step, the      *)
(* cache exact, and that it implements PacketFeed.                         *)
(*                                                                         *)
(* The argument: the reader holds the mutex exactly while it walks a list  *)
(* (MutexHeld), so that the other threads change the lists only when it    *)
(* does not; an observer is on one list, once, but for those of            *)
(* new_observers_ that have been served (OnOneList), so that a call of one *)
(* changes what no other one has had; who has had nothing is known         *)
(* (StartInv); and the cache is a run of packets that ends with the newest *)
(* (CacheIsGop), so that who has had all of it is in step.                 *)
(***************************************************************************)
EXTENDS MediaSource, SequenceTheorems, TLAPS

(* What the points of the reader say of the frame at hand, and of the      *)
(* configuration.                                                          *)
FrameInv ==
  /\ pc \in {"wait_check", "check"} => enable_gop_cache_
  /\ ~enable_gop_cache_ => gop_cache_ = <<>> /\ new_observers_ = <<>>
  /\ pc \in {"wait_deliver", "deliver"} => pending >= 1
  /\ pc = "wait_deliver" => count + pending <= MaxPackets
  /\ pc = "deliver" =>
       count >= 1 /\ count + pending <= MaxPackets + 1 /\ (key <=> count \in keys)
  /\ pc = "check" => citer <= Len(gop_cache_) + 1

(* Who has not been called yet.                                            *)
StartInv ==
  /\ \A o \in Observers : ~Registered(o) => delivered[o] = <<>>
  /\ \A i \in 1..Len(observers_) : delivered[observers_[i]] = <<>> =>
       IF pc = "deliver"
       THEN i >= iter /\ (enable_gop_cache_ => count = 1)
       ELSE enable_gop_cache_ => count = 0

(* The inductive invariant.                                                *)
IInv ==
  /\ TypeOK /\ MutexHeld /\ FrameInv
  /\ OnOneList /\ InStep /\ CacheIsGop /\ StartInv

-----------------------------------------------------------------------------
(* Lists and runs.                                                         *)

(* DeregisterObserver takes the observer off a list, and nothing else.     *)
LEMMA Removed ==
  ASSUME NEW s \in Seq(Observers), NEW o \in Observers, NoDuplicates(s)
  PROVE  LET t == RemoveFirst(s, o)
         IN  /\ t \in Seq(Observers) /\ NoDuplicates(t)
             /\ \A p \in Observers : Contains(t, p) <=> Contains(s, p) /\ p # o
<1>1. CASE ~Contains(s, o)
  BY <1>1 DEF RemoveFirst, Contains
<1>2. CASE Contains(s, o)
  <2>1. PICK i \in 1..Len(s) : s[i] = o
    BY <1>2 DEF Contains
  <2>2. {j \in 1..Len(s) : s[j] = o} = {i}
    BY <2>1 DEF NoDuplicates
  <2>3. Min({i}) = i
    BY DEF Min
  <2>4. RemoveFirst(s, o) = SubSeq(s, 1, i - 1) \o SubSeq(s, i + 1, Len(s))
    BY <2>2, <2>3, <1>2 DEF RemoveFirst, SelectInSeq, RemoveAt, Contains
  <2> DEFINE t == SubSeq(s, 1, i - 1) \o SubSeq(s, i + 1, Len(s))
  <2>5. /\ t \in Seq(Observers) /\ Len(t) = Len(s) - 1
        /\ \A j \in 1..(Len(s) - 1) : t[j] = IF j < i THEN s[j] ELSE s[j + 1]
    <3> DEFINE a == SubSeq(s, 1, i - 1)
               b == SubSeq(s, i + 1, Len(s))
    <3>1. /\ a \in Seq(Observers) /\ Len(a) = i - 1
          /\ \A j \in 1..(i - 1) : a[j] = s[j]
      OBVIOUS
    <3>2. /\ b \in Seq(Observers) /\ Len(b) = Len(s) - i
          /\ \A j \in 1..(Len(s) - i) : b[j] = s[i + j]
      OBVIOUS
    <3>3. t = a \o b
      OBVIOUS
    <3> HIDE DEF a, b, t
    <3>4. t \in Seq(Observers) /\ Len(t) = Len(s) - 1
      BY <3>1, <3>2, <3>3
    <3>5. ASSUME NEW j \in 1..(Len(s) - 1), j < i PROVE t[j] = s[j]
      BY <3>1, <3>2, <3>3, <3>5
    <3>6. ASSUME NEW j \in 1..(Len(s) - 1), ~(j < i) PROVE t[j] = s[j + 1]
      <4>1. j \in 1..(Len(a) + Len(b)) /\ j > Len(a)
        BY <3>1, <3>2, <3>6
      <4>2. t[j] = b[j - Len(a)]
        BY <4>1, <3>1, <3>2, <3>3
      <4>3. j - Len(a) \in 1..(Len(s) - i) /\ i + (j - Len(a)) = j + 1
        BY <3>1, <3>6
      <4> QED BY <4>2, <4>3, <3>2
    <3> QED BY <3>4, <3>5, <3>6
  <2> HIDE DEF t
  <2>6. NoDuplicates(t)
    BY <2>5 DEF NoDuplicates
  <2>7. ASSUME NEW p \in Observers
        PROVE  Contains(t, p) <=> Contains(s, p) /\ p # o
    <3>1. ASSUME Contains(t, p) PROVE Contains(s, p) /\ p # o
      <4>1. PICK j \in 1..(Len(s) - 1) : t[j] = p
        BY <2>5, <3>1 DEF Contains
      <4>2. CASE j < i
        BY <4>1, <4>2, <2>5, <2>1 DEF Contains, NoDuplicates
      <4>3. CASE ~(j < i)
        BY <4>1, <4>3, <2>5, <2>1 DEF Contains, NoDuplicates
      <4> QED BY <4>2, <4>3
    <3>2. ASSUME Contains(s, p), p # o PROVE Contains(t, p)
      <4>1. PICK j \in 1..Len(s) : s[j] = p /\ j # i
        BY <3>2, <2>1 DEF Contains
      <4>2. CASE j < i
        BY <4>1, <4>2, <2>5 DEF Contains
      <4>3. CASE j > i
        <5>1. t[j - 1] = p /\ j - 1 \in 1..Len(t)
          BY <4>1, <4>3, <2>5
        <5> QED BY <5>1 DEF Contains
      <4> QED BY <4>1, <4>2, <4>3
    <3> QED BY <3>1, <3>2
  <2> QED BY <2>4, <2>5, <2>6, <2>7 DEF t
<1> QED BY <1>1, <1>2

(* Appending the next element to a beginning of a sequence.                *)
LEMMA AppendSubSeq ==
  ASSUME NEW s \in Seq(Nat), NEW n \in 1..Len(s)
  PROVE  Append(SubSeq(s, 1, n - 1), s[n]) = SubSeq(s, 1, n)
<1> DEFINE a == SubSeq(s, 1, n - 1)
           b == SubSeq(s, 1, n)
<1>1. a \in Seq(Nat) /\ Len(a) = n - 1 /\ \A j \in 1..(n - 1) : a[j] = s[j]
  OBVIOUS
<1>2. b \in Seq(Nat) /\ Len(b) = n /\ \A j \in 1..n : b[j] = s[j]
  OBVIOUS
<1> HIDE DEF a, b
<1> DEFINE c == Append(a, s[n])
<1>3. c \in Seq(Nat) /\ Len(c) = n
  BY <1>1
<1>4. \A j \in 1..n : c[j] = s[j]
  BY <1>1
<1> HIDE DEF c
<1>5. c = b
  BY <1>2, <1>3, <1>4, SeqEqual
<1> QED BY <1>5 DEF a, b, c

(* The next packet makes a run longer.                                     *)
LEMMA RunGrows ==
  ASSUME NEW s \in Seq(Nat), NEW n \in Nat, n >= 1, IsRun(s, n - 1)
  PROVE  IsRun(Append(s, n), n)
<1>1. Len(Append(s, n)) = Len(s) + 1 /\ Len(s) \in Nat
  OBVIOUS
<1>2. ASSUME NEW k \in 1..(Len(s) + 1) PROVE Append(s, n)[k] = n - (Len(s) + 1) + k
  <2>1. CASE k \in 1..Len(s)
    <3>1. Append(s, n)[k] = s[k] /\ s[k] = n - 1 - Len(s) + k
      BY <2>1 DEF IsRun
    <3> QED BY <3>1
  <2>2. CASE k = Len(s) + 1
    BY <2>2
  <2> QED BY <2>1, <2>2
<1> QED BY <1>1, <1>2 DEF IsRun

(* Appending to a list if it is not there yet keeps it free of duplicates. *)
LEMMA Pushed ==
  ASSUME NEW s \in Seq(Observers), NEW o \in Observers, NoDuplicates(s)
  PROVE  LET t == PushIfAbsent(s, o)
         IN  /\ t \in Seq(Observers) /\ NoDuplicates(t)
             /\ \A p \in Observers : Contains(t, p) <=> Contains(s, p) \/ p = o
<1>1. CASE Contains(s, o)
  BY <1>1 DEF PushIfAbsent
<1>2. CASE ~Contains(s, o)
  <2>1. PushIfAbsent(s, o) = Append(s, o)
    BY <1>2 DEF PushIfAbsent
  <2>2. NoDuplicates(Append(s, o))
    BY <1>2 DEF NoDuplicates, Contains
  <2>3. ASSUME NEW p \in Observers
        PROVE  Contains(Append(s, o), p) <=> Contains(s, p) \/ p = o
    BY DEF Contains
  <2> QED BY <2>1, <2>2, <2>3
<1> QED BY <1>1, <1>2
-----------------------------------------------------------------------------
USE MaxPacketsAssumption, MaxOpusAssumption

(* A step that leaves lists, packets and deliveries alone, between points  *)
(* at which the reader does not walk a list.                               *)
LEMMA QuietStep ==
  ASSUME IInv, TypeOK', FrameInv',
         pc \notin {"check", "deliver"}, pc' \notin {"check", "deliver"},
         UNCHANGED <<listVars, gop_cache_, logVars, delivered, enable_gop_cache_>>
  PROVE  IInv'
<1> USE DEF IInv, listVars, logVars
<1>1. MutexHeld'
  BY DEF MutexHeld
<1>2. OnOneList'
  BY DEF OnOneList, NoDuplicates, Contains
<1>3. InStep'
  BY DEF InStep
<1>4. CacheIsGop'
  BY DEF CacheIsGop
<1>5. StartInv'
  BY DEF StartInv, Registered, Contains
<1> QED BY <1>1, <1>2, <1>3, <1>4, <1>5

(* A step that changes nothing of what the invariant relates.              *)
LEMMA SameStep ==
  ASSUME IInv, TypeOK',
         UNCHANGED <<pc, listVars, gop_cache_, frameVars, logVars, iterVars, delivered,
                     enable_gop_cache_>>
  PROVE  IInv'
<1> USE DEF IInv, listVars, logVars, frameVars, iterVars
<1>1. MutexHeld' /\ FrameInv'
  BY DEF MutexHeld, FrameInv
<1>2. OnOneList'
  BY DEF OnOneList, NoDuplicates, Contains
<1>3. InStep'
  BY DEF InStep
<1>4. CacheIsGop'
  BY DEF CacheIsGop
<1>5. StartInv'
  BY DEF StartInv, Registered, Contains
<1> QED BY <1>1, <1>2, <1>3, <1>4, <1>5

(* The invariant holds at the start.                                       *)
LEMMA InitInv == Init => IInv
<1> SUFFICES ASSUME Init PROVE IInv
  OBVIOUS
<1> USE DEF Init
<1>1. TypeOK
  <2>1. <<>> \in Seq(Observers) /\ <<>> \in Seq(Nat)
    OBVIOUS
  <2>2. delivered \in [Observers -> Seq(Nat)]
    BY <2>1
  <2>3. /\ pending \in 0..(MaxOpus + 1) /\ count \in 0..MaxPackets
        /\ iter \in Nat \ {0} /\ citer \in Nat \ {0} /\ keys \subseteq 1..count
    OBVIOUS
  <2>4. /\ closed_ \in BOOLEAN /\ stopping = "no" /\ pc \in Labels
        /\ observers_mutex_ \in BOOLEAN /\ key \in BOOLEAN
        /\ enable_gop_cache_ \in BOOLEAN
    BY DEF Labels
  <2> QED BY <2>1, <2>2, <2>3, <2>4 DEF TypeOK
<1>2. MutexHeld /\ FrameInv
  BY DEF MutexHeld, FrameInv
<1>3. OnOneList
  BY DEF OnOneList, NoDuplicates
<1>4. InStep
  BY DEF InStep
<1>5. CacheIsGop
  BY DEF CacheIsGop, IsRun
<1>6. StartInv
  BY DEF StartInv
<1> QED BY <1>1, <1>2, <1>3, <1>4, <1>5, <1>6 DEF IInv

(* The points of ReadPacket at which the reader reads or decides.          *)
LEMMA QuietReader ==
  ASSUME IInv, UNCHANGED enable_gop_cache_,
         LoopHead \/ ReadVideo \/ ReadAudio \/ ReadFails \/ StreamEnd \/ Start
  PROVE  IInv'
<1> USE DEF IInv, listVars, logVars, frameVars, iterVars, historyVars, stopVars
<1>1. CASE LoopHead
  <2>1. TypeOK' /\ FrameInv'
    BY <1>1 DEF LoopHead, TypeOK, FrameInv, Labels
  <2> QED BY <1>1, <2>1, QuietStep DEF LoopHead
<1>2. CASE ReadVideo
  <2>1. TypeOK' /\ FrameInv'
    BY <1>2 DEF ReadVideo, TypeOK, FrameInv, Labels
  <2> QED BY <1>2, <2>1, QuietStep DEF ReadVideo
<1>3. CASE ReadAudio
  <2>1. TypeOK' /\ FrameInv'
    <3>1. PICK n \in 0..MaxOpus : /\ count + n <= MaxPackets /\ pending' = n
                                 /\ pc' = IF n = 0 THEN "loop" ELSE "wait_deliver"
      BY <1>3 DEF ReadAudio
    <3>2. pending' \in 0..(MaxOpus + 1) /\ (pc' = "wait_deliver" => pending' >= 1)
      BY <3>1
    <3>3. TypeOK'
      BY <1>3, <3>1, <3>2 DEF ReadAudio, TypeOK, Labels
    <3> QED BY <1>3, <3>1, <3>2, <3>3 DEF ReadAudio, TypeOK, FrameInv
  <2>2. pc = "read" /\ pc' \in {"loop", "wait_deliver"}
    BY <1>3 DEF ReadAudio
  <2> QED BY <1>3, <2>1, <2>2, QuietStep DEF ReadAudio
<1>4. CASE ReadFails
  <2>1. TypeOK' /\ FrameInv'
    BY <1>4 DEF ReadFails, TypeOK, FrameInv, Labels
  <2> QED BY <1>4, <2>1, QuietStep DEF ReadFails
<1>5. CASE StreamEnd
  <2>1. ToSet(observers_) \subseteq Observers
    BY DEF TypeOK, ToSet
  <2>2. TypeOK' /\ FrameInv'
    BY <1>5, <2>1 DEF StreamEnd, TypeOK, FrameInv, Labels
  <2> QED BY <1>5, <2>2, QuietStep DEF StreamEnd
<1>6. CASE Start
  <2>1. TypeOK' /\ FrameInv'
    BY <1>6 DEF Start, TypeOK, FrameInv, Labels
  <2> QED BY <1>6, <2>1, QuietStep DEF Start
<1> QED BY <1>1, <1>2, <1>3, <1>4, <1>5, <1>6

(* Stop, its join, and an opened latch.                                    *)
LEMMA SameOthers ==
  ASSUME IInv, UNCHANGED enable_gop_cache_,
         Stop \/ Joined \/ \E o \in Observers : OpenLatch(o)
  PROVE  IInv'
<1> USE DEF IInv, listVars, logVars, frameVars, iterVars, historyVars, stopVars
<1>1. TypeOK'
  BY DEF TypeOK, Stop, Joined, OpenLatch
<1> QED BY <1>1, SameStep DEF Stop, Joined, OpenLatch

-----------------------------------------------------------------------------
(* CheckNewObserver.                                                       *)

(* The mutex is taken: the first of new_observers_ is served next.         *)
LEMMA CheckNewObserverInv ==
  ASSUME IInv, UNCHANGED enable_gop_cache_, CheckNewObserver
  PROVE  IInv'
<1> USE DEF IInv, CheckNewObserver, logVars, frameVars, historyVars, stopVars
<1>1. TypeOK'
  BY DEF TypeOK, Labels
<1>2. MutexHeld' /\ FrameInv'
  BY DEF MutexHeld, FrameInv, TypeOK
<1>3. OnOneList'
  BY DEF OnOneList, NoDuplicates, Contains
<1>4. InStep'
  <2>1. SubSeq(gop_cache_, 1, citer' - 1) = <<>>
    BY DEF TypeOK
  <2>2. ASSUME NEW i \in 1..Len(new_observers_) PROVE delivered[new_observers_[i]] = <<>>
    BY DEF InStep
  <2> QED BY <2>1, <2>2 DEF InStep
<1>5. CacheIsGop'
  BY DEF CacheIsGop
<1>6. StartInv'
  BY DEF StartInv, Registered, Contains
<1> QED BY <1>1, <1>2, <1>3, <1>4, <1>5, <1>6

(* The observer being served gets one more of the cached packets.          *)
LEMMA ReplayCachedInv ==
  ASSUME IInv, UNCHANGED enable_gop_cache_, ReplayCached
  PROVE  IInv'
<1> USE DEF IInv, ReplayCached, logVars, frameVars, listVars, stopVars
<1> DEFINE o == new_observers_[iter]
<1>0. /\ o \in Observers /\ iter \in 1..Len(new_observers_) /\ citer \in 1..Len(gop_cache_)
      /\ gop_cache_[citer] \in Nat /\ delivered[o] \in Seq(Nat)
      /\ delivered[o] = SubSeq(gop_cache_, 1, citer - 1)
  <2>1. o \in Observers /\ iter \in 1..Len(new_observers_)
    BY DEF TypeOK
  <2>2. citer \in 1..Len(gop_cache_) /\ gop_cache_[citer] \in Nat
    BY DEF TypeOK
  <2>3. delivered[o] \in Seq(Nat)
    BY <2>1 DEF TypeOK
  <2>4. delivered[o] = SubSeq(gop_cache_, 1, citer - 1)
    <3>1. iter >= iter
      BY DEF TypeOK
    <3> QED BY <2>1, <3>1 DEF InStep
  <2> QED BY <2>1, <2>2, <2>3, <2>4
<1>1. TypeOK'
  <2>1. Append(delivered[o], gop_cache_[citer]) \in Seq(Nat)
    BY <1>0
  <2>2. delivered' \in [Observers -> Seq(Nat)]
    BY <2>1 DEF TypeOK
  <2>3. citer' \in Nat \ {0}
    BY DEF TypeOK
  <2> QED BY <2>2, <2>3 DEF TypeOK
<1>2. MutexHeld' /\ FrameInv'
  BY <1>0 DEF MutexHeld, FrameInv, TypeOK
<1>3. OnOneList'
  BY DEF OnOneList, NoDuplicates, Contains
<1>4. /\ \A i \in 1..Len(observers_) : observers_[i] # o
      /\ \A i \in 1..Len(new_observers_) : i # iter => new_observers_[i] # o
  <2>1. ~Contains(observers_, o)
    BY <1>0 DEF OnOneList, TypeOK
  <2> QED BY <2>1, <1>0 DEF OnOneList, NoDuplicates, Contains
<1>5. /\ \A p \in Observers : p # o => delivered'[p] = delivered[p]
      /\ delivered'[o] = Append(delivered[o], gop_cache_[citer])
  BY <1>0 DEF TypeOK
<1>6. delivered'[o] = SubSeq(gop_cache_, 1, citer' - 1)
  <2>1. Append(SubSeq(gop_cache_, 1, citer - 1), gop_cache_[citer]) = SubSeq(gop_cache_, 1, citer)
    BY <1>0, AppendSubSeq DEF TypeOK
  <2>2. citer' - 1 = citer
    BY <1>0
  <2> QED BY <2>1, <2>2, <1>0, <1>5
<1>7. InStep'
  <2>1. ASSUME NEW i \in 1..Len(observers_)
        PROVE  IsRun(delivered'[observers_[i]], count)
    <3>1. observers_[i] \in Observers
      BY DEF TypeOK
    <3>2. IsRun(delivered[observers_[i]], count)
      BY DEF InStep
    <3> QED BY <3>1, <3>2, <1>4, <1>5
  <2>2. ASSUME NEW i \in 1..Len(new_observers_), i >= iter
        PROVE  delivered'[new_observers_[i]] =
                 IF i = iter THEN SubSeq(gop_cache_, 1, citer' - 1) ELSE <<>>
    BY <2>2, <1>4, <1>5, <1>6 DEF InStep, TypeOK
  <2> QED BY <2>1, <2>2 DEF InStep
<1>8. CacheIsGop'
  BY DEF CacheIsGop
<1>9. StartInv'
  <2>1. ASSUME NEW p \in Observers, ~Registered(p)' PROVE delivered'[p] = <<>>
    <3>1. p # o
      BY <2>1, <1>0 DEF Registered, Contains
    <3>2. ~Registered(p)
      BY <2>1 DEF Registered, Contains
    <3> QED BY <3>1, <3>2, <1>5 DEF StartInv
  <2>2. ASSUME NEW i \in 1..Len(observers_), delivered'[observers_[i]] = <<>>
        PROVE  enable_gop_cache_ => count = 0
    BY <2>2, <1>4, <1>5 DEF StartInv, TypeOK
  <2> QED BY <2>1, <2>2 DEF StartInv
<1> QED BY <1>1, <1>2, <1>3, <1>7, <1>8, <1>9

(* It has had all of them and is in step with those on observers_.         *)
LEMMA PromoteInv ==
  ASSUME IInv, UNCHANGED enable_gop_cache_, Promote
  PROVE  IInv'
<1> USE DEF IInv, Promote, logVars, frameVars, historyVars, stopVars
<1> DEFINE o == new_observers_[iter]
<1>0. o \in Observers /\ iter \in 1..Len(new_observers_) /\ ~Contains(observers_, o)
  BY DEF TypeOK, OnOneList
<1>1. /\ observers_' = Append(observers_, o) /\ NoDuplicates(observers_')
      /\ observers_' \in Seq(Observers)
      /\ \A p \in Observers : Contains(observers_', p) <=> Contains(observers_, p) \/ p = o
  BY <1>0, Pushed DEF PushIfAbsent, TypeOK, OnOneList
<1>2. TypeOK'
  BY <1>1 DEF TypeOK
<1>3. MutexHeld' /\ FrameInv'
  BY DEF MutexHeld, FrameInv, TypeOK
<1>4. OnOneList'
  <2>1. ASSUME NEW i \in 1..Len(new_observers_)
        PROVE  Contains(observers_', new_observers_[i]) <=> i < iter'
    <3>1. new_observers_[i] = o <=> i = iter
      BY <1>0 DEF OnOneList, NoDuplicates
    <3>2. i < iter' <=> i < iter \/ i = iter
      BY DEF TypeOK
    <3>3. new_observers_[i] \in Observers
      BY DEF TypeOK
    <3> QED BY <3>1, <3>2, <3>3, <1>1 DEF OnOneList
  <2> QED BY <2>1, <1>1 DEF OnOneList
<1>5. gop_cache_ = delivered[o] /\ IsRun(gop_cache_, count) /\ (count > 0 => gop_cache_ # <<>>)
  <2>0. gop_cache_ \in Seq(Nat) /\ Len(gop_cache_) \in Nat /\ citer \in Nat
    BY DEF TypeOK
  <2>1. citer - 1 = Len(gop_cache_)
    BY <2>0 DEF FrameInv
  <2>2. SubSeq(gop_cache_, 1, citer - 1) = gop_cache_
    BY <2>0, <2>1
  <2>3. delivered[o] = SubSeq(gop_cache_, 1, citer - 1)
    <3>1. iter >= iter
      BY DEF TypeOK
    <3> QED BY <1>0, <3>1 DEF InStep
  <2>4. IsRun(gop_cache_, count) /\ (count > 0 => Len(gop_cache_) > 0)
    BY DEF CacheIsGop, FrameInv
  <2> QED BY <2>0, <2>2, <2>3, <2>4
<1>6. InStep'
  <2>1. ASSUME NEW i \in 1..Len(observers_')
        PROVE  IsRun(delivered[observers_'[i]], count)
    <3>1. CASE i = Len(observers_) + 1
      BY <3>1, <1>1, <1>5 DEF TypeOK
    <3>2. CASE i # Len(observers_) + 1
      <4>1. i \in 1..Len(observers_) /\ observers_'[i] = observers_[i]
        BY <3>2, <1>1, <1>0 DEF TypeOK
      <4> QED BY <4>1 DEF InStep
    <3> QED BY <3>1, <3>2
  <2>2. ASSUME NEW i \in 1..Len(new_observers_), i >= iter'
        PROVE  delivered[new_observers_[i]] =
                 IF i = iter' THEN SubSeq(gop_cache_, 1, citer' - 1) ELSE <<>>
    <3>1. SubSeq(gop_cache_, 1, citer' - 1) = <<>>
      BY DEF TypeOK
    <3>2. i >= iter /\ i # iter
      BY <2>2 DEF TypeOK
    <3> QED BY <3>1, <3>2 DEF InStep
  <2> QED BY <2>1, <2>2 DEF InStep
<1>7. CacheIsGop'
  BY DEF CacheIsGop
<1>8. StartInv'
  <2>1. ASSUME NEW p \in Observers, ~Registered(p)' PROVE delivered[p] = <<>>
    BY <2>1, <1>1 DEF StartInv, Registered
  <2>2. ASSUME NEW i \in 1..Len(observers_'), delivered[observers_'[i]] = <<>>
        PROVE  count = 0
    <3>1. CASE i = Len(observers_) + 1
      BY <3>1, <2>2, <1>1, <1>5 DEF TypeOK
    <3>2. CASE i # Len(observers_) + 1
      <4>1. i \in 1..Len(observers_) /\ observers_'[i] = observers_[i]
        BY <3>2, <1>1, <1>0 DEF TypeOK
      <4> QED BY <4>1, <2>2 DEF StartInv, FrameInv
    <3> QED BY <3>1, <3>2
  <2> QED BY <2>1, <2>2 DEF StartInv
<1> QED BY <1>2, <1>3, <1>4, <1>6, <1>7, <1>8

(* All of new_observers_ are on observers_ when it is cleared.             *)
LEMMA EndCheckInv ==
  ASSUME IInv, UNCHANGED enable_gop_cache_, EndCheck
  PROVE  IInv'
<1> USE DEF IInv, EndCheck, logVars, frameVars, historyVars, stopVars, iterVars
<1>1. TypeOK' /\ MutexHeld' /\ FrameInv'
  <2>1. <<>> \in Seq(Observers)
    OBVIOUS
  <2> QED BY <2>1 DEF TypeOK, Labels, MutexHeld, FrameInv
<1>2. OnOneList'
  BY DEF OnOneList, NoDuplicates
<1>3. InStep'
  BY DEF InStep
<1>4. CacheIsGop'
  BY DEF CacheIsGop
<1>5. \A p \in Observers : Contains(new_observers_, p) => Contains(observers_, p)
  <2>1. ASSUME NEW i \in 1..Len(new_observers_) PROVE Contains(observers_, new_observers_[i])
    <3>1. i < iter
      BY DEF TypeOK
    <3> QED BY <3>1 DEF OnOneList
  <2> QED BY <2>1 DEF Contains
<1>6. StartInv'
  BY <1>5 DEF StartInv, Registered, Contains
<1> QED BY <1>1, <1>2, <1>3, <1>4, <1>6

-----------------------------------------------------------------------------
(* The delivery of a packet.                                               *)

(* A packet is made: nobody has it yet.                                    *)
LEMMA BeginDeliveryInv ==
  ASSUME IInv, UNCHANGED enable_gop_cache_, BeginDelivery
  PROVE  IInv'
<1> USE DEF IInv, BeginDelivery, historyVars, stopVars
<1>1. /\ count' \in 1..MaxPackets /\ count' = count + 1 /\ count \in Nat
      /\ count' + pending <= MaxPackets + 1
      /\ keys' \subseteq 1..count' /\ (key <=> count' \in keys')
  BY DEF TypeOK, FrameInv
<1>2. TypeOK' /\ MutexHeld' /\ FrameInv'
  <2>1. TypeOK'
    BY <1>1 DEF TypeOK, Labels, frameVars
  <2>2. FrameInv'
    BY <1>1 DEF FrameInv, frameVars
  <2> QED BY <2>1, <2>2 DEF MutexHeld
<1>3. OnOneList'
  BY DEF OnOneList, NoDuplicates, Contains
<1>4. InStep'
  <2>1. ASSUME NEW i \in 1..Len(observers_)
        PROVE  IsRun(delivered[observers_[i]], count' - 1) /\ i >= iter'
    BY <1>1 DEF InStep, TypeOK
  <2>2. ASSUME NEW i \in 1..Len(new_observers_) PROVE delivered[new_observers_[i]] = <<>>
    BY DEF InStep
  <2> QED BY <2>1, <2>2 DEF InStep
<1>5. CacheIsGop'
  <2>1. count' - 1 = count
    BY <1>1
  <2>2. \A k \in keys' : k <= count => k \in keys
    BY <1>1
  <2>3. keys \subseteq keys'
    OBVIOUS
  <2> QED BY <2>1, <2>2, <2>3 DEF CacheIsGop
<1>6. StartInv'
  <2>1. ASSUME NEW p \in Observers, ~Registered(p)' PROVE delivered[p] = <<>>
    BY <2>1 DEF StartInv, Registered, Contains
  <2>2. ASSUME NEW i \in 1..Len(observers_), delivered[observers_[i]] = <<>>
        PROVE  i >= iter' /\ (enable_gop_cache_ => count' = 1)
    BY <2>2, <1>1 DEF StartInv
  <2> QED BY <2>1, <2>2 DEF StartInv
<1> QED BY <1>2, <1>3, <1>4, <1>5, <1>6

(* One more observer has it.                                               *)
LEMMA DeliverInv ==
  ASSUME IInv, UNCHANGED enable_gop_cache_, Deliver
  PROVE  IInv'
<1> USE DEF IInv, Deliver, listVars, logVars, frameVars, stopVars
<1> DEFINE o == observers_[iter]
<1>0. /\ o \in Observers /\ iter \in 1..Len(observers_) /\ iter \in Nat
      /\ count \in Nat /\ count >= 1
  BY DEF TypeOK, FrameInv
<1>1. /\ \A p \in Observers : p # o => delivered'[p] = delivered[p]
      /\ delivered'[o] = Append(delivered[o], count)
      /\ delivered[o] \in Seq(Nat)
  BY <1>0 DEF TypeOK
<1>2. TypeOK'
  <2>1. Append(delivered[o], count) \in Seq(Nat)
    BY <1>0, <1>1
  <2>2. delivered' \in [Observers -> Seq(Nat)]
    BY <2>1 DEF TypeOK
  <2> QED BY <1>0, <2>2 DEF TypeOK
<1>3. MutexHeld' /\ FrameInv'
  BY DEF MutexHeld, FrameInv
<1>4. OnOneList'
  BY DEF OnOneList, NoDuplicates, Contains
<1>5. IsRun(delivered'[o], count)
  <2>1. IsRun(delivered[o], count - 1)
    <3>1. iter >= iter
      BY <1>0
    <3> QED BY <1>0, <3>1 DEF InStep
  <2> QED BY <2>1, <1>0, <1>1, RunGrows
<1>6. \A i \in 1..Len(observers_) : i # iter => observers_[i] \in Observers /\ observers_[i] # o
  BY <1>0 DEF OnOneList, NoDuplicates, TypeOK
<1>7. InStep'
  <2>1. ASSUME NEW i \in 1..Len(observers_)
        PROVE  IsRun(delivered'[observers_[i]], IF i >= iter' THEN count - 1 ELSE count)
    <3>1. CASE i = iter
      BY <3>1, <1>0, <1>5
    <3>2. CASE i # iter
      <4>1. i >= iter' <=> i >= iter
        BY <3>2, <1>0
      <4> QED BY <3>2, <4>1, <1>1, <1>6 DEF InStep
    <3> QED BY <3>1, <3>2
  <2>2. ASSUME NEW i \in 1..Len(new_observers_) PROVE delivered'[new_observers_[i]] = <<>>
    <3>1. ~Contains(observers_, new_observers_[i]) /\ new_observers_[i] \in Observers
      BY DEF OnOneList, TypeOK
    <3>2. new_observers_[i] # o
      BY <3>1, <1>0 DEF Contains
    <3> QED BY <3>1, <3>2, <1>1 DEF InStep
  <2> QED BY <2>1, <2>2 DEF InStep
<1>8. CacheIsGop'
  BY DEF CacheIsGop
<1>9. StartInv'
  <2>1. ASSUME NEW p \in Observers, ~Registered(p)' PROVE delivered'[p] = <<>>
    <3>1. ~Registered(p)
      BY <2>1 DEF Registered, Contains
    <3>2. p # o
      BY <3>1, <1>0 DEF Registered, Contains
    <3> QED BY <3>1, <3>2, <1>1 DEF StartInv
  <2>2. ASSUME NEW i \in 1..Len(observers_), delivered'[observers_[i]] = <<>>
        PROVE  i >= iter' /\ (enable_gop_cache_ => count = 1)
    <3>1. i # iter
      <4> SUFFICES ASSUME i = iter PROVE FALSE
        OBVIOUS
      <4>1. delivered'[o] = <<>>
        BY <2>2
      <4>2. Append(delivered[o], count) = <<>>
        BY <4>1, <1>1
      <4>3. Len(Append(delivered[o], count)) = Len(delivered[o]) + 1 /\ Len(delivered[o]) \in Nat
        BY <1>0, <1>1
      <4>4. Len(<<>>) = 0
        OBVIOUS
      <4> QED BY ONLY <4>2, <4>3, <4>4
    <3>2. i >= iter /\ (enable_gop_cache_ => count = 1)
      BY <2>2, <3>1, <1>1, <1>6 DEF StartInv
    <3> QED BY <3>1, <3>2, <1>0
  <2> QED BY <2>1, <2>2 DEF StartInv
<1> QED BY <1>2, <1>3, <1>4, <1>7, <1>8, <1>9

(* All have it, and it is cached.                                          *)
LEMMA EndDeliveryInv ==
  ASSUME IInv, UNCHANGED enable_gop_cache_, EndDelivery
  PROVE  IInv'
<1> USE DEF IInv, EndDelivery, logVars, iterVars, historyVars, stopVars
<1>0. /\ count \in Nat /\ count >= 1 /\ gop_cache_ \in Seq(Nat) /\ pending \in Nat
      /\ pending >= 1 /\ keys \subseteq 1..count
      /\ \A i \in 1..Len(observers_) : i < iter
  BY DEF TypeOK, FrameInv
<1>1. TypeOK'
  <2>1. AddPacket \in Seq(Nat)
    <3>1. <<count>> \in Seq(Nat) /\ Append(gop_cache_, count) \in Seq(Nat)
      BY <1>0
    <3> QED BY <3>1 DEF AddPacket
  <2>2. gop_cache_' \in Seq(Nat)
    BY <2>1, <1>0
  <2>3. pending' \in 0..(MaxOpus + 1) /\ pc' \in Labels
    BY <1>0 DEF TypeOK, Labels
  <2> QED BY <2>2, <2>3 DEF TypeOK
<1>2. MutexHeld' /\ FrameInv'
  BY <1>0 DEF MutexHeld, FrameInv
<1>3. OnOneList'
  BY DEF OnOneList, NoDuplicates, Contains
<1>4. InStep'
  <2>1. ASSUME NEW i \in 1..Len(observers_) PROVE IsRun(delivered[observers_[i]], count)
    BY <1>0 DEF InStep, TypeOK
  <2>2. ASSUME NEW i \in 1..Len(new_observers_) PROVE delivered[new_observers_[i]] = <<>>
    BY DEF InStep
  <2> QED BY <2>1, <2>2 DEF InStep
<1>5. CacheIsGop'
  <2> SUFFICES ASSUME enable_gop_cache_
               PROVE  /\ IsRun(gop_cache_', count)
                      /\ Len(gop_cache_') > 0
                      /\ gop_cache_'[1] \in keys \cup {1}
                      /\ \A k \in keys : k <= gop_cache_'[1]
    BY <1>0 DEF CacheIsGop
  <2>1. CASE key
    <3>1. gop_cache_' = <<count>>
      BY <2>1 DEF AddPacket
    <3>2. Len(<<count>>) = 1 /\ <<count>>[1] = count
      OBVIOUS
    <3>3. IsRun(<<count>>, count)
      BY <3>2, <1>0 DEF IsRun
    <3>4. count \in keys
      BY <2>1 DEF FrameInv
    <3>5. \A k \in keys : k <= count
      BY <1>0
    <3> QED BY ONLY <3>1, <3>2, <3>3, <3>4, <3>5
  <2>2. CASE ~key
    <3>1. gop_cache_' = Append(gop_cache_, count)
      BY <2>2 DEF AddPacket
    <3>2. IsRun(gop_cache_, count - 1) /\ (count - 1 > 0 => Len(gop_cache_) > 0)
      BY DEF CacheIsGop
    <3>3. IsRun(gop_cache_', count)
      BY <3>1, <3>2, <1>0, RunGrows
    <3>4. \A k \in keys : k <= count - 1
      BY <2>2, <1>0 DEF FrameInv
    <3>5. CASE Len(gop_cache_) > 0
      <4>1. gop_cache_'[1] = gop_cache_[1]
        BY <3>1, <3>5, <1>0
      <4> QED BY <4>1, <3>1, <3>3, <3>4, <3>5, <1>0 DEF CacheIsGop
    <3>6. CASE ~(Len(gop_cache_) > 0)
      <4>1. count = 1 /\ Len(gop_cache_) = 0
        BY <3>2, <3>6, <1>0
      <4>2. gop_cache_'[1] = 1 /\ Len(gop_cache_') = 1
        BY <4>1, <3>1, <1>0
      <4> QED BY <4>1, <4>2, <3>3, <3>4, <1>0
    <3> QED BY <3>5, <3>6
  <2> QED BY <2>1, <2>2
<1>6. StartInv'
  <2>1. ASSUME NEW p \in Observers, ~Registered(p)' PROVE delivered[p] = <<>>
    BY <2>1 DEF StartInv, Registered, Contains
  <2>2. ASSUME NEW i \in 1..Len(observers_) PROVE delivered[observers_[i]] # <<>>
    <3>1. ~(i >= iter)
      BY <1>0 DEF TypeOK
    <3> QED BY <3>1 DEF StartInv
  <2> QED BY <2>1, <2>2 DEF StartInv
<1> QED BY <1>1, <1>2, <1>3, <1>4, <1>5, <1>6

-----------------------------------------------------------------------------
(* The other threads.                                                      *)

(* An observer that is on no list joins one of them.                       *)
LEMMA RegisterObserverInv ==
  ASSUME IInv, UNCHANGED enable_gop_cache_,
         NEW o \in Observers, RegisterObserver(o)
  PROVE  IInv'
<1> USE DEF IInv, RegisterObserver, logVars, iterVars, frameVars, historyVars, stopVars
<1>0. /\ pc \notin {"check", "deliver"} /\ delivered[o] = <<>>
      /\ ~Contains(observers_, o) /\ ~Contains(new_observers_, o)
      /\ observers_ \in Seq(Observers) /\ new_observers_ \in Seq(Observers)
      /\ NoDuplicates(observers_) /\ NoDuplicates(new_observers_)
      /\ count \in Nat
  BY DEF MutexHeld, StartInv, Registered, TypeOK, OnOneList
<1>1. CASE enable_gop_cache_
  <2>1. /\ new_observers_' = Append(new_observers_, o) /\ new_observers_' \in Seq(Observers)
        /\ NoDuplicates(new_observers_') /\ observers_' = observers_
        /\ \A p \in Observers :
             Contains(new_observers_', p) <=> Contains(new_observers_, p) \/ p = o
    <3>1. new_observers_' = PushIfAbsent(new_observers_, o) /\ observers_' = observers_
      BY <1>1
    <3>2. PushIfAbsent(new_observers_, o) = Append(new_observers_, o)
      BY <1>0 DEF PushIfAbsent
    <3> HIDE DEF RegisterObserver
    <3> QED BY <3>1, <3>2, <1>0, Pushed
  <2>2. TypeOK' /\ MutexHeld' /\ FrameInv'
    BY <1>1, <2>1 DEF TypeOK, MutexHeld, FrameInv
  <2>3. ASSUME NEW i \in 1..Len(new_observers_')
        PROVE  /\ new_observers_'[i] \in Observers
               /\ new_observers_'[i] = o \/ Contains(new_observers_, new_observers_'[i])
    BY <2>1, <1>0 DEF Contains
  <2>4. ASSUME NEW p, Contains(new_observers_, p)
        PROVE  delivered[p] = <<>> /\ ~Contains(observers_, p)
    BY <2>4, <1>0 DEF InStep, OnOneList, Contains
  <2>5. OnOneList'
    BY <2>1, <2>3, <2>4, <1>0 DEF OnOneList
  <2>6. InStep'
    BY <2>1, <2>3, <2>4, <1>0 DEF InStep
  <2>7. CacheIsGop'
    BY DEF CacheIsGop
  <2>8. StartInv'
    BY <2>1, <1>0 DEF StartInv, Registered
  <2> QED BY <2>2, <2>5, <2>6, <2>7, <2>8
<1>2. CASE ~enable_gop_cache_
  <2>1. /\ observers_' = Append(observers_, o) /\ observers_' \in Seq(Observers)
        /\ NoDuplicates(observers_') /\ new_observers_' = <<>> /\ new_observers_ = <<>>
        /\ \A p \in Observers : Contains(observers_', p) <=> Contains(observers_, p) \/ p = o
    <3>1. observers_' = PushIfAbsent(observers_, o) /\ new_observers_' = new_observers_
      BY <1>2
    <3>2. PushIfAbsent(observers_, o) = Append(observers_, o)
      BY <1>0 DEF PushIfAbsent
    <3>3. new_observers_ = <<>>
      BY <1>2 DEF FrameInv
    <3> HIDE DEF RegisterObserver
    <3> QED BY <3>1, <3>2, <3>3, <1>0, Pushed
  <2>2. TypeOK' /\ MutexHeld' /\ FrameInv'
    BY <1>2, <2>1 DEF TypeOK, MutexHeld, FrameInv
  <2>3. OnOneList'
    BY <2>1 DEF OnOneList, NoDuplicates
  <2>4. ASSUME NEW i \in 1..Len(observers_') PROVE IsRun(delivered[observers_'[i]], count)
    <3>1. CASE i \in 1..Len(observers_)
      BY <3>1, <2>1, <1>0 DEF InStep
    <3>2. CASE i \notin 1..Len(observers_)
      <4>1. observers_'[i] = o
        BY <3>2, <2>1, <1>0
      <4> QED BY <4>1, <1>0 DEF IsRun
    <3> QED BY <3>1, <3>2
  <2>5. InStep'
    BY <2>1, <2>4, <1>0 DEF InStep
  <2>6. CacheIsGop'
    BY DEF CacheIsGop
  <2>7. StartInv'
    BY <1>2, <2>1, <1>0 DEF StartInv, Registered
  <2> QED BY <2>2, <2>3, <2>5, <2>6, <2>7
<1> QED BY <1>1, <1>2

(* An observer leaves the list it is on.                                   *)
LEMMA DeregisterObserverInv ==
  ASSUME IInv, UNCHANGED enable_gop_cache_,
         NEW o \in Observers, DeregisterObserver(o)
  PROVE  IInv'
<1> USE DEF IInv, DeregisterObserver, logVars, iterVars, frameVars, stopVars
<1>0. /\ pc \notin {"check", "deliver"}
      /\ observers_ \in Seq(Observers) /\ new_observers_ \in Seq(Observers)
      /\ NoDuplicates(observers_) /\ NoDuplicates(new_observers_)
      /\ \A p \in Observers : ~(Contains(observers_, p) /\ Contains(new_observers_, p))
  BY DEF MutexHeld, TypeOK, OnOneList, Contains
<1>1. /\ observers_' \in Seq(Observers) /\ NoDuplicates(observers_')
      /\ \A p \in Observers : Contains(observers_', p) <=> Contains(observers_, p) /\ p # o
  BY <1>0, Removed
<1>2. /\ new_observers_' \in Seq(Observers) /\ NoDuplicates(new_observers_')
      /\ \A p \in Observers : Contains(new_observers_', p) <=> Contains(new_observers_, p) /\ p # o
  <2>1. CASE enable_gop_cache_
    BY <2>1, <1>0, Removed
  <2>2. CASE ~enable_gop_cache_
    BY <2>2, <1>0 DEF FrameInv, Contains
  <2> QED BY <2>1, <2>2
<1>3. TypeOK'
  <2>1. delivered' \in [Observers -> Seq(Nat)]
    BY DEF TypeOK
  <2> QED BY <2>1, <1>1, <1>2 DEF TypeOK
<1>4. MutexHeld' /\ FrameInv'
  BY DEF MutexHeld, FrameInv
<1>5. ASSUME NEW i \in 1..Len(observers_')
      PROVE  /\ observers_'[i] \in Observers
             /\ Contains(observers_, observers_'[i]) /\ observers_'[i] # o
  BY <1>1 DEF Contains
<1>6. ASSUME NEW i \in 1..Len(new_observers_')
      PROVE  /\ new_observers_'[i] \in Observers /\ Contains(new_observers_, new_observers_'[i])
             /\ new_observers_'[i] # o
  BY <1>2 DEF Contains
<1>7. \A p \in Observers : p # o => delivered'[p] = delivered[p]
  BY DEF TypeOK
<1>8. OnOneList'
  BY <1>0, <1>1, <1>2, <1>6 DEF OnOneList
<1>9. InStep'
  <2>1. \A p \in Observers : Contains(observers_, p) => IsRun(delivered[p], count)
    BY <1>0 DEF InStep, Contains
  <2>2. \A p \in Observers : Contains(new_observers_, p) => delivered[p] = <<>>
    BY <1>0 DEF InStep, Contains
  <2>3. \A i \in 1..Len(observers_') : IsRun(delivered'[observers_'[i]], count)
    BY <2>1, <1>5, <1>7
  <2>4. \A i \in 1..Len(new_observers_') : delivered'[new_observers_'[i]] = <<>>
    BY <2>2, <1>6, <1>7
  <2> QED BY <2>3, <2>4, <1>0 DEF InStep
<1>10. CacheIsGop'
  BY DEF CacheIsGop
<1>11. StartInv'
  <2>1. delivered'[o] = <<>>
    BY DEF TypeOK
  <2>2. ASSUME NEW p \in Observers, ~Registered(p)' PROVE delivered'[p] = <<>>
    BY <2>1, <2>2, <1>1, <1>2, <1>7 DEF StartInv, Registered
  <2>3. \A p \in Observers : Contains(observers_, p) /\ delivered[p] = <<>> =>
          (enable_gop_cache_ => count = 0)
    BY <1>0 DEF StartInv, Contains
  <2> QED BY <2>2, <2>3, <1>0, <1>5, <1>7 DEF StartInv
<1> QED BY <1>3, <1>4, <1>8, <1>9, <1>10, <1>11

-----------------------------------------------------------------------------
(* The invariant holds in every state of a source.                         *)
THEOREM Invariance == Spec => []IInv
<1>1. IInv /\ [Next]_vars => IInv'
  <2> SUFFICES ASSUME IInv, [Next]_vars PROVE IInv'
    OBVIOUS
  <2>1. CASE Reader
    BY <2>1, QuietReader, CheckNewObserverInv, ReplayCachedInv, PromoteInv, EndCheckInv,
       BeginDeliveryInv, DeliverInv, EndDeliveryInv DEF Reader
  <2>2. CASE Others
    BY <2>2, QuietReader, SameOthers, RegisterObserverInv, DeregisterObserverInv DEF Others
  <2>3. CASE Joined
    BY <2>3, SameOthers DEF Joined
  <2>4. CASE UNCHANGED vars
    <3>1. TypeOK'
      BY <2>4 DEF vars, IInv, TypeOK, listVars, frameVars, logVars, iterVars, stopVars, historyVars
    <3> QED BY <2>4, <3>1, SameStep DEF vars, historyVars
  <2> QED BY <2>1, <2>2, <2>3, <2>4 DEF Next
<1> QED BY InitInv, <1>1, PTL DEF Spec

(* The members of a MediaSource have their types, and counters keep their  *)
(* bounds.                                                                 *)
THEOREM TypeCorrect == Spec => []TypeOK
BY Invariance, PTL DEF IInv

(* Every observer has been called with a run of packets that ends with the *)
(* newest one (CheckNewObserver, ReadPacket): no gap, none twice.          *)
THEOREM EveryoneInStep == Spec => []InStep
BY Invariance, PTL DEF IInv

(* GopCache holds the packets from the last key frame to the newest one.   *)
THEOREM CacheExact == Spec => []CacheIsGop
BY Invariance, PTL DEF IInv

-----------------------------------------------------------------------------
(* The refinement of PacketFeed.                                           *)

(* The new observer that is being served.                                  *)
Serving(o) == pc = "check" /\ iter <= Len(new_observers_) /\ new_observers_[iter] = o

(* Where the cursors are, by the lists.                                    *)
CursorFacts ==
  /\ \A i \in 1..Len(observers_) :
       Cursor(observers_[i]) = IF pc = "deliver" /\ i >= iter THEN count ELSE count + 1
  /\ \A o \in Observers :
       /\ Serving(o) => Cursor(o) = count - Len(gop_cache_) + citer
       /\ ~Contains(observers_, o) /\ ~Serving(o) => Cursor(o) = 0

(* The refinement mapping says what CursorFacts does.                      *)
LEMMA CursorIs == IInv => CursorFacts
<1> SUFFICES ASSUME IInv PROVE CursorFacts
  OBVIOUS
<1> USE DEF IInv
<1>0. /\ count \in Nat /\ iter \in Nat /\ citer \in Nat /\ citer >= 1
      /\ gop_cache_ \in Seq(Nat) /\ Len(gop_cache_) \in Nat /\ Len(new_observers_) \in Nat
      /\ observers_ \in Seq(Observers) /\ new_observers_ \in Seq(Observers)
      /\ delivered \in [Observers -> Seq(Nat)]
  BY DEF TypeOK
<1>1. ASSUME NEW i \in 1..Len(observers_)
      PROVE  Cursor(observers_[i]) = IF pc = "deliver" /\ i >= iter THEN count ELSE count + 1
  <2> DEFINE o == observers_[i]
             last == IF pc = "deliver" /\ i >= iter THEN count - 1 ELSE count
  <2>1. Reading(o) /\ o \in Observers
    BY <1>0 DEF Reading, Contains
  <2>2. IsRun(delivered[o], last)
    BY DEF InStep
  <2>3. CASE delivered[o] # <<>>
    <3>1. Len(delivered[o]) \in 1..Len(delivered[o]) /\ Len(delivered[o]) \in Nat
      BY <2>1, <2>3, <1>0, EmptySeq
    <3>2. delivered[o][Len(delivered[o])] = last - Len(delivered[o]) + Len(delivered[o])
      BY <3>1, <2>2 DEF IsRun
    <3>3. last \in Int
      BY <1>0
    <3>4. delivered[o][Len(delivered[o])] = last
      BY <3>1, <3>2, <3>3
    <3> QED BY <3>4, <2>1, <2>3, <1>0 DEF Cursor
  <2>4. CASE delivered[o] = <<>>
    <3>1. IF pc = "deliver" THEN i >= iter ELSE enable_gop_cache_ => count = 0
      BY <2>4 DEF StartInv
    <3>2. pc # "deliver" => gop_cache_ = <<>>
      <4>1. pc # "deliver" /\ enable_gop_cache_ => Len(gop_cache_) = 0
        BY <3>1, <1>0 DEF CacheIsGop, IsRun
      <4>2. ~enable_gop_cache_ => gop_cache_ = <<>>
        BY DEF FrameInv
      <4> QED BY <4>1, <4>2, <1>0, EmptySeq
    <3> QED BY <3>1, <3>2, <2>1, <2>4 DEF Cursor
  <2> QED BY <2>3, <2>4
<1>2. ASSUME NEW o \in Observers, Serving(o)
      PROVE  Cursor(o) = count - Len(gop_cache_) + citer
  <2>1. Reading(o)
    BY <1>2 DEF Reading, Serving
  <2>2. delivered[o] = SubSeq(gop_cache_, 1, citer - 1)
    <3>1. iter \in 1..Len(new_observers_) /\ iter >= iter
      BY <1>2, <1>0 DEF Serving, TypeOK
    <3> QED BY <1>2, <3>1 DEF Serving, InStep
  <2>3. /\ citer <= Len(gop_cache_) + 1 /\ enable_gop_cache_ /\ pc # "deliver"
        /\ IsRun(gop_cache_, count)
    BY <1>2 DEF Serving, FrameInv, CacheIsGop
  <2>4. CASE citer = 1
    <3>1. delivered[o] = <<>>
      BY <2>2, <2>4, <1>0
    <3>2. CASE gop_cache_ = <<>>
      <4>1. Len(gop_cache_) = 0
        BY <3>2
      <4> QED BY <3>1, <3>2, <4>1, <2>1, <2>3, <2>4, <1>0 DEF Cursor
    <3>3. CASE gop_cache_ # <<>>
      <4>1. 1 \in 1..Len(gop_cache_)
        BY <3>3, <1>0, EmptySeq
      <4>2. gop_cache_[1] = count - Len(gop_cache_) + 1
        BY <4>1, <2>3 DEF IsRun
      <4> QED BY <3>1, <3>3, <4>2, <2>1, <2>3, <2>4 DEF Cursor
    <3> QED BY <3>2, <3>3
  <2>5. CASE citer # 1
    <3>1. citer - 1 \in 1..Len(gop_cache_) /\ citer - 1 >= 1
      BY <2>3, <2>5, <1>0
    <3>2. Len(delivered[o]) = citer - 1 /\ delivered[o][citer - 1] = gop_cache_[citer - 1]
      BY <2>2, <3>1, <1>0
    <3>3. gop_cache_[citer - 1] = count - Len(gop_cache_) + (citer - 1)
      BY <3>1, <2>3 DEF IsRun
    <3>4. delivered[o] # <<>>
      <4>1. Len(<<>>) = 0
        OBVIOUS
      <4> QED BY ONLY <4>1, <3>1, <3>2
    <3>5. Cursor(o) = gop_cache_[citer - 1] + 1
      BY <3>2, <3>4, <2>1 DEF Cursor
    <3> QED BY <3>5, <3>3, <1>0
  <2> QED BY <2>4, <2>5
<1>3. ASSUME NEW o \in Observers, ~Contains(observers_, o), ~Serving(o)
      PROVE  Cursor(o) = 0
  BY <1>3 DEF Cursor, Reading, Serving
<1> QED BY <1>1, <1>2, <1>3 DEF CursorFacts

(* And after a step.                                                       *)
LEMMA CursorIsNext == IInv' => CursorFacts'
BY CursorIs, PTL

(* A new reader starts with the first cached packet, or with the next one. *)
LEMMA StartPointIs ==
  ASSUME IInv, pc # "deliver"
  PROVE  Feed!StartPoint = count - Len(gop_cache_) + 1
<1> USE DEF IInv
<1>0. /\ count \in Nat /\ gop_cache_ \in Seq(Nat) /\ Len(gop_cache_) \in Nat
      /\ keys \subseteq 1..count
  BY DEF TypeOK
<1>1. CASE ~enable_gop_cache_
  <2>1. Len(gop_cache_) = 0
    BY <1>1 DEF FrameInv
  <2> QED BY <1>1, <2>1, <1>0 DEF Feed!StartPoint
<1>2. CASE enable_gop_cache_
  <2>1. /\ IsRun(gop_cache_, count) /\ (count > 0 => Len(gop_cache_) > 0)
        /\ Len(gop_cache_) > 0 =>
             gop_cache_[1] \in keys \cup {1} /\ \A k \in keys : k <= count => k <= gop_cache_[1]
    BY <1>2 DEF CacheIsGop
  <2>2. CASE count = 0
    <3>1. Len(gop_cache_) = 0
      BY <2>1, <2>2, <1>0 DEF IsRun
    <3> QED BY <3>1, <2>2, <1>0 DEF Feed!StartPoint
  <2>3. CASE count # 0
    <3> DEFINE first == gop_cache_[1]
    <3>1. first = count - Len(gop_cache_) + 1 /\ first \in keys \cup {1}
      BY <2>1, <2>3, <1>0 DEF IsRun
    <3>2. \A k \in keys : k <= first /\ k >= 1 /\ k \in Nat
      BY <2>1, <2>3, <1>0
    <3>3. CASE keys = {}
      BY <3>1, <3>3, <2>3, <1>2 DEF Feed!StartPoint
    <3>4. CASE keys # {}
      <4>1. first \in keys
        BY <3>1, <3>2, <3>4
      <4>2. first \in Nat
        BY <4>1, <3>2
      <4>3. ASSUME NEW k \in keys, \A l \in keys : l <= k PROVE k = first
        <5>1. k <= first /\ first <= k /\ k \in Nat
          BY <3>2, <4>1, <4>3
        <5> QED BY <5>1, <4>2
      <4>4. (CHOOSE k \in keys : \A l \in keys : l <= k) = first
        BY <4>1, <4>3, <3>2
      <4> QED BY <4>4, <3>1, <3>4, <2>3, <1>2 DEF Feed!StartPoint
    <3> QED BY <3>3, <3>4
  <2> QED BY <2>2, <2>3
<1> QED BY <1>1, <1>2

-----------------------------------------------------------------------------
(* Steps of the feed, by what becomes of the cursors.                      *)
Cursors == [o \in Observers |-> Cursor(o)]

(* Nothing a reader of the feed could see.                                 *)
LEMMA FeedStutters ==
  ASSUME UNCHANGED <<enable_gop_cache_, count, keys>>,
         \A o \in Observers : Cursor(o)' = Cursor(o)
  PROVE  [Feed!FeedNext]_Feed!feedVars
BY DEF Feed!feedVars

(* A packet is published when all readers have had the one before.         *)
LEMMA FeedPublishes ==
  ASSUME UNCHANGED enable_gop_cache_, count' = count + 1,
         keys' \in {keys, keys \cup {count + 1}},
         \A o \in Observers : Cursor(o)' = Cursor(o) /\ Cursor(o) \in {0, count + 1}
  PROVE  [Feed!FeedNext]_Feed!feedVars
BY DEF Feed!FeedNext, Feed!Publish

(* A reader joins, reads, leaves.                                          *)
LEMMA FeedJoins ==
  ASSUME UNCHANGED <<enable_gop_cache_, count, keys>>,
         NEW o \in Observers, Cursor(o) = 0, Cursor(o)' = Feed!StartPoint,
         \A p \in Observers : p # o => Cursor(p)' = Cursor(p)
  PROVE  [Feed!FeedNext]_Feed!feedVars
<1>1. Cursors' = [Cursors EXCEPT ![o] = Feed!StartPoint]
  BY DEF Cursors
<1> QED BY <1>1 DEF Cursors, Feed!FeedNext, Feed!Join

LEMMA FeedReads ==
  ASSUME UNCHANGED <<enable_gop_cache_, count, keys>>,
         NEW o \in Observers, Cursor(o) \in 1..count, Cursor(o)' = Cursor(o) + 1,
         \A p \in Observers : p # o => Cursor(p)' = Cursor(p)
  PROVE  [Feed!FeedNext]_Feed!feedVars
<1>1. Cursors' = [Cursors EXCEPT ![o] = @ + 1]
  BY DEF Cursors
<1> QED BY <1>1 DEF Cursors, Feed!FeedNext, Feed!Read

LEMMA FeedLeft ==
  ASSUME UNCHANGED <<enable_gop_cache_, count, keys>>,
         NEW o \in Observers, Cursor(o) # 0, Cursor(o)' = 0,
         \A p \in Observers : p # o => Cursor(p)' = Cursor(p)
  PROVE  [Feed!FeedNext]_Feed!feedVars
<1>1. Cursors' = [Cursors EXCEPT ![o] = 0]
  BY DEF Cursors
<1> QED BY <1>1 DEF Cursors, Feed!FeedNext, Feed!Leave

-----------------------------------------------------------------------------
(* While no list is walked, who is on observers_ reads the next packet.    *)
LEMMA QuietCursors ==
  ASSUME IInv, pc \notin {"check", "deliver"}, NEW o \in Observers
  PROVE  Cursor(o) = IF Contains(observers_, o) THEN count + 1 ELSE 0
BY CursorIs DEF CursorFacts, Contains, Serving

(* And after a step.                                                       *)
LEMMA QuietCursorsNext ==
  ASSUME IInv', pc' \notin {"check", "deliver"}, NEW o \in Observers
  PROVE  Cursor(o)' = IF Contains(observers_, o)' THEN count' + 1 ELSE 0
BY CursorIsNext DEF CursorFacts, Contains, Serving

(* Steps that leave observers_ and the log alone.                          *)
LEMMA QuietFeed ==
  ASSUME IInv, IInv', pc \notin {"check", "deliver"}, pc' \notin {"check", "deliver"},
         UNCHANGED <<observers_, logVars, enable_gop_cache_>>
  PROVE  [Feed!FeedNext]_Feed!feedVars
<1>1. ASSUME NEW o \in Observers PROVE Cursor(o)' = Cursor(o)
  BY QuietCursors, QuietCursorsNext DEF logVars, Contains
<1> QED BY <1>1, FeedStutters DEF logVars

(* Steps that leave all the mapping looks at alone.                        *)
LEMMA SameFeed ==
  ASSUME UNCHANGED <<pc, listVars, gop_cache_, logVars, iterVars, delivered, enable_gop_cache_>>
  PROVE  [Feed!FeedNext]_Feed!feedVars
<1>1. ASSUME NEW o \in Observers PROVE Cursor(o)' = Cursor(o)
  BY DEF Cursor, Reading, Contains, listVars, logVars, iterVars
<1> QED BY <1>1, FeedStutters DEF logVars

(* CheckNewObserver: the next one to be served joins the feed, reads what  *)
(* is cached, and goes on reading on observers_.                           *)
LEMMA CheckFeed ==
  ASSUME IInv, IInv', UNCHANGED enable_gop_cache_,
         CheckNewObserver \/ ReplayCached \/ Promote \/ EndCheck
  PROVE  [Feed!FeedNext]_Feed!feedVars
<1> USE DEF logVars, listVars, frameVars, historyVars, stopVars, iterVars
<1>0. /\ count \in Nat /\ iter \in Nat \ {0} /\ citer \in Nat \ {0} /\ Len(gop_cache_) \in Nat
      /\ new_observers_ \in Seq(Observers) /\ Len(new_observers_) \in Nat
  BY DEF IInv, TypeOK
<1>1. CASE CheckNewObserver
  <2> USE DEF CheckNewObserver
  <2>1. \A p \in Observers : Cursor(p) = IF Contains(observers_, p) THEN count + 1 ELSE 0
    BY <1>1, QuietCursors
  <2>2. \A p \in Observers :
          /\ Contains(observers_, p) => Cursor(p)' = count + 1
          /\ Serving(p)' => Cursor(p)' = count - Len(gop_cache_) + 1
          /\ ~Contains(observers_, p) /\ ~Serving(p)' => Cursor(p)' = 0
    BY <1>1, CursorIsNext DEF CursorFacts, Contains
  <2>3. CASE \E o \in Observers : Serving(o)'
    <3>1. PICK o \in Observers : Serving(o)'
      BY <2>3
    <3>2. \A p \in Observers : p # o => ~Serving(p)'
      BY <3>1 DEF Serving
    <3>3. ~Contains(observers_, o)
      <4>1. new_observers_[1] = o /\ 1 \in 1..Len(new_observers_)
        BY <1>1, <3>1, <1>0 DEF Serving
      <4> QED BY <1>1, <4>1 DEF IInv, OnOneList
    <3>4. Feed!StartPoint = count - Len(gop_cache_) + 1
      BY <1>1, StartPointIs
    <3>5. Cursor(o) = 0 /\ Cursor(o)' = Feed!StartPoint
      BY <2>1, <2>2, <3>1, <3>3, <3>4
    <3>6. \A p \in Observers : p # o => Cursor(p)' = Cursor(p)
      BY <2>1, <2>2, <3>2
    <3> QED BY <1>1, <3>5, <3>6, FeedJoins
  <2>4. CASE ~\E o \in Observers : Serving(o)'
    <3>1. \A p \in Observers : Cursor(p)' = Cursor(p)
      BY <2>1, <2>2, <2>4
    <3> QED BY <1>1, <3>1, FeedStutters
  <2> QED BY <2>3, <2>4
<1>2. CASE ReplayCached
  <2> USE DEF ReplayCached
  <2> PICK o \in Observers : o = new_observers_[iter]
    BY <1>2, <1>0
  <2>0. Serving(o) /\ Serving(o)' /\ \A p : Serving(p) \/ Serving(p)' => p = o
    BY <1>2, <1>0 DEF Serving
  <2>1. \A p \in Observers :
          /\ Contains(observers_, p) => Cursor(p) = count + 1
          /\ Serving(p) => Cursor(p) = count - Len(gop_cache_) + citer
          /\ ~Contains(observers_, p) /\ ~Serving(p) => Cursor(p) = 0
    BY <1>2, CursorIs DEF CursorFacts, Contains
  <2>2. \A p \in Observers :
          /\ Contains(observers_, p) => Cursor(p)' = count + 1
          /\ Serving(p)' => Cursor(p)' = count - Len(gop_cache_) + (citer + 1)
          /\ ~Contains(observers_, p) /\ ~Serving(p)' => Cursor(p)' = 0
    BY <1>2, CursorIsNext DEF CursorFacts, Contains
  <2>3. Len(gop_cache_) <= count /\ citer <= Len(gop_cache_)
    BY <1>2 DEF IInv, CacheIsGop, FrameInv, IsRun
  <2>4. Cursor(o) \in 1..count /\ Cursor(o)' = Cursor(o) + 1
    BY <2>0, <2>1, <2>2, <2>3, <1>0
  <2>5. \A p \in Observers : p # o => Cursor(p)' = Cursor(p)
    BY <2>0, <2>1, <2>2
  <2> QED BY <1>2, <2>0, <2>4, <2>5, FeedReads
<1>3. CASE Promote
  <2> USE DEF Promote
  <2> PICK o \in Observers : o = new_observers_[iter]
    BY <1>3, <1>0
  <2>0. /\ Serving(o) /\ iter \in 1..Len(new_observers_)
        /\ \A p : Serving(p) => p = o
    BY <1>3, <1>0 DEF Serving
  <2>1. \A p \in Observers :
          /\ Contains(observers_, p) => Cursor(p) = count + 1
          /\ Serving(p) => Cursor(p) = count - Len(gop_cache_) + citer
          /\ ~Contains(observers_, p) /\ ~Serving(p) => Cursor(p) = 0
    BY <1>3, CursorIs DEF CursorFacts, Contains
  <2>2. \A p \in Observers :
          /\ Contains(observers_', p) => Cursor(p)' = count + 1
          /\ Serving(p)' => Cursor(p)' = count - Len(gop_cache_) + 1
          /\ ~Contains(observers_', p) /\ ~Serving(p)' => Cursor(p)' = 0
    BY <1>3, CursorIsNext DEF CursorFacts, Contains
  <2>3. citer = Len(gop_cache_) + 1
    BY <1>3, <1>0 DEF IInv, FrameInv
  <2>4. \A p \in Observers : Contains(observers_', p) <=> Contains(observers_, p) \/ p = o
    BY <1>3, <2>0, Pushed DEF IInv, TypeOK, OnOneList
  <2>5. Cursor(o) = count + 1 /\ Cursor(o)' = count + 1
    <3>1. Cursor(o) = count - Len(gop_cache_) + (Len(gop_cache_) + 1)
      BY <2>0, <2>1, <2>3
    <3>2. Contains(observers_', o)
      BY <2>0, <2>4
    <3> QED BY <2>0, <2>2, <3>1, <3>2, <1>0
  <2>6. CASE \E n \in Observers : Serving(n)'
    <3>1. PICK n \in Observers : Serving(n)'
      BY <2>6
    <3>2. \A p \in Observers : p # n => ~Serving(p)'
      BY <3>1 DEF Serving
    <3>3. n # o /\ ~Contains(observers_, n)
      <4>1. new_observers_[iter + 1] = n /\ iter + 1 \in 1..Len(new_observers_)
        BY <1>3, <3>1, <1>0 DEF Serving
      <4>2. ~(iter + 1 < iter) /\ iter + 1 # iter
        BY <1>0
      <4> QED BY <1>3, <4>1, <4>2, <2>0 DEF IInv, OnOneList, NoDuplicates
    <3>4. Feed!StartPoint = count - Len(gop_cache_) + 1
      BY <1>3, StartPointIs
    <3>5. Cursor(n) = 0 /\ Cursor(n)' = Feed!StartPoint
      BY <2>0, <2>1, <2>2, <2>4, <3>1, <3>3, <3>4
    <3>6. \A p \in Observers : p # n => Cursor(p)' = Cursor(p)
      BY <2>0, <2>1, <2>2, <2>4, <2>5, <3>2
    <3> QED BY <1>3, <3>5, <3>6, FeedJoins
  <2>7. CASE ~\E n \in Observers : Serving(n)'
    <3>1. \A p \in Observers : Cursor(p)' = Cursor(p)
      BY <2>0, <2>1, <2>2, <2>4, <2>5, <2>7
    <3> QED BY <1>3, <3>1, FeedStutters
  <2> QED BY <2>6, <2>7
<1>4. CASE EndCheck
  <2> USE DEF EndCheck
  <2>1. \A p \in Observers : Cursor(p) = IF Contains(observers_, p) THEN count + 1 ELSE 0
    BY <1>4, <1>0, CursorIs DEF CursorFacts, Contains, Serving
  <2>2. \A p \in Observers : Cursor(p)' = IF Contains(observers_, p) THEN count + 1 ELSE 0
    BY <1>4, QuietCursorsNext DEF Contains
  <2> QED BY <1>4, <2>1, <2>2, FeedStutters
<1> QED BY <1>1, <1>2, <1>3, <1>4

(* A delivery publishes a packet, and every reader reads it.               *)
LEMMA DeliveryFeed ==
  ASSUME IInv, IInv', UNCHANGED enable_gop_cache_,
         BeginDelivery \/ Deliver \/ EndDelivery
  PROVE  [Feed!FeedNext]_Feed!feedVars
<1> USE DEF logVars, listVars, frameVars, historyVars, stopVars, iterVars
<1>0. /\ count \in Nat /\ iter \in Nat \ {0} /\ Len(observers_) \in Nat
      /\ observers_ \in Seq(Observers)
  BY DEF IInv, TypeOK
<1>1. CASE BeginDelivery
  <2> USE DEF BeginDelivery
  <2>1. \A p \in Observers : Cursor(p) = IF Contains(observers_, p) THEN count + 1 ELSE 0
    BY <1>1, QuietCursors
  <2>2. \A p \in Observers : Cursor(p)' = IF Contains(observers_, p) THEN count + 1 ELSE 0
    BY <1>1, CursorIsNext DEF CursorFacts, Contains, Serving
  <2> QED BY <1>1, <2>1, <2>2, FeedPublishes
<1>2. CASE Deliver
  <2> USE DEF Deliver
  <2> PICK o \in Observers : o = observers_[iter]
    BY <1>2, <1>0
  <2>0. iter \in 1..Len(observers_) /\ count >= 1
    BY <1>2, <1>0 DEF IInv, FrameInv
  <2>1. Cursor(o) = count /\ Cursor(o)' = count + 1
    <3>1. iter >= iter /\ ~(iter >= iter')
      BY <1>2, <1>0
    <3>2. Cursor(o) = count
      BY <1>2, <2>0, <3>1, CursorIs DEF CursorFacts
    <3>3. Cursor(o)' = count' + 1
      <4>1. iter \in 1..Len(observers_') /\ observers_'[iter] = o
        BY <1>2, <2>0
      <4> QED BY <1>2, <3>1, <4>1, CursorIsNext DEF CursorFacts
    <3> QED BY <1>2, <3>2, <3>3
  <2>2. ASSUME NEW p \in Observers, p # o PROVE Cursor(p)' = Cursor(p)
    <3>1. CASE Contains(observers_, p)
      <4>1. PICK i \in 1..Len(observers_) : observers_[i] = p
        BY <3>1 DEF Contains
      <4>2. i >= iter <=> i >= iter'
        BY <4>1, <2>2, <1>2, <1>0
      <4> QED BY <1>2, <4>1, <4>2, CursorIs, CursorIsNext DEF CursorFacts
    <3>2. CASE ~Contains(observers_, p)
      BY <1>2, <3>2, CursorIs, CursorIsNext DEF CursorFacts, Contains, Serving
    <3> QED BY <3>1, <3>2
  <2>3. Cursor(o) \in 1..count /\ Cursor(o)' = Cursor(o) + 1
    BY <1>0, <2>0, <2>1
  <2> QED BY <1>2, <2>0, <2>2, <2>3, FeedReads
<1>3. CASE EndDelivery
  <2> USE DEF EndDelivery
  <2>1. \A p \in Observers : Cursor(p) = IF Contains(observers_, p) THEN count + 1 ELSE 0
    BY <1>3, <1>0, CursorIs DEF CursorFacts, Contains, Serving
  <2>2. \A p \in Observers : Cursor(p)' = IF Contains(observers_, p) THEN count + 1 ELSE 0
    BY <1>3, QuietCursorsNext DEF Contains
  <2> QED BY <1>3, <2>1, <2>2, FeedStutters
<1> QED BY <1>1, <1>2, <1>3

(* Without the cache a registered observer joins at once; a deregistered   *)
(* one leaves.                                                             *)
LEMMA ListFeed ==
  ASSUME IInv, IInv', UNCHANGED enable_gop_cache_, NEW o \in Observers,
         RegisterObserver(o) \/ DeregisterObserver(o)
  PROVE  [Feed!FeedNext]_Feed!feedVars
<1> USE DEF logVars, frameVars, historyVars, stopVars, iterVars
<1>0. /\ pc \notin {"check", "deliver"} /\ pc' = pc /\ count' = count /\ keys' = keys
      /\ count \in Nat /\ observers_ \in Seq(Observers) /\ NoDuplicates(observers_)
  BY DEF IInv, MutexHeld, TypeOK, OnOneList, RegisterObserver, DeregisterObserver
<1>1. \A p \in Observers :
        /\ Cursor(p) = IF Contains(observers_, p) THEN count + 1 ELSE 0
        /\ Cursor(p)' = IF Contains(observers_', p) THEN count + 1 ELSE 0
  BY <1>0, QuietCursors, QuietCursorsNext DEF Contains
<1>2. CASE observers_' = observers_
  BY <1>0, <1>1, <1>2, FeedStutters
<1>3. CASE RegisterObserver(o) /\ observers_' # observers_
  <2>1. observers_' = PushIfAbsent(observers_, o) /\ ~enable_gop_cache_ /\ ~Contains(observers_, o)
    BY <1>3 DEF RegisterObserver, Registered
  <2>2. \A p \in Observers : Contains(observers_', p) <=> Contains(observers_, p) \/ p = o
    BY <2>1, <1>0, Pushed
  <2>3. Feed!StartPoint = count + 1
    BY <2>1 DEF Feed!StartPoint
  <2> QED BY <1>0, <1>1, <2>1, <2>2, <2>3, FeedJoins
<1>4. CASE DeregisterObserver(o) /\ observers_' # observers_
  <2>1. observers_' = RemoveFirst(observers_, o) /\ Contains(observers_, o)
    BY <1>4 DEF DeregisterObserver, RemoveFirst, Contains
  <2>2. \A p \in Observers : Contains(observers_', p) <=> Contains(observers_, p) /\ p # o
    BY <2>1, <1>0, Removed
  <2>3. Cursor(o) # 0 /\ Cursor(o)' = 0 /\ \A p \in Observers : p # o => Cursor(p)' = Cursor(p)
    BY <1>0, <1>1, <2>1, <2>2
  <2> QED BY <1>0, <2>3, FeedLeft
<1> QED BY <1>2, <1>3, <1>4

(* A source gives its observers what PacketFeed promises them, with and    *)
(* without the GOP cache (RegisterObserver, CheckNewObserver, ReadPacket). *)
THEOREM FeedImplemented == Spec => FeedRefined
<1>1. Init => Feed!FeedInit
  <2> SUFFICES ASSUME Init PROVE Feed!FeedInit
    OBVIOUS
  <2>1. \A o \in Observers : Cursor(o) = 0
    BY DEF Init, Cursor, Reading, Contains
  <2> QED BY <2>1 DEF Init, Feed!FeedInit
<1>2. IInv /\ IInv' /\ [Next]_vars => [Feed!FeedNext]_Feed!feedVars
  <2> SUFFICES ASSUME IInv, IInv', [Next]_vars PROVE [Feed!FeedNext]_Feed!feedVars
    OBVIOUS
  <2> USE DEF logVars, listVars, frameVars, historyVars, stopVars, iterVars
  <2>1. CASE LoopHead /\ UNCHANGED enable_gop_cache_
    BY <2>1, QuietFeed DEF LoopHead
  <2>2. CASE ReadVideo /\ UNCHANGED enable_gop_cache_
    BY <2>2, QuietFeed DEF ReadVideo
  <2>3. CASE ReadAudio /\ UNCHANGED enable_gop_cache_
    <3>1. pc = "read" /\ pc' \in {"loop", "wait_deliver"}
      BY <2>3 DEF ReadAudio
    <3> QED BY <2>3, <3>1, QuietFeed DEF ReadAudio
  <2>4. CASE ReadFails /\ UNCHANGED enable_gop_cache_
    BY <2>4, QuietFeed DEF ReadFails
  <2>5. CASE StreamEnd /\ UNCHANGED enable_gop_cache_
    BY <2>5, QuietFeed DEF StreamEnd
  <2>6. CASE Start /\ UNCHANGED enable_gop_cache_
    BY <2>6, QuietFeed DEF Start
  <2>7. CASE Reader /\ (CheckNewObserver \/ ReplayCached \/ Promote \/ EndCheck)
    BY <2>7, CheckFeed DEF Reader
  <2>8. CASE Reader /\ (BeginDelivery \/ Deliver \/ EndDelivery)
    BY <2>8, DeliveryFeed DEF Reader
  <2>9. ASSUME UNCHANGED enable_gop_cache_, NEW o \in Observers,
               RegisterObserver(o) \/ DeregisterObserver(o)
        PROVE  [Feed!FeedNext]_Feed!feedVars
    BY <2>9, ListFeed
  <2>10. CASE /\ UNCHANGED enable_gop_cache_
              /\ Stop \/ Joined \/ \E o \in Observers : OpenLatch(o)
    BY <2>10, SameFeed DEF Stop, Joined, OpenLatch
  <2>11. CASE UNCHANGED vars
    BY <2>11, SameFeed DEF vars
  <2>12. Joined => UNCHANGED enable_gop_cache_
    BY DEF Joined
  <2> QED
    BY <2>1, <2>2, <2>3, <2>4, <2>5, <2>6, <2>7, <2>8, <2>9, <2>10, <2>11, <2>12
    DEF Next, Reader, Others
<1> QED BY <1>1, <1>2, Invariance, PTL DEF Spec, FeedRefined, Feed!FeedSpec
=============================================================================
