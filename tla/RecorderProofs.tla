--------------------------- MODULE RecorderProofs --------------------------
(***************************************************************************)
(* Proofs about Recorder, for queues of any size and any number of         *)
(* snapshots and events.                                                   *)
(***************************************************************************)
EXTENDS Recorder, SequenceTheorems, TLAPS

\* The recorder's queue and the viewer's.
Own == queue[Recording]
Views == queue[Viewer]

\* Where the recorder, its writer and stop are.
PlaceInv ==
    /\ stopping # "no" => state # "created"
    /\ writer = "none" => state \in {"created", "stopped", "failed"}
    /\ writer = "none" /\ stopEvent => state = "failed"
    /\ state = "created" => writer = "none"
    /\ state = "stopped" => writer \in {"none", "over"}
    /\ state = "failed" => incomplete
    /\ stopEvent => state \notin {"created", "running"}
    /\ writer \in {"last", "leave", "leaving", "over"} => stopEvent
    /\ writer = "over" => state \in {"stopped", "failed"}
    /\ writer = "leave" => incomplete
    /\ writer = "leaving" => actionQueue = <<>> \/ incomplete
    /\ writer = "write" <=> current # 0
    /\ budget = 0 => writer \in {"last", "leave", "leaving", "over"}
    /\ manifest.state = "stopped" => writer = "over"
    /\ StopHonest

\* All that s has been offered is below this.
Limit(s) == IF s \in offers THEN offered.seq ELSE sequence + 1

\* Sequences come in order, and each thing has only what came before it.
OrderInv ==
    /\ offers # {} => offered.seq <= sequence
    /\ \A i \in 1..Len(retained) : retained[i].seq <= sequence
    /\ replays[Recording] = Nothing
    /\ \A i \in 1..Len(Own) : Own[i].seq < Limit(Recording) /\ lastSequence < Own[i].seq /\ current < Own[i].seq
    /\ \A i, j \in 1..Len(Own) : i < j => Own[i].seq < Own[j].seq
    /\ current < Limit(Recording) /\ lastSequence < Limit(Recording)
    /\ current # 0 => lastSequence < current
    /\ \A i \in 1..Len(written) : written[i] <= lastSequence
    /\ \A i, j \in 1..Len(written) : i < j => written[i] < written[j]
    /\ \A i \in 1..Len(due) : due[i] < Limit(Recording)

\* Where a snapshot that was queued for the recorder is now.
Written(d) == \E i \in 1..Len(written) : written[i] = d
Queued(d) == d = current \/ \E i \in 1..Len(Own) : Own[i].seq = d

\* It overflowed, and its gap is yet to be seen ...
Overflowed(d) ==
    /\ dropped[Recording] > 0 /\ lastSequence < d
    /\ d < current \/ \E i \in 1..Len(Own) : d < Own[i].seq

\* ... or is before all that was written.
Forgotten(d) ==
    /\ dropped[Recording] > 0 /\ written # <<>>
    /\ \A i \in 1..Len(written) : d < written[i]

Safe(d) == Written(d) \/ Forgotten(d)
Held(d) == Safe(d) \/ Queued(d) \/ Overflowed(d)

LossInv ==
    ~incomplete =>
        /\ \A i \in 1..Len(due) : Held(due[i])
        /\ \A i \in 1..looked : Safe(due[i])

\* The events that were taken, while none is lost.
ActionInv ==
    ~incomplete =>
        \A a \in 1..actions : \/ \E i \in 1..Len(writtenActions) : writtenActions[i] = a
                              \/ \E i \in 1..Len(actionQueue) : actionQueue[i] = a

\* b may come after a.
InOrder(a, b) == a < b \/ (b < a /\ b = replayed)

\* What the viewer read and what it will read are in order, but for the replay.
ViewInv ==
    /\ Viewer \notin taken => stream = <<>> /\ Views = <<>> /\ replays[Viewer] = Nothing
    /\ replays[Viewer] # Nothing =>
          /\ replays[Viewer].seq = replayed /\ stream = <<>>
          /\ replayed < Limit(Viewer)
          /\ \A i \in 1..Len(Views) : replayed < Views[i].seq
    /\ \A i \in 1..Len(Views) : Views[i].seq < Limit(Viewer)
    /\ \A i \in 1..Len(stream) : stream[i] < Limit(Viewer)
    /\ \A i, j \in 1..Len(Views) : i < j => InOrder(Views[i].seq, Views[j].seq)
    /\ \A i, j \in 1..Len(stream) : i < j => InOrder(stream[i], stream[j])
    /\ \A i \in 1..Len(stream), j \in 1..Len(Views) : InOrder(stream[i], Views[j].seq)

IInv ==
        /\ TypeOK /\ PlaceInv /\ OrderInv /\ LossInv /\ ActionInv /\ ViewInv /\ LossVisible

-----------------------------------------------------------------------------
(* The store's operations on the queues.                                   *)

\* The two subscribers have queues of their own.
LEMMA Names ==
    /\ Recording \in Subscribers /\ Viewer \in Subscribers /\ Recording # Viewer
    /\ Subscribers = {Recording, Viewer}
    /\ OwnSize \in Nat \ {0} /\ QueueSize[Viewer] \in Nat \ {0}
  BY SubscribersAssumption, QueueSizeAssumption DEF OwnSize

\* What a queue has.
LEMMA QueueTypes ==
    ASSUME StoreTypeOK(Snapshots), NEW s \in Subscribers
    PROVE  /\ queue[s] \in Seq(Snapshots) /\ Len(queue[s]) \in Nat
           /\ \A i \in 1..Len(queue[s]) : queue[s][i] \in Snapshots /\ queue[s][i].seq \in 1..MaxSnapshots
           /\ QueueSize[s] \in Nat \ {0} /\ Len(queue[s]) <= QueueSize[s]
           /\ dropped[s] \in Nat
           /\ \A snap \in Snapshots : snap.seq \in 1..MaxSnapshots
           /\ offers # {} => offered \in Snapshots /\ offered.seq \in 1..MaxSnapshots
<1>1. queue[s] \in Seq(Snapshots) /\ dropped[s] \in Nat /\ Len(queue[s]) <= QueueSize[s]
  BY DEF StoreTypeOK
<1>2. \A snap \in Snapshots : snap.seq \in 1..MaxSnapshots
  BY DEF Snapshots
<1>3. \A i \in 1..Len(queue[s]) : queue[s][i] \in Snapshots
  BY <1>1
<1>4. QueueSize[s] \in Nat \ {0} /\ Len(queue[s]) \in Nat
  BY <1>1, QueueSizeAssumption
<1>5. offers # {} => offered \in Snapshots
  BY DEF StoreTypeOK
<1> QED
  BY <1>1, <1>2, <1>3, <1>4, <1>5

\* A snapshot comes last in a queue, and the first one goes if the queue was full.
Queues(s, snap, k) ==
    /\ k \in {0, 1} /\ Len(queue[s]) \in Nat
    /\ Len(queue'[s]) = Len(queue[s]) + 1 - k /\ Len(queue'[s]) \in Nat \ {0}
    /\ (k = 1 => 1 \in 1..Len(queue[s]))
    /\ queue'[s][Len(queue'[s])] = snap
    /\ \A i \in 1..Len(queue'[s]) :
          i # Len(queue'[s]) => queue'[s][i] = queue[s][i + k] /\ i + k \in 1..Len(queue[s])
    /\ \A i \in 1..Len(queue[s]) :
          i = k \/ (i - k \in 1..Len(queue'[s]) /\ queue'[s][i - k] = queue[s][i])
    /\ dropped'[s] = dropped[s] + k

LEMMA OfferCases ==
    ASSUME StoreTypeOK(Snapshots), NEW s \in Subscribers, NEW snap \in Snapshots, Offer(s, snap)
    PROVE  /\ UNCHANGED shut
           /\ \A u \in Subscribers \ {s} : queue'[u] = queue[u] /\ dropped'[u] = dropped[u]
           /\ shut[s] => UNCHANGED <<queue, dropped>>
           /\ ~shut[s] => \E k \in {0, 1} : Queues(s, snap, k)
           /\ queue' \in [Subscribers -> Seq(Snapshots)] /\ dropped' \in [Subscribers -> Nat]
           /\ \A u \in Subscribers : Len(queue'[u]) <= QueueSize[u]
<1> DEFINE full == Len(queue[s]) = QueueSize[s]
           kept == IF full THEN Tail(queue[s]) ELSE queue[s]
<1>1. /\ queue \in [Subscribers -> Seq(Snapshots)] /\ dropped \in [Subscribers -> Nat]
      /\ queue[s] \in Seq(Snapshots) /\ Len(queue[s]) \in Nat /\ QueueSize[s] \in Nat \ {0}
      /\ \A u \in Subscribers : Len(queue[u]) <= QueueSize[u]
      /\ dropped[s] \in Nat
  BY QueueTypes DEF StoreTypeOK
<1>2. CASE shut[s]
  BY <1>1, <1>2 DEF Offer, queueVars
<1>3. CASE ~shut[s]
  <2>1. /\ queue' = [queue EXCEPT ![s] = Append(kept, snap)]
        /\ dropped' = [dropped EXCEPT ![s] = IF full THEN dropped[s] + 1 ELSE dropped[s]]
        /\ UNCHANGED shut
    BY <1>3 DEF Offer
  <2>2. /\ kept \in Seq(Snapshots) /\ Len(kept) = IF full THEN Len(queue[s]) - 1 ELSE Len(queue[s])
        /\ \A i \in 1..Len(kept) : kept[i] = IF full THEN queue[s][i + 1] ELSE queue[s][i]
    BY <1>1
  <2> HIDE DEF kept
  <2>3. queue'[s] = Append(kept, snap)
    BY <1>1, <2>1
  <2>4. /\ queue'[s] \in Seq(Snapshots) /\ Len(queue'[s]) = Len(kept) + 1
        /\ queue'[s][Len(kept) + 1] = snap
        /\ \A i \in 1..Len(kept) : queue'[s][i] = kept[i]
    BY <2>2, <2>3
  <2>5. CASE full
    <3>1. dropped'[s] = dropped[s] + 1
      BY <1>1, <2>1, <2>5
    <3>2. Len(kept) = Len(queue[s]) - 1 /\ 1 \in 1..Len(queue[s])
      BY <1>1, <2>2, <2>5
    <3>3. \A i \in 1..Len(kept) : queue'[s][i] = queue[s][i + 1] /\ i + 1 \in 1..Len(queue[s])
      <4> SUFFICES ASSUME NEW i \in 1..Len(kept)
                   PROVE  queue'[s][i] = queue[s][i + 1] /\ i + 1 \in 1..Len(queue[s])
        OBVIOUS
      <4>1. queue'[s][i] = kept[i] /\ kept[i] = queue[s][i + 1]
        BY <2>2, <2>4, <2>5
      <4>2. i + 1 \in 1..Len(queue[s])
        BY <1>1, <3>2
      <4> QED
        BY <4>1, <4>2
    <3>4. \A i \in 1..Len(queue[s]) : i = 1 \/ (i - 1 \in 1..Len(kept) /\ queue'[s][i - 1] = queue[s][i])
      <4> SUFFICES ASSUME NEW i \in 1..Len(queue[s]), i # 1
                   PROVE  i - 1 \in 1..Len(kept) /\ queue'[s][i - 1] = queue[s][i]
        OBVIOUS
      <4>1. i - 1 \in 1..Len(kept) /\ (i - 1) + 1 = i
        BY <1>1, <3>2
      <4> QED
        BY <4>1, <3>3
    <3>5. Queues(s, snap, 1)
      BY <1>1, <2>4, <3>1, <3>2, <3>3, <3>4 DEF Queues
    <3> QED
      BY <1>1, <1>3, <2>1, <2>4, <2>5, <3>2, <3>5
  <2>6. CASE ~full
    <3>1. dropped'[s] = dropped[s] + 0
      BY <1>1, <2>1, <2>6
    <3>2. Len(kept) = Len(queue[s])
      BY <1>1, <2>2, <2>6
    <3>3. \A i \in 1..Len(kept) : queue'[s][i] = queue[s][i + 0] /\ i + 0 \in 1..Len(queue[s])
      BY <1>1, <2>2, <2>4, <2>6, <3>2
    <3>4. \A i \in 1..Len(queue[s]) : i - 0 \in 1..Len(queue'[s]) /\ queue'[s][i - 0] = queue[s][i]
      BY <1>1, <2>4, <3>2, <3>3
    <3>5. Queues(s, snap, 0)
      BY <1>1, <2>4, <3>1, <3>2, <3>3, <3>4 DEF Queues
    <3> QED
      BY <1>1, <1>3, <2>1, <2>4, <2>6, <3>2, <3>5
  <2> QED
    BY <2>5, <2>6
<1> QED
  BY <1>2, <1>3

\* get takes the first one.
LEMMA TakeCases ==
    ASSUME StoreTypeOK(Snapshots), NEW s \in Subscribers, Take(s)
    PROVE  /\ Len(queue[s]) \in Nat /\ 1 \in 1..Len(queue[s]) /\ Head(queue[s]) = queue[s][1]
           /\ queue[s][1].seq \in 1..MaxSnapshots
           /\ Len(queue'[s]) = Len(queue[s]) - 1 /\ Len(queue'[s]) \in Nat
           /\ \A i \in 1..Len(queue'[s]) : queue'[s][i] = queue[s][i + 1] /\ i + 1 \in 1..Len(queue[s])
           /\ \A i \in 1..Len(queue[s]) :
                 i = 1 \/ (i - 1 \in 1..Len(queue'[s]) /\ queue'[s][i - 1] = queue[s][i])
           /\ \A u \in Subscribers \ {s} : queue'[u] = queue[u]
           /\ queue' \in [Subscribers -> Seq(Snapshots)]
           /\ \A u \in Subscribers : Len(queue'[u]) <= QueueSize[u]
<1>1. /\ queue \in [Subscribers -> Seq(Snapshots)] /\ queue[s] \in Seq(Snapshots)
      /\ queue[s] # <<>> /\ queue' = [queue EXCEPT ![s] = Tail(queue[s])]
      /\ \A u \in Subscribers : Len(queue[u]) <= QueueSize[u]
      /\ QueueSize[s] \in Nat
  BY QueueTypes DEF StoreTypeOK, Take
<1>2. Len(queue[s]) \in Nat \ {0} /\ Head(queue[s]) = queue[s][1]
  BY <1>1
<1>3. queue'[s] = Tail(queue[s]) /\ \A u \in Subscribers \ {s} : queue'[u] = queue[u]
  BY <1>1
<1>4. /\ Tail(queue[s]) \in Seq(Snapshots) /\ Len(Tail(queue[s])) = Len(queue[s]) - 1
      /\ \A i \in 1..Len(Tail(queue[s])) : Tail(queue[s])[i] = queue[s][i + 1]
  BY <1>1, <1>2
<1>5. \A i \in 1..Len(queue'[s]) : queue'[s][i] = queue[s][i + 1] /\ i + 1 \in 1..Len(queue[s])
  BY <1>2, <1>3, <1>4
<1>6. \A i \in 1..Len(queue[s]) :
         i = 1 \/ (i - 1 \in 1..Len(queue'[s]) /\ queue'[s][i - 1] = queue[s][i])
  <2> SUFFICES ASSUME NEW i \in 1..Len(queue[s]), i # 1
               PROVE  i - 1 \in 1..Len(queue'[s]) /\ queue'[s][i - 1] = queue[s][i]
    OBVIOUS
  <2>1. i - 1 \in 1..Len(queue'[s]) /\ (i - 1) + 1 = i
    BY <1>2, <1>3, <1>4
  <2> QED
    BY <2>1, <1>5
<1>7. queue[s][1].seq \in 1..MaxSnapshots /\ 1 \in 1..Len(queue[s])
  BY <1>2, QueueTypes
<1>8. queue' \in [Subscribers -> Seq(Snapshots)] /\ Len(queue'[s]) <= QueueSize[s]
  BY <1>1, <1>2, <1>3, <1>4
<1> QED
  BY <1>1, <1>2, <1>3, <1>4, <1>5, <1>6, <1>7, <1>8

\* The steps that change the store, by what they do.
Publishes(snap) ==
    /\ Publish(snap) /\ snap \in Snapshots /\ snap.seq = sequence + 1 /\ sequence' = sequence + 1
    /\ sequence < MaxSnapshots
    /\ offers = {} /\ offers' = subscribers /\ (subscribers # {} => offered' = snap)
    /\ UNCHANGED <<subscribers, taken, replays, queue, dropped, shut>>

Skips ==
    /\ sequence < MaxSnapshots /\ sequence' = sequence + 1
    /\ offers = {}
    /\ UNCHANGED <<generation, retained, storeClosed, fanOutVars, queueVars>>

OtherVars == <<recorderVars, fileVars, writerVars, stopVars, historyVars, viewerVars>>

LEMMA PublishCases ==
    ASSUME TypeOK, PublishNext
    PROVE  ((\E snap \in Snapshots : Publishes(snap)) \/ Skips) /\ UNCHANGED OtherVars
<1>1. UNCHANGED OtherVars
  BY DEF PublishNext, OtherVars
<1>2. CASE Publish([seq |-> sequence + 1, gen |-> generation]) /\ sequence' = sequence + 1
  <2> DEFINE snap == [seq |-> sequence + 1, gen |-> generation]
  <2>1. snap \in Snapshots /\ snap.seq = sequence + 1
    BY RecorderBounds DEF TypeOK, StoreTypeOK, Snapshots, PublishNext
  <2> HIDE DEF snap
  <2>2. Publish(snap)
    BY <1>2 DEF snap
  <2>3. Publishes(snap)
    BY <1>2, <2>1, <2>2 DEF Publishes, Publish, PublishNext, queueVars
  <2> QED
    BY <1>1, <2>1, <2>3
<1>3. CASE NextObservationId /\ UNCHANGED <<fanOutVars, queueVars>>
  BY <1>1, <1>3 DEF NextObservationId, Skips, PublishNext
<1> QED
  BY <1>1, <1>2, <1>3 DEF PublishNext

\* The window after a publication.
LEMMA Window ==
    ASSUME StoreTypeOK(Snapshots), NEW snap \in Snapshots, Publish(snap)
    PROVE  /\ retained' \in Seq(Snapshots) /\ Len(retained') <= MaxRetained
           /\ \A i \in 1..Len(retained') :
                 retained'[i] = snap \/ \E j \in 1..Len(retained) : retained'[i] = retained[j]
<1>0. MaxRetained \in Nat \ {0} /\ retained \in Seq(Snapshots) /\ Len(retained) <= MaxRetained
      /\ Len(retained) \in Nat
  BY MaxRetainedAssumption DEF StoreTypeOK
<1>1. CASE Len(retained) = MaxRetained
  <2>1. retained' = Append(Tail(retained), snap)
    BY <1>1 DEF Publish
  <2>2. /\ Tail(retained) \in Seq(Snapshots) /\ Len(Tail(retained)) = Len(retained) - 1
        /\ \A i \in 1..Len(Tail(retained)) : Tail(retained)[i] = retained[i + 1]
    BY <1>0, <1>1
  <2>3. /\ retained' \in Seq(Snapshots) /\ Len(retained') = Len(retained)
        /\ \A i \in 1..Len(retained') :
              retained'[i] = IF i = Len(retained) THEN snap ELSE retained[i + 1]
    BY <1>0, <1>1, <2>1, <2>2
  <2>4. \A i \in 1..Len(retained') : i = Len(retained) \/ i + 1 \in 1..Len(retained)
    BY <1>0, <2>3
  <2> QED
    BY <1>0, <2>3, <2>4
<1>2. CASE Len(retained) # MaxRetained
  <2>1. retained' = Append(retained, snap)
    BY <1>2 DEF Publish
  <2>2. /\ retained' \in Seq(Snapshots) /\ Len(retained') = Len(retained) + 1
        /\ \A i \in 1..Len(retained') :
              retained'[i] = IF i = Len(retained) + 1 THEN snap ELSE retained[i]
    BY <1>0, <2>1
  <2>3. \A i \in 1..Len(retained') : i = Len(retained) + 1 \/ i \in 1..Len(retained)
    BY <1>0, <2>2
  <2> QED
    BY <1>0, <1>2, <2>2, <2>3
<1> QED
  BY <1>1, <1>2

-----------------------------------------------------------------------------
(* Types.                                                                  *)

\* The store keeps its types.
LEMMA StoreTypes ==
    ASSUME IInv, Next
    PROVE  StoreTypeOK(Snapshots)'
<1> USE DEF IInv, TypeOK
<1>t. TypeOK
  OBVIOUS
<1>u. ASSUME UNCHANGED observationStoreVars PROVE StoreTypeOK(Snapshots)'
  BY <1>u DEF StoreTypeOK, observationStoreVars, storeVars, fanOutVars, queueVars
<1>1. CASE PublishNext
  <2>1. ASSUME NEW snap \in Snapshots, Publishes(snap) PROVE StoreTypeOK(Snapshots)'
    <3>1. retained' \in Seq(Snapshots) /\ Len(retained') <= MaxRetained
      BY <2>1, Window DEF Publishes
    <3>2. /\ sequence' \in Nat /\ UNCHANGED <<generation, storeClosed, unshut, taken, subscribers>>
          /\ offers' = subscribers /\ offered' \in Snapshots \cup {Nothing}
          /\ (subscribers # {} => offered' \in Snapshots) /\ UNCHANGED <<replays, queue, dropped, shut>>
      BY <2>1 DEF Publishes, Publish, StoreTypeOK
    <3> QED
      BY <3>1, <3>2 DEF StoreTypeOK
  <2>2. CASE Skips
    <3>1. sequence' \in Nat /\ UNCHANGED <<generation, retained, storeClosed, fanOutVars, queueVars>>
      BY <2>2 DEF Skips, StoreTypeOK
    <3> QED
      BY <3>1 DEF StoreTypeOK, fanOutVars, queueVars
  <2> QED
    BY <1>1, <1>t, <2>1, <2>2, PublishCases
<1>2. ASSUME NEW s \in Subscribers, DeliverTo(s) PROVE StoreTypeOK(Snapshots)'
  <2>1. s \in offers /\ Offer(s, offered) /\ offered \in Snapshots /\ offers' = offers \ {s}
        /\ (offers' # {} => offered' = offered) /\ (offers' = {} => offered' = Nothing)
        /\ UNCHANGED <<generation, sequence, retained, storeClosed, subscribers, unshut, replays, taken>>
    BY <1>2 DEF DeliverTo, Deliver, StoreTypeOK, storeVars
  <2> QED
    BY <2>1, OfferCases DEF StoreTypeOK
<1>3. CASE Closes
  BY <1>3, MaxRetainedAssumption, Names DEF Closes, StoreCloses, StoreTypeOK, storeVars,
     queueVars
<1>4. CASE Start
  <2>1. ASSUME NEW b \in BOOLEAN, Subscribe(Recording, b) PROVE StoreTypeOK(Snapshots)'
    <3>1. Latest \in Snapshots \cup {Nothing}
      BY DEF Latest, StoreTypeOK
    <3>2. replays' \in [Subscribers -> Snapshots \cup {Nothing}]
      BY <2>1, <3>1 DEF Subscribe, StoreTypeOK
    <3> QED
      BY <2>1, <3>2, Names DEF Subscribe, StoreTypeOK, storeVars, queueVars
  <2> QED
    BY <1>4, <1>u, <2>1 DEF Start
<1>5. CASE RecordAction
  BY <1>5, <1>u DEF RecordAction
<1>6. CASE StopBegins
  BY <1>6, <1>u DEF StopBegins
<1>7. CASE StopReturns
  BY <1>7, <1>u DEF StopReturns
<1>8. CASE WriteAction
  BY <1>8, <1>u DEF WriteAction, Fail
<1>9. CASE TakeSnapshot
  <2>1. Take(Recording) /\ Recording \in Subscribers
    BY <1>9, Names DEF TakeSnapshot
  <2>2. UNCHANGED <<storeVars, fanOutVars, dropped, shut>>
    BY <2>1 DEF Take
  <2> QED
    BY <2>1, <2>2, TakeCases DEF StoreTypeOK, storeVars, fanOutVars
<1>10. CASE FindNone
  BY <1>10, <1>u DEF FindNone, Fail
<1>11. CASE AfterNone
  BY <1>11, <1>u DEF AfterNone
<1>12. CASE WriteSnapshot
  BY <1>12, <1>u DEF WriteSnapshot, Fail, Gap
<1>13. CASE AfterSnapshot
  BY <1>13, <1>u DEF AfterSnapshot
<1>14. CASE LastDrainEnds
  BY <1>14, MaxRetainedAssumption, Names DEF LastDrainEnds, Unsubscribe, StoreTypeOK, storeVars,
     queueVars
<1>15. CASE End
  BY <1>15, <1>u DEF End
<1>16. CASE ViewerSubscribes
  <2>1. ASSUME NEW b \in BOOLEAN, Subscribe(Viewer, b) PROVE StoreTypeOK(Snapshots)'
    <3>1. Latest \in Snapshots \cup {Nothing}
      BY DEF Latest, StoreTypeOK
    <3>2. replays' \in [Subscribers -> Snapshots \cup {Nothing}]
      BY <2>1, <3>1 DEF Subscribe, StoreTypeOK
    <3> QED
      BY <2>1, <3>2, Names DEF Subscribe, StoreTypeOK, storeVars, queueVars
  <2> QED
    BY <1>16, <1>u, <2>1 DEF ViewerSubscribes
<1>17. CASE ViewerReads
  <2>1. Take(Viewer) /\ Viewer \in Subscribers
    BY <1>17, Names DEF ViewerReads
  <2>2. UNCHANGED <<storeVars, fanOutVars, dropped, shut>>
    BY <2>1 DEF Take
  <2> QED
    BY <2>1, <2>2, TakeCases DEF StoreTypeOK, storeVars, fanOutVars
<1>18. CASE ViewerLeaves
  BY <1>18, MaxRetainedAssumption, Names DEF ViewerLeaves, Unsubscribe, StoreTypeOK, storeVars,
     queueVars
<1>19. ASSUME NEW s \in Subscribers, QueueStep(s) PROVE StoreTypeOK(Snapshots)'
  <2>1. CASE Replay(s)
    <3>1. /\ replays[s] \in Snapshots /\ Offer(s, replays[s])
          /\ replays' \in [Subscribers -> Snapshots \cup {Nothing}]
          /\ UNCHANGED <<generation, sequence, retained, storeClosed, subscribers, unshut, offers, offered, taken>>
      BY <2>1 DEF Replay, StoreTypeOK, storeVars
    <3> QED
      BY <3>1, OfferCases DEF StoreTypeOK
  <2>2. CASE Shut(s)
    BY <2>2 DEF Shut, StoreTypeOK, storeVars
  <2> QED
    BY <1>19, <2>1, <2>2 DEF QueueStep
<1> QED
  BY <1>1, <1>2, <1>3, <1>4, <1>5, <1>6, <1>7, <1>8, <1>9, <1>10, <1>11, <1>12, <1>13, <1>14,
     <1>15, <1>16, <1>17, <1>18, <1>19 DEF Next, Producer, Writer

\* So does the recorder.
LEMMA RecorderTypes ==
    ASSUME IInv, Next
    PROVE  RecorderTypeOK'
<1> USE DEF IInv, TypeOK
<1>u. ASSUME UNCHANGED <<recorderVars, writerVars, stopVars>> PROVE RecorderTypeOK'
  BY <1>u DEF RecorderTypeOK, recorderVars, writerVars, stopVars
<1>b. OwnSize \in Nat \ {0} /\ NoBudget = OwnSize + 1 /\ MaxActions \in Nat /\ MaxSnapshots \in Nat
  BY Names, RecorderBounds DEF NoBudget
<1>1. CASE PublishNext
  BY <1>1, <1>u DEF PublishNext
<1>2. ASSUME NEW s \in Subscribers, DeliverTo(s) PROVE RecorderTypeOK'
  BY <1>2, <1>u DEF DeliverTo, Deliver
<1>3. CASE Closes
  BY <1>3, <1>u DEF Closes, StoreCloses
<1>4. CASE Start
  BY <1>4, <1>b DEF Start, MaySubscribe, Subscribe, RecorderTypeOK, recorderVars, fileVars,
     writerVars, stopVars
<1>5. CASE RecordAction
  <2>1. actions + 1 \in 1..MaxActions
    BY <1>5, <1>b DEF RecordAction, FilesTypeOK
  <2> DEFINE full == Len(actionQueue) = OwnSize
             kept == IF full THEN Tail(actionQueue) ELSE actionQueue
  <2>2. actionQueue \in Seq(1..MaxActions) /\ Len(actionQueue) <= OwnSize /\ Len(actionQueue) \in Nat
    BY DEF RecorderTypeOK
  <2>3. kept \in Seq(1..MaxActions) /\ Len(kept) < OwnSize /\ Len(kept) \in Nat
    <3>1. CASE full
      BY <1>b, <2>2, <3>1
    <3>2. CASE ~full
      BY <1>b, <2>2, <3>2
    <3> QED
      BY <3>1, <3>2
  <2>4. actionQueue' = Append(kept, actions + 1)
    BY <1>5 DEF RecordAction
  <2> HIDE DEF kept
  <2>5. actionQueue' \in Seq(1..MaxActions) /\ Len(actionQueue') <= OwnSize
    BY <1>b, <2>1, <2>3, <2>4
  <2>6. droppedActions' \in BOOLEAN /\ incomplete' \in BOOLEAN
    BY <1>5 DEF RecordAction, RecorderTypeOK
  <2> QED
    BY <1>5, <2>5, <2>6 DEF RecordAction, RecorderTypeOK, writerVars, stopVars
<1>6. CASE StopBegins
  BY <1>6, <1>b DEF StopBegins, RecorderTypeOK, recorderVars, fileVars, writerVars, stopVars
<1>7. CASE StopReturns
  BY <1>7, <1>b DEF StopReturns, RecorderTypeOK, recorderVars, fileVars, writerVars, stopVars
<1>8. CASE WriteAction
  <2>1. actionQueue' \in Seq(1..MaxActions) /\ Len(actionQueue') <= OwnSize
    <3>1. actionQueue \in Seq(1..MaxActions) /\ Len(actionQueue) <= OwnSize /\ actionQueue # <<>>
          /\ actionQueue' = Tail(actionQueue)
      BY <1>8 DEF WriteAction, RecorderTypeOK
    <3> QED
      BY <1>b, <3>1
  <2> QED
    BY <1>8, <2>1 DEF WriteAction, Fail, RecorderTypeOK, stopVars
<1>9. CASE TakeSnapshot
  <2>1. current' \in 0..MaxSnapshots
    BY <1>9, <1>b, TakeCases, Names DEF TakeSnapshot
  <2> QED
    BY <1>9, <2>1 DEF TakeSnapshot, RecorderTypeOK, recorderVars, stopVars
<1>10. CASE FindNone
  BY <1>10, <1>b DEF FindNone, Fail, RecorderTypeOK, recorderVars, fileVars, writerVars,
     stopVars
<1>11. CASE AfterNone
  BY <1>11, <1>b DEF AfterNone, RecorderTypeOK, recorderVars, fileVars, writerVars, stopVars
<1>12. CASE WriteSnapshot
  <2>1. incomplete' \in BOOLEAN /\ state' \in {state, "failed"} /\ stopEvent' \in {stopEvent, TRUE}
        /\ writer' \in {"wrote", "last"} /\ lastSequence' = current /\ current' = 0
    BY <1>12 DEF WriteSnapshot, Fail, Gap, RecorderTypeOK
  <2>2. UNCHANGED <<actionQueue, droppedActions, budget, stopping, answer>>
    BY <1>12 DEF WriteSnapshot, stopVars
  <2>3. lastSequence' \in 0..MaxSnapshots /\ current' \in 0..MaxSnapshots
    BY <1>b, <2>1 DEF RecorderTypeOK
  <2> QED
    BY <2>1, <2>2, <2>3 DEF RecorderTypeOK
<1>13. CASE AfterSnapshot
  <2>1. budget # 0 /\ budget \in 0..NoBudget
    BY <1>13 DEF AfterSnapshot, PlaceInv, RecorderTypeOK
  <2>2. budget' \in 0..NoBudget
    <3>1. budget # NoBudget => budget - 1 \in 0..NoBudget
      BY <1>b, <2>1
    <3> QED
      BY <1>13, <1>b, <2>1, <3>1 DEF AfterSnapshot
  <2>3. incomplete' \in BOOLEAN /\ writer' \in {"drain", "last"}
    BY <1>13 DEF AfterSnapshot, RecorderTypeOK
  <2> QED
    BY <1>13, <2>2, <2>3 DEF AfterSnapshot, RecorderTypeOK, stopVars
<1>14. CASE LastDrainEnds
  BY <1>14, <1>b DEF LastDrainEnds, Unsubscribe, RecorderTypeOK, recorderVars, fileVars,
     writerVars, stopVars
<1>15. CASE End
  BY <1>15, <1>b DEF End, RecorderTypeOK, recorderVars, fileVars, writerVars, stopVars
<1>16. CASE ViewerSubscribes
  BY <1>16, <1>u DEF ViewerSubscribes, MaySubscribe, Subscribe
<1>17. CASE ViewerReads
  BY <1>17, <1>u DEF ViewerReads, Take
<1>18. CASE ViewerLeaves
  BY <1>18, <1>u DEF ViewerLeaves, Unsubscribe
<1>19. ASSUME NEW s \in Subscribers, QueueStep(s) PROVE RecorderTypeOK'
  BY <1>19, <1>u DEF QueueStep, Replay, Shut
<1> QED
  BY <1>1, <1>2, <1>3, <1>4, <1>5, <1>6, <1>7, <1>8, <1>9, <1>10, <1>11, <1>12, <1>13, <1>14,
     <1>15, <1>16, <1>17, <1>18, <1>19 DEF Next, Producer, Writer

\* So do the files and the histories.
LEMMA FilesTypes ==
    ASSUME IInv, Next
    PROVE  FilesTypeOK'
<1> USE DEF IInv, TypeOK
<1>u. ASSUME UNCHANGED <<fileVars, historyVars, viewerVars>> PROVE FilesTypeOK'
  BY <1>u DEF FilesTypeOK, fileVars, historyVars, viewerVars
<1>b. OwnSize \in Nat \ {0} /\ MaxActions \in Nat /\ MaxSnapshots \in Nat
  BY Names, RecorderBounds
<1>n. looked \in Nat /\ Len(due) \in Nat /\ looked <= Len(due) /\ due \in Seq(1..MaxSnapshots)
  BY DEF FilesTypeOK
<1>1. CASE PublishNext
  BY <1>1, <1>u DEF PublishNext
<1>2. ASSUME NEW s \in Subscribers, DeliverTo(s) PROVE FilesTypeOK'
  <2>1. s \in offers /\ UNCHANGED <<fileVars, looked, actions, viewerVars>> /\ due' \in {due, Append(due, offered.seq)}
    BY <1>2 DEF DeliverTo, Deliver
  <2>2. offered.seq \in 1..MaxSnapshots
    BY <2>1, QueueTypes
  <2>3. due' \in Seq(1..MaxSnapshots) /\ looked \in 0..Len(due')
    <3>1. CASE due' = due
      BY <1>n, <3>1
    <3>2. CASE due' = Append(due, offered.seq)
      <4>1. due' \in Seq(1..MaxSnapshots) /\ Len(due') = Len(due) + 1
        BY <1>n, <2>2, <3>2
      <4> QED
        BY <1>n, <4>1
    <3> QED
      BY <2>1, <3>1, <3>2
  <2> QED
    BY <2>1, <2>3 DEF FilesTypeOK, fileVars, viewerVars
<1>3. CASE Closes
  BY <1>3, <1>u DEF Closes, StoreCloses
<1>4. CASE Start
  BY <1>4, <1>u DEF Start, MaySubscribe, Subscribe
<1>5. CASE RecordAction
  <2>1. actions' \in 0..MaxActions
    BY <1>5, <1>b DEF RecordAction, FilesTypeOK
  <2> QED
    BY <1>5, <2>1 DEF RecordAction, FilesTypeOK, fileVars, viewerVars
<1>6. CASE StopBegins
  BY <1>6, <1>u DEF StopBegins
<1>7. CASE StopReturns
  BY <1>7, <1>u DEF StopReturns
<1>8. CASE WriteAction
  <2>1. Head(actionQueue) \in 1..MaxActions
    <3>1. actionQueue \in Seq(1..MaxActions) /\ actionQueue # <<>>
      BY <1>8 DEF WriteAction, RecorderTypeOK
    <3> QED
      BY <3>1, HeadTailProperties
  <2>2. writtenActions' \in Seq(1..MaxActions)
    <3>1. writtenActions \in Seq(1..MaxActions)
          /\ writtenActions' \in {writtenActions, Append(writtenActions, Head(actionQueue))}
      BY <1>8 DEF WriteAction, FilesTypeOK
    <3>2. Append(writtenActions, Head(actionQueue)) \in Seq(1..MaxActions)
      BY <2>1, <3>1
    <3> QED
      BY <3>1, <3>2
  <2> QED
    BY <1>8, <2>2 DEF WriteAction, FilesTypeOK, historyVars, viewerVars
<1>9. CASE TakeSnapshot
  BY <1>9, <1>u DEF TakeSnapshot, Take
<1>10. CASE FindNone
  <2>1. looked' \in 0..Len(due)
    BY <1>10, <1>n DEF FindNone
  <2> QED
    BY <1>10, <2>1 DEF FindNone, FilesTypeOK, fileVars, viewerVars
<1>11. CASE AfterNone
  BY <1>11, <1>u DEF AfterNone
<1>12. CASE WriteSnapshot
  <2>1. current \in 1..MaxSnapshots
    BY <1>12, <1>b DEF WriteSnapshot, PlaceInv, RecorderTypeOK
  <2>2. written' \in Seq(1..MaxSnapshots)
    <3>1. written \in Seq(1..MaxSnapshots) /\ written' \in {written, Append(written, current)}
      BY <1>12 DEF WriteSnapshot, FilesTypeOK
    <3>2. Append(written, current) \in Seq(1..MaxSnapshots)
      BY <2>1, <3>1
    <3> QED
      BY <3>1, <3>2
  <2> QED
    BY <1>12, <2>2 DEF WriteSnapshot, FilesTypeOK, historyVars, viewerVars
<1>13. CASE AfterSnapshot
  BY <1>13, <1>u DEF AfterSnapshot
<1>14. CASE LastDrainEnds
  BY <1>14, <1>u DEF LastDrainEnds, Unsubscribe
<1>15. CASE End
  <2>1. dropped[Recording] \in Nat /\ incomplete \in BOOLEAN /\ droppedActions \in BOOLEAN
    BY QueueTypes, Names DEF RecorderTypeOK
  <2>2. manifest' = manifest \/ \E x \in {"failed", "stopped"} :
           manifest' = [state |-> x, incomplete |-> incomplete,
                        dropped |-> dropped[Recording], droppedActions |-> droppedActions]
    BY <1>15 DEF End
  <2>3. manifest' \in [state : {"running", "stopped", "failed"}, incomplete : BOOLEAN,
                       dropped : Nat, droppedActions : BOOLEAN]
    BY <2>1, <2>2 DEF FilesTypeOK
  <2> QED
    BY <1>15, <2>3 DEF End, FilesTypeOK, historyVars, viewerVars
<1>16. CASE ViewerSubscribes
  <2>1. Latest \in Snapshots \cup {Nothing}
    BY DEF Latest, StoreTypeOK
  <2>2. Latest.seq \in 0..MaxSnapshots
    BY <1>b, <2>1 DEF Snapshots, Nothing
  <2>3. replayed' \in 0..MaxSnapshots
    BY <1>16, <1>b, <2>2 DEF ViewerSubscribes
  <2> QED
    BY <1>16, <2>3 DEF ViewerSubscribes, FilesTypeOK, fileVars, historyVars
<1>17. CASE ViewerReads
  <2>1. Take(Viewer) /\ stream' = Append(stream, Head(queue[Viewer]).seq)
    BY <1>17 DEF ViewerReads
  <2>2. Head(queue[Viewer]).seq \in 1..MaxSnapshots
    BY <2>1, TakeCases, Names
  <2>3. stream' \in Seq(1..MaxSnapshots)
    BY <2>1, <2>2 DEF FilesTypeOK
  <2> QED
    BY <1>17, <2>3 DEF ViewerReads, FilesTypeOK, fileVars, historyVars
<1>18. CASE ViewerLeaves
  BY <1>18, <1>u DEF ViewerLeaves, Unsubscribe
<1>19. ASSUME NEW s \in Subscribers, QueueStep(s) PROVE FilesTypeOK'
  BY <1>19, <1>u DEF QueueStep, Replay, Shut
<1> QED
  BY <1>1, <1>2, <1>3, <1>4, <1>5, <1>6, <1>7, <1>8, <1>9, <1>10, <1>11, <1>12, <1>13, <1>14,
     <1>15, <1>16, <1>17, <1>18, <1>19 DEF Next, Producer, Writer

-----------------------------------------------------------------------------
(* The invariants.                                                         *)

\* The recorder, its writer and stop keep their order.
LEMMA PlaceStep ==
    ASSUME IInv, Next
    PROVE  PlaceInv'
<1> USE DEF IInv, TypeOK
<1>t. StoreTypeOK(Snapshots) /\ RecorderTypeOK
  BY DEF TypeOK
<1>u. ASSUME UNCHANGED <<state, incomplete, stopEvent, actionQueue, writer, current, budget, manifest, stopping, answer>>
      PROVE  PlaceInv'
  BY <1>u DEF PlaceInv, StopHonest
<1>1. CASE PublishNext
  BY <1>1, <1>u DEF PublishNext, recorderVars, writerVars, stopVars, fileVars
<1>2. ASSUME NEW s \in Subscribers, DeliverTo(s) PROVE PlaceInv'
  BY <1>2, <1>u DEF DeliverTo, Deliver, recorderVars, writerVars, stopVars, fileVars
<1>3. CASE Closes
  BY <1>3, <1>u DEF Closes, StoreCloses, recorderVars, writerVars, stopVars, fileVars
<1>4. CASE Start
  BY <1>4, <1>t, Names DEF Start, MaySubscribe, Subscribe, PlaceInv, StopHonest, RecorderTypeOK,
     recorderVars, writerVars, fileVars, stopVars, NoBudget
<1>5. CASE RecordAction
  BY <1>5, <1>t, Names DEF RecordAction, PlaceInv, StopHonest, RecorderTypeOK, recorderVars,
     writerVars, fileVars, stopVars, NoBudget
<1>6. CASE StopBegins
  BY <1>6, <1>t, Names DEF StopBegins, PlaceInv, StopHonest, RecorderTypeOK, recorderVars,
     writerVars, fileVars, stopVars, NoBudget
<1>7. CASE StopReturns
  BY <1>7, <1>t, Names DEF StopReturns, PlaceInv, StopHonest, RecorderTypeOK, recorderVars,
     writerVars, fileVars, stopVars, NoBudget
<1>8. CASE WriteAction
  BY <1>8, <1>t, Names DEF WriteAction, Fail, PlaceInv, StopHonest, RecorderTypeOK,
     recorderVars, writerVars, fileVars, stopVars, NoBudget
<1>9. CASE TakeSnapshot
  <2>1. Take(Recording) /\ current' = Head(queue[Recording]).seq
    BY <1>9 DEF TakeSnapshot
  <2>2. current' # 0
    BY <1>t, <2>1, TakeCases, Names
  <2> QED
    BY <1>9, <2>2 DEF TakeSnapshot, PlaceInv, StopHonest, recorderVars, stopVars, fileVars
<1>10. CASE FindNone
  BY <1>10, <1>t, Names DEF FindNone, Fail, PlaceInv, StopHonest, RecorderTypeOK, recorderVars,
     writerVars, fileVars, stopVars, NoBudget
<1>11. CASE AfterNone
  BY <1>11, <1>t, Names DEF AfterNone, PlaceInv, StopHonest, RecorderTypeOK, recorderVars,
     writerVars, fileVars, stopVars, NoBudget
<1>12. CASE WriteSnapshot
  BY <1>12, <1>t, Names DEF WriteSnapshot, Fail, Gap, PlaceInv, StopHonest, RecorderTypeOK,
     recorderVars, writerVars, fileVars, stopVars, NoBudget
<1>13. CASE AfterSnapshot
  BY <1>13, <1>t, Names DEF AfterSnapshot, PlaceInv, StopHonest, RecorderTypeOK, recorderVars,
     writerVars, fileVars, stopVars, NoBudget
<1>14. CASE LastDrainEnds
  BY <1>14, <1>t, Names DEF LastDrainEnds, Unsubscribe, PlaceInv, StopHonest, RecorderTypeOK,
     recorderVars, writerVars, fileVars, stopVars, NoBudget
<1>15. CASE End
  <2>1. manifest' = manifest \/ manifest'.state \in {"failed", "stopped"}
    BY <1>15 DEF End
  <2>2. state' \in {"failed", "stopped"} /\ (state' = "failed" => incomplete')
    BY <1>15 DEF End, PlaceInv
  <2> QED
    BY <1>15, <1>t, <2>1, <2>2 DEF End, PlaceInv, StopHonest, stopVars, RecorderTypeOK
<1>16. CASE ViewerSubscribes
  BY <1>16, <1>u DEF ViewerSubscribes, MaySubscribe, Subscribe, recorderVars, writerVars,
     stopVars, fileVars
<1>17. CASE ViewerReads
  BY <1>17, <1>u DEF ViewerReads, Take, recorderVars, writerVars, stopVars, fileVars
<1>18. CASE ViewerLeaves
  BY <1>18, <1>u DEF ViewerLeaves, Unsubscribe, recorderVars, writerVars, stopVars, fileVars
<1>19. ASSUME NEW s \in Subscribers, QueueStep(s) PROVE PlaceInv'
  BY <1>19, <1>u DEF QueueStep, Replay, Shut, recorderVars, writerVars, stopVars, fileVars
<1> QED
  BY <1>1, <1>2, <1>3, <1>4, <1>5, <1>6, <1>7, <1>8, <1>9, <1>10, <1>11, <1>12, <1>13, <1>14,
     <1>15, <1>16, <1>17, <1>18, <1>19 DEF Next, Producer, Writer

\* The numbers that are compared are numbers.
LEMMA Numbers ==
    ASSUME TypeOK
    PROVE  /\ sequence \in Nat /\ current \in Nat /\ lastSequence \in Nat /\ replayed \in Nat
           /\ Len(Own) \in Nat /\ Len(Views) \in Nat /\ Len(retained) \in Nat
           /\ Len(written) \in Nat /\ Len(due) \in Nat /\ Len(stream) \in Nat
           /\ \A i \in 1..Len(Own) : Own[i].seq \in Nat \ {0}
           /\ \A i \in 1..Len(Views) : Views[i].seq \in Nat \ {0}
           /\ \A i \in 1..Len(retained) : retained[i].seq \in Nat \ {0}
           /\ \A i \in 1..Len(written) : written[i] \in Nat \ {0}
           /\ \A i \in 1..Len(due) : due[i] \in Nat \ {0}
           /\ \A i \in 1..Len(stream) : stream[i] \in Nat \ {0}
           /\ offers # {} => offered.seq \in Nat \ {0}
           /\ \A s \in Subscribers : Limit(s) \in Nat
<1>b. MaxSnapshots \in Nat
  BY RecorderBounds
<1>1. StoreTypeOK(Snapshots) /\ RecorderTypeOK /\ FilesTypeOK
  BY DEF TypeOK
<1>2. sequence \in Nat /\ current \in Nat /\ lastSequence \in Nat /\ replayed \in Nat
  BY <1>b, <1>1 DEF StoreTypeOK, RecorderTypeOK, FilesTypeOK
<1>3. /\ Len(Own) \in Nat /\ Len(Views) \in Nat
      /\ \A i \in 1..Len(Own) : Own[i].seq \in Nat \ {0}
      /\ \A i \in 1..Len(Views) : Views[i].seq \in Nat \ {0}
      /\ offers # {} => offered.seq \in Nat \ {0}
  BY <1>b, <1>1, QueueTypes, Names DEF Own, Views
<1>4. Len(retained) \in Nat /\ \A i \in 1..Len(retained) : retained[i].seq \in Nat \ {0}
  <2>1. retained \in Seq(Snapshots)
    BY <1>1 DEF StoreTypeOK
  <2>2. \A snap \in Snapshots : snap.seq \in Nat \ {0}
    BY <1>b DEF Snapshots
  <2> QED
    BY <2>1, <2>2
<1>5. Len(written) \in Nat /\ \A i \in 1..Len(written) : written[i] \in Nat \ {0}
  BY <1>b, <1>1 DEF FilesTypeOK
<1>6. Len(due) \in Nat /\ \A i \in 1..Len(due) : due[i] \in Nat \ {0}
  BY <1>b, <1>1 DEF FilesTypeOK
<1>7. Len(stream) \in Nat /\ \A i \in 1..Len(stream) : stream[i] \in Nat \ {0}
  BY <1>b, <1>1 DEF FilesTypeOK
<1>8. \A s \in Subscribers : Limit(s) \in Nat
  BY <1>2, <1>3 DEF Limit
<1> QED
  BY <1>2, <1>3, <1>4, <1>5, <1>6, <1>7, <1>8

\* Sequences stay in order.
LEMMA OrderStep ==
    ASSUME IInv, Next
    PROVE  OrderInv'
<1> USE DEF IInv
<1>t. TypeOK /\ StoreTypeOK(Snapshots) /\ RecorderTypeOK /\ FilesTypeOK
  BY DEF TypeOK
<1>g. ASSUME Own' = Own, UNCHANGED <<current, lastSequence, written, due>>,
             Limit(Recording)' \in Nat, Limit(Recording)' >= Limit(Recording),
             replays'[Recording] = Nothing,
             offers' # {} => offered'.seq <= sequence',
             \A i \in 1..Len(retained') : retained'[i].seq <= sequence'
      PROVE  OrderInv'
  <2>1. Limit(Recording) \in Nat
    BY <1>t, Numbers, Names
  <2>2. \A n \in Nat : n < Limit(Recording) => n < Limit(Recording)'
    BY <1>g, <2>1
  <2>3. \A i \in 1..Len(Own) : Own[i].seq < Limit(Recording)'
    BY <1>t, <2>2, Numbers DEF OrderInv
  <2>4. current < Limit(Recording)' /\ lastSequence < Limit(Recording)'
    BY <1>t, <2>2, Numbers DEF OrderInv
  <2>5. \A i \in 1..Len(due) : due[i] < Limit(Recording)'
    BY <1>t, <2>2, Numbers DEF OrderInv
  <2> QED
    BY <1>g, <2>3, <2>4, <2>5 DEF OrderInv
<1>s. ASSUME Own' = Own, UNCHANGED <<current, lastSequence, written, due, offers, offered, sequence, replays>>,
             \A i \in 1..Len(retained') : retained'[i].seq <= sequence'
      PROVE  OrderInv'
  <2>1. Limit(Recording)' = Limit(Recording) /\ Limit(Recording) \in Nat
    BY <1>s, <1>t, Numbers, Names DEF Limit
  <2> QED
    BY <1>s, <1>g, <2>1 DEF OrderInv
<1>u. ASSUME UNCHANGED <<observationStoreVars, current, lastSequence, written, due>>
      PROVE  OrderInv'
  <2>1. Own' = Own /\ UNCHANGED <<offers, offered, sequence, replays, retained>>
    BY <1>u DEF Own, observationStoreVars, storeVars, fanOutVars, queueVars
  <2> QED
    BY <1>u, <1>s, <2>1 DEF OrderInv
<1>1. CASE PublishNext
  <2>1. UNCHANGED <<current, lastSequence, written, due>>
    BY <1>1, <1>t, PublishCases DEF OtherVars, writerVars, fileVars, historyVars
  <2>2. ASSUME NEW snap \in Snapshots, Publishes(snap) PROVE OrderInv'
    <3>1. /\ snap.seq = sequence + 1 /\ sequence' = sequence + 1 /\ offers = {} /\ offers' = subscribers
          /\ (subscribers # {} => offered' = snap) /\ UNCHANGED <<replays, queue>>
      BY <2>2 DEF Publishes
    <3>2. Limit(Recording) = sequence + 1 /\ Limit(Recording)' \in {sequence + 1, sequence + 2}
      BY <1>t, <3>1, Numbers DEF Limit
    <3>3. \A i \in 1..Len(retained') : retained'[i].seq <= sequence'
      <4>1. \A j \in 1..Len(retained) : retained[j].seq <= sequence /\ retained[j].seq \in Nat
        BY <1>t, Numbers DEF OrderInv
      <4>2. \A j \in 1..Len(retained) : retained[j].seq <= sequence'
        BY <1>t, <3>1, <4>1, Numbers
      <4>3. \A i \in 1..Len(retained') :
               retained'[i] = snap \/ \E j \in 1..Len(retained) : retained'[i] = retained[j]
        BY <1>t, <2>2, Window DEF Publishes
      <4>4. snap.seq <= sequence'
        BY <1>t, <3>1, Numbers
      <4> QED
        BY <4>2, <4>3, <4>4
    <3>4. Own' = Own
      BY <3>1 DEF Own
    <3>5. Limit(Recording)' \in Nat /\ Limit(Recording)' >= Limit(Recording) /\ sequence \in Nat
      BY <1>t, <3>2, Numbers
    <3>6. offers' # {} => offered'.seq <= sequence'
      BY <3>1, <3>5
    <3>7. replays'[Recording] = Nothing
      BY <3>1 DEF OrderInv
    <3> QED
      BY <1>g, <2>1, <3>3, <3>4, <3>5, <3>6, <3>7
  <2>3. CASE Skips
    <3>1. /\ sequence' = sequence + 1 /\ offers = {} /\ offers' = {} /\ UNCHANGED <<retained, replays, queue>>
      BY <2>3 DEF Skips, fanOutVars, queueVars
    <3>2. Limit(Recording) = sequence + 1 /\ Limit(Recording)' = sequence + 2 /\ Own' = Own
      BY <1>t, <3>1, Numbers DEF Limit, Own
    <3>3. \A i \in 1..Len(retained') : retained'[i].seq <= sequence'
      BY <1>t, <3>1, Numbers DEF OrderInv
    <3> QED
      BY <1>t, <1>g, <2>1, <3>1, <3>2, <3>3, Numbers DEF OrderInv
  <2> QED
    BY <1>1, <1>t, <2>2, <2>3, PublishCases
<1>2. ASSUME NEW s \in Subscribers, DeliverTo(s) PROVE OrderInv'
  <2>1. /\ s \in offers /\ Offer(s, offered) /\ offered \in Snapshots /\ offers' = offers \ {s}
        /\ (offers' # {} => offered' = offered) /\ UNCHANGED <<sequence, retained, replays>>
        /\ UNCHANGED <<current, lastSequence, written>>
    BY <1>2, <1>t DEF DeliverTo, Deliver, StoreTypeOK, storeVars, writerVars, fileVars
  <2>2. offered.seq \in Nat \ {0} /\ offered.seq <= sequence /\ sequence \in Nat
    BY <1>t, <2>1, Numbers DEF OrderInv
  <2>3. CASE s # Recording
    <3>1. Own' = Own /\ due' = due
      BY <1>2, <1>t, <2>1, <2>3, OfferCases, Names DEF Own, DeliverTo
    <3>2. Limit(Recording)' = Limit(Recording) /\ Limit(Recording) \in Nat
      BY <1>t, <2>1, <2>3, Numbers, Names DEF Limit
    <3> QED
      BY <1>g, <2>1, <2>2, <3>1, <3>2 DEF OrderInv
  <2>4. CASE s = Recording
    <3>1. Limit(Recording) = offered.seq /\ Limit(Recording)' = sequence + 1
      BY <2>1, <2>4 DEF Limit
    <3>2. /\ offers' # {} => offered'.seq <= sequence'
          /\ \A i \in 1..Len(retained') : retained'[i].seq <= sequence'
          /\ replays'[Recording] = Nothing
      BY <2>1, <2>2 DEF OrderInv
    <3>3. /\ current' < Limit(Recording)' /\ lastSequence' < Limit(Recording)'
          /\ (current' # 0 => lastSequence' < current')
          /\ \A i \in 1..Len(written') : written'[i] <= lastSequence'
          /\ \A i, j \in 1..Len(written') : i < j => written'[i] < written'[j]
      BY <1>t, <2>1, <2>2, <3>1, Numbers DEF OrderInv
    <3>4. \A i \in 1..Len(due') : due'[i] < Limit(Recording)'
      <4>1. CASE due' = due
        BY <1>t, <4>1, <2>2, <3>1, Numbers DEF OrderInv
      <4>2. CASE due' = Append(due, offered.seq)
        <5>1. /\ Len(due') = Len(due) + 1 /\ due'[Len(due')] = offered.seq
              /\ \A i \in 1..Len(due) : due'[i] = due[i]
          BY <1>t, <2>2, <4>2 DEF FilesTypeOK
        <5>2. \A i \in 1..Len(due') : i \in 1..Len(due) \/ i = Len(due')
          BY <1>t, <5>1, Numbers
        <5>3. offered.seq < Limit(Recording)'
          BY <2>2, <3>1
        <5>4. \A i \in 1..Len(due) : due[i] < Limit(Recording)'
          BY <1>t, <2>2, <3>1, Numbers DEF OrderInv
        <5> QED
          BY <5>1, <5>2, <5>3, <5>4
      <4> QED
        BY <1>2, <4>1, <4>2 DEF DeliverTo
    <3>5. /\ \A i \in 1..Len(Own') : /\ Own'[i].seq < Limit(Recording)'
                                     /\ lastSequence' < Own'[i].seq /\ current' < Own'[i].seq
          /\ \A i, j \in 1..Len(Own') : i < j => Own'[i].seq < Own'[j].seq
      <4>1. CASE Own' = Own
        BY <1>t, <4>1, <2>1, <2>2, <3>1, Numbers DEF OrderInv
      <4>2. ASSUME NEW k \in {0, 1}, Queues(Recording, offered, k)
            PROVE  /\ \A i \in 1..Len(Own') : /\ Own'[i].seq < Limit(Recording)'
                                            /\ lastSequence' < Own'[i].seq /\ current' < Own'[i].seq
                   /\ \A i, j \in 1..Len(Own') : i < j => Own'[i].seq < Own'[j].seq
        <5>1. /\ Len(Own) \in Nat /\ Len(Own') = Len(Own) + 1 - k /\ Len(Own') \in Nat \ {0}
              /\ Own'[Len(Own')] = offered
              /\ \A i \in 1..Len(Own') :
                    i # Len(Own') => Own'[i] = Own[i + k] /\ i + k \in 1..Len(Own)
          BY <4>2 DEF Queues, Own
        <5>2. \A i \in 1..Len(Own) : /\ Own[i].seq \in Nat /\ Own[i].seq < offered.seq
                                     /\ lastSequence < Own[i].seq /\ current < Own[i].seq
          BY <1>t, <3>1, Numbers DEF OrderInv
        <5>3. lastSequence < offered.seq /\ current < offered.seq
          BY <3>1 DEF OrderInv
        <5>4. ASSUME NEW i \in 1..Len(Own')
              PROVE  /\ Own'[i].seq < Limit(Recording)' /\ Own'[i].seq \in Nat
                     /\ lastSequence' < Own'[i].seq /\ current' < Own'[i].seq
          <6>1. CASE i = Len(Own')
            BY <2>1, <2>2, <3>1, <5>1, <5>3, <6>1
          <6>2. CASE i # Len(Own')
            BY <2>1, <2>2, <3>1, <5>1, <5>2, <6>2
          <6> QED
            BY <6>1, <6>2
        <5>5. ASSUME NEW i \in 1..Len(Own'), NEW j \in 1..Len(Own'), i < j
              PROVE  Own'[i].seq < Own'[j].seq
          <6>1. i # Len(Own') /\ Own'[i] = Own[i + k] /\ i + k \in 1..Len(Own)
            BY <5>1, <5>5
          <6>2. CASE j = Len(Own')
            BY <5>1, <5>2, <6>1, <6>2
          <6>3. CASE j # Len(Own')
            <7>1. Own'[j] = Own[j + k] /\ j + k \in 1..Len(Own) /\ i + k < j + k
              BY <5>1, <5>5, <6>3
            <7> QED
              BY <6>1, <7>1 DEF OrderInv
          <6> QED
            BY <6>2, <6>3
        <5> QED
          BY <5>4, <5>5
      <4> QED
        BY <1>t, <2>1, <2>4, <4>1, <4>2, OfferCases, Names DEF Own
    <3> QED
      BY <3>2, <3>3, <3>4, <3>5 DEF OrderInv
  <2> QED
    BY <2>3, <2>4
<1>3. CASE Closes
  <2>1. /\ Own' = Own /\ UNCHANGED <<current, lastSequence, written, due, offers, offered, sequence, replays>>
        /\ retained' \in {retained, <<>>}
    BY <1>3 DEF Closes, StoreCloses, Own, storeVars, queueVars, writerVars, fileVars,
       historyVars
  <2> QED
    BY <1>s, <2>1 DEF OrderInv
<1>4. CASE Start
  <2>1. /\ Own' = Own /\ UNCHANGED <<current, lastSequence, written, due, offers, offered, sequence, retained>>
        /\ replays'[Recording] = Nothing
    BY <1>4, <1>t, Names DEF Start, MaySubscribe, Subscribe, Own, storeVars, queueVars,
       writerVars, fileVars, historyVars, observationStoreVars, fanOutVars, OrderInv,
       StoreTypeOK
  <2>2. Limit(Recording)' = Limit(Recording) /\ Limit(Recording) \in Nat
    BY <2>1, <1>t, Numbers, Names DEF Limit
  <2> QED
    BY <1>g, <2>1, <2>2 DEF OrderInv
<1>5. CASE RecordAction
  BY <1>5, <1>u DEF RecordAction, writerVars, fileVars, historyVars
<1>6. CASE StopBegins
  BY <1>6, <1>u DEF StopBegins, writerVars, fileVars, historyVars
<1>7. CASE StopReturns
  BY <1>7, <1>u DEF StopReturns, writerVars, fileVars, historyVars
<1>8. CASE WriteAction
  BY <1>8, <1>u DEF WriteAction, Fail, writerVars, fileVars, historyVars
<1>9. CASE TakeSnapshot
  <2>1. Take(Recording) /\ current' = Head(Own).seq /\ UNCHANGED <<lastSequence, written, due>>
        /\ writer = "drain"
    BY <1>9 DEF TakeSnapshot, Own, fileVars, historyVars
  <2>2. UNCHANGED <<offers, offered, sequence, retained, replays>>
    BY <2>1 DEF Take, storeVars, fanOutVars
  <2>3. /\ 1 \in 1..Len(Own) /\ current' = Own[1].seq /\ Len(Own) \in Nat
        /\ \A i \in 1..Len(Own') : Own'[i] = Own[i + 1] /\ i + 1 \in 1..Len(Own)
    BY <1>t, <2>1, TakeCases, Names DEF Own
  <2>4. Limit(Recording)' = Limit(Recording) /\ Limit(Recording) \in Nat
    BY <2>2, <1>t, Numbers, Names DEF Limit
  <2>5. \A i \in 1..Len(Own') : Own'[i].seq < Limit(Recording) /\ lastSequence < Own'[i].seq /\ current' < Own'[i].seq
    <3> SUFFICES ASSUME NEW i \in 1..Len(Own')
                 PROVE  Own'[i].seq < Limit(Recording) /\ lastSequence < Own'[i].seq /\ current' < Own'[i].seq
      OBVIOUS
    <3>1. Own'[i] = Own[i + 1] /\ i + 1 \in 1..Len(Own) /\ 1 < i + 1
      BY <2>3
    <3> QED
      BY <2>3, <3>1 DEF OrderInv
  <2>6. \A i, j \in 1..Len(Own') : i < j => Own'[i].seq < Own'[j].seq
    <3> SUFFICES ASSUME NEW i \in 1..Len(Own'), NEW j \in 1..Len(Own'), i < j
                 PROVE  Own'[i].seq < Own'[j].seq
      OBVIOUS
    <3>1. /\ Own'[i] = Own[i + 1] /\ i + 1 \in 1..Len(Own)
          /\ Own'[j] = Own[j + 1] /\ j + 1 \in 1..Len(Own) /\ i + 1 < j + 1
      BY <2>3
    <3> QED
      BY <3>1 DEF OrderInv
  <2> QED
    BY <2>1, <2>2, <2>3, <2>4, <2>5, <2>6 DEF OrderInv
<1>10. CASE FindNone
  BY <1>10, <1>u DEF FindNone, Fail, writerVars, fileVars, historyVars
<1>11. CASE AfterNone
  BY <1>11, <1>u DEF AfterNone, writerVars, fileVars, historyVars
<1>12. CASE WriteSnapshot
  <2>1. /\ lastSequence' = current /\ current' = 0 /\ written' \in {written, Append(written, current)}
        /\ Own' = Own /\ UNCHANGED <<due, offers, offered, sequence, retained, replays>>
        /\ writer = "write"
    BY <1>12 DEF WriteSnapshot, Own, observationStoreVars, storeVars, fanOutVars, queueVars,
       historyVars
  <2>2. current # 0 /\ current \in Nat /\ lastSequence < current /\ current < Limit(Recording)
    BY <1>t, <2>1, Numbers DEF PlaceInv, OrderInv
  <2>3. Limit(Recording)' = Limit(Recording) /\ Limit(Recording) \in Nat
    BY <2>1, <1>t, Numbers, Names DEF Limit
  <2>4. \A i \in 1..Len(written) : written[i] \in Nat /\ written[i] < current
    BY <1>t, <2>2, Numbers DEF OrderInv
  <2>5. /\ \A i \in 1..Len(written') : written'[i] <= current
        /\ \A i, j \in 1..Len(written') : i < j => written'[i] < written'[j]
    <3>1. CASE written' = written
      BY <2>2, <2>4, <3>1 DEF OrderInv
    <3>2. CASE written' = Append(written, current)
      <4>1. /\ Len(written') = Len(written) + 1 /\ written'[Len(written')] = current
            /\ \A i \in 1..Len(written) : written'[i] = written[i]
        BY <1>t, <3>2 DEF FilesTypeOK
      <4>2. \A i \in 1..Len(written') : i \in 1..Len(written) \/ i = Len(written')
        <5>1. Len(written) \in Nat
          BY <1>t, Numbers
        <5> QED
          BY <4>1, <5>1
      <4>3. \A i \in 1..Len(written') : written'[i] <= current
        BY <2>2, <2>4, <4>1, <4>2
      <4>4. ASSUME NEW i \in 1..Len(written'), NEW j \in 1..Len(written'), i < j
            PROVE  written'[i] < written'[j]
        <5>1. i \in 1..Len(written)
          BY <1>t, <4>1, <4>4, Numbers
        <5>2. CASE j \in 1..Len(written)
          BY <4>1, <4>4, <5>1, <5>2 DEF OrderInv
        <5>3. CASE j = Len(written')
          BY <2>4, <4>1, <5>1, <5>3
        <5> QED
          BY <4>2, <5>2, <5>3
      <4> QED
        BY <4>3, <4>4
    <3> QED
      BY <2>1, <3>1, <3>2
  <2>6. \A i \in 1..Len(Own) : Own[i].seq \in Nat \ {0}
    BY <1>t, Numbers
  <2> QED
    BY <2>1, <2>2, <2>3, <2>5, <2>6 DEF OrderInv
<1>13. CASE AfterSnapshot
  BY <1>13, <1>u DEF AfterSnapshot, writerVars, fileVars, historyVars
<1>14. CASE LastDrainEnds
  <2>1. /\ Own' = Own /\ UNCHANGED <<current, lastSequence, written, due, offers, offered, sequence, replays>>
        /\ retained' \in {retained, <<>>}
    BY <1>14 DEF LastDrainEnds, Unsubscribe, Own, storeVars, queueVars, writerVars, fileVars,
       historyVars
  <2> QED
    BY <1>s, <2>1 DEF OrderInv
<1>15. CASE End
  BY <1>15, <1>u DEF End, writerVars, fileVars, historyVars
<1>16. CASE ViewerSubscribes
  <2>1. /\ Own' = Own /\ UNCHANGED <<current, lastSequence, written, due, offers, offered, sequence, retained>>
        /\ replays'[Recording] = Nothing
    BY <1>16, <1>t, Names DEF ViewerSubscribes, MaySubscribe, Subscribe, Own, storeVars,
       queueVars, writerVars, fileVars, historyVars, observationStoreVars, fanOutVars, OrderInv,
       StoreTypeOK
  <2>2. Limit(Recording)' = Limit(Recording) /\ Limit(Recording) \in Nat
    BY <2>1, <1>t, Numbers, Names DEF Limit
  <2> QED
    BY <1>g, <2>1, <2>2 DEF OrderInv
<1>17. CASE ViewerReads
  <2>1. Take(Viewer) /\ UNCHANGED <<current, lastSequence, written, due>>
    BY <1>17 DEF ViewerReads, writerVars, fileVars, historyVars
  <2>2. UNCHANGED <<offers, offered, sequence, retained, replays>>
    BY <2>1 DEF Take, storeVars, fanOutVars
  <2>3. Own' = Own
    BY <1>t, <2>1, TakeCases, Names DEF Own
  <2> QED
    BY <1>s, <2>1, <2>2, <2>3 DEF OrderInv
<1>18. CASE ViewerLeaves
  <2>1. /\ Own' = Own /\ UNCHANGED <<current, lastSequence, written, due, offers, offered, sequence, replays>>
        /\ retained' \in {retained, <<>>}
    BY <1>18 DEF ViewerLeaves, Unsubscribe, Own, storeVars, queueVars, writerVars, fileVars,
       historyVars
  <2> QED
    BY <1>s, <2>1 DEF OrderInv
<1>19. ASSUME NEW s \in Subscribers, QueueStep(s) PROVE OrderInv'
  <2>1. CASE Replay(s)
    <3>1. /\ replays[s] \in Snapshots /\ Offer(s, replays[s]) /\ s # Recording
          /\ replays'[Recording] = Nothing
          /\ UNCHANGED <<sequence, retained, offers, offered>>
      BY <1>t, <2>1, Names DEF Replay, StoreTypeOK, storeVars, OrderInv
    <3>2. Own' = Own /\ UNCHANGED <<current, lastSequence, written, due>>
      BY <1>19, <1>t, <3>1, OfferCases, Names DEF QueueStep, Own, writerVars, fileVars,
         historyVars
    <3>3. Limit(Recording)' = Limit(Recording) /\ Limit(Recording) \in Nat
      BY <3>1, <1>t, Numbers, Names DEF Limit
    <3> QED
      BY <1>g, <3>1, <3>2, <3>3 DEF OrderInv
  <2>2. CASE Shut(s)
    <3>1. /\ Own' = Own /\ UNCHANGED <<current, lastSequence, written, due, offers, offered, sequence, replays, retained>>
      BY <1>19, <2>2 DEF QueueStep, Shut, storeVars, Own, writerVars, fileVars, historyVars
    <3> QED
      BY <1>s, <3>1 DEF OrderInv
  <2> QED
    BY <1>19, <2>1, <2>2 DEF QueueStep
<1> QED
  BY <1>1, <1>2, <1>3, <1>4, <1>5, <1>6, <1>7, <1>8, <1>9, <1>10, <1>11, <1>12, <1>13, <1>14,
     <1>15, <1>16, <1>17, <1>18, <1>19 DEF Next, Producer, Writer

\* No snapshot is lost without a trace.
LEMMA LossStep ==
    ASSUME IInv, Next
    PROVE  LossInv'
<1> USE DEF IInv
<1>t. TypeOK /\ StoreTypeOK(Snapshots) /\ RecorderTypeOK /\ FilesTypeOK
  BY DEF TypeOK
<1>n. /\ looked \in Nat /\ Len(due) \in Nat /\ looked <= Len(due)
      /\ \A i \in 1..Len(due) : due[i] \in Nat \ {0}
      /\ \A i \in 1..looked : i \in 1..Len(due)
      /\ dropped[Recording] \in Nat /\ current \in Nat /\ lastSequence \in Nat
      /\ Len(Own) \in Nat /\ \A i \in 1..Len(Own) : Own[i].seq \in Nat \ {0}
  <2>1. looked \in 0..Len(due) /\ Len(due) \in Nat
    BY <1>t DEF FilesTypeOK
  <2>2. dropped[Recording] \in Nat
    BY <1>t, Names, QueueTypes
  <2>3. looked \in Nat /\ looked <= Len(due) /\ \A i \in 1..looked : i \in 1..Len(due)
    BY <2>1
  <2> QED
    BY <1>t, <2>1, <2>2, <2>3, Numbers
<1>f. CASE incomplete'
  BY <1>f DEF LossInv
<1>g. ASSUME UNCHANGED <<due, looked>>, incomplete => incomplete',
             \A d \in Nat \ {0} : Held(d) /\ ~incomplete' => Held(d)',
             \A d \in Nat \ {0} : Safe(d) /\ ~incomplete' => Safe(d)'
      PROVE  LossInv'
  <2>1. \A i \in 1..Len(due) : Held(due[i]) /\ ~incomplete' => Held(due[i])'
    <3> SUFFICES ASSUME NEW i \in 1..Len(due), NEW d \in Nat \ {0}, d = due[i], Held(d), ~incomplete'
                 PROVE  Held(due[i])'
      BY <1>n
    <3>1. due'[i] = d
      BY <1>g
    <3>2. Held(d) /\ ~incomplete'
      OBVIOUS
    <3>3. Held(d)'
      BY <1>g, <3>2
    <3> QED
      BY <3>1, <3>3 DEF Held, Safe, Written, Forgotten, Queued, Overflowed
  <2>2. \A i \in 1..Len(due) : Safe(due[i]) /\ ~incomplete' => Safe(due[i])'
    <3> SUFFICES ASSUME NEW i \in 1..Len(due), NEW d \in Nat \ {0}, d = due[i], Safe(d), ~incomplete'
                 PROVE  Safe(due[i])'
      BY <1>n
    <3>1. due'[i] = d
      BY <1>g
    <3>2. Safe(d) /\ ~incomplete'
      OBVIOUS
    <3>3. Safe(d)'
      BY <1>g, <3>2
    <3> QED
      BY <3>1, <3>3 DEF Safe, Written, Forgotten
  <2> QED
    BY <1>g, <1>n, <2>1, <2>2 DEF LossInv
<1>u. ASSUME UNCHANGED <<due, looked, written, current, lastSequence>>, Own' = Own,
             dropped'[Recording] = dropped[Recording], incomplete => incomplete'
      PROVE  LossInv'
  BY <1>u, <1>n DEF LossInv, Held, Safe, Written, Forgotten, Queued, Overflowed
<1>w. ASSUME UNCHANGED <<due, looked, written, current, lastSequence, queueVars>>, incomplete => incomplete'
      PROVE  LossInv'
  <2>1. Own' = Own /\ dropped'[Recording] = dropped[Recording]
    BY <1>w DEF Own, queueVars
  <2> QED
    BY <1>w, <1>u, <2>1
<1>1. CASE PublishNext
  <2>1. UNCHANGED <<due, looked, written, current, lastSequence>> /\ (incomplete => incomplete')
    BY <1>1 DEF PublishNext, recorderVars, fileVars, writerVars, historyVars
  <2>2. UNCHANGED queueVars
    BY <1>1, <1>t, PublishCases DEF Publishes, Skips, queueVars, Publish
  <2> QED
    BY <1>w, <2>1, <2>2
<1>2. ASSUME NEW s \in Subscribers, DeliverTo(s) PROVE LossInv'
  <2>1. /\ s \in offers /\ Offer(s, offered) /\ offered \in Snapshots
        /\ UNCHANGED <<looked, current, lastSequence, written, incomplete>>
        /\ due' = IF s = Recording /\ ~shut[s] /\ ~stopEvent THEN Append(due, offered.seq) ELSE due
    BY <1>2, <1>t DEF DeliverTo, Deliver, StoreTypeOK, recorderVars, writerVars, fileVars
  <2>2. CASE s # Recording \/ shut[s]
    <3>1. Own' = Own /\ dropped'[Recording] = dropped[Recording] /\ due' = due
      BY <1>t, <2>1, <2>2, OfferCases, Names DEF Own
    <3> QED
      BY <1>u, <2>1, <3>1
  <2>3. ASSUME s = Recording, ~incomplete, NEW k \in {0, 1}, Queues(Recording, offered, k)
        PROVE  LossInv'
    <3>1. /\ Len(Own') = Len(Own) + 1 - k /\ Len(Own') \in Nat \ {0} /\ Own'[Len(Own')] = offered
          /\ \A i \in 1..Len(Own) : i = k \/ (i - k \in 1..Len(Own') /\ Own'[i - k] = Own[i])
          /\ dropped'[Recording] = dropped[Recording] + k
      BY <2>3 DEF Queues, Own
    <3>2. \A i \in 1..Len(Own) : Own[i].seq < offered.seq /\ lastSequence < Own[i].seq /\ current < Own[i].seq
      BY <1>t, <2>1, <2>3 DEF OrderInv, Limit
    <3>3. offered.seq \in Nat
      BY <1>t, <2>1, Numbers
    <3>4. ASSUME NEW d \in Nat, Safe(d) PROVE Safe(d)'
      BY <1>n, <2>1, <3>1, <3>4 DEF Safe, Written, Forgotten
    <3>5. ASSUME NEW d \in Nat, Queued(d) PROVE Held(d)'
      <4>1. CASE d = current
        BY <2>1, <4>1 DEF Held, Queued
      <4>2. ASSUME NEW i \in 1..Len(Own), Own[i].seq = d, i # k PROVE Held(d)'
        BY <3>1, <4>2 DEF Held, Queued
      <4>3. ASSUME NEW i \in 1..Len(Own), Own[i].seq = d, i = k PROVE Held(d)'
        <5>1. k = 1 /\ dropped'[Recording] > 0
          BY <1>n, <3>1, <4>3
        <5>2. lastSequence < d /\ Len(Own') \in 1..Len(Own') /\ d < Own'[Len(Own')].seq
          BY <3>1, <3>2, <4>3
        <5> QED
          BY <2>1, <5>1, <5>2 DEF Held, Overflowed
      <4> QED
        BY <3>5, <4>1, <4>2, <4>3 DEF Queued
    <3>6. ASSUME NEW d \in Nat, Overflowed(d) PROVE Held(d)'
      <4>1. dropped'[Recording] > 0 /\ lastSequence' < d
        BY <1>n, <2>1, <3>1, <3>6 DEF Overflowed
      <4>2. CASE d < current
        BY <2>1, <4>1, <4>2 DEF Held, Overflowed
      <4>3. ASSUME NEW i \in 1..Len(Own), d < Own[i].seq PROVE Held(d)'
        <5>1. Len(Own') \in 1..Len(Own')
          BY <3>1
        <5>2. d < Own'[Len(Own')].seq
          BY <1>n, <3>1, <3>2, <3>3, <4>3
        <5> QED
          BY <4>1, <5>1, <5>2 DEF Held, Overflowed
      <4> QED
        BY <3>6, <4>2, <4>3 DEF Overflowed
    <3>7. \A d \in Nat : (Held(d) => Held(d)') /\ (Safe(d) => Safe(d)')
      BY <3>4, <3>5, <3>6 DEF Held
    <3>8. CASE due' = due
      BY <1>g, <2>1, <3>7, <3>8
    <3>9. CASE due' = Append(due, offered.seq)
      <4>1. /\ Len(due') = Len(due) + 1 /\ due'[Len(due')] = offered.seq
            /\ \A i \in 1..Len(due) : due'[i] = due[i]
        BY <1>t, <3>3, <3>9 DEF FilesTypeOK
      <4>2. \A i \in 1..Len(due') : i \in 1..Len(due) \/ i = Len(due')
        BY <1>n, <4>1
      <4>3. ASSUME NEW i \in 1..Len(due'), NEW d \in Nat, d = due'[i] PROVE Held(d)'
        <5>1. CASE i \in 1..Len(due)
          <6>1. d = due[i] /\ Held(due[i])
            BY <2>3, <4>1, <4>3, <5>1 DEF LossInv
          <6>2. Held(d)
            BY <6>1
          <6> QED
            BY <3>7, <6>2
        <5>2. CASE i = Len(due')
          <6>1. d = Own'[Len(Own')].seq /\ Len(Own') \in 1..Len(Own')
            BY <3>1, <4>1, <4>3, <5>2
          <6> QED
            BY <6>1 DEF Held, Queued
        <5> QED
          BY <4>2, <5>1, <5>2
      <4>4. ASSUME NEW i \in 1..looked, NEW d \in Nat, d = due'[i] PROVE Safe(d)'
        <5>1. d = due[i] /\ Safe(due[i])
          BY <1>n, <2>3, <4>1, <4>4 DEF LossInv
        <5>2. Safe(d)
          BY <5>1
        <5> QED
          BY <3>7, <5>2
      <4>5. \A i \in 1..Len(due') : due'[i] \in Nat
        BY <1>n, <3>3, <4>1, <4>2
      <4>6. \A i \in 1..looked : due'[i] \in Nat
        BY <1>n, <4>1
      <4>7. \A i \in 1..Len(due') : Held(due[i])'
        BY <4>3, <4>5 DEF Held, Safe, Written, Forgotten, Queued, Overflowed
      <4>8. \A i \in 1..looked : Safe(due[i])'
        BY <4>4, <4>6 DEF Safe, Written, Forgotten
      <4> QED
        BY <2>1, <4>7, <4>8 DEF LossInv
    <3> QED
      BY <2>1, <3>8, <3>9
  <2> QED
    BY <1>t, <1>f, <2>1, <2>2, <2>3, OfferCases, Names
<1>3. CASE Closes
  <2>1. UNCHANGED <<due, looked, written, current, lastSequence, queueVars>> /\ (incomplete => incomplete')
    BY <1>3 DEF Closes, StoreCloses, observationStoreVars, recorderVars, fileVars, writerVars,
       historyVars
  <2> QED
    BY <1>w, <2>1
<1>4. CASE Start
  <2>1. UNCHANGED <<due, looked, written, current, lastSequence, queueVars>> /\ (incomplete => incomplete')
    BY <1>4 DEF Start, MaySubscribe, Subscribe, observationStoreVars, recorderVars, fileVars,
       writerVars, historyVars
  <2> QED
    BY <1>w, <2>1
<1>5. CASE RecordAction
  <2>1. UNCHANGED <<due, looked, written, current, lastSequence, queueVars>> /\ (incomplete => incomplete')
    BY <1>5 DEF RecordAction, observationStoreVars, recorderVars, fileVars, writerVars,
       historyVars
  <2> QED
    BY <1>w, <2>1
<1>6. CASE StopBegins
  <2>1. UNCHANGED <<due, looked, written, current, lastSequence, queueVars>> /\ (incomplete => incomplete')
    BY <1>6 DEF StopBegins, observationStoreVars, recorderVars, fileVars, writerVars,
       historyVars
  <2> QED
    BY <1>w, <2>1
<1>7. CASE StopReturns
  <2>1. UNCHANGED <<due, looked, written, current, lastSequence, queueVars>> /\ (incomplete => incomplete')
    BY <1>7 DEF StopReturns, observationStoreVars, recorderVars, fileVars, writerVars,
       historyVars
  <2> QED
    BY <1>w, <2>1
<1>8. CASE WriteAction
  <2>1. UNCHANGED <<due, looked, written, current, lastSequence, queueVars>> /\ (incomplete => incomplete')
    BY <1>8 DEF WriteAction, Fail, observationStoreVars, recorderVars, fileVars, writerVars,
       historyVars
  <2> QED
    BY <1>w, <2>1
<1>9. CASE TakeSnapshot
  <2>1. Take(Recording) /\ current' = Head(Own).seq /\ UNCHANGED <<lastSequence, written, due, looked>>
        /\ writer = "drain" /\ incomplete' = incomplete /\ dropped' = dropped
    BY <1>9 DEF TakeSnapshot, Take, Own, fileVars, historyVars, recorderVars
  <2>2. /\ 1 \in 1..Len(Own) /\ current' = Own[1].seq /\ Len(Own) \in Nat
        /\ \A i \in 1..Len(Own) : i = 1 \/ (i - 1 \in 1..Len(Own') /\ Own'[i - 1] = Own[i])
    BY <1>t, <2>1, TakeCases, Names DEF Own
  <2>3. current = 0
    BY <2>1 DEF PlaceInv
  <2>4. ASSUME NEW d \in Nat \ {0}, Safe(d) PROVE Safe(d)'
    BY <2>1, <2>4 DEF Safe, Written, Forgotten
  <2>5. ASSUME NEW d \in Nat \ {0}, Queued(d) PROVE Held(d)'
    <3>1. PICK i \in 1..Len(Own) : Own[i].seq = d
      BY <2>3, <2>5 DEF Queued
    <3> QED
      BY <2>2, <3>1 DEF Held, Queued
  <2>6. ASSUME NEW d \in Nat \ {0}, Overflowed(d) PROVE Held(d)'
    <3>1. PICK i \in 1..Len(Own) : d < Own[i].seq
      BY <2>3, <2>6 DEF Overflowed
    <3>2. d < current' \/ \E j \in 1..Len(Own') : d < Own'[j].seq
      BY <2>2, <3>1
    <3> QED
      BY <2>1, <2>6, <3>2 DEF Held, Overflowed
  <2> QED
    BY <1>g, <2>1, <2>4, <2>5, <2>6 DEF Held
<1>10. CASE FindNone
  <2>1. CASE shut[Recording]
    BY <1>10, <1>f, <2>1 DEF FindNone, Fail
  <2>2. CASE ~shut[Recording]
    <3>1. /\ Own = <<>> /\ writer = "drain" /\ looked' = Len(due)
          /\ UNCHANGED <<due, written, lastSequence, current, incomplete, queue, dropped>>
      BY <1>10, <2>2 DEF FindNone, Own, fileVars, observationStoreVars, queueVars
    <3>2. current = 0 /\ Len(Own) = 0
      BY <3>1 DEF PlaceInv
    <3>3. \A d \in Nat \ {0} : Held(d) => Safe(d)
      BY <3>2 DEF Held, Queued, Overflowed
    <3>4. \A d \in Nat \ {0} : Safe(d) => Safe(d)' /\ Held(d)'
      BY <3>1 DEF Held, Safe, Written, Forgotten
    <3>5. ~incomplete => \A i \in 1..Len(due) : Safe(due[i])' /\ Held(due[i])'
      BY <1>n, <3>1, <3>3, <3>4 DEF LossInv
    <3> QED
      BY <3>1, <3>5 DEF LossInv
  <2> QED
    BY <2>1, <2>2
<1>11. CASE AfterNone
  <2>1. UNCHANGED <<due, looked, written, current, lastSequence, queueVars>> /\ (incomplete => incomplete')
    BY <1>11 DEF AfterNone, observationStoreVars, recorderVars, fileVars, writerVars,
       historyVars
  <2> QED
    BY <1>w, <2>1
<1>12. CASE WriteSnapshot
  <2>1. /\ lastSequence' = current /\ current' = 0 /\ Own' = Own /\ UNCHANGED <<due, looked, dropped>>
        /\ writer = "write" /\ (incomplete => incomplete')
        /\ ~incomplete' => written' = Append(written, current) /\ ~Gap
    BY <1>12 DEF WriteSnapshot, Fail, Own, observationStoreVars, queueVars, historyVars
  <2>2. /\ current # 0 /\ lastSequence < current
        /\ \A i \in 1..Len(Own) : current < Own[i].seq
        /\ \A i \in 1..Len(written) : written[i] \in Nat \ {0} /\ written[i] <= lastSequence
        /\ Len(written) \in Nat
    BY <1>t, <2>1, Numbers DEF PlaceInv, OrderInv
  <2>3. ASSUME ~incomplete' PROVE LossInv'
    <3>1. /\ Len(written') = Len(written) + 1 /\ written'[Len(written')] = current
          /\ Len(written') \in 1..Len(written') /\ written' # <<>>
          /\ \A i \in 1..Len(written) : written'[i] = written[i] /\ i \in 1..Len(written')
      BY <1>t, <2>1, <2>2, <2>3 DEF FilesTypeOK, RecorderTypeOK
    <3>2. \A i \in 1..Len(written') : i \in 1..Len(written) \/ i = Len(written')
      BY <2>2, <3>1
    <3>3. ASSUME NEW d, d = current PROVE Safe(d)'
      BY <3>1, <3>3 DEF Safe, Written
    <3>4. ASSUME NEW d \in Nat \ {0}, Safe(d) PROVE Safe(d)'
      <4>1. CASE Written(d)
        BY <3>1, <4>1 DEF Safe, Written
      <4>2. CASE Forgotten(d)
        <5>1. Len(written) # 0
          BY <1>t, <4>2 DEF Forgotten, FilesTypeOK
        <5>2. 1 \in 1..Len(written) /\ d < written[1]
          BY <2>2, <4>2, <5>1 DEF Forgotten
        <5>3. d < current
          BY <1>n, <2>2, <5>2
        <5>4. \A i \in 1..Len(written') : d < written'[i]
          BY <3>1, <3>2, <4>2, <5>3 DEF Forgotten
        <5> QED
          BY <2>1, <3>1, <4>2, <5>4 DEF Safe, Forgotten
      <4> QED
        BY <3>4, <4>1, <4>2 DEF Safe
    <3>5. ASSUME NEW d \in Nat \ {0}, Queued(d) PROVE Held(d)'
      <4>1. CASE d = current
        BY <3>3, <4>1 DEF Held
      <4>2. CASE d # current
        BY <2>1, <3>5, <4>2 DEF Held, Queued
      <4> QED
        BY <4>1, <4>2
    <3>6. ASSUME NEW d \in Nat \ {0}, Overflowed(d) PROVE Held(d)'
      <4>1. CASE d < current
        <5>1. lastSequence = 0
          BY <1>n, <2>1, <2>3, <3>6, <4>1 DEF Gap, Overflowed
        <5>2. Len(written) = 0
          BY <2>2, <5>1
        <5>3. \A i \in 1..Len(written') : d < written'[i]
          BY <3>1, <3>2, <4>1, <5>2
        <5> QED
          BY <2>1, <3>1, <3>6, <5>3 DEF Held, Safe, Forgotten, Overflowed
      <4>2. CASE d = current
        BY <3>3, <4>2 DEF Held
      <4>3. CASE d > current
        <5>1. \E i \in 1..Len(Own') : d < Own'[i].seq
          BY <1>n, <2>1, <3>6, <4>3 DEF Overflowed
        <5> QED
          BY <2>1, <3>6, <4>3, <5>1 DEF Held, Overflowed
      <4> QED
        BY <1>n, <4>1, <4>2, <4>3
    <3> QED
      BY <1>g, <2>1, <3>4, <3>5, <3>6 DEF Held
  <2> QED
    BY <1>f, <2>3
<1>13. CASE AfterSnapshot
  <2>1. UNCHANGED <<due, looked, written, current, lastSequence, queueVars>> /\ (incomplete => incomplete')
    BY <1>13 DEF AfterSnapshot, observationStoreVars, recorderVars, fileVars, writerVars,
       historyVars
  <2> QED
    BY <1>w, <2>1
<1>14. CASE LastDrainEnds
  <2>1. UNCHANGED <<due, looked, written, current, lastSequence, queueVars>> /\ (incomplete => incomplete')
    BY <1>14 DEF LastDrainEnds, Unsubscribe, observationStoreVars, recorderVars, fileVars,
       writerVars, historyVars
  <2> QED
    BY <1>w, <2>1
<1>15. CASE End
  <2>1. UNCHANGED <<due, looked, written, current, lastSequence, queueVars>> /\ (incomplete => incomplete')
    BY <1>15 DEF End, observationStoreVars, recorderVars, fileVars, writerVars, historyVars
  <2> QED
    BY <1>w, <2>1
<1>16. CASE ViewerSubscribes
  <2>1. UNCHANGED <<due, looked, written, current, lastSequence, queueVars>> /\ (incomplete => incomplete')
    BY <1>16 DEF ViewerSubscribes, MaySubscribe, Subscribe, observationStoreVars, recorderVars,
       fileVars, writerVars, historyVars
  <2> QED
    BY <1>w, <2>1
<1>17. CASE ViewerReads
  <2>1. Take(Viewer) /\ UNCHANGED <<due, looked, written, current, lastSequence, dropped, incomplete>>
    BY <1>17 DEF ViewerReads, Take, recorderVars, writerVars, fileVars, historyVars
  <2>2. Own' = Own
    BY <1>t, <2>1, TakeCases, Names DEF Own
  <2> QED
    BY <1>u, <2>1, <2>2
<1>18. CASE ViewerLeaves
  <2>1. UNCHANGED <<due, looked, written, current, lastSequence, queueVars>> /\ (incomplete => incomplete')
    BY <1>18 DEF ViewerLeaves, Unsubscribe, observationStoreVars, recorderVars, fileVars,
       writerVars, historyVars
  <2> QED
    BY <1>w, <2>1
<1>19. ASSUME NEW s \in Subscribers, QueueStep(s) PROVE LossInv'
  <2>1. UNCHANGED <<due, looked, written, current, lastSequence, incomplete>>
    BY <1>19 DEF QueueStep, recorderVars, writerVars, fileVars, historyVars
  <2>2. CASE Replay(s)
    <3>1. replays[s] \in Snapshots /\ Offer(s, replays[s]) /\ s # Recording
      BY <1>t, <2>2, Names DEF Replay, StoreTypeOK, OrderInv
    <3>2. Own' = Own /\ dropped'[Recording] = dropped[Recording]
      BY <1>t, <3>1, OfferCases, Names DEF Own
    <3> QED
      BY <1>u, <2>1, <3>2
  <2>3. CASE Shut(s)
    <3>1. Own' = Own /\ dropped' = dropped
      BY <2>3 DEF Shut, Own
    <3> QED
      BY <1>u, <2>1, <3>1
  <2> QED
    BY <1>19, <2>2, <2>3 DEF QueueStep
<1> QED
  BY <1>1, <1>2, <1>3, <1>4, <1>5, <1>6, <1>7, <1>8, <1>9, <1>10, <1>11, <1>12, <1>13, <1>14,
     <1>15, <1>16, <1>17, <1>18, <1>19 DEF Next, Producer, Writer

\* No event is lost without a trace.
LEMMA ActionStep ==
    ASSUME IInv, Next
    PROVE  ActionInv'
<1> USE DEF IInv
<1>t. TypeOK /\ RecorderTypeOK /\ FilesTypeOK
  BY DEF TypeOK
<1>f. CASE incomplete'
  BY <1>f DEF ActionInv
<1>u. ASSUME UNCHANGED <<actions, actionQueue, writtenActions>>, incomplete => incomplete'
      PROVE  ActionInv'
  BY <1>u DEF ActionInv
<1>n. /\ Len(actionQueue) \in Nat /\ Len(writtenActions) \in Nat /\ actions \in Nat
      /\ actionQueue \in Seq(Nat) /\ writtenActions \in Seq(Nat)
  BY <1>t, RecorderBounds DEF RecorderTypeOK, FilesTypeOK
<1>1. CASE PublishNext
  <2>1. UNCHANGED <<actions, actionQueue, writtenActions>> /\ (incomplete => incomplete')
    BY <1>1 DEF PublishNext, recorderVars, fileVars, historyVars
  <2> QED
    BY <1>u, <2>1
<1>2. ASSUME NEW s \in Subscribers, DeliverTo(s) PROVE ActionInv'
  <2>1. UNCHANGED <<actions, actionQueue, writtenActions>> /\ (incomplete => incomplete')
    BY <1>2 DEF DeliverTo, Deliver, recorderVars, fileVars, historyVars
  <2> QED
    BY <1>u, <2>1
<1>3. CASE Closes
  <2>1. UNCHANGED <<actions, actionQueue, writtenActions>> /\ (incomplete => incomplete')
    BY <1>3 DEF Closes, StoreCloses, recorderVars, fileVars, historyVars
  <2> QED
    BY <1>u, <2>1
<1>4. CASE Start
  <2>1. UNCHANGED <<actions, actionQueue, writtenActions>> /\ (incomplete => incomplete')
    BY <1>4 DEF Start, MaySubscribe, Subscribe, recorderVars, fileVars, historyVars
  <2> QED
    BY <1>u, <2>1
<1>5. CASE RecordAction
  <2>1. ASSUME ~incomplete' PROVE ActionInv'
    <3>1. /\ actionQueue' = Append(actionQueue, actions + 1) /\ actions' = actions + 1
          /\ ~incomplete /\ writtenActions' = writtenActions
      BY <1>5, <2>1 DEF RecordAction, fileVars
    <3>2. /\ Len(actionQueue') = Len(actionQueue) + 1 /\ actionQueue'[Len(actionQueue')] = actions + 1
          /\ \A i \in 1..Len(actionQueue) : actionQueue'[i] = actionQueue[i] /\ i \in 1..Len(actionQueue')
          /\ Len(actionQueue') \in 1..Len(actionQueue')
      BY <1>n, <3>1
    <3>3. ASSUME NEW a \in 1..actions'
          PROVE  \/ \E i \in 1..Len(writtenActions') : writtenActions'[i] = a
                 \/ \E i \in 1..Len(actionQueue') : actionQueue'[i] = a
      <4>1. CASE a = actions + 1
        BY <3>2, <4>1
      <4>2. CASE a \in 1..actions
        BY <3>1, <3>2, <4>2 DEF ActionInv
      <4> QED
        BY <1>n, <3>1, <4>1, <4>2
    <3> QED
      BY <3>3 DEF ActionInv
  <2> QED
    BY <1>f, <2>1
<1>6. CASE StopBegins
  <2>1. UNCHANGED <<actions, actionQueue, writtenActions>> /\ (incomplete => incomplete')
    BY <1>6 DEF StopBegins, recorderVars, fileVars, historyVars
  <2> QED
    BY <1>u, <2>1
<1>7. CASE StopReturns
  <2>1. UNCHANGED <<actions, actionQueue, writtenActions>> /\ (incomplete => incomplete')
    BY <1>7 DEF StopReturns, recorderVars, fileVars, historyVars
  <2> QED
    BY <1>u, <2>1
<1>8. CASE WriteAction
  <2>1. ASSUME ~incomplete' PROVE ActionInv'
    <3>1. /\ actionQueue # <<>> /\ actionQueue' = Tail(actionQueue) /\ actions' = actions
          /\ ~incomplete /\ writtenActions' = Append(writtenActions, Head(actionQueue))
      BY <1>8, <2>1 DEF WriteAction, Fail, historyVars
    <3>2. /\ Len(actionQueue) # 0 /\ Head(actionQueue) = actionQueue[1]
          /\ Len(actionQueue') = Len(actionQueue) - 1
          /\ \A i \in 1..Len(actionQueue') : actionQueue'[i] = actionQueue[i + 1]
      BY <1>n, <3>1
    <3>3. /\ Len(writtenActions') = Len(writtenActions) + 1
          /\ writtenActions'[Len(writtenActions')] = actionQueue[1]
          /\ \A i \in 1..Len(writtenActions) : writtenActions'[i] = writtenActions[i] /\ i \in 1..Len(writtenActions')
          /\ Len(writtenActions') \in 1..Len(writtenActions')
      <4>1. Head(actionQueue) \in Nat
        BY <1>n, <3>1, HeadTailProperties
      <4> QED
        BY <1>n, <3>1, <3>2, <4>1
    <3>4. ASSUME NEW i \in 1..Len(actionQueue), i # 1
          PROVE  i - 1 \in 1..Len(actionQueue') /\ actionQueue'[i - 1] = actionQueue[i]
      <4>1. i - 1 \in 1..Len(actionQueue') /\ (i - 1) + 1 = i
        BY <1>n, <3>2, <3>4
      <4> QED
        BY <3>2, <4>1
    <3>5. ASSUME NEW a \in 1..actions'
          PROVE  \/ \E i \in 1..Len(writtenActions') : writtenActions'[i] = a
                 \/ \E i \in 1..Len(actionQueue') : actionQueue'[i] = a
      <4>1. CASE \E i \in 1..Len(writtenActions) : writtenActions[i] = a
        BY <3>3, <4>1
      <4>2. ASSUME NEW i \in 1..Len(actionQueue), actionQueue[i] = a
            PROVE  \/ \E j \in 1..Len(writtenActions') : writtenActions'[j] = a
                   \/ \E j \in 1..Len(actionQueue') : actionQueue'[j] = a
        BY <3>3, <3>4, <4>2
      <4> QED
        BY <3>1, <4>1, <4>2 DEF ActionInv
    <3> QED
      BY <3>5 DEF ActionInv
  <2> QED
    BY <1>f, <2>1
<1>9. CASE TakeSnapshot
  <2>1. UNCHANGED <<actions, actionQueue, writtenActions>> /\ (incomplete => incomplete')
    BY <1>9 DEF TakeSnapshot, Take, recorderVars, fileVars, historyVars
  <2> QED
    BY <1>u, <2>1
<1>10. CASE FindNone
  <2>1. UNCHANGED <<actions, actionQueue, writtenActions>> /\ (incomplete => incomplete')
    BY <1>10 DEF FindNone, Fail, recorderVars, fileVars, historyVars
  <2> QED
    BY <1>u, <2>1
<1>11. CASE AfterNone
  <2>1. UNCHANGED <<actions, actionQueue, writtenActions>> /\ (incomplete => incomplete')
    BY <1>11 DEF AfterNone, recorderVars, fileVars, historyVars
  <2> QED
    BY <1>u, <2>1
<1>12. CASE WriteSnapshot
  <2>1. UNCHANGED <<actions, actionQueue, writtenActions>> /\ (incomplete => incomplete')
    BY <1>12 DEF WriteSnapshot, Fail, Gap, recorderVars, fileVars, historyVars
  <2> QED
    BY <1>u, <2>1
<1>13. CASE AfterSnapshot
  <2>1. UNCHANGED <<actions, actionQueue, writtenActions>> /\ (incomplete => incomplete')
    BY <1>13 DEF AfterSnapshot, recorderVars, fileVars, historyVars
  <2> QED
    BY <1>u, <2>1
<1>14. CASE LastDrainEnds
  <2>1. UNCHANGED <<actions, actionQueue, writtenActions>> /\ (incomplete => incomplete')
    BY <1>14 DEF LastDrainEnds, Unsubscribe, recorderVars, fileVars, historyVars
  <2> QED
    BY <1>u, <2>1
<1>15. CASE End
  <2>1. UNCHANGED <<actions, actionQueue, writtenActions>> /\ (incomplete => incomplete')
    BY <1>15 DEF End, recorderVars, fileVars, historyVars
  <2> QED
    BY <1>u, <2>1
<1>16. CASE ViewerSubscribes
  <2>1. UNCHANGED <<actions, actionQueue, writtenActions>> /\ (incomplete => incomplete')
    BY <1>16 DEF ViewerSubscribes, MaySubscribe, Subscribe, recorderVars, fileVars, historyVars
  <2> QED
    BY <1>u, <2>1
<1>17. CASE ViewerReads
  <2>1. UNCHANGED <<actions, actionQueue, writtenActions>> /\ (incomplete => incomplete')
    BY <1>17 DEF ViewerReads, Take, recorderVars, fileVars, historyVars
  <2> QED
    BY <1>u, <2>1
<1>18. CASE ViewerLeaves
  <2>1. UNCHANGED <<actions, actionQueue, writtenActions>> /\ (incomplete => incomplete')
    BY <1>18 DEF ViewerLeaves, Unsubscribe, recorderVars, fileVars, historyVars
  <2> QED
    BY <1>u, <2>1
<1>19. ASSUME NEW s \in Subscribers, QueueStep(s) PROVE ActionInv'
  <2>1. UNCHANGED <<actions, actionQueue, writtenActions>> /\ (incomplete => incomplete')
    BY <1>19 DEF QueueStep, Replay, Shut, recorderVars, fileVars, historyVars
  <2> QED
    BY <1>u, <2>1
<1> QED
  BY <1>1, <1>2, <1>3, <1>4, <1>5, <1>6, <1>7, <1>8, <1>9, <1>10, <1>11, <1>12, <1>13, <1>14,
     <1>15, <1>16, <1>17, <1>18, <1>19 DEF Next, Producer, Writer

\* What the manifest says stays true.
LEMMA VisibleStep ==
    ASSUME IInv, Next
    PROVE  LossVisible'
<1> USE DEF IInv
<1>t. TypeOK /\ RecorderTypeOK /\ FilesTypeOK
  BY DEF TypeOK
<1>n. Len(due) \in Nat /\ looked \in Nat /\ looked <= Len(due) /\ due \in Seq(1..MaxSnapshots)
  BY <1>t DEF FilesTypeOK
<1>u. ASSUME UNCHANGED <<manifest, looked, written, writtenActions, actions>>,
             \A i \in 1..looked : due'[i] = due[i]
      PROVE  LossVisible'
  BY <1>u DEF LossVisible, Elements
<1>o. ASSUME manifest' = manifest, writer # "over" PROVE LossVisible'
  <2>1. manifest'.state # "stopped"
    BY <1>o DEF PlaceInv
  <2> QED
    BY <2>1 DEF LossVisible
<1>1. CASE PublishNext
  <2>1. UNCHANGED <<manifest, looked, written, writtenActions, actions, due>>
    BY <1>1 DEF PublishNext, fileVars, historyVars
  <2> QED
    BY <1>u, <2>1
<1>2. ASSUME NEW s \in Subscribers, DeliverTo(s) PROVE LossVisible'
  <2>1. /\ UNCHANGED <<manifest, looked, written, writtenActions, actions>> /\ s \in offers
        /\ due' \in {due, Append(due, offered.seq)}
    BY <1>2 DEF DeliverTo, Deliver, fileVars
  <2>2. offered.seq \in 1..MaxSnapshots
    BY <1>t, <2>1, QueueTypes DEF TypeOK
  <2>3. \A i \in 1..looked : due'[i] = due[i]
    BY <1>n, <2>1, <2>2
  <2> QED
    BY <1>u, <2>1, <2>3
<1>3. CASE Closes
  <2>1. UNCHANGED <<manifest, looked, written, writtenActions, actions, due>>
    BY <1>3 DEF Closes, StoreCloses, fileVars, historyVars
  <2> QED
    BY <1>u, <2>1
<1>4. CASE Start
  <2>1. UNCHANGED <<manifest, looked, written, writtenActions, actions, due>>
    BY <1>4 DEF Start, MaySubscribe, Subscribe, fileVars, historyVars
  <2> QED
    BY <1>u, <2>1
<1>5. CASE RecordAction
  <2>1. manifest' = manifest /\ writer # "over"
    BY <1>5 DEF RecordAction, fileVars, PlaceInv
  <2> QED
    BY <1>o, <2>1
<1>6. CASE StopBegins
  <2>1. UNCHANGED <<manifest, looked, written, writtenActions, actions, due>>
    BY <1>6 DEF StopBegins, fileVars, historyVars
  <2> QED
    BY <1>u, <2>1
<1>7. CASE StopReturns
  <2>1. UNCHANGED <<manifest, looked, written, writtenActions, actions, due>>
    BY <1>7 DEF StopReturns, fileVars, historyVars
  <2> QED
    BY <1>u, <2>1
<1>8. CASE WriteAction
  <2>1. manifest' = manifest /\ writer # "over"
    BY <1>8 DEF WriteAction, fileVars
  <2> QED
    BY <1>o, <2>1
<1>9. CASE TakeSnapshot
  <2>1. UNCHANGED <<manifest, looked, written, writtenActions, actions, due>>
    BY <1>9 DEF TakeSnapshot, Take, fileVars, historyVars
  <2> QED
    BY <1>u, <2>1
<1>10. CASE FindNone
  <2>1. manifest' = manifest /\ writer # "over"
    BY <1>10 DEF FindNone, fileVars
  <2> QED
    BY <1>o, <2>1
<1>11. CASE AfterNone
  <2>1. UNCHANGED <<manifest, looked, written, writtenActions, actions, due>>
    BY <1>11 DEF AfterNone, fileVars, historyVars
  <2> QED
    BY <1>u, <2>1
<1>12. CASE WriteSnapshot
  <2>1. manifest' = manifest /\ writer # "over"
    BY <1>12 DEF WriteSnapshot, fileVars
  <2> QED
    BY <1>o, <2>1
<1>13. CASE AfterSnapshot
  <2>1. UNCHANGED <<manifest, looked, written, writtenActions, actions, due>>
    BY <1>13 DEF AfterSnapshot, fileVars, historyVars
  <2> QED
    BY <1>u, <2>1
<1>14. CASE LastDrainEnds
  <2>1. UNCHANGED <<manifest, looked, written, writtenActions, actions, due>>
    BY <1>14 DEF LastDrainEnds, Unsubscribe, fileVars, historyVars
  <2> QED
    BY <1>u, <2>1
<1>15. CASE End
  <2>1. /\ writer = "leaving" /\ UNCHANGED <<written, writtenActions, due, looked, actions>>
        /\ manifest' \in {manifest, [state |-> IF state = "failed" THEN "failed" ELSE "stopped",
                                     incomplete |-> incomplete, dropped |-> dropped[Recording],
                                     droppedActions |-> droppedActions]}
    BY <1>15 DEF End, historyVars
  <2>2. CASE manifest' = manifest
    BY <1>o, <2>1, <2>2
  <2>3. ASSUME manifest'.incomplete = incomplete, manifest'.dropped = dropped[Recording],
               ~manifest'.incomplete
        PROVE  LossVisible'
    <3>1. ~incomplete /\ actionQueue = <<>>
      BY <2>1, <2>3 DEF PlaceInv
    <3>2. ASSUME NEW a \in 1..actions PROVE a \in Elements(writtenActions)
      <4>1. \E i \in 1..Len(writtenActions) : writtenActions[i] = a
        BY <3>1 DEF ActionInv
      <4> QED
        BY <4>1 DEF Elements
    <3>3. ASSUME NEW i \in 1..looked, due[i] \notin Elements(written)
          PROVE  dropped[Recording] > 0 /\ \A w \in Elements(written) : due[i] < w
      <4>1. Forgotten(due[i])
        BY <3>1, <3>3 DEF LossInv, Safe, Written, Elements
      <4> QED
        BY <4>1 DEF Forgotten, Elements
    <3> QED
      BY <2>1, <2>3, <3>2, <3>3 DEF LossVisible, Elements
  <2>4. CASE manifest'.incomplete
    BY <2>4 DEF LossVisible
  <2> QED
    BY <2>1, <2>2, <2>3, <2>4
<1>16. CASE ViewerSubscribes
  <2>1. UNCHANGED <<manifest, looked, written, writtenActions, actions, due>>
    BY <1>16 DEF ViewerSubscribes, MaySubscribe, Subscribe, fileVars, historyVars
  <2> QED
    BY <1>u, <2>1
<1>17. CASE ViewerReads
  <2>1. UNCHANGED <<manifest, looked, written, writtenActions, actions, due>>
    BY <1>17 DEF ViewerReads, Take, fileVars, historyVars
  <2> QED
    BY <1>u, <2>1
<1>18. CASE ViewerLeaves
  <2>1. UNCHANGED <<manifest, looked, written, writtenActions, actions, due>>
    BY <1>18 DEF ViewerLeaves, Unsubscribe, fileVars, historyVars
  <2> QED
    BY <1>u, <2>1
<1>19. ASSUME NEW s \in Subscribers, QueueStep(s) PROVE LossVisible'
  <2>1. UNCHANGED <<manifest, looked, written, writtenActions, actions, due>>
    BY <1>19 DEF QueueStep, Replay, Shut, fileVars, historyVars
  <2> QED
    BY <1>u, <2>1
<1> QED
  BY <1>1, <1>2, <1>3, <1>4, <1>5, <1>6, <1>7, <1>8, <1>9, <1>10, <1>11, <1>12, <1>13, <1>14,
     <1>15, <1>16, <1>17, <1>18, <1>19 DEF Next, Producer, Writer

\* The viewer is given snapshots in order, but for the replay.
LEMMA ViewStep ==
    ASSUME IInv, Next
    PROVE  ViewInv'
<1> USE DEF IInv
<1>t. TypeOK /\ StoreTypeOK(Snapshots) /\ RecorderTypeOK /\ FilesTypeOK
  BY DEF TypeOK
<1>n. /\ Len(Views) \in Nat /\ Len(stream) \in Nat /\ replayed \in Nat /\ Limit(Viewer) \in Nat
      /\ sequence \in Nat /\ stream \in Seq(1..MaxSnapshots)
      /\ \A i \in 1..Len(Views) : Views[i].seq \in Nat \ {0}
      /\ \A i \in 1..Len(stream) : stream[i] \in Nat \ {0}
      /\ offers # {} => offered.seq \in Nat \ {0}
  BY <1>t, Numbers, Names DEF FilesTypeOK
<1>g. ASSUME Views' = Views, UNCHANGED <<stream, replayed>>, Viewer \notin taken' => Viewer \notin taken,
             replays'[Viewer] # Nothing => replays'[Viewer] = replays[Viewer],
             Limit(Viewer)' \in Nat, Limit(Viewer)' >= Limit(Viewer)
      PROVE  ViewInv'
  <2>1. \A n \in Nat : n < Limit(Viewer) => n < Limit(Viewer)'
    BY <1>n, <1>g
  <2>2. \A i \in 1..Len(Views) : Views[i].seq < Limit(Viewer)'
    BY <1>n, <2>1 DEF ViewInv
  <2>3. \A i \in 1..Len(stream) : stream[i] < Limit(Viewer)'
    BY <1>n, <2>1 DEF ViewInv
  <2>4. replays'[Viewer] # Nothing => replayed < Limit(Viewer)'
    BY <1>g, <1>n, <2>1 DEF ViewInv
  <2> QED
    BY <1>g, <2>2, <2>3, <2>4 DEF ViewInv, InOrder
<1>s. ASSUME Views' = Views, UNCHANGED <<stream, replayed, offers, offered, sequence>>,
             Viewer \notin taken' => Viewer \notin taken,
             replays'[Viewer] # Nothing => replays'[Viewer] = replays[Viewer]
      PROVE  ViewInv'
  <2>1. Limit(Viewer)' = Limit(Viewer)
    BY <1>s DEF Limit
  <2> QED
    BY <1>s, <1>g, <1>n, <2>1
<1>u. ASSUME UNCHANGED <<observationStoreVars, stream, replayed>> PROVE ViewInv'
  <2>1. Views' = Views /\ UNCHANGED <<offers, offered, sequence, replays, taken>>
    BY <1>u DEF Views, observationStoreVars, storeVars, fanOutVars, queueVars
  <2> QED
    BY <1>u, <1>s, <2>1
<1>1. CASE PublishNext
  <2>1. UNCHANGED <<stream, replayed>>
    BY <1>1 DEF PublishNext, viewerVars
  <2>2. /\ Views' = Views /\ UNCHANGED <<taken, replays>> /\ offers = {} /\ sequence' = sequence + 1
        /\ Limit(Viewer)' \in {sequence + 1, sequence + 2}
    <3>1. ASSUME NEW snap \in Snapshots, Publishes(snap)
          PROVE  /\ Views' = Views /\ UNCHANGED <<taken, replays>> /\ offers = {} /\ sequence' = sequence + 1
                 /\ Limit(Viewer)' \in {sequence + 1, sequence + 2}
      BY <1>n, <3>1 DEF Publishes, Views, Limit
    <3>2. CASE Skips
      BY <1>n, <3>2 DEF Skips, Views, Limit, fanOutVars, queueVars
    <3> QED
      BY <1>1, <1>t, <3>1, <3>2, PublishCases
  <2>3. Limit(Viewer) = sequence + 1
    BY <2>2 DEF Limit
  <2>4. Limit(Viewer)' \in Nat /\ Limit(Viewer)' >= Limit(Viewer)
    BY <1>n, <2>2, <2>3
  <2> QED
    BY <1>g, <2>1, <2>2, <2>4
<1>2. ASSUME NEW s \in Subscribers, DeliverTo(s) PROVE ViewInv'
  <2>1. /\ s \in offers /\ Offer(s, offered) /\ offered \in Snapshots /\ offers' = offers \ {s}
        /\ (offers' # {} => offered' = offered) /\ UNCHANGED <<sequence, replays, taken, stream, replayed>>
    BY <1>2, <1>t DEF DeliverTo, Deliver, StoreTypeOK, storeVars, viewerVars
  <2>2. offered.seq \in Nat \ {0} /\ offered.seq <= sequence
    BY <1>n, <2>1 DEF OrderInv
  <2>3. Limit(Viewer)' \in Nat /\ Limit(Viewer)' >= Limit(Viewer)
    BY <1>n, <2>1, <2>2 DEF Limit
  <2>4. CASE s # Viewer \/ shut[s]
    <3>1. Views' = Views
      BY <1>t, <2>1, <2>4, OfferCases, Names DEF Views
    <3> QED
      BY <1>g, <2>1, <2>3, <3>1
  <2>5. ASSUME s = Viewer, NEW k \in {0, 1}, Queues(Viewer, offered, k) PROVE ViewInv'
    <3>1. /\ Len(Views') \in Nat \ {0} /\ Views'[Len(Views')] = offered
          /\ \A i \in 1..Len(Views') :
                i # Len(Views') => Views'[i] = Views[i + k] /\ i + k \in 1..Len(Views)
      BY <2>5 DEF Queues, Views
    <3>2. Limit(Viewer) = offered.seq /\ offered.seq < Limit(Viewer)' /\ Viewer \in taken
      BY <1>n, <1>t, <2>1, <2>2, <2>5 DEF Limit, StoreTypeOK
    <3>3. /\ \A i \in 1..Len(Views) : Views[i].seq < offered.seq
          /\ \A i \in 1..Len(stream) : stream[i] < offered.seq
      BY <3>2 DEF ViewInv
    <3>4. replays'[Viewer] # Nothing => replayed < offered.seq /\ replays'[Viewer].seq = replayed /\ stream = <<>>
      BY <2>1, <3>2 DEF ViewInv
    <3>5. ASSUME NEW i \in 1..Len(Views')
          PROVE  /\ Views'[i].seq < Limit(Viewer)' /\ (replays'[Viewer] # Nothing => replayed < Views'[i].seq)
                 /\ \A j \in 1..Len(stream) : \/ stream[j] < Views'[i].seq
                                              \/ Views'[i].seq < stream[j] /\ Views'[i].seq = replayed
      <4>1. CASE i = Len(Views')
        BY <3>1, <3>2, <3>3, <3>4, <4>1
      <4>2. CASE i # Len(Views')
        <5>1. Views'[i] = Views[i + k] /\ i + k \in 1..Len(Views)
          BY <3>1, <4>2
        <5>2. Views[i + k].seq < Limit(Viewer)'
          BY <1>n, <2>2, <2>3, <3>2, <3>3, <5>1
        <5>3. replays'[Viewer] # Nothing => replayed < Views[i + k].seq
          BY <2>1, <5>1 DEF ViewInv
        <5>4. \A j \in 1..Len(stream) : \/ stream[j] < Views[i + k].seq
                                        \/ Views[i + k].seq < stream[j] /\ Views[i + k].seq = replayed
          BY <5>1 DEF ViewInv, InOrder
        <5> QED
          BY <5>1, <5>2, <5>3, <5>4
      <4> QED
        BY <4>1, <4>2
    <3>6. ASSUME NEW i \in 1..Len(Views'), NEW j \in 1..Len(Views'), i < j
          PROVE  \/ Views'[i].seq < Views'[j].seq
                 \/ Views'[j].seq < Views'[i].seq /\ Views'[j].seq = replayed
      <4>1. i # Len(Views') /\ Views'[i] = Views[i + k] /\ i + k \in 1..Len(Views)
        BY <3>1, <3>6
      <4>2. CASE j = Len(Views')
        BY <3>1, <3>3, <4>1, <4>2
      <4>3. CASE j # Len(Views')
        <5>1. Views'[j] = Views[j + k] /\ j + k \in 1..Len(Views) /\ i + k < j + k
          BY <3>1, <3>6, <4>3
        <5> QED
          BY <4>1, <5>1 DEF ViewInv, InOrder
      <4> QED
        BY <4>2, <4>3
    <3>7. \A i \in 1..Len(stream) : stream[i] < Limit(Viewer)'
      BY <1>n, <2>2, <2>3, <3>2, <3>3
    <3>8. replays'[Viewer] # Nothing => replayed < Limit(Viewer)'
      BY <1>n, <2>2, <2>3, <3>2, <3>4
    <3>9. /\ UNCHANGED <<stream, replayed>> /\ Viewer \in taken'
          /\ \A i, j \in 1..Len(stream) : i < j => InOrder(stream[i], stream[j])
      BY <2>1, <3>2 DEF ViewInv
    <3> QED
      BY <3>4, <3>5, <3>6, <3>7, <3>8, <3>9 DEF ViewInv, InOrder
  <2> QED
    BY <1>t, <2>1, <2>4, <2>5, OfferCases
<1>3. CASE Closes
  <2>1. Views' = Views /\ UNCHANGED <<stream, replayed, offers, offered, sequence, taken, replays>>
    BY <1>3 DEF Closes, StoreCloses, Views, storeVars, queueVars, viewerVars
  <2> QED
    BY <1>s, <2>1
<1>4. CASE Start
  <2>1. ASSUME Subscribe(Recording, FALSE), UNCHANGED <<stream, replayed>> PROVE ViewInv'
    <3>1. /\ Views' = Views /\ UNCHANGED <<offers, offered, sequence>> /\ taken' = taken \cup {Recording}
          /\ replays'[Viewer] = replays[Viewer]
      BY <1>t, <2>1, Names DEF Subscribe, Views, storeVars, queueVars, StoreTypeOK
    <3> QED
      BY <1>s, <2>1, <3>1
  <2> QED
    BY <1>4, <1>u, <2>1 DEF Start, viewerVars
<1>5. CASE RecordAction
  <2>1. UNCHANGED <<observationStoreVars, stream, replayed>>
    BY <1>5 DEF RecordAction, viewerVars
  <2> QED
    BY <1>u, <2>1
<1>6. CASE StopBegins
  <2>1. UNCHANGED <<observationStoreVars, stream, replayed>>
    BY <1>6 DEF StopBegins, viewerVars
  <2> QED
    BY <1>u, <2>1
<1>7. CASE StopReturns
  <2>1. UNCHANGED <<observationStoreVars, stream, replayed>>
    BY <1>7 DEF StopReturns, viewerVars
  <2> QED
    BY <1>u, <2>1
<1>8. CASE WriteAction
  <2>1. UNCHANGED <<observationStoreVars, stream, replayed>>
    BY <1>8 DEF WriteAction, Fail, viewerVars
  <2> QED
    BY <1>u, <2>1
<1>9. CASE TakeSnapshot
  <2>1. Take(Recording) /\ UNCHANGED <<stream, replayed>>
    BY <1>9 DEF TakeSnapshot, viewerVars
  <2>2. UNCHANGED <<offers, offered, sequence, replays, taken>>
    BY <2>1 DEF Take, storeVars, fanOutVars
  <2>3. Views' = Views
    BY <1>t, <2>1, TakeCases, Names DEF Views
  <2> QED
    BY <1>s, <2>1, <2>2, <2>3
<1>10. CASE FindNone
  <2>1. UNCHANGED <<observationStoreVars, stream, replayed>>
    BY <1>10 DEF FindNone, Fail, viewerVars
  <2> QED
    BY <1>u, <2>1
<1>11. CASE AfterNone
  <2>1. UNCHANGED <<observationStoreVars, stream, replayed>>
    BY <1>11 DEF AfterNone, viewerVars
  <2> QED
    BY <1>u, <2>1
<1>12. CASE WriteSnapshot
  <2>1. UNCHANGED <<observationStoreVars, stream, replayed>>
    BY <1>12 DEF WriteSnapshot, Fail, Gap, viewerVars
  <2> QED
    BY <1>u, <2>1
<1>13. CASE AfterSnapshot
  <2>1. UNCHANGED <<observationStoreVars, stream, replayed>>
    BY <1>13 DEF AfterSnapshot, viewerVars
  <2> QED
    BY <1>u, <2>1
<1>14. CASE LastDrainEnds
  <2>1. Views' = Views /\ UNCHANGED <<stream, replayed, offers, offered, sequence, taken, replays>>
    BY <1>14 DEF LastDrainEnds, Unsubscribe, Views, storeVars, queueVars, viewerVars
  <2> QED
    BY <1>s, <2>1
<1>15. CASE End
  <2>1. UNCHANGED <<observationStoreVars, stream, replayed>>
    BY <1>15 DEF End, viewerVars
  <2> QED
    BY <1>u, <2>1
<1>16. CASE ViewerSubscribes
  <2>1. PICK b \in BOOLEAN : Subscribe(Viewer, b) /\ replayed' = IF b THEN Latest.seq ELSE 0
    BY <1>16 DEF ViewerSubscribes
  <2>2. /\ Viewer \notin taken /\ Views' = Views /\ UNCHANGED <<offers, offered, sequence>> /\ Viewer \in taken'
        /\ replays'[Viewer] = IF b THEN Latest ELSE Nothing
    BY <1>t, <2>1, Names DEF Subscribe, Views, storeVars, queueVars, StoreTypeOK
  <2>3. stream' = <<>> /\ Len(Views') = 0 /\ Len(stream') = 0
    BY <1>16, <2>2 DEF ViewerSubscribes, ViewInv
  <2>4. Limit(Viewer)' = sequence + 1
    BY <1>t, <2>2 DEF Limit, StoreTypeOK
  <2>5. replays'[Viewer] # Nothing => replays'[Viewer].seq = replayed' /\ replayed' < sequence + 1
    <3> SUFFICES ASSUME replays'[Viewer] # Nothing
                 PROVE  replays'[Viewer].seq = replayed' /\ replayed' < sequence + 1
      OBVIOUS
    <3>1. b /\ Latest # Nothing /\ replayed' = Latest.seq /\ replays'[Viewer] = Latest
      BY <2>1, <2>2
    <3>2. Len(retained) \in 1..Len(retained) /\ Latest = retained[Len(retained)]
      BY <1>t, <3>1 DEF Latest, StoreTypeOK
    <3>3. Latest.seq \in Nat /\ Latest.seq <= sequence
      BY <1>t, <3>2, Numbers DEF OrderInv
    <3> QED
      BY <1>n, <3>1, <3>3
  <2> QED
    BY <2>2, <2>3, <2>4, <2>5 DEF ViewInv
<1>17. CASE ViewerReads
  <2>1. Take(Viewer) /\ stream' = Append(stream, Head(Views).seq) /\ replayed' = replayed
        /\ replays[Viewer] = Nothing
    BY <1>17 DEF ViewerReads, Views
  <2>2. UNCHANGED <<offers, offered, sequence, replays, taken>>
    BY <2>1 DEF Take, storeVars, fanOutVars
  <2>3. Limit(Viewer)' = Limit(Viewer)
    BY <2>2 DEF Limit
  <2>4. /\ 1 \in 1..Len(Views) /\ stream' = Append(stream, Views[1].seq) /\ Views[1].seq \in 1..MaxSnapshots
        /\ \A i \in 1..Len(Views') : Views'[i] = Views[i + 1] /\ i + 1 \in 1..Len(Views)
        /\ Len(Views') \in Nat
    BY <1>t, <2>1, TakeCases, Names DEF Views
  <2>5. Viewer \in taken
    BY <1>n, <2>4 DEF ViewInv
  <2>6. /\ Len(stream') = Len(stream) + 1 /\ stream'[Len(stream')] = Views[1].seq
        /\ \A i \in 1..Len(stream) : stream'[i] = stream[i]
    BY <1>n, <2>4
  <2>7. \A i \in 1..Len(stream') : i \in 1..Len(stream) \/ i = Len(stream')
    BY <1>n, <2>6
  <2>8. \A i \in 1..Len(stream') : stream'[i] < Limit(Viewer)'
    BY <2>3, <2>4, <2>6, <2>7 DEF ViewInv
  <2>9. \A i \in 1..Len(Views') : Views'[i].seq < Limit(Viewer)'
    BY <2>3, <2>4 DEF ViewInv
  <2>10. ASSUME NEW i \in 1..Len(Views'), NEW j \in 1..Len(Views'), i < j
         PROVE  InOrder(Views'[i].seq, Views'[j].seq)
    <3>1. /\ Views'[i] = Views[i + 1] /\ i + 1 \in 1..Len(Views)
          /\ Views'[j] = Views[j + 1] /\ j + 1 \in 1..Len(Views) /\ i + 1 < j + 1
      BY <2>4, <2>10
    <3> QED
      BY <3>1 DEF ViewInv
  <2>11. ASSUME NEW i \in 1..Len(stream'), NEW j \in 1..Len(stream'), i < j
         PROVE  InOrder(stream'[i], stream'[j])
    <3>1. i \in 1..Len(stream) /\ stream'[i] = stream[i]
      BY <1>n, <2>6, <2>11
    <3>2. CASE j \in 1..Len(stream)
      BY <2>6, <2>11, <3>1, <3>2 DEF ViewInv
    <3>3. CASE j = Len(stream')
      BY <2>4, <2>6, <3>1, <3>3 DEF ViewInv
    <3> QED
      BY <2>7, <3>2, <3>3
  <2>12. ASSUME NEW i \in 1..Len(stream'), NEW j \in 1..Len(Views')
         PROVE  InOrder(stream'[i], Views'[j].seq)
    <3>1. Views'[j] = Views[j + 1] /\ j + 1 \in 1..Len(Views) /\ 1 < j + 1
      BY <2>4
    <3>2. CASE i \in 1..Len(stream)
      BY <2>6, <3>1, <3>2 DEF ViewInv
    <3>3. CASE i = Len(stream')
      BY <2>4, <2>6, <3>1, <3>3 DEF ViewInv
    <3> QED
      BY <2>7, <3>2, <3>3
  <2> QED
    BY <2>1, <2>2, <2>5, <2>8, <2>9, <2>10, <2>11, <2>12 DEF ViewInv, InOrder
<1>18. CASE ViewerLeaves
  <2>1. Views' = Views /\ UNCHANGED <<stream, replayed, offers, offered, sequence, taken, replays>>
    BY <1>18 DEF ViewerLeaves, Unsubscribe, Views, storeVars, queueVars, viewerVars
  <2> QED
    BY <1>s, <2>1
<1>19. ASSUME NEW s \in Subscribers, QueueStep(s) PROVE ViewInv'
  <2>1. UNCHANGED <<stream, replayed>>
    BY <1>19 DEF QueueStep, viewerVars
  <2>2. CASE Replay(s)
    <3>1. /\ replays[s] \in Snapshots /\ Offer(s, replays[s]) /\ s # Recording /\ s = Viewer
          /\ replays'[Viewer] = Nothing /\ replays[Viewer] # Nothing
          /\ UNCHANGED <<sequence, offers, offered, taken>>
      BY <1>t, <2>2, Names DEF Replay, StoreTypeOK, storeVars, OrderInv
    <3>2. CASE shut[s]
      <4>1. Views' = Views
        BY <1>t, <3>1, <3>2, OfferCases DEF Views
      <4> QED
        BY <1>s, <2>1, <3>1, <4>1
    <3>3. ASSUME NEW k \in {0, 1}, Queues(Viewer, replays[Viewer], k) PROVE ViewInv'
      <4>1. /\ Len(Views') \in Nat \ {0} /\ Views'[Len(Views')] = replays[Viewer]
            /\ \A i \in 1..Len(Views') :
                  i # Len(Views') => Views'[i] = Views[i + k] /\ i + k \in 1..Len(Views)
        BY <3>3 DEF Queues, Views
      <4>2. /\ replays[Viewer].seq = replayed /\ replayed < Limit(Viewer) /\ stream = <<>>
            /\ \A i \in 1..Len(Views) : replayed < Views[i].seq
            /\ Limit(Viewer)' = Limit(Viewer) /\ Viewer \in taken'
        BY <3>1 DEF ViewInv, Limit
      <4>3. ASSUME NEW i \in 1..Len(Views') PROVE Views'[i].seq < Limit(Viewer)'
        BY <4>1, <4>2 DEF ViewInv
      <4>4. ASSUME NEW i \in 1..Len(Views'), NEW j \in 1..Len(Views'), i < j
            PROVE  InOrder(Views'[i].seq, Views'[j].seq)
        <5>1. i # Len(Views') /\ Views'[i] = Views[i + k] /\ i + k \in 1..Len(Views)
          BY <4>1, <4>4
        <5>2. CASE j = Len(Views')
          BY <4>1, <4>2, <5>1, <5>2 DEF InOrder
        <5>3. CASE j # Len(Views')
          <6>1. Views'[j] = Views[j + k] /\ j + k \in 1..Len(Views) /\ i + k < j + k
            BY <4>1, <4>4, <5>3
          <6> QED
            BY <5>1, <6>1 DEF ViewInv
        <5> QED
          BY <5>2, <5>3
      <4>5. stream' = <<>> /\ Len(stream') = 0 /\ replayed' = replayed
        BY <2>1, <4>2
      <4> QED
        BY <3>1, <4>2, <4>3, <4>4, <4>5 DEF ViewInv, InOrder
    <3> QED
      BY <1>t, <3>1, <3>2, <3>3, OfferCases
  <2>3. CASE Shut(s)
    <3>1. Views' = Views /\ UNCHANGED <<offers, offered, sequence, replays, taken>>
      BY <2>3 DEF Shut, storeVars, Views
    <3> QED
      BY <1>s, <2>1, <3>1
  <2> QED
    BY <1>19, <2>2, <2>3 DEF QueueStep
<1> QED
  BY <1>1, <1>2, <1>3, <1>4, <1>5, <1>6, <1>7, <1>8, <1>9, <1>10, <1>11, <1>12, <1>13, <1>14,
     <1>15, <1>16, <1>17, <1>18, <1>19 DEF Next, Producer, Writer

-----------------------------------------------------------------------------
(* The invariant.                                                          *)

LEMMA First == Init => IInv
<1> SUFFICES ASSUME Init PROVE IInv
  OBVIOUS
<1>1. /\ generation = 0 /\ sequence = 0 /\ storeClosed = FALSE /\ retained = <<>>
      /\ taken = {} /\ subscribers = {} /\ unshut = {} /\ offers = {} /\ offered = Nothing
      /\ replays = [s \in Subscribers |-> Nothing]
      /\ queue = [s \in Subscribers |-> <<>>]
      /\ dropped = [s \in Subscribers |-> 0] /\ shut = [s \in Subscribers |-> FALSE]
  BY DEF Init, StoreInit
<1>2. StoreTypeOK(Snapshots) /\ sequence <= MaxSnapshots
  <2>1. <<>> \in Seq(Snapshots) /\ Len(<<>>) = 0
    OBVIOUS
  <2>2. /\ queue \in [Subscribers -> Seq(Snapshots)] /\ dropped \in [Subscribers -> Nat]
        /\ shut \in [Subscribers -> BOOLEAN] /\ replays \in [Subscribers -> Snapshots \cup {Nothing}]
    BY <1>1, <2>1
  <2>3. \A s \in Subscribers : Len(queue[s]) <= QueueSize[s]
    <3> SUFFICES ASSUME NEW s \in Subscribers PROVE Len(queue[s]) <= QueueSize[s]
      OBVIOUS
    <3>1. Len(queue[s]) = 0 /\ QueueSize[s] \in Nat \ {0}
      BY <1>1, <2>1, QueueSizeAssumption
    <3> QED
      BY <3>1
  <2>4. retained \in Seq(Snapshots) /\ Len(retained) <= MaxRetained
    BY <1>1, <2>1, MaxRetainedAssumption
  <2>5. generation \in Nat /\ sequence \in Nat /\ storeClosed \in BOOLEAN /\ sequence <= MaxSnapshots
    <3>1. generation = 0 /\ sequence = 0 /\ storeClosed = FALSE
      BY <1>1
    <3>2. MaxSnapshots \in Nat /\ (MaxSnapshots \in Nat => 0 <= MaxSnapshots)
      BY RecorderBounds
    <3> QED
      BY <3>1, <3>2
  <2>6. /\ taken \subseteq Subscribers /\ subscribers \subseteq taken
        /\ unshut \subseteq taken /\ offers \subseteq taken
    BY <1>1
  <2>7. offered \in Snapshots \cup {Nothing} /\ offers = {}
    BY <1>1
  <2> QED
    BY <2>2, <2>3, <2>4, <2>5, <2>6, <2>7 DEF StoreTypeOK
<1>3. RecorderTypeOK /\ FilesTypeOK
  <2>1. \A S : <<>> \in Seq(S) /\ Len(<<>>) = 0
    OBVIOUS
  <2>2. RecorderTypeOK
    <3>1. OwnSize \in Nat \ {0} /\ MaxSnapshots \in Nat
      BY Names, RecorderBounds
    <3>2. 0 \in 0..MaxSnapshots /\ NoBudget \in 0..NoBudget
      BY <3>1 DEF NoBudget
    <3>3. actionQueue \in Seq(1..MaxActions) /\ Len(actionQueue) <= OwnSize
      BY <2>1, <3>1 DEF Init
    <3> QED
      BY <3>2, <3>3 DEF Init, RecorderTypeOK
  <2>3. NoManifest \in [state : {"running", "stopped", "failed"}, incomplete : BOOLEAN,
                        dropped : Nat, droppedActions : BOOLEAN]
    BY DEF NoManifest
  <2>4. written = <<>> /\ writtenActions = <<>> /\ due = <<>> /\ stream = <<>>
    BY DEF Init
  <2>5. manifest = NoManifest /\ looked = 0 /\ actions = 0 /\ replayed = 0
    BY DEF Init
  <2> QED
    BY <2>1, <2>2, <2>3, <2>4, <2>5, RecorderBounds DEF FilesTypeOK
<1>4. PlaceInv
  BY Names DEF Init, PlaceInv, StopHonest, NoBudget, NoManifest
<1>5. Own = <<>> /\ Views = <<>> /\ Limit(Recording) = 1
  BY <1>1, Names DEF Own, Views, Limit
<1>6. OrderInv
  BY <1>1, <1>5, Names DEF Init, OrderInv
<1>7. LossInv /\ ActionInv /\ LossVisible
  BY DEF Init, LossInv, ActionInv, LossVisible, NoManifest
<1>8. ViewInv
  BY <1>1, <1>5, Names DEF Init, ViewInv
<1> QED
  BY <1>2, <1>3, <1>4, <1>6, <1>7, <1>8 DEF IInv, TypeOK

\* The bound on the ids is kept.
LEMMA SequenceBound ==
    ASSUME IInv, Next
    PROVE  sequence' <= MaxSnapshots
<1>1. TypeOK /\ sequence \in Nat /\ sequence <= MaxSnapshots /\ MaxSnapshots \in Nat
  BY RecorderBounds DEF IInv, TypeOK, StoreTypeOK
<1>2. CASE PublishNext
  BY <1>1, <1>2, PublishCases DEF Publishes, Skips
<1>3. CASE sequence' = sequence
  BY <1>1, <1>3
<1>4. ASSUME NEW s \in Subscribers, DeliverTo(s) \/ QueueStep(s) PROVE sequence' = sequence
  BY <1>4 DEF DeliverTo, Deliver, QueueStep, Replay, Shut, storeVars
<1>5. ASSUME Writer PROVE sequence' = sequence
  BY <1>5 DEF Writer, WriteAction, TakeSnapshot, Take, FindNone, AfterNone, WriteSnapshot,
     AfterSnapshot, LastDrainEnds, Unsubscribe, End, observationStoreVars, storeVars
<1>6. ASSUME Closes \/ Start \/ RecordAction \/ StopBegins \/ StopReturns \/ ViewerSubscribes \/ ViewerReads \/ ViewerLeaves
      PROVE  sequence' = sequence
  BY <1>6 DEF Closes, StoreCloses, Start, RecordAction, StopBegins, StopReturns,
     ViewerSubscribes, ViewerReads, ViewerLeaves, Subscribe, Unsubscribe, Take,
     observationStoreVars, storeVars
<1> QED
  BY <1>2, <1>3, <1>4, <1>5, <1>6 DEF Next, Producer

LEMMA Kept == IInv /\ [Next]_vars => IInv'
<1>1. ASSUME IInv, Next PROVE IInv'
  <2>1. TypeOK'
    BY <1>1, StoreTypes, RecorderTypes, FilesTypes, SequenceBound DEF TypeOK
  <2> QED
    BY <1>1, <2>1, PlaceStep, OrderStep, LossStep, ActionStep, ViewStep, VisibleStep DEF IInv
<1>2. ASSUME IInv, UNCHANGED vars PROVE IInv'
  <2>1. /\ UNCHANGED <<generation, sequence, retained, storeClosed, subscribers, unshut, offers, offered>>
        /\ UNCHANGED <<replays, taken, queue, dropped, shut>>
        /\ UNCHANGED <<state, incomplete, stopEvent, actionQueue, droppedActions>>
        /\ UNCHANGED <<writer, current, lastSequence, budget, written, writtenActions, manifest>>
        /\ UNCHANGED <<stopping, answer, due, looked, actions, stream, replayed>>
    BY <1>2 DEF vars, observationStoreVars, storeVars, fanOutVars, queueVars, recorderVars,
       fileVars, writerVars, stopVars, historyVars, viewerVars
  <2>2. Own' = Own /\ Views' = Views
    BY <2>1 DEF Own, Views
  <2>3. TypeOK'
    BY <1>2, <2>1 DEF IInv, TypeOK, StoreTypeOK, RecorderTypeOK, FilesTypeOK
  <2>4. PlaceInv' /\ ActionInv' /\ LossVisible'
    BY <1>2, <2>1 DEF IInv, PlaceInv, StopHonest, ActionInv, LossVisible, Elements
  <2>5. OrderInv'
    BY <1>2, <2>1, <2>2 DEF IInv, OrderInv, Limit
  <2>6. LossInv'
    BY <1>2, <2>1, <2>2 DEF IInv, LossInv, Held, Safe, Written, Queued, Overflowed, Forgotten
  <2>7. ViewInv'
    BY <1>2, <2>1, <2>2 DEF IInv, ViewInv, InOrder, Limit
  <2> QED
    BY <2>3, <2>4, <2>5, <2>6, <2>7 DEF IInv
<1> QED
  BY <1>1, <1>2

LEMMA SpecIInv == Spec => []IInv
  BY First, Kept, PTL DEF Spec

-----------------------------------------------------------------------------
(* What follows from it.                                                   *)

\* The store, the recorder, its files and the viewer keep their types: no
\* queue outgrows its size (devices/observations/store.py:56-70,
\* devices/recording.py:225-232).
THEOREM TypeCorrect == Spec => []TypeOK
<1>1. IInv => TypeOK
  BY DEF IInv
<1> QED
  BY <1>1, SpecIInv, PTL

\* What the recorder lost shows in a manifest that calls it complete only as
\* the code allows, and stop answers True only when nothing is written any
\* more or the recorder had failed (devices/recording.py:274-286, 390-446).
THEOREM RecorderIsHonest == Spec => []RecorderHonest
<1>1. IInv => RecorderHonest
  BY DEF IInv, RecorderHonest, PlaceInv
<1> QED
  BY <1>1, SpecIInv, PTL

\* Each reader gets the snapshots once and in the order of their publication,
\* but for a replay (devices/observations/store.py:180-214).
THEOREM StreamsAreInOrder == Spec => []InOrderOnce
<1>1. IInv => InOrderOnce
  <2> SUFFICES ASSUME IInv PROVE InOrderOnce
    OBVIOUS
  <2> DEFINE coming == [i \in 1..Len(Views) |-> Views[i].seq]
  <2>1. ViewInv /\ OrderInv /\ TypeOK /\ StoreTypeOK(Snapshots) /\ FilesTypeOK
    BY DEF IInv, TypeOK
  <2>2. /\ stream \in Seq(1..MaxSnapshots) /\ Len(stream) \in Nat /\ Len(Views) \in Nat
        /\ \A i \in 1..Len(Views) : Views[i].seq \in 1..MaxSnapshots
    BY <2>1, QueueTypes, Names DEF FilesTypeOK, Views
  <2>3. coming \in Seq(1..MaxSnapshots) /\ Len(coming) = Len(Views)
    BY <2>2
  <2>4. \A i \in 1..Len(Views) : coming[i] = Views[i].seq
    OBVIOUS
  <2>5. ViewerStream = stream \o coming
    BY DEF ViewerStream, Views
  <2> HIDE DEF coming
  <2>6. /\ Len(ViewerStream) = Len(stream) + Len(coming) /\ Len(coming) = Len(Views)
        /\ \A i \in 1..Len(ViewerStream) :
              ViewerStream[i] = IF i <= Len(stream) THEN stream[i] ELSE coming[i - Len(stream)]
    <3>1. stream \in Seq(Nat) /\ coming \in Seq(Nat)
      BY <2>2, <2>3, RecorderBounds
    <3>2. /\ Len(stream \o coming) = Len(stream) + Len(coming)
          /\ \A i \in 1..Len(stream) + Len(coming) :
                (stream \o coming)[i] = IF i <= Len(stream) THEN stream[i] ELSE coming[i - Len(stream)]
      BY <3>1, ConcatProperties, Zenon
    <3> HIDE DEF ViewerStream
    <3> QED
      BY <2>3, <2>5, <3>2, Zenon
  <2> HIDE DEF ViewerStream
  <2>7. ASSUME NEW i \in 1..Len(ViewerStream), NEW j \in 1..Len(ViewerStream), i < j
        PROVE  InOrder(ViewerStream[i], ViewerStream[j])
    <3>1. CASE j <= Len(stream)
      <4>1. ViewerStream[i] = stream[i] /\ ViewerStream[j] = stream[j] /\ i \in 1..Len(stream) /\ j \in 1..Len(stream)
        BY <2>2, <2>6, <2>7, <3>1
      <4> QED
        BY <2>1, <2>7, <4>1 DEF ViewInv
    <3>2. CASE i <= Len(stream) /\ ~(j <= Len(stream))
      <4>1. i \in 1..Len(stream) /\ j - Len(stream) \in 1..Len(Views)
        BY <2>2, <2>6, <2>7, <3>2
      <4>2. ViewerStream[i] = stream[i] /\ ViewerStream[j] = Views[j - Len(stream)].seq
        BY <2>4, <2>6, <3>2, <4>1
      <4> QED
        BY <2>1, <4>1, <4>2 DEF ViewInv
    <3>3. CASE ~(i <= Len(stream))
      <4>1. /\ i - Len(stream) \in 1..Len(Views) /\ j - Len(stream) \in 1..Len(Views)
            /\ i - Len(stream) < j - Len(stream) /\ ~(j <= Len(stream))
        BY <2>2, <2>6, <2>7, <3>3
      <4>2. ViewerStream[i] = Views[i - Len(stream)].seq /\ ViewerStream[j] = Views[j - Len(stream)].seq
        BY <2>4, <2>6, <3>3, <4>1
      <4> QED
        BY <2>1, <4>1, <4>2 DEF ViewInv
    <3> QED
      BY <3>1, <3>2, <3>3
  <2>8. \A i, j \in 1..Len(ViewerStream) :
           i < j => \/ ViewerStream[i] < ViewerStream[j]
                    \/ ViewerStream[i] > ViewerStream[j] /\ ViewerStream[j] = replayed
    <3>1. \A i \in 1..Len(ViewerStream) : ViewerStream[i] \in Nat
      <4> SUFFICES ASSUME NEW i \in 1..Len(ViewerStream) PROVE ViewerStream[i] \in Nat
        OBVIOUS
      <4>1. CASE i <= Len(stream)
        BY <2>2, <2>6, <4>1, RecorderBounds
      <4>2. CASE ~(i <= Len(stream))
        <5>1. i - Len(stream) \in 1..Len(Views)
          BY <2>2, <2>6, <4>2
        <5>2. ViewerStream[i] \in 1..MaxSnapshots
          BY <2>2, <2>4, <2>6, <4>2, <5>1
        <5> QED
          BY <5>2, RecorderBounds
      <4> QED
        BY <4>1, <4>2
    <3> QED
      BY <2>7, <3>1 DEF InOrder
  <2> QED
    BY <2>1, <2>8 DEF InOrderOnce, OrderInv
<1> QED
  BY <1>1, SpecIInv, PTL
=============================================================================
