------------------------- MODULE ObservationsProofs -------------------------
(***************************************************************************)
(* Proofs about Observations, for any cameras, subscribers, queue sizes    *)
(* and bounds.                                                             *)
(***************************************************************************)
EXTENDS Observations, TLAPS

\* Where a round is, its rooms are in order: what it has not asked, what it is
\* asking and what it waits for are different cameras, and only while it
\* collects.
PlaceInv ==
    /\ at # "collect" => todo = {} /\ pending = {} /\ asking = IdleAsking
    /\ pending \cap todo = {} /\ asking[1] \notin pending \cup todo
    /\ at \in {"collect", "compare", "name"} => sequence < round
    /\ at = "publish" => nextSnapshot \in Snapshots
    /\ reconnecting => generation < reconnects
    /\ \A c \in stale : workerGen[c] < reconnects
    /\ \A c \in Cameras : workerGen[c] <= reconnects
    /\ stale # {} => reconnecting

\* A request of a worker that is neither answered nor given up: queued, running
\* or completed, one at a time.
Open(c) == {job[c], running[c], completed[c]} \ {None}

OneOpen(c) ==
    \/ job[c] = None /\ running[c] = None
    \/ job[c] = None /\ completed[c] = None
    \/ running[c] = None /\ completed[c] = None

\* It belongs to the round that waits for it, or its timeout was reported.
OpenInv ==
    \A c \in Cameras :
        /\ OneOpen(c)
        /\ c \notin attached => Open(c) = {}
        /\ \A r \in Open(c) : <<c, r>> \in reported \/ (c \in pending /\ r = round)

\* The frames of the round under way and of what it publishes are its own.
FrameInv ==
    /\ \A c \in Cameras : got[c] \in {None, round}
    /\ nextSnapshot # Nothing => \A c \in Cameras : nextSnapshot.frames[c] \in {None, nextSnapshot.round}
    /\ FreshFrames

\* Its generation, too, but for the reconnect that slips in.
GenerationInv ==
    /\ slipped <= round
    /\ at = "name" => sampledGen = generation \/ round = slipped
    /\ nextSnapshot # Nothing => nextSnapshot.sampled = nextSnapshot.gen \/ nextSnapshot.round <= slipped
    /\ NothingFromBefore

\* What close has stopped stays so.
CloseInv ==
    /\ closing # "no" => producerClosed
    /\ closing = "store" => ~complete
    /\ closing \in {"no", "join"} => stopping = NoCamera
    /\ closing = "done" /\ complete => toStop = {} /\ stopping = NoCamera
    /\ answered /\ ~hasty => closing = "done" /\ complete
    /\ \A c \in Cameras : workerStop[c] => job[c] = None
    /\ closing \in {"workers", "done"} /\ complete =>
          /\ thread["loop"] = "off"
          /\ \A c \in attached \ toStop :
                workerStop[c] /\ (c # stopping => running[c] = None)

IInv == TypeOK /\ PlaceInv /\ OpenInv /\ FrameInv /\ GenerationInv /\ CloseInv

-----------------------------------------------------------------------------

\* Rounds and reconnects keep their order.
LEMMA PlaceStep ==
    ASSUME IInv, Next
    PROVE  PlaceInv'
<1> USE BoundsAssumption, CamerasAssumption DEF IInv, workerVars, roundVars, endVars, claimVars,
   reconnectVars, observationStoreVars, storeVars, fanOutVars, queueVars, producerVars,
   PlaceInv, TypeOK, WorkersTypeOK, RoundTypeOK, EndsTypeOK, IdleAsking, NoCamera
<1>0. sequence \in Nat /\ generation \in Nat
  BY DEF StoreTypeOK
<1>1. ASSUME NEW c \in Cameras, WorkerBegins(c) PROVE PlaceInv'
  BY <1>1 DEF WorkerBegins
<1>2. ASSUME NEW c \in Cameras, WorkerEnds(c) PROVE PlaceInv'
  BY <1>2 DEF WorkerEnds
<1>3. ASSUME NEW c \in Cameras, AddCamera(c) PROVE PlaceInv'
  BY <1>3 DEF AddCamera
<1>4. ASSUME NEW c \in Cameras, AskTakes(c) PROVE PlaceInv'
  BY <1>4 DEF AskTakes
<1>5. ASSUME NEW c \in Cameras, AskRequests(c) PROVE PlaceInv'
  BY <1>5 DEF AskRequests, Free
<1>6. ASSUME NEW c \in Cameras, AskReports(c) PROVE PlaceInv'
  BY <1>6 DEF AskReports
<1>7. ASSUME NEW c \in Cameras, Arrives(c) PROVE PlaceInv'
  BY <1>7 DEF Arrives
<1>8. CASE WaitEnds
  BY <1>8 DEF WaitEnds
<1>9. CASE Compare
  BY <1>9 DEF Compare, EndRound
<1>10. CASE NameSnapshot
  <2>1. CASE storeClosed
    BY <1>10, <2>1 DEF NameSnapshot, EndRound
  <2>2. CASE ~storeClosed
    <3>1. /\ at = "name" /\ at' = "publish" /\ sequence' = sequence + 1
          /\ nextSnapshot' = [seq |-> sequence + 1, gen |-> generation, sampled |-> sampledGen,
                              round |-> round, frames |-> got]
          /\ UNCHANGED <<generation, todo, pending, asking, stale, workerGen, reconnecting, reconnects>>
      BY <1>10, <2>2 DEF NameSnapshot, NextObservationId
    <3>2. nextSnapshot' \in Snapshots
      BY <1>0, <3>1 DEF Snapshots
    <3> QED
      BY <3>1, <3>2
  <2> QED
    BY <2>1, <2>2
<1>11. CASE PublishSnapshot
  BY <1>11 DEF PublishSnapshot, EndRound, Publish, Publishable, Latest
<1>12. ASSUME NEW s \in Subscribers, OfferTo(s) PROVE PlaceInv'
  BY <1>12 DEF OfferTo, Deliver, Offer
<1>13. CASE RoundReturns
  BY <1>13 DEF RoundReturns, EndRound
<1>14. CASE LoopEnds
  BY <1>14 DEF LoopEnds
<1>15. ASSUME NEW t \in Threads, Wants(t) PROVE PlaceInv'
  BY <1>15 DEF Wants
<1>16. ASSUME NEW t \in Threads, BeginRound(t) PROVE PlaceInv'
  BY <1>0, <1>16 DEF BeginRound
<1>17. CASE ReconnectBegins
  BY <1>0, <1>17 DEF ReconnectBegins
<1>18. ASSUME NEW c \in Cameras, Invalidate(c) PROVE PlaceInv'
  BY <1>18 DEF Invalidate
<1>19. CASE ReconnectEnds
  BY <1>19 DEF ReconnectEnds, BeginGeneration
<1>20. CASE CloseBegins \/ CloseAgain
  BY <1>20 DEF CloseBegins, CloseAgain
<1>21. CASE CloseJoins
  BY <1>21 DEF CloseJoins
<1>22. ASSUME NEW c \in Cameras, StopWorker(c) PROVE PlaceInv'
  BY <1>22 DEF StopWorker
<1>23. CASE JoinWorker
  BY <1>23 DEF JoinWorker
<1>24. CASE CloseStore
  BY <1>24 DEF CloseStore, StoreCloses
<1>25. ASSUME NEW s \in Subscribers, QueueStep(s) PROVE PlaceInv'
  BY <1>25 DEF QueueStep, Shut, Take
<1> QED
  BY <1>1, <1>2, <1>3, <1>4, <1>5, <1>6, <1>7, <1>8, <1>9, <1>10, <1>11, <1>12, <1>13, <1>14,
     <1>15, <1>16, <1>17, <1>18, <1>19, <1>20, <1>21, <1>22, <1>23, <1>24, <1>25
     DEF Next, WorkerStep, AskStep, RoundStep, ThreadStep, ReconnectStep, CloseStep

\* No request is lost sight of: it is waited for, or reported.
LEMMA OpenStep ==
    ASSUME IInv, Next
    PROVE  OpenInv'
<1> USE BoundsAssumption, CamerasAssumption DEF IInv, workerVars, roundVars, endVars, claimVars,
   reconnectVars, observationStoreVars, storeVars, fanOutVars, queueVars, producerVars, OpenInv,
   PlaceInv, TypeOK, WorkersTypeOK, RoundTypeOK, EndsTypeOK, Open, OneOpen, None, IdleAsking,
   NoCamera
<1>1. ASSUME NEW c \in Cameras, WorkerBegins(c) PROVE OpenInv'
  BY <1>1 DEF WorkerBegins
<1>2. ASSUME NEW c \in Cameras, WorkerEnds(c) PROVE OpenInv'
  BY <1>2 DEF WorkerEnds
<1>3. ASSUME NEW c \in Cameras, AddCamera(c) PROVE OpenInv'
  BY <1>3 DEF AddCamera
<1>4. ASSUME NEW c \in Cameras, AskTakes(c) PROVE OpenInv'
  BY <1>4 DEF AskTakes
<1>5. ASSUME NEW c \in Cameras, AskRequests(c) PROVE OpenInv'
  <2>1. c \in attached
    BY <1>5 DEF AskRequests
  <2>2. CASE Free(c)
    <3>1. /\ job' = [job EXCEPT ![c] = round] /\ pending' = pending \cup {c}
          /\ UNCHANGED <<running, completed, reported, round, attached>>
          /\ running[c] = 0 /\ completed[c] = 0
      BY <1>5, <2>2 DEF AskRequests, Free
    <3>2. ASSUME NEW d \in Cameras, d # c
          PROVE  job'[d] = job[d]
      BY <3>1, <3>2
    <3> QED
      BY <2>1, <3>1, <3>2
  <2>3. CASE ~Free(c)
    BY <1>5, <2>3 DEF AskRequests
  <2> QED
    BY <2>2, <2>3
<1>6. ASSUME NEW c \in Cameras, AskReports(c) PROVE OpenInv'
  BY <1>6 DEF AskReports
<1>7. ASSUME NEW c \in Cameras, Arrives(c) PROVE OpenInv'
  BY <1>7 DEF Arrives
<1>8. CASE WaitEnds
  BY <1>8 DEF WaitEnds
<1>9. CASE Compare
  BY <1>9 DEF Compare, EndRound
<1>10. CASE NameSnapshot
  BY <1>10 DEF NameSnapshot, EndRound, NextObservationId
<1>11. CASE PublishSnapshot
  BY <1>11 DEF PublishSnapshot, EndRound, Publish, Publishable, Latest
<1>12. ASSUME NEW s \in Subscribers, OfferTo(s) PROVE OpenInv'
  BY <1>12 DEF OfferTo, Deliver, Offer
<1>13. CASE RoundReturns
  BY <1>13 DEF RoundReturns, EndRound
<1>14. CASE LoopEnds
  BY <1>14 DEF LoopEnds
<1>15. ASSUME NEW t \in Threads, Wants(t) PROVE OpenInv'
  BY <1>15 DEF Wants
<1>16. ASSUME NEW t \in Threads, BeginRound(t) PROVE OpenInv'
  BY <1>16 DEF BeginRound
<1>17. CASE ReconnectBegins
  BY <1>17 DEF ReconnectBegins
<1>18. ASSUME NEW c \in Cameras, Invalidate(c) PROVE OpenInv'
  BY <1>18 DEF Invalidate
<1>19. CASE ReconnectEnds
  BY <1>19 DEF ReconnectEnds, BeginGeneration
<1>20. CASE CloseBegins \/ CloseAgain
  BY <1>20 DEF CloseBegins, CloseAgain
<1>21. CASE CloseJoins
  BY <1>21 DEF CloseJoins
<1>22. ASSUME NEW c \in Cameras, StopWorker(c) PROVE OpenInv'
  BY <1>22 DEF StopWorker
<1>23. CASE JoinWorker
  BY <1>23 DEF JoinWorker
<1>24. CASE CloseStore
  BY <1>24 DEF CloseStore, StoreCloses
<1>25. ASSUME NEW s \in Subscribers, QueueStep(s) PROVE OpenInv'
  BY <1>25 DEF QueueStep, Shut, Take
<1> QED
  BY <1>1, <1>2, <1>3, <1>4, <1>5, <1>6, <1>7, <1>8, <1>9, <1>10, <1>11, <1>12, <1>13, <1>14,
     <1>15, <1>16, <1>17, <1>18, <1>19, <1>20, <1>21, <1>22, <1>23, <1>24, <1>25
     DEF Next, WorkerStep, AskStep, RoundStep, ThreadStep, ReconnectStep, CloseStep

-----------------------------------------------------------------------------

\* Who is in the window after a publication.
LEMMA Window ==
    ASSUME StoreTypeOK(Snapshots), NEW snap \in Snapshots, Publish(snap)
    PROVE  /\ retained' \in Seq(Snapshots) /\ Len(retained') <= MaxRetained
           /\ \A x \in Retained' : x \in Retained \/ x = snap
<1>0. MaxRetained \in Nat \ {0} /\ retained \in Seq(Snapshots) /\ Len(retained) <= MaxRetained
  BY MaxRetainedAssumption DEF StoreTypeOK
<1>1. CASE Len(retained) = MaxRetained
  <2>1. retained' = Append(Tail(retained), snap)
    BY <1>1 DEF Publish
  <2>2. /\ Tail(retained) \in Seq(Snapshots) /\ Len(Tail(retained)) = Len(retained) - 1
        /\ \A i \in 1..Len(Tail(retained)) : Tail(retained)[i] = retained[i + 1]
    BY <1>0, <1>1
  <2>3. /\ retained' \in Seq(Snapshots) /\ Len(retained') = Len(retained)
        /\ \A i \in 1..Len(retained') :
              retained'[i] = IF i = Len(retained) THEN snap ELSE retained[i + 1]
    BY <1>0, <1>1, <2>1, <2>2
  <2>4. \A i \in 1..Len(retained) : i = Len(retained) \/ i + 1 \in 1..Len(retained)
    BY <1>0
  <2>5. \A i \in 1..Len(retained') : retained'[i] = snap \/ retained'[i] \in Retained
    BY <2>3, <2>4 DEF Retained
  <2>6. \A x \in Retained' : x \in Retained \/ x = snap
    BY <2>5 DEF Retained
  <2> QED
    BY <1>0, <2>3, <2>6
<1>2. CASE Len(retained) # MaxRetained
  <2>1. retained' = Append(retained, snap)
    BY <1>2 DEF Publish
  <2>2. /\ retained' \in Seq(Snapshots) /\ Len(retained') = Len(retained) + 1
        /\ \A i \in 1..Len(retained') :
              retained'[i] = IF i = Len(retained) + 1 THEN snap ELSE retained[i]
    BY <1>0, <2>1
  <2> QED
    BY <1>0, <1>2, <2>2 DEF Retained
<1> QED
  BY <1>1, <1>2

\* A round takes no frame that was not requested by it.
LEMMA FrameStep ==
    ASSUME IInv, Next
    PROVE  FrameInv'
<1> USE DEF IInv, workerVars, roundVars, endVars, claimVars, reconnectVars, observationStoreVars,
   storeVars, fanOutVars, queueVars, producerVars
<1>g. got \in [Cameras -> 0..MaxRounds]
  BY DEF TypeOK, RoundTypeOK
<1>u. ASSUME UNCHANGED <<got, round, nextSnapshot, retained>> PROVE FrameInv'
  BY <1>u DEF FrameInv, FreshFrames, Retained
<1>e. ASSUME EndRound, UNCHANGED retained PROVE FrameInv'
  BY <1>e DEF EndRound, FrameInv, FreshFrames, Retained
<1>1. ASSUME NEW c \in Cameras, WorkerBegins(c) PROVE FrameInv'
  BY <1>1, <1>u DEF WorkerBegins
<1>2. ASSUME NEW c \in Cameras, WorkerEnds(c) PROVE FrameInv'
  BY <1>2, <1>u DEF WorkerEnds
<1>3. ASSUME NEW c \in Cameras, AddCamera(c) PROVE FrameInv'
  BY <1>3, <1>u DEF AddCamera
<1>4. ASSUME NEW c \in Cameras, AskTakes(c) PROVE FrameInv'
  <2>1. completed[c] # None => <<c, completed[c]>> \in reported
    <3>1. c \in Cameras /\ c \notin pending
      BY <1>4, CamerasAssumption DEF AskTakes, PlaceInv, IdleAsking, NoCamera, TypeOK,
         WorkersTypeOK, RoundTypeOK, EndsTypeOK
    <3> QED
      BY <3>1 DEF OpenInv, Open
  <2>2. got' = got \/ got' = [got EXCEPT ![c] = None]
    BY <1>4, <2>1 DEF AskTakes, TypeOK, WorkersTypeOK, RoundTypeOK, EndsTypeOK
  <2>3. UNCHANGED <<round, nextSnapshot, retained>>
    BY <1>4 DEF AskTakes
  <2> QED
    BY <2>2, <2>3, <1>g DEF FrameInv, FreshFrames, Retained
<1>5. ASSUME NEW c \in Cameras, AskRequests(c) PROVE FrameInv'
  BY <1>5, <1>u DEF AskRequests, Free
<1>6. ASSUME NEW c \in Cameras, AskReports(c) PROVE FrameInv'
  BY <1>6, <1>u DEF AskReports
<1>7. ASSUME NEW c \in Cameras, Arrives(c) PROVE FrameInv'
  <2>1. got' = got \/ got' = [got EXCEPT ![c] = round]
    BY <1>7 DEF Arrives
  <2>2. UNCHANGED <<round, nextSnapshot, retained>>
    BY <1>7 DEF Arrives
  <2> QED
    BY <2>1, <2>2, <1>g DEF FrameInv, FreshFrames, Retained
<1>8. CASE WaitEnds
  BY <1>8, <1>u DEF WaitEnds
<1>9. CASE Compare
  <2>1. CASE sampledGen = generation
    BY <1>9, <2>1, <1>u DEF Compare
  <2>2. CASE sampledGen # generation
    BY <1>9, <2>2, <1>e DEF Compare
  <2> QED
    BY <2>1, <2>2
<1>10. CASE NameSnapshot
  <2>1. CASE storeClosed
    BY <1>10, <2>1, <1>e DEF NameSnapshot
  <2>2. CASE ~storeClosed
    <3>1. /\ nextSnapshot' = [seq |-> sequence + 1, gen |-> generation, sampled |-> sampledGen,
                              round |-> round, frames |-> got]
          /\ UNCHANGED <<got, round, retained>>
      BY <1>10, <2>2 DEF NameSnapshot, NextObservationId
    <3> QED
      BY <3>1 DEF FrameInv, FreshFrames, Retained
  <2> QED
    BY <2>1, <2>2
<1>11. CASE PublishSnapshot
  <2>1. CASE Publishable(nextSnapshot)
    <3>1. nextSnapshot \in Snapshots /\ nextSnapshot # Nothing
      BY <1>11 DEF PublishSnapshot, PlaceInv, Snapshots, Nothing
    <3>2. \A x \in Retained' : x \in Retained \/ x = nextSnapshot
      BY <1>11, <2>1, <3>1, Window DEF PublishSnapshot, TypeOK, WorkersTypeOK, RoundTypeOK,
         EndsTypeOK
    <3>3. UNCHANGED <<got, round, nextSnapshot>>
      BY <1>11, <2>1 DEF PublishSnapshot
    <3> QED
      BY <3>1, <3>2, <3>3 DEF FrameInv, FreshFrames
  <2>2. CASE ~Publishable(nextSnapshot)
    BY <1>11, <2>2, <1>e DEF PublishSnapshot
  <2> QED
    BY <2>1, <2>2
<1>12. ASSUME NEW s \in Subscribers, OfferTo(s) PROVE FrameInv'
  BY <1>12, <1>u DEF OfferTo, Deliver, Offer
<1>13. CASE RoundReturns
  BY <1>13, <1>e DEF RoundReturns
<1>14. CASE LoopEnds
  BY <1>14, <1>u DEF LoopEnds
<1>15. ASSUME NEW t \in Threads, Wants(t) PROVE FrameInv'
  BY <1>15, <1>u DEF Wants
<1>16. ASSUME NEW t \in Threads, BeginRound(t) PROVE FrameInv'
  BY <1>16 DEF BeginRound, FrameInv, FreshFrames, Retained
<1>17. CASE ReconnectBegins
  BY <1>17, <1>u DEF ReconnectBegins
<1>18. ASSUME NEW c \in Cameras, Invalidate(c) PROVE FrameInv'
  BY <1>18, <1>u DEF Invalidate
<1>19. CASE ReconnectEnds
  <2>1. retained' = retained \/ retained' = <<>>
    BY <1>19 DEF ReconnectEnds, BeginGeneration
  <2> QED
    BY <1>19, <2>1 DEF ReconnectEnds, FrameInv, FreshFrames, Retained
<1>20. CASE CloseBegins \/ CloseAgain
  BY <1>20, <1>u DEF CloseBegins, CloseAgain
<1>21. CASE CloseJoins
  BY <1>21, <1>u DEF CloseJoins
<1>22. ASSUME NEW c \in Cameras, StopWorker(c) PROVE FrameInv'
  BY <1>22, <1>u DEF StopWorker
<1>23. CASE JoinWorker
  BY <1>23, <1>u DEF JoinWorker
<1>24. CASE CloseStore
  BY <1>24 DEF CloseStore, StoreCloses, FrameInv, FreshFrames, Retained
<1>25. ASSUME NEW s \in Subscribers, QueueStep(s) PROVE FrameInv'
  BY <1>25, <1>u DEF QueueStep, Shut, Take
<1> QED
  BY <1>1, <1>2, <1>3, <1>4, <1>5, <1>6, <1>7, <1>8, <1>9, <1>10, <1>11, <1>12, <1>13, <1>14,
     <1>15, <1>16, <1>17, <1>18, <1>19, <1>20, <1>21, <1>22, <1>23, <1>24, <1>25
     DEF Next, WorkerStep, AskStep, RoundStep, ThreadStep, ReconnectStep, CloseStep

\* A snapshot is published in the generation that it was sampled in.
LEMMA GenerationStep ==
    ASSUME IInv, Next
    PROVE  GenerationInv'
<1> USE DEF IInv, workerVars, roundVars, endVars, claimVars, reconnectVars, observationStoreVars,
   storeVars, fanOutVars, queueVars, producerVars
<1>t. round \in Nat /\ slipped \in Nat
  BY BoundsAssumption DEF TypeOK, WorkersTypeOK, RoundTypeOK, EndsTypeOK
<1>s. nextSnapshot # Nothing => nextSnapshot.round \in Nat
  BY DEF TypeOK, WorkersTypeOK, RoundTypeOK, EndsTypeOK, Snapshots
<1>u. ASSUME UNCHANGED <<at, round, sampledGen, generation, slipped, nextSnapshot, retained>>
      PROVE  GenerationInv'
  BY <1>u DEF GenerationInv, NothingFromBefore, Retained
<1>e. ASSUME EndRound, UNCHANGED <<generation, slipped, retained>> PROVE GenerationInv'
  BY <1>e DEF EndRound, GenerationInv, NothingFromBefore, Retained
<1>1. ASSUME NEW c \in Cameras, WorkerBegins(c) PROVE GenerationInv'
  BY <1>1, <1>u DEF WorkerBegins
<1>2. ASSUME NEW c \in Cameras, WorkerEnds(c) PROVE GenerationInv'
  BY <1>2, <1>u DEF WorkerEnds
<1>3. ASSUME NEW c \in Cameras, AddCamera(c) PROVE GenerationInv'
  BY <1>3, <1>u DEF AddCamera
<1>4. ASSUME NEW c \in Cameras, AskTakes(c) PROVE GenerationInv'
  BY <1>4, <1>u DEF AskTakes
<1>5. ASSUME NEW c \in Cameras, AskRequests(c) PROVE GenerationInv'
  BY <1>5, <1>u DEF AskRequests, Free
<1>6. ASSUME NEW c \in Cameras, AskReports(c) PROVE GenerationInv'
  BY <1>6, <1>u DEF AskReports
<1>7. ASSUME NEW c \in Cameras, Arrives(c) PROVE GenerationInv'
  BY <1>7, <1>u DEF Arrives
<1>8. CASE WaitEnds
  <2>1. at' = "compare" /\ UNCHANGED <<round, generation, slipped, nextSnapshot, retained>>
    BY <1>8 DEF WaitEnds
  <2> QED
    BY <2>1 DEF GenerationInv, NothingFromBefore, Retained
<1>9. CASE Compare
  <2>1. CASE sampledGen = generation
    BY <1>9, <2>1 DEF Compare, GenerationInv, NothingFromBefore, Retained
  <2>2. CASE sampledGen # generation
    BY <1>9, <2>2, <1>e DEF Compare
  <2> QED
    BY <2>1, <2>2
<1>10. CASE NameSnapshot
  <2>1. CASE storeClosed
    BY <1>10, <2>1, <1>e DEF NameSnapshot
  <2>2. CASE ~storeClosed
    <3>1. /\ at = "name" /\ at' = "publish"
          /\ nextSnapshot' = [seq |-> sequence + 1, gen |-> generation, sampled |-> sampledGen,
                              round |-> round, frames |-> got]
          /\ UNCHANGED <<generation, slipped, round, retained>>
      BY <1>10, <2>2 DEF NameSnapshot, NextObservationId
    <3> QED
      BY <3>1, <1>t DEF GenerationInv, NothingFromBefore, Retained
  <2> QED
    BY <2>1, <2>2
<1>11. CASE PublishSnapshot
  <2>1. CASE Publishable(nextSnapshot)
    <3>1. nextSnapshot \in Snapshots /\ nextSnapshot # Nothing /\ nextSnapshot.gen = generation
      BY <1>11, <2>1 DEF PublishSnapshot, Publishable, PlaceInv, Snapshots, Nothing
    <3>2. \A x \in Retained' : x \in Retained \/ x = nextSnapshot
      BY <1>11, <2>1, <3>1, Window DEF PublishSnapshot, TypeOK, WorkersTypeOK, RoundTypeOK,
         EndsTypeOK
    <3>3. at' = "offer" /\ UNCHANGED <<generation, slipped, round, nextSnapshot>>
      BY <1>11, <2>1 DEF PublishSnapshot, Publish
    <3> QED
      BY <3>1, <3>2, <3>3 DEF GenerationInv, NothingFromBefore
  <2>2. CASE ~Publishable(nextSnapshot)
    BY <1>11, <2>2, <1>e DEF PublishSnapshot
  <2> QED
    BY <2>1, <2>2
<1>12. ASSUME NEW s \in Subscribers, OfferTo(s) PROVE GenerationInv'
  BY <1>12, <1>u DEF OfferTo, Deliver, Offer
<1>13. CASE RoundReturns
  BY <1>13, <1>e DEF RoundReturns
<1>14. CASE LoopEnds
  BY <1>14, <1>u DEF LoopEnds
<1>15. ASSUME NEW t \in Threads, Wants(t) PROVE GenerationInv'
  BY <1>15, <1>u DEF Wants
<1>16. ASSUME NEW t \in Threads, BeginRound(t) PROVE GenerationInv'
  <2>1. /\ at' = "collect" /\ round' = round + 1
        /\ UNCHANGED <<generation, slipped, nextSnapshot, retained>>
    BY <1>16 DEF BeginRound
  <2> QED
    BY <2>1, <1>t DEF GenerationInv, NothingFromBefore, Retained
<1>17. CASE ReconnectBegins
  BY <1>17, <1>u DEF ReconnectBegins
<1>18. ASSUME NEW c \in Cameras, Invalidate(c) PROVE GenerationInv'
  BY <1>18, <1>u DEF Invalidate
<1>19. CASE ReconnectEnds
  <2>1. /\ slipped' = IF at = "name" THEN round ELSE slipped
        /\ UNCHANGED <<at, round, sampledGen, nextSnapshot>>
    BY <1>19 DEF ReconnectEnds
  <2>2. slipped \in Nat /\ slipped <= slipped' /\ slipped' <= round /\ slipped' \in Nat
    BY <2>1, <1>t DEF GenerationInv
  <2>3. nextSnapshot # Nothing =>
           nextSnapshot.sampled = nextSnapshot.gen \/ nextSnapshot.round <= slipped'
    BY <2>2, <1>s DEF GenerationInv
  <2>4. CASE BeginGeneration
    BY <2>1, <2>2, <2>3, <2>4 DEF BeginGeneration, GenerationInv, NothingFromBefore, Retained
  <2>5. CASE UNCHANGED observationStoreVars
    <3>1. \A x \in Retained : x \in Snapshots
      BY DEF TypeOK, StoreTypeOK, Retained
    <3>2. \A x \in Retained : x.round \in Nat
      BY <3>1 DEF Snapshots
    <3>3. Retained' = Retained /\ generation' = generation
      BY <2>5 DEF Retained
    <3>4. NothingFromBefore'
      BY <2>2, <3>2, <3>3 DEF GenerationInv, NothingFromBefore
    <3> QED
      BY <2>1, <2>2, <2>3, <3>3, <3>4 DEF GenerationInv
  <2> QED
    BY <1>19, <2>4, <2>5 DEF ReconnectEnds
<1>20. CASE CloseBegins \/ CloseAgain
  BY <1>20, <1>u DEF CloseBegins, CloseAgain
<1>21. CASE CloseJoins
  BY <1>21, <1>u DEF CloseJoins
<1>22. ASSUME NEW c \in Cameras, StopWorker(c) PROVE GenerationInv'
  BY <1>22, <1>u DEF StopWorker
<1>23. CASE JoinWorker
  BY <1>23, <1>u DEF JoinWorker
<1>24. CASE CloseStore
  BY <1>24 DEF CloseStore, StoreCloses, GenerationInv, NothingFromBefore, Retained
<1>25. ASSUME NEW s \in Subscribers, QueueStep(s) PROVE GenerationInv'
  BY <1>25, <1>u DEF QueueStep, Shut, Take
<1> QED
  BY <1>1, <1>2, <1>3, <1>4, <1>5, <1>6, <1>7, <1>8, <1>9, <1>10, <1>11, <1>12, <1>13, <1>14,
     <1>15, <1>16, <1>17, <1>18, <1>19, <1>20, <1>21, <1>22, <1>23, <1>24, <1>25
     DEF Next, WorkerStep, AskStep, RoundStep, ThreadStep, ReconnectStep, CloseStep

\* What close has seen ended does not begin again.
LEMMA CloseStepKeeps ==
    ASSUME IInv, Next
    PROVE  CloseInv'
<1> USE DEF IInv, workerVars, roundVars, endVars, claimVars, reconnectVars, observationStoreVars,
   storeVars, fanOutVars, queueVars, producerVars
<1>e. ASSUME \/ EndRound
             \/ UNCHANGED thread,
             UNCHANGED <<producerClosed, closing, complete, stopping, workerStop, job, running, toStop,
                         attached, answered, hasty>>
      PROVE  CloseInv'
  <2>1. thread["loop"] = "off" => thread'["loop"] = "off"
    BY <1>e DEF EndRound, TypeOK, WorkersTypeOK, RoundTypeOK, EndsTypeOK, Threads
  <2> QED
    BY <1>e, <2>1 DEF CloseInv
<1>1. ASSUME NEW c \in Cameras, WorkerBegins(c) PROVE CloseInv'
  BY <1>1 DEF WorkerBegins, OpenInv, PlaceInv, TypeOK, WorkersTypeOK, RoundTypeOK, EndsTypeOK,
     CloseInv, Open, OneOpen, Threads, NoCamera
<1>2. ASSUME NEW c \in Cameras, WorkerEnds(c) PROVE CloseInv'
  BY <1>2 DEF WorkerEnds, OpenInv, PlaceInv, TypeOK, WorkersTypeOK, RoundTypeOK, EndsTypeOK,
     CloseInv, Open, OneOpen, Threads, NoCamera
<1>3. ASSUME NEW c \in Cameras, AddCamera(c) PROVE CloseInv'
  BY <1>3 DEF AddCamera, OpenInv, PlaceInv, TypeOK, WorkersTypeOK, RoundTypeOK, EndsTypeOK,
     CloseInv, Open, OneOpen, Threads, NoCamera
<1>4. ASSUME NEW c \in Cameras, AskTakes(c) PROVE CloseInv'
  BY <1>4 DEF AskTakes, OpenInv, PlaceInv, TypeOK, WorkersTypeOK, RoundTypeOK, EndsTypeOK,
     CloseInv, Open, OneOpen, Threads, NoCamera
<1>5. ASSUME NEW c \in Cameras, AskRequests(c) PROVE CloseInv'
  BY <1>5 DEF AskRequests, Free, OpenInv, PlaceInv, TypeOK, WorkersTypeOK, RoundTypeOK,
     EndsTypeOK, CloseInv, Open, OneOpen, Threads, NoCamera
<1>6. ASSUME NEW c \in Cameras, AskReports(c) PROVE CloseInv'
  BY <1>6 DEF AskReports, OpenInv, PlaceInv, TypeOK, WorkersTypeOK, RoundTypeOK, EndsTypeOK,
     CloseInv, Open, OneOpen, Threads, NoCamera
<1>7. ASSUME NEW c \in Cameras, Arrives(c) PROVE CloseInv'
  BY <1>7 DEF Arrives, OpenInv, PlaceInv, TypeOK, WorkersTypeOK, RoundTypeOK, EndsTypeOK,
     CloseInv, Open, OneOpen, Threads, NoCamera
<1>8. CASE WaitEnds
  BY <1>8 DEF WaitEnds, OpenInv, PlaceInv, TypeOK, WorkersTypeOK, RoundTypeOK, EndsTypeOK,
     CloseInv, Open, OneOpen, Threads, NoCamera
<1>9. CASE Compare
  BY <1>9, <1>e DEF Compare
<1>10. CASE NameSnapshot
  BY <1>10, <1>e DEF NameSnapshot
<1>11. CASE PublishSnapshot
  BY <1>11, <1>e DEF PublishSnapshot
<1>12. ASSUME NEW s \in Subscribers, OfferTo(s) PROVE CloseInv'
  BY <1>12 DEF OfferTo, Deliver, Offer, OpenInv, PlaceInv, TypeOK, WorkersTypeOK, RoundTypeOK,
     EndsTypeOK, CloseInv, Open, OneOpen, Threads, NoCamera
<1>13. CASE RoundReturns
  BY <1>13, <1>e DEF RoundReturns
<1>14. CASE LoopEnds
  BY <1>14 DEF LoopEnds, OpenInv, PlaceInv, TypeOK, WorkersTypeOK, RoundTypeOK, EndsTypeOK,
     CloseInv, Open, OneOpen, Threads, NoCamera
<1>15. ASSUME NEW t \in Threads, Wants(t) PROVE CloseInv'
  BY <1>15 DEF Wants, OpenInv, PlaceInv, TypeOK, WorkersTypeOK, RoundTypeOK, EndsTypeOK,
     CloseInv, Open, OneOpen, Threads, NoCamera
<1>16. ASSUME NEW t \in Threads, BeginRound(t) PROVE CloseInv'
  BY <1>16 DEF BeginRound, OpenInv, PlaceInv, TypeOK, WorkersTypeOK, RoundTypeOK, EndsTypeOK,
     CloseInv, Open, OneOpen, Threads, NoCamera
<1>17. CASE ReconnectBegins
  BY <1>17 DEF ReconnectBegins, OpenInv, PlaceInv, TypeOK, WorkersTypeOK, RoundTypeOK,
     EndsTypeOK, CloseInv, Open, OneOpen, Threads, NoCamera
<1>18. ASSUME NEW c \in Cameras, Invalidate(c) PROVE CloseInv'
  BY <1>18 DEF Invalidate, OpenInv, PlaceInv, TypeOK, WorkersTypeOK, RoundTypeOK, EndsTypeOK,
     CloseInv, Open, OneOpen, Threads, NoCamera
<1>19. CASE ReconnectEnds
  BY <1>19 DEF ReconnectEnds, BeginGeneration, OpenInv, PlaceInv, TypeOK, WorkersTypeOK,
     RoundTypeOK, EndsTypeOK, CloseInv, Open, OneOpen, Threads, NoCamera
<1>20. CASE CloseBegins \/ CloseAgain
  BY <1>20 DEF CloseBegins, CloseAgain, OpenInv, PlaceInv, TypeOK, WorkersTypeOK, RoundTypeOK,
     EndsTypeOK, CloseInv, Open, OneOpen, Threads, NoCamera
<1>21. CASE CloseJoins
  BY <1>21 DEF CloseJoins, OpenInv, PlaceInv, TypeOK, WorkersTypeOK, RoundTypeOK, EndsTypeOK,
     CloseInv, Open, OneOpen, Threads, NoCamera
<1>22. ASSUME NEW c \in Cameras, StopWorker(c) PROVE CloseInv'
  BY <1>22, CamerasAssumption DEF StopWorker, CloseInv, TypeOK, WorkersTypeOK, RoundTypeOK,
     EndsTypeOK, NoCamera
<1>23. CASE JoinWorker
  BY <1>23 DEF JoinWorker, OpenInv, PlaceInv, TypeOK, WorkersTypeOK, RoundTypeOK, EndsTypeOK,
     CloseInv, Open, OneOpen, Threads, NoCamera
<1>24. CASE CloseStore
  BY <1>24 DEF CloseStore, StoreCloses, OpenInv, PlaceInv, TypeOK, WorkersTypeOK, RoundTypeOK,
     EndsTypeOK, CloseInv, Open, OneOpen, Threads, NoCamera
<1>25. ASSUME NEW s \in Subscribers, QueueStep(s) PROVE CloseInv'
  BY <1>25 DEF QueueStep, Shut, Take, OpenInv, PlaceInv, TypeOK, WorkersTypeOK, RoundTypeOK,
     EndsTypeOK, CloseInv, Open, OneOpen, Threads, NoCamera
<1> QED
  BY <1>1, <1>2, <1>3, <1>4, <1>5, <1>6, <1>7, <1>8, <1>9, <1>10, <1>11, <1>12, <1>13, <1>14,
     <1>15, <1>16, <1>17, <1>18, <1>19, <1>20, <1>21, <1>22, <1>23, <1>24, <1>25
     DEF Next, WorkerStep, AskStep, RoundStep, ThreadStep, ReconnectStep, CloseStep

\* The workers' variables keep their types.
LEMMA WorkerTypes ==
    ASSUME IInv, Next
    PROVE  WorkersTypeOK'
<1> USE BoundsAssumption, CamerasAssumption DEF IInv, TypeOK, workerVars, roundVars, endVars,
   claimVars, reconnectVars, observationStoreVars, storeVars, fanOutVars, queueVars, producerVars
<1>r. /\ round \in 0..MaxRounds /\ pending \subseteq Cameras
      /\ \A c \in stale : workerGen[c] + 1 \in 0..MaxReconnects
  BY DEF RoundTypeOK, WorkersTypeOK, PlaceInv, EndsTypeOK
<1>u. ASSUME UNCHANGED <<attached, reported, job, running, completed, workerStop, workerGen, jobGen>>
      PROVE  WorkersTypeOK'
  BY <1>u DEF WorkersTypeOK
<1>1. ASSUME NEW c \in Cameras, WorkerBegins(c) PROVE WorkersTypeOK'
  BY <1>1 DEF WorkerBegins, WorkersTypeOK, PlaceInv, Threads, IdleAsking, NoCamera, None
<1>2. ASSUME NEW c \in Cameras, WorkerEnds(c) PROVE WorkersTypeOK'
  BY <1>2 DEF WorkerEnds, WorkersTypeOK, PlaceInv, Threads, IdleAsking, NoCamera, None
<1>3. ASSUME NEW c \in Cameras, AddCamera(c) PROVE WorkersTypeOK'
  BY <1>3 DEF AddCamera, WorkersTypeOK, PlaceInv, Threads, IdleAsking, NoCamera, None
<1>4. ASSUME NEW c \in Cameras, AskTakes(c) PROVE WorkersTypeOK'
  BY <1>4 DEF AskTakes, WorkersTypeOK, PlaceInv, Threads, IdleAsking, NoCamera, None
<1>5. ASSUME NEW c \in Cameras, AskRequests(c) PROVE WorkersTypeOK'
  BY <1>5, <1>r DEF AskRequests, Free, WorkersTypeOK, None
<1>6. ASSUME NEW c \in Cameras, AskReports(c) PROVE WorkersTypeOK'
  BY <1>6 DEF AskReports, WorkersTypeOK, PlaceInv, Threads, IdleAsking, NoCamera, None
<1>7. ASSUME NEW c \in Cameras, Arrives(c) PROVE WorkersTypeOK'
  BY <1>7 DEF Arrives, WorkersTypeOK, PlaceInv, Threads, IdleAsking, NoCamera, None
<1>8. CASE WaitEnds
  BY <1>8, <1>r DEF WaitEnds, WorkersTypeOK, None
<1>9. ASSUME NEW c \in Cameras, Invalidate(c) PROVE WorkersTypeOK'
  BY <1>9, <1>r DEF Invalidate, WorkersTypeOK, None
<1>10. ASSUME NEW c \in Cameras, StopWorker(c) PROVE WorkersTypeOK'
  BY <1>10 DEF StopWorker, WorkersTypeOK, PlaceInv, Threads, IdleAsking, NoCamera, None
<1>11. CASE Compare
  BY <1>11, <1>u DEF Compare, EndRound
<1>12. CASE NameSnapshot
  BY <1>12, <1>u DEF NameSnapshot, EndRound, NextObservationId
<1>13. CASE PublishSnapshot
  BY <1>13, <1>u DEF PublishSnapshot, EndRound, Publish
<1>14. ASSUME NEW s \in Subscribers, OfferTo(s) PROVE WorkersTypeOK'
  BY <1>14, <1>u DEF OfferTo, Deliver, Offer
<1>15. CASE RoundReturns
  BY <1>15, <1>u DEF RoundReturns, EndRound
<1>16. CASE LoopEnds
  BY <1>16, <1>u DEF LoopEnds
<1>17. ASSUME NEW t \in Threads, Wants(t) PROVE WorkersTypeOK'
  BY <1>17, <1>u DEF Wants
<1>18. ASSUME NEW t \in Threads, BeginRound(t) PROVE WorkersTypeOK'
  BY <1>18, <1>u DEF BeginRound
<1>19. CASE ReconnectBegins
  BY <1>19, <1>u DEF ReconnectBegins
<1>20. CASE ReconnectEnds
  BY <1>20, <1>u DEF ReconnectEnds, BeginGeneration
<1>21. CASE CloseBegins \/ CloseAgain
  BY <1>21, <1>u DEF CloseBegins, CloseAgain
<1>22. CASE CloseJoins
  BY <1>22, <1>u DEF CloseJoins
<1>23. CASE JoinWorker
  BY <1>23, <1>u DEF JoinWorker
<1>24. CASE CloseStore
  BY <1>24, <1>u DEF CloseStore, StoreCloses
<1>25. ASSUME NEW s \in Subscribers, QueueStep(s) PROVE WorkersTypeOK'
  BY <1>25, <1>u DEF QueueStep, Shut, Take
<1> QED
  BY <1>1, <1>2, <1>3, <1>4, <1>5, <1>6, <1>7, <1>8, <1>9, <1>10, <1>11, <1>12, <1>13, <1>14,
     <1>15, <1>16, <1>17, <1>18, <1>19, <1>20, <1>21, <1>22, <1>23, <1>24, <1>25
     DEF Next, WorkerStep, AskStep, RoundStep, ThreadStep, ReconnectStep, CloseStep

\* So do those of the round.
LEMMA RoundTypes ==
    ASSUME IInv, Next
    PROVE  RoundTypeOK'
<1> USE BoundsAssumption, CamerasAssumption DEF IInv, TypeOK, workerVars, roundVars, endVars,
   claimVars, reconnectVars, observationStoreVars, storeVars, fanOutVars, queueVars, producerVars
<1>r. /\ completed \in [Cameras -> 0..MaxRounds] /\ attached \subseteq Cameras
      /\ generation \in 0..MaxReconnects /\ sequence \in Nat
  BY DEF StoreTypeOK, WorkersTypeOK, EndsTypeOK
<1>u. ASSUME UNCHANGED <<thread, roundVars, sequence, attached>> PROVE RoundTypeOK'
  BY <1>u DEF RoundTypeOK
<1>1. ASSUME NEW c \in Cameras, AddCamera(c) PROVE RoundTypeOK'
  BY <1>1 DEF AddCamera, RoundTypeOK, PlaceInv, Threads, IdleAsking, NoCamera, None
<1>2. ASSUME NEW c \in Cameras, AskTakes(c) PROVE RoundTypeOK'
  BY <1>2, <1>r DEF AskTakes, RoundTypeOK, PlaceInv, Threads, IdleAsking, NoCamera, None
<1>3. ASSUME NEW c \in Cameras, AskRequests(c) PROVE RoundTypeOK'
  BY <1>3 DEF AskRequests, Free, RoundTypeOK, PlaceInv, Threads, IdleAsking, NoCamera, None
<1>4. ASSUME NEW c \in Cameras, AskReports(c) PROVE RoundTypeOK'
  BY <1>4 DEF AskReports, RoundTypeOK, PlaceInv, Threads, IdleAsking, NoCamera, None
<1>5. ASSUME NEW c \in Cameras, Arrives(c) PROVE RoundTypeOK'
  BY <1>5, <1>r DEF Arrives, RoundTypeOK, PlaceInv, Threads, IdleAsking, NoCamera, None
<1>6. CASE WaitEnds
  BY <1>6 DEF WaitEnds, RoundTypeOK, PlaceInv, Threads, IdleAsking, NoCamera, None
<1>7. CASE Compare
  BY <1>7 DEF Compare, EndRound, RoundTypeOK, PlaceInv, Threads, IdleAsking, NoCamera, None
<1>8. CASE NameSnapshot
  <2>1. CASE storeClosed
    BY <1>8, <2>1 DEF NameSnapshot, EndRound, RoundTypeOK, None
  <2>2. CASE ~storeClosed
    <3>1. /\ at = "name" /\ at' = "publish" /\ sequence' = sequence + 1
          /\ nextSnapshot' = [seq |-> sequence + 1, gen |-> generation, sampled |-> sampledGen,
                              round |-> round, frames |-> got]
          /\ UNCHANGED <<attached, thread, round, sampledGen, todo, asking, pending, got>>
      BY <1>8, <2>2 DEF NameSnapshot, NextObservationId
    <3>2. sequence < round
      BY <3>1 DEF PlaceInv
    <3>3. nextSnapshot' \in Snapshots
      BY <1>r, <3>1, <3>2 DEF RoundTypeOK, Snapshots
    <3> QED
      BY <1>r, <3>1, <3>2, <3>3 DEF RoundTypeOK
  <2> QED
    BY <2>1, <2>2
<1>9. CASE PublishSnapshot
  BY <1>9 DEF PublishSnapshot, EndRound, Publish, RoundTypeOK, PlaceInv, Threads, IdleAsking,
     NoCamera, None
<1>10. CASE RoundReturns
  BY <1>10 DEF RoundReturns, EndRound, RoundTypeOK, PlaceInv, Threads, IdleAsking, NoCamera, None
<1>11. CASE LoopEnds
  BY <1>11 DEF LoopEnds, RoundTypeOK, PlaceInv, Threads, IdleAsking, NoCamera, None
<1>12. ASSUME NEW t \in Threads, Wants(t) PROVE RoundTypeOK'
  BY <1>12 DEF Wants, RoundTypeOK, PlaceInv, Threads, IdleAsking, NoCamera, None
<1>13. ASSUME NEW t \in Threads, BeginRound(t) PROVE RoundTypeOK'
  BY <1>13, <1>r DEF BeginRound, RoundTypeOK, PlaceInv, Threads, IdleAsking, NoCamera, None
<1>14. ASSUME NEW c \in Cameras, WorkerBegins(c) PROVE RoundTypeOK'
  BY <1>14, <1>u DEF WorkerBegins
<1>15. ASSUME NEW c \in Cameras, WorkerEnds(c) PROVE RoundTypeOK'
  BY <1>15, <1>u DEF WorkerEnds
<1>16. ASSUME NEW s \in Subscribers, OfferTo(s) PROVE RoundTypeOK'
  BY <1>16, <1>u DEF OfferTo, Deliver, Offer
<1>17. CASE ReconnectBegins
  BY <1>17, <1>u DEF ReconnectBegins
<1>18. ASSUME NEW c \in Cameras, Invalidate(c) PROVE RoundTypeOK'
  BY <1>18, <1>u DEF Invalidate
<1>19. CASE ReconnectEnds
  BY <1>19, <1>u DEF ReconnectEnds, BeginGeneration
<1>20. CASE CloseBegins \/ CloseAgain
  BY <1>20, <1>u DEF CloseBegins, CloseAgain
<1>21. CASE CloseJoins
  BY <1>21, <1>u DEF CloseJoins
<1>22. ASSUME NEW c \in Cameras, StopWorker(c) PROVE RoundTypeOK'
  BY <1>22, <1>u DEF StopWorker
<1>23. CASE JoinWorker
  BY <1>23, <1>u DEF JoinWorker
<1>24. CASE CloseStore
  BY <1>24, <1>u DEF CloseStore, StoreCloses
<1>25. ASSUME NEW s \in Subscribers, QueueStep(s) PROVE RoundTypeOK'
  BY <1>25, <1>u DEF QueueStep, Shut, Take
<1> QED
  BY <1>1, <1>2, <1>3, <1>4, <1>5, <1>6, <1>7, <1>8, <1>9, <1>10, <1>11, <1>12, <1>13, <1>14,
     <1>15, <1>16, <1>17, <1>18, <1>19, <1>20, <1>21, <1>22, <1>23, <1>24, <1>25
     DEF Next, WorkerStep, AskStep, RoundStep, ThreadStep, ReconnectStep, CloseStep

\* So do those of close and reconnect.
LEMMA EndTypes ==
    ASSUME IInv, Next
    PROVE  EndsTypeOK'
<1> USE BoundsAssumption, CamerasAssumption DEF IInv, TypeOK, workerVars, roundVars, endVars,
   claimVars, reconnectVars, observationStoreVars, storeVars, fanOutVars, queueVars, producerVars
<1>r. generation \in Nat
  BY DEF StoreTypeOK
<1>u. ASSUME UNCHANGED <<endVars, reconnectVars, generation, attached>> PROVE EndsTypeOK'
  BY <1>u DEF EndsTypeOK
<1>1. ASSUME NEW c \in Cameras, AddCamera(c) PROVE EndsTypeOK'
  BY <1>1 DEF AddCamera, EndsTypeOK, PlaceInv, Threads, IdleAsking, NoCamera, None
<1>2. CASE ReconnectBegins
  BY <1>2, <1>r DEF ReconnectBegins, EndsTypeOK
<1>3. ASSUME NEW c \in Cameras, Invalidate(c) PROVE EndsTypeOK'
  BY <1>3 DEF Invalidate, EndsTypeOK, PlaceInv, Threads, IdleAsking, NoCamera, None
<1>4. CASE ReconnectEnds
  <2>1. generation' \in {generation, generation + 1}
    BY <1>4 DEF ReconnectEnds, BeginGeneration
  <2>2. generation < reconnects /\ round \in 0..MaxRounds
    BY <1>4 DEF ReconnectEnds, PlaceInv, RoundTypeOK
  <2>3. generation' <= reconnects /\ slipped' \in 0..MaxRounds
    BY <1>4, <1>r, <2>1, <2>2 DEF ReconnectEnds, EndsTypeOK
  <2>4. UNCHANGED <<endVars, attached, stale, reconnects>> /\ reconnecting' = FALSE
    BY <1>4 DEF ReconnectEnds
  <2> QED
    BY <2>3, <2>4 DEF EndsTypeOK
<1>5. CASE CloseBegins \/ CloseAgain
  BY <1>5 DEF CloseBegins, CloseAgain, EndsTypeOK, PlaceInv, Threads, IdleAsking, NoCamera, None
<1>6. CASE CloseJoins
  BY <1>6 DEF CloseJoins, EndsTypeOK, PlaceInv, Threads, IdleAsking, NoCamera, None
<1>7. ASSUME NEW c \in Cameras, StopWorker(c) PROVE EndsTypeOK'
  BY <1>7 DEF StopWorker, EndsTypeOK, PlaceInv, Threads, IdleAsking, NoCamera, None
<1>8. CASE JoinWorker
  BY <1>8 DEF JoinWorker, EndsTypeOK, PlaceInv, Threads, IdleAsking, NoCamera, None
<1>9. CASE CloseStore
  BY <1>9 DEF CloseStore, StoreCloses, EndsTypeOK, PlaceInv, Threads, IdleAsking, NoCamera, None
<1>10. ASSUME NEW c \in Cameras, WorkerBegins(c) PROVE EndsTypeOK'
  BY <1>10, <1>u DEF WorkerBegins
<1>11. ASSUME NEW c \in Cameras, WorkerEnds(c) PROVE EndsTypeOK'
  BY <1>11, <1>u DEF WorkerEnds
<1>12. ASSUME NEW c \in Cameras, AskTakes(c) PROVE EndsTypeOK'
  BY <1>12, <1>u DEF AskTakes
<1>13. ASSUME NEW c \in Cameras, AskRequests(c) PROVE EndsTypeOK'
  BY <1>13, <1>u DEF AskRequests, Free
<1>14. ASSUME NEW c \in Cameras, AskReports(c) PROVE EndsTypeOK'
  BY <1>14, <1>u DEF AskReports
<1>15. ASSUME NEW c \in Cameras, Arrives(c) PROVE EndsTypeOK'
  BY <1>15, <1>u DEF Arrives
<1>16. CASE WaitEnds
  BY <1>16, <1>u DEF WaitEnds
<1>17. CASE Compare
  BY <1>17, <1>u DEF Compare, EndRound
<1>18. CASE NameSnapshot
  BY <1>18, <1>u DEF NameSnapshot, EndRound, NextObservationId
<1>19. CASE PublishSnapshot
  BY <1>19, <1>u DEF PublishSnapshot, EndRound, Publish
<1>20. ASSUME NEW s \in Subscribers, OfferTo(s) PROVE EndsTypeOK'
  BY <1>20, <1>u DEF OfferTo, Deliver, Offer
<1>21. CASE RoundReturns
  BY <1>21, <1>u DEF RoundReturns, EndRound
<1>22. CASE LoopEnds
  BY <1>22, <1>u DEF LoopEnds
<1>23. ASSUME NEW t \in Threads, Wants(t) PROVE EndsTypeOK'
  BY <1>23, <1>u DEF Wants
<1>24. ASSUME NEW t \in Threads, BeginRound(t) PROVE EndsTypeOK'
  BY <1>24, <1>u DEF BeginRound
<1>25. ASSUME NEW s \in Subscribers, QueueStep(s) PROVE EndsTypeOK'
  BY <1>25, <1>u DEF QueueStep, Shut, Take
<1> QED
  BY <1>1, <1>2, <1>3, <1>4, <1>5, <1>6, <1>7, <1>8, <1>9, <1>10, <1>11, <1>12, <1>13, <1>14,
     <1>15, <1>16, <1>17, <1>18, <1>19, <1>20, <1>21, <1>22, <1>23, <1>24, <1>25
     DEF Next, WorkerStep, AskStep, RoundStep, ThreadStep, ReconnectStep, CloseStep

\* An offer keeps the queue within its size: a full one loses its oldest snapshot.
LEMMA OfferTypes ==
    ASSUME StoreTypeOK(Snapshots), NEW s \in Subscribers, NEW snap \in Snapshots, Offer(s, snap)
    PROVE  /\ queue' \in [Subscribers -> Seq(Snapshots)]
           /\ \A u \in Subscribers : Len(queue'[u]) <= QueueSize[u]
           /\ dropped' \in [Subscribers -> Nat] /\ shut' = shut
<1>0. /\ queue \in [Subscribers -> Seq(Snapshots)] /\ Len(queue[s]) <= QueueSize[s]
      /\ \A u \in Subscribers : Len(queue[u]) <= QueueSize[u]
      /\ QueueSize[s] \in Nat \ {0} /\ dropped \in [Subscribers -> Nat]
  BY QueueSizeAssumption DEF StoreTypeOK
<1>1. CASE shut[s]
  BY <1>0, <1>1 DEF Offer, queueVars
<1>2. CASE ~shut[s]
  <2> DEFINE full == Len(queue[s]) = QueueSize[s]
             kept == IF full THEN Tail(queue[s]) ELSE queue[s]
  <2>1. /\ queue' = [queue EXCEPT ![s] = Append(kept, snap)] /\ shut' = shut
        /\ dropped' = [dropped EXCEPT ![s] = IF full THEN dropped[s] + 1 ELSE dropped[s]]
    BY <1>2 DEF Offer
  <2>2. kept \in Seq(Snapshots) /\ Len(kept) < QueueSize[s] /\ Len(kept) \in Nat
    BY <1>0
  <2>3. Append(kept, snap) \in Seq(Snapshots) /\ Len(Append(kept, snap)) <= QueueSize[s]
    <3> HIDE DEF kept
    <3> QED
      BY <1>0, <2>2
  <2> HIDE DEF kept
  <2> QED
    BY <1>0, <2>1, <2>3
<1> QED
  BY <1>1, <1>2

\* A reader takes the oldest snapshot of its queue.
LEMMA TakeTypes ==
    ASSUME StoreTypeOK(Snapshots), NEW s \in Subscribers, Take(s)
    PROVE  StoreTypeOK(Snapshots)'
<1>1. /\ queue \in [Subscribers -> Seq(Snapshots)] /\ queue[s] # <<>>
      /\ \A u \in Subscribers : Len(queue[u]) <= QueueSize[u]
      /\ queue' = [queue EXCEPT ![s] = Tail(queue[s])] /\ QueueSize[s] \in Nat
  BY QueueSizeAssumption DEF StoreTypeOK, Take
<1>2. Tail(queue[s]) \in Seq(Snapshots) /\ Len(Tail(queue[s])) = Len(queue[s]) - 1
      /\ Len(queue[s]) \in Nat
  BY <1>1
<1>3. /\ queue' \in [Subscribers -> Seq(Snapshots)]
      /\ \A u \in Subscribers : Len(queue'[u]) <= QueueSize[u]
  BY <1>1, <1>2
<1> QED
  BY <1>3 DEF StoreTypeOK, Take, storeVars, fanOutVars

\* So do those of the store.
LEMMA StoreTypes ==
    ASSUME IInv, Next
    PROVE  StoreTypeOK(Snapshots)'
<1> USE BoundsAssumption, CamerasAssumption DEF IInv, TypeOK, workerVars, roundVars, endVars,
   claimVars, reconnectVars, observationStoreVars, storeVars, fanOutVars, queueVars, producerVars
<1>u. ASSUME UNCHANGED observationStoreVars PROVE StoreTypeOK(Snapshots)'
  BY <1>u DEF StoreTypeOK
<1>1. CASE NameSnapshot
  BY <1>1 DEF NameSnapshot, EndRound, NextObservationId, StoreTypeOK, PlaceInv, Threads,
     IdleAsking, NoCamera, None
<1>2. CASE PublishSnapshot
  <2>1. CASE Publishable(nextSnapshot)
    <3>1. nextSnapshot \in Snapshots
      BY <1>2 DEF PublishSnapshot, PlaceInv
    <3>2. Publish(nextSnapshot) /\ UNCHANGED sequence
      BY <1>2, <2>1 DEF PublishSnapshot
    <3>3. retained' \in Seq(Snapshots) /\ Len(retained') <= MaxRetained
      BY <3>1, <3>2, Window
    <3> QED
      BY <3>1, <3>2, <3>3 DEF Publish, StoreTypeOK
  <2>2. CASE ~Publishable(nextSnapshot)
    BY <1>2, <2>2, <1>u DEF PublishSnapshot
  <2> QED
    BY <2>1, <2>2
<1>3. ASSUME NEW s \in Subscribers, OfferTo(s) PROVE StoreTypeOK(Snapshots)'
  BY <1>3, OfferTypes DEF OfferTo, Deliver, StoreTypeOK
<1>4. CASE ReconnectEnds
  <2>1. CASE BeginGeneration
    BY <2>1, MaxRetainedAssumption DEF BeginGeneration, StoreTypeOK
  <2> QED
    BY <1>4, <1>u, <2>1 DEF ReconnectEnds
<1>5. CASE CloseStore
  BY <1>5, MaxRetainedAssumption DEF CloseStore, StoreCloses, StoreTypeOK
<1>6. ASSUME NEW s \in Subscribers, QueueStep(s) PROVE StoreTypeOK(Snapshots)'
  BY <1>6, TakeTypes DEF QueueStep, Shut, StoreTypeOK, Take
<1>7. ASSUME NEW c \in Cameras, WorkerBegins(c) PROVE StoreTypeOK(Snapshots)'
  BY <1>7, <1>u DEF WorkerBegins
<1>8. ASSUME NEW c \in Cameras, WorkerEnds(c) PROVE StoreTypeOK(Snapshots)'
  BY <1>8, <1>u DEF WorkerEnds
<1>9. ASSUME NEW c \in Cameras, AddCamera(c) PROVE StoreTypeOK(Snapshots)'
  BY <1>9, <1>u DEF AddCamera
<1>10. ASSUME NEW c \in Cameras, AskTakes(c) PROVE StoreTypeOK(Snapshots)'
  BY <1>10, <1>u DEF AskTakes
<1>11. ASSUME NEW c \in Cameras, AskRequests(c) PROVE StoreTypeOK(Snapshots)'
  BY <1>11, <1>u DEF AskRequests, Free
<1>12. ASSUME NEW c \in Cameras, AskReports(c) PROVE StoreTypeOK(Snapshots)'
  BY <1>12, <1>u DEF AskReports
<1>13. ASSUME NEW c \in Cameras, Arrives(c) PROVE StoreTypeOK(Snapshots)'
  BY <1>13, <1>u DEF Arrives
<1>14. CASE WaitEnds
  BY <1>14, <1>u DEF WaitEnds
<1>15. CASE Compare
  BY <1>15, <1>u DEF Compare, EndRound
<1>16. CASE RoundReturns
  BY <1>16, <1>u DEF RoundReturns, EndRound
<1>17. CASE LoopEnds
  BY <1>17, <1>u DEF LoopEnds
<1>18. ASSUME NEW t \in Threads, Wants(t) PROVE StoreTypeOK(Snapshots)'
  BY <1>18, <1>u DEF Wants
<1>19. ASSUME NEW t \in Threads, BeginRound(t) PROVE StoreTypeOK(Snapshots)'
  BY <1>19, <1>u DEF BeginRound
<1>20. CASE ReconnectBegins
  BY <1>20, <1>u DEF ReconnectBegins
<1>21. ASSUME NEW c \in Cameras, Invalidate(c) PROVE StoreTypeOK(Snapshots)'
  BY <1>21, <1>u DEF Invalidate
<1>22. CASE CloseBegins \/ CloseAgain
  BY <1>22, <1>u DEF CloseBegins, CloseAgain
<1>23. CASE CloseJoins
  BY <1>23, <1>u DEF CloseJoins
<1>24. ASSUME NEW c \in Cameras, StopWorker(c) PROVE StoreTypeOK(Snapshots)'
  BY <1>24, <1>u DEF StopWorker
<1>25. CASE JoinWorker
  BY <1>25, <1>u DEF JoinWorker
<1> QED
  BY <1>1, <1>2, <1>3, <1>4, <1>5, <1>6, <1>7, <1>8, <1>9, <1>10, <1>11, <1>12, <1>13, <1>14,
     <1>15, <1>16, <1>17, <1>18, <1>19, <1>20, <1>21, <1>22, <1>23, <1>24, <1>25
     DEF Next, WorkerStep, AskStep, RoundStep, ThreadStep, ReconnectStep, CloseStep

-----------------------------------------------------------------------------

LEMMA Start ==
    ASSUME Init
    PROVE  IInv
<1> USE DEF Init, StoreInit, None, Nothing
<1>1. TypeOK
  <2>1. StoreTypeOK(Snapshots)
    <3>1. storeClosed \in BOOLEAN
      OBVIOUS
    <3>2. Len(retained) <= MaxRetained /\ \A s \in Subscribers : Len(queue[s]) <= QueueSize[s]
      BY MaxRetainedAssumption, QueueSizeAssumption
    <3>3. retained \in Seq(Snapshots) /\ queue \in [Subscribers -> Seq(Snapshots)]
      OBVIOUS
    <3>4. dropped \in [Subscribers -> Nat] /\ shut \in [Subscribers -> BOOLEAN]
          /\ replays \in [Subscribers -> Snapshots \cup {Nothing}]
      OBVIOUS
    <3> QED
      BY <3>1, <3>2, <3>3, <3>4 DEF StoreTypeOK
  <2>2. WorkersTypeOK
    BY BoundsAssumption DEF WorkersTypeOK
  <2>3. RoundTypeOK
    BY BoundsAssumption DEF RoundTypeOK, Threads
  <2>4. EndsTypeOK
    <3>1. producerClosed \in BOOLEAN /\ complete \in BOOLEAN /\ reconnecting \in BOOLEAN
          /\ answered \in BOOLEAN /\ hasty \in BOOLEAN
      OBVIOUS
    <3> QED
      BY <3>1, BoundsAssumption DEF EndsTypeOK
  <2> QED
    BY <2>1, <2>2, <2>3, <2>4 DEF TypeOK
<1>2. PlaceInv
  BY DEF PlaceInv, IdleAsking
<1>3. OpenInv
  BY DEF OpenInv, Open, OneOpen
<1>4. FrameInv
  BY DEF FrameInv, FreshFrames, Retained
<1>5. GenerationInv
  BY DEF GenerationInv, NothingFromBefore, Retained
<1>6. CloseInv
  BY DEF CloseInv
<1> QED
  BY <1>1, <1>2, <1>3, <1>4, <1>5, <1>6 DEF IInv

LEMMA Kept ==
    ASSUME IInv, [Next]_vars
    PROVE  IInv'
<1>1. CASE Next
  BY <1>1, PlaceStep, OpenStep, FrameStep, GenerationStep, CloseStepKeeps, WorkerTypes,
     RoundTypes,
     EndTypes, StoreTypes DEF IInv, TypeOK
<1>2. CASE UNCHANGED vars
  <2>0. UNCHANGED <<observationStoreVars, producerVars>>
    BY <1>2 DEF vars
  <2> USE <2>0 DEF IInv, producerVars, observationStoreVars, storeVars, fanOutVars, queueVars,
      workerVars, roundVars, endVars, claimVars, reconnectVars
  <2>1. TypeOK'
    <3>1. StoreTypeOK(Snapshots)'
      BY DEF TypeOK, StoreTypeOK
    <3>2. WorkersTypeOK' /\ RoundTypeOK' /\ EndsTypeOK'
      BY DEF TypeOK, WorkersTypeOK, RoundTypeOK, EndsTypeOK
    <3> QED
      BY <3>1, <3>2 DEF TypeOK
  <2>2. PlaceInv'
    BY DEF PlaceInv
  <2>3. OpenInv'
    BY DEF OpenInv, Open, OneOpen
  <2>4. FrameInv'
    BY DEF FrameInv, FreshFrames, Retained
  <2>5. GenerationInv'
    BY DEF GenerationInv, NothingFromBefore, Retained
  <2>6. CloseInv'
    BY DEF CloseInv
  <2> QED
    BY <2>1, <2>2, <2>3, <2>4, <2>5, <2>6
<1> QED
  BY <1>1, <1>2

LEMMA SpecIInv == Spec => []IInv
BY Start, Kept, PTL DEF Spec

\* Producer, workers and store keep their types, and queues and window their
\* sizes, in every behaviour.
THEOREM TypeCorrect == Spec => []TypeOK
<1>1. IInv => TypeOK
  BY DEF IInv
<1> QED
  BY <1>1, SpecIInv, PTL

\* A late frame is never taken for one of a later observation, for any
\* cameras, however long they take.
THEOREM FramesAreFresh == Spec => []FreshFrames
<1>1. IInv => FreshFrames
  BY DEF IInv, FrameInv
<1> QED
  BY <1>1, SpecIInv, PTL

\* What can be looked up was sampled in the generation under way, or in the
\* round that a reconnect slipped into.
THEOREM NothingIsFromBefore == Spec => []NothingFromBefore
<1>1. IInv => NothingFromBefore
  BY DEF IInv, GenerationInv
<1> QED
  BY <1>1, SpecIInv, PTL

\* A producer whose close has answered True captures nothing any more, but for the
\* answer of a close that was called again before the first had answered True.
THEOREM ClosedIsClosed == Spec => []CloseHonest
<1>1. ASSUME IInv PROVE CloseHonest
  <2>1. ASSUME closing = "done", complete, NEW c \in Cameras
        PROVE  job[c] = None /\ running[c] = None
    <3>1. CASE c \in attached
      BY <1>1, <2>1, <3>1, CamerasAssumption DEF IInv, CloseInv, NoCamera
    <3>2. CASE c \notin attached
      BY <1>1, <2>1, <3>2 DEF IInv, OpenInv, Open
    <3> QED
      BY <3>1, <3>2
  <2> QED
    BY <1>1, <2>1 DEF IInv, CloseInv, CloseHonest
<1> QED
  BY <1>1, SpecIInv, PTL
=============================================================================
