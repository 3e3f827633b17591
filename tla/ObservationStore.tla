------------------------- MODULE ObservationStore --------------------------
(***************************************************************************)
(* ObservationStore and ObservationSubscription                            *)
(* (devices/observations/store.py): the latest snapshots of one generation *)
(* and a bounded queue for every subscriber.                               *)
(*                                                                         *)
(* The store's lock covers each operation on the store, but not the        *)
(* queues: publish and subscribe(replay_latest) put snapshots into queues  *)
(* after they gave the lock up, and close and unsubscribe close queues     *)
(* after.  Those are steps of their own here.  This module has the state   *)
(* and the operations; Observations and Recorder say who calls them.       *)
(***************************************************************************)
EXTENDS Naturals, Sequences

CONSTANTS
    Subscribers,   \* subscriptions that may be taken; each is taken once
    MaxRetained,   \* max_retained
    QueueSize      \* max_queue of each subscription

ASSUME MaxRetainedAssumption == MaxRetained \in Nat \ {0}
ASSUME QueueSizeAssumption == QueueSize \in [Subscribers -> Nat \ {0}]

VARIABLES
    generation,    \* _generation
    sequence,      \* _next_sequence
    retained,      \* _retained; _by_id has the same snapshots, _latest is its last
    storeClosed,   \* _closed
    subscribers,   \* _subscriptions
    unshut,        \* subscriptions that close or unsubscribe has yet to close
    offers,        \* subscriptions that publish has yet to offer its snapshot to
    offered,       \* that snapshot, while there are
    replays,       \* what subscribe(replay_latest) has yet to offer: at most one each
    queue,         \* of each subscription: _queue, ...
    dropped,       \* ... _dropped_count
    shut,          \* ... and _closed
    taken          \* subscriptions that subscribe has created

storeVars == <<generation, sequence, retained, storeClosed>>
fanOutVars == <<subscribers, unshut, offers, offered, replays, taken>>
queueVars == <<queue, dropped, shut>>
observationStoreVars == <<storeVars, fanOutVars, queueVars>>

\* No snapshot: latest() before the first publication.
Nothing == [seq |-> 0]
Latest == IF retained = <<>> THEN Nothing ELSE retained[Len(retained)]

\* A new store, with the subscriptions of early taken.
StoreInit(early) ==
    /\ generation = 0 /\ sequence = 0 /\ retained = <<>> /\ storeClosed = FALSE
    /\ subscribers = early /\ unshut = {} /\ offers = {} /\ offered = Nothing
    /\ taken = early /\ replays = [s \in Subscribers |-> Nothing]
    /\ queue = [s \in Subscribers |-> <<>>] /\ dropped = [s \in Subscribers |-> 0]
    /\ shut = [s \in Subscribers |-> FALSE]

-----------------------------------------------------------------------------
(* Publication.                                                            *)

\* next_observation_id of an open store: the id of the next snapshot.
NextObservationId ==
    /\ ~storeClosed
    /\ sequence' = sequence + 1
    /\ UNCHANGED <<generation, retained, storeClosed>>

\* Mutant: a snapshot of an earlier generation is accepted.
PublishableLate(snap) == ~storeClosed /\ Latest.seq < snap.seq

\* publish accepts a snapshot of the generation under way, and only in order.
Publishable(snap) ==
    /\ ~storeClosed
    /\ snap.gen = generation
    /\ Latest.seq < snap.seq

\* publish, under the lock: retain the snapshot, forget the oldest one if the
\* window is full, and note who is to have it.  The id was taken before.
Publish(snap) ==
    /\ Publishable(snap)
    /\ offers = {}
    /\ retained' = Append(IF Len(retained) = MaxRetained THEN Tail(retained) ELSE retained, snap)
    /\ offers' = subscribers /\ offered' = IF subscribers = {} THEN Nothing ELSE snap
    /\ UNCHANGED <<generation, storeClosed, subscribers, unshut, replays, taken, queueVars>>

\* _offer: a full queue loses its oldest snapshot, a closed one takes none.
Offer(s, snap) ==
    LET full == Len(queue[s]) = QueueSize[s]
    IN  IF shut[s]
        THEN UNCHANGED queueVars
        ELSE /\ queue' = [queue EXCEPT ![s] = Append(IF full THEN Tail(@) ELSE @, snap)]
             /\ dropped' = [dropped EXCEPT ![s] = IF full THEN @ + 1 ELSE @]
             /\ UNCHANGED shut

\* publish, after the lock: the snapshot is offered to one more subscription.
Deliver(s) ==
    /\ s \in offers
    /\ offers' = offers \ {s}
    /\ offered' = IF offers' = {} THEN Nothing ELSE offered
    /\ Offer(s, offered)
    /\ UNCHANGED <<storeVars, subscribers, unshut, replays, taken>>

-----------------------------------------------------------------------------
(* Subscriptions.                                                          *)

\* subscribe, under the lock: the subscription is registered, and the latest
\* snapshot noted for the replay.
Subscribe(s, replay) ==
    /\ s \notin taken
    /\ ~storeClosed
    /\ taken' = taken \cup {s}
    /\ subscribers' = subscribers \cup {s}
    /\ replays' = [replays EXCEPT ![s] = IF replay THEN Latest ELSE Nothing]
    /\ UNCHANGED <<storeVars, unshut, offers, offered, queueVars>>

\* subscribe, after the lock: the replay, if there is one.
\* Mutant: the latest snapshot is read only now.
ReplayOfNow(s) ==
    /\ replays[s] # Nothing
    /\ replays' = [replays EXCEPT ![s] = Nothing]
    /\ Offer(s, IF Latest = Nothing THEN replays[s] ELSE Latest)
    /\ UNCHANGED <<storeVars, subscribers, unshut, offers, offered, taken>>

Replay(s) ==
    /\ replays[s] # Nothing
    /\ replays' = [replays EXCEPT ![s] = Nothing]
    /\ Offer(s, replays[s])
    /\ UNCHANGED <<storeVars, subscribers, unshut, offers, offered, taken>>

\* get: the oldest snapshot of the queue, which may be closed by now.
Take(s) ==
    /\ queue[s] # <<>>
    /\ queue' = [queue EXCEPT ![s] = Tail(@)]
    /\ UNCHANGED <<storeVars, fanOutVars, dropped, shut>>

\* get on an empty queue that is closed raises ObservationSubscriptionClosed.
StreamOver(s) == queue[s] = <<>> /\ shut[s]

\* unsubscribe: out of the set under the lock, and closed after it.
Unsubscribe(s) ==
    /\ s \in taken
    /\ subscribers' = subscribers \ {s}
    /\ unshut' = unshut \cup {s}
    /\ UNCHANGED <<storeVars, offers, offered, replays, taken, queueVars>>

Shut(s) ==
    /\ s \in unshut
    /\ unshut' = unshut \ {s}
    /\ shut' = [shut EXCEPT ![s] = TRUE]
    /\ UNCHANGED <<storeVars, subscribers, offers, offered, replays, taken, queue, dropped>>

-----------------------------------------------------------------------------
(* Generations and the end.                                                *)

\* begin_generation: nothing of the old generation is retained.
BeginGeneration ==
    /\ ~storeClosed
    /\ retained' = <<>>
    /\ generation' = generation + 1
    /\ UNCHANGED <<sequence, storeClosed, fanOutVars, queueVars>>

\* close, under the lock; the subscriptions are closed after it (Shut).
\* Mutant: close leaves the subscriptions as they are.
StoreClosesAlone ==
    /\ ~storeClosed
    /\ storeClosed' = TRUE /\ retained' = <<>>
    /\ subscribers' = {}
    /\ UNCHANGED <<generation, sequence, unshut, offers, offered, replays, taken, queueVars>>

StoreCloses ==
    /\ ~storeClosed
    /\ storeClosed' = TRUE /\ retained' = <<>>
    /\ unshut' = unshut \cup subscribers /\ subscribers' = {}
    /\ UNCHANGED <<generation, sequence, offers, offered, replays, taken, queueVars>>

-----------------------------------------------------------------------------
\* The types of the store's variables, for snapshots of a set: the window and
\* the queues stay within their sizes, and a publication that is under way has
\* a snapshot to offer.
StoreTypeOK(Snaps) ==
    /\ generation \in Nat /\ sequence \in Nat /\ storeClosed \in BOOLEAN
    /\ retained \in Seq(Snaps) /\ Len(retained) <= MaxRetained
    /\ taken \subseteq Subscribers /\ subscribers \subseteq taken
    /\ unshut \subseteq taken /\ offers \subseteq taken
    /\ offered \in Snaps \cup {Nothing} /\ (offers # {} => offered \in Snaps)
    /\ replays \in [Subscribers -> Snaps \cup {Nothing}]
    /\ queue \in [Subscribers -> Seq(Snaps)]
    /\ \A s \in Subscribers : Len(queue[s]) <= QueueSize[s]
    /\ dropped \in [Subscribers -> Nat] /\ shut \in [Subscribers -> BOOLEAN]
=============================================================================
