---------------------------- MODULE ObjectChanges ----------------------------
(***************************************************************************)
(* How a write to FILESTORE reaches the QUERY projection                   *)
(* (internal/rpc/filestore_server.go, internal/scheduler/scheduler.go,     *)
(* internal/scheduler/rabbitmq/broker.go).  A write handler stores its     *)
(* change and puts a notice on a bounded channel; the batcher collects     *)
(* notices and calls NotifyObjectsChanged; the scheduler drops projection  *)
(* refreshes of digests it already has pending and publishes the rest to   *)
(* the durable projection queue; its queue worker loads each object and    *)
(* projects it, clears the pending digests and acks.  Both processes may   *)
(* crash, a call may fail with or without effect, and a batch may fail.    *)
(***************************************************************************)
EXTENDS Integers, Sequences, SequencesExt

CONSTANTS
    Digests,
    BufferSize,     \* notifyBufferSize
    Limit,          \* objectChangeProcessLimit
    MaxWrites,      \* bound: writes
    MaxCrashes,     \* bound: crashes and failed calls
    None

ASSUME ObjectChangesAssumption ==
    /\ BufferSize \in Nat \ {0} /\ Limit \in Nat \ {0}
    /\ MaxWrites \in Nat /\ MaxCrashes \in Nat
    /\ None \notin Digests

VARIABLES
    version,    \* the state of each object in FILESTORE
    projected,  \* the state of each object QUERY shows
    sending,    \* notices whose write handler waits to send them
    changes,    \* the channel from the write handlers to the batcher
    batch,      \* the digests the batcher has collected, by kind
    call,       \* the NotifyObjectsChanged call in progress
    pending,    \* projectionPending
    queue,      \* the projection queue
    taken,      \* deliveries read and not yet acked
    work,       \* the digests of taken still to be projected
    loaded,     \* the object the worker has read from FILESTORE
    crashes,
    dropped,    \* history: digests whose latest notice was lost by a failure
    overtaken,  \* history: digests skipped as pending after the worker read them
    discarded   \* history: pending digests whose delivery was discarded

filestoreVars == <<version, sending, changes, batch, call>>
workerVars == <<taken, work, loaded>>
history == <<dropped, overtaken, discarded>>
changesVars == <<version, projected, sending, changes, batch, call, pending, queue, taken, work,
                loaded, crashes, history>>

Notices == [digest : Digests, only : BOOLEAN]
noBatch == [only \in BOOLEAN |-> {}]
asked(rs) == UNION {r.digests : r \in Range(rs)}

ChangesInit ==
    /\ version = [d \in Digests |-> 0]
    /\ projected = [d \in Digests |-> 0]
    /\ sending = {}
    /\ changes = <<>>
    /\ batch = noBatch
    /\ call = None
    /\ pending = {}
    /\ queue = <<>>
    /\ taken = <<>>
    /\ work = {}
    /\ loaded = None
    /\ crashes = 0
    /\ dropped = {}
    /\ overtaken = {}
    /\ discarded = {}

\* One of the bounded failures happens.
failure == crashes < MaxCrashes /\ crashes' = crashes + 1

\* The objects that are read once more: a later notice or a delivery asks for it.
coming == {n.digest : n \in sending \cup Range(changes)} \cup asked(queue) \cup work

\* A failure loses notices of the objects ds.
lost(ds) == dropped' = dropped \cup (ds \ coming')

-----------------------------------------------------------------------------
(* The FILESTORE server *)

\* Put (only = FALSE) or WriteAnnotation and WriteOverlays (only = TRUE).
write(d, only) ==
    /\ FoldFunction(+, 0, version) < MaxWrites
    /\ version' = [version EXCEPT ![d] = @ + 1]
    /\ sending' = sending \cup {[digest |-> d, only |-> only]}
    /\ dropped' = dropped \ {d}
    /\ overtaken' = overtaken \ {d}
    /\ UNCHANGED <<projected, changes, batch, call, pending, queue, workerVars,
                   crashes, discarded>>

\* A full channel blocks the writer; nothing is dropped.
enqueueChange(n) ==
    /\ n \in sending
    /\ Len(changes) < BufferSize
    /\ sending' = sending \ {n}
    /\ changes' = Append(changes, n)
    /\ UNCHANGED <<version, projected, batch, call, pending, queue, workerVars,
                   crashes, history>>

\* The batcher collects notices; it does not while a call is in progress.
runNotifyBatcher ==
    /\ changes # <<>>
    /\ call = None
    /\ LET n == Head(changes) IN batch' = [batch EXCEPT ![n.only] = @ \cup {n.digest}]
    /\ changes' = Tail(changes)
    /\ UNCHANGED <<version, projected, sending, call, pending, queue, workerVars,
                   crashes, history>>

\* The request of the next call: todo is to be looked up in the pending set,
\* kept is to be published; a full change keeps all its digests.
nextCall(only) ==
    IF batch[only] = {} THEN None
    ELSE IF only THEN [only |-> only, todo |-> batch[only], kept |-> {}]
    ELSE [only |-> only, todo |-> {}, kept |-> batch[only]]

\* flush: full changes first, then projection refreshes.
flush ==
    /\ call = None
    /\ \E only \in BOOLEAN : batch[only] # {}
    /\ call' = IF batch[FALSE] # {} THEN nextCall(FALSE) ELSE nextCall(TRUE)
    /\ UNCHANGED <<version, projected, sending, changes, batch, pending, queue, workerVars,
                   crashes, history>>

\* A call that returned, with an error or not, is forgotten by the batcher.
returned ==
    /\ batch' = [batch EXCEPT ![call.only] = {}]
    /\ call' = IF call.only THEN None ELSE nextCall(TRUE)

-----------------------------------------------------------------------------
(* The scheduler: NotifyObjectsChanged *)

\* A projection refresh of a digest that is pending is skipped, another becomes
\* pending.
notifyDigest(d) ==
    /\ call # None
    /\ d \in call.todo
    /\ call' = [call EXCEPT !.todo = @ \ {d}, !.kept = IF d \in pending THEN @ ELSE @ \cup {d}]
    /\ pending' = pending \cup {d}
    /\ overtaken' = overtaken \cup (({d} \cap pending \cap (asked(taken) \cup discarded)) \ coming)
    /\ UNCHANGED <<version, projected, sending, changes, batch, queue, workerVars, crashes,
                   dropped, discarded>>

\* The message of the call; nothing is published when nothing is kept.
publishKept == queue' = Append(queue, [digests |-> call.kept, only |-> call.only])

PublishObjectChanges ==
    /\ call # None
    /\ call.todo = {}
    /\ IF call.kept = {} THEN queue' = queue ELSE publishKept
    /\ returned
    /\ UNCHANGED <<version, projected, sending, changes, pending, workerVars, crashes, history>>

\* No confirm arrives: the message may be there or not, and the batcher only
\* logs the error.
publishFails ==
    /\ failure
    /\ call # None
    /\ call.todo = {}
    /\ call.kept # {}
    /\ queue' = queue \/ publishKept
    /\ pending' = IF call.only THEN pending \ call.kept ELSE pending
    /\ returned
    /\ UNCHANGED <<version, projected, sending, changes, workerVars, overtaken, discarded>>
    /\ lost(call.kept)

\* The call does not reach the scheduler: the batch is logged and forgotten too
\* (a full change: as when its message is not there).
notifyFails ==
    /\ failure
    /\ call # None
    /\ call.only
    /\ call.todo = batch[TRUE]
    /\ returned
    /\ UNCHANGED <<version, projected, sending, changes, pending, queue, workerVars,
                   overtaken, discarded>>
    /\ lost(call.todo)

-----------------------------------------------------------------------------
(* The scheduler: the object change worker *)

\* ProcessObjectChanges reads up to Limit deliveries.
objectChangeDeliveries(n) ==
    /\ taken = <<>>
    /\ n \in 1 .. Len(queue)
    /\ n <= Limit
    /\ taken' = SubSeq(queue, 1, n)
    /\ queue' = SubSeq(queue, n + 1, Len(queue))
    /\ work' = asked(taken')
    /\ UNCHANGED <<filestoreVars, projected, pending, loaded, crashes, history>>

\* processObjectChangeDigest reads the object, ...
ProjectionObject(d) ==
    /\ d \in work
    /\ loaded = None
    /\ loaded' = [digest |-> d, version |-> version[d]]
    /\ work' = work \ {d}
    /\ UNCHANGED <<filestoreVars, projected, pending, queue, taken, crashes, history>>

\* ... projects it once per batch, and publishes analysis for a full change.
processObjectChangeDigest ==
    /\ loaded # None
    /\ projected' = [projected EXCEPT ![loaded.digest] = loaded.version]
    /\ loaded' = None
    /\ UNCHANGED <<filestoreVars, pending, queue, taken, work, crashes, history>>

\* The digests of the refreshes the worker has taken: the pending ones it answers.
refreshed == asked(SelectSeq(taken, LAMBDA r : r.only))

\* The worker is done with its batch.
dismiss == taken' = <<>> /\ work' = {} /\ loaded' = None

\* A delivery that comes back will be read again, and so will its objects.
redeliver(rs) ==
    /\ queue' = rs \o queue
    /\ overtaken' = overtaken \ asked(rs)

\* clearPendingProjectionDigests, then ackDeliveries: between the two a new
\* refresh of the same digest may be published, which needs no step of its own.
clearPendingProjectionDigests ==
    /\ taken # <<>>
    /\ work = {}
    /\ loaded = None
    /\ pending' = pending \ refreshed
    /\ discarded' = discarded \ refreshed
    /\ dismiss
    /\ UNCHANGED <<filestoreVars, projected, queue, crashes, dropped, overtaken>>

\* An ack fails: the deliveries from the k-th on are redelivered.
ackFails(k) ==
    /\ failure
    /\ k \in DOMAIN taken
    /\ work = {}
    /\ loaded = None
    /\ pending' = pending \ refreshed
    /\ discarded' = discarded \ refreshed
    /\ redeliver(SubSeq(taken, k, Len(taken)))
    /\ dismiss
    /\ UNCHANGED <<filestoreVars, projected, dropped>>

\* Mutated form of nackDeliveries: the deliveries are not requeued.
nackDeliveriesDropped ==
    /\ failure
    /\ taken # <<>>
    /\ dismiss
    /\ UNCHANGED <<filestoreVars, projected, pending, queue, dropped, overtaken, discarded>>

\* Reading, loading or projecting an object, or publishing its analysis, fails:
\* the whole batch is requeued and the loop starts again.  The service is the
\* same, so its pending digests and the call it is serving stay.
nackDeliveries ==
    /\ failure
    /\ taken # <<>>
    /\ redeliver(taken)
    /\ dismiss
    /\ UNCHANGED <<filestoreVars, projected, pending, dropped, discarded>>

\* A body in the batch cannot be decoded (none the scheduler publishes): the
\* whole batch is discarded, and its digests stay pending.
nackUndecodable ==
    /\ failure
    /\ taken # <<>>
    /\ work = asked(taken)
    /\ loaded = None
    /\ dismiss
    /\ discarded' = discarded \cup (refreshed \cap pending)
    /\ UNCHANGED <<filestoreVars, projected, pending, queue, overtaken>>
    /\ lost(asked(taken))

\* The scheduler dies: the broker redelivers what was not acked, the pending
\* set is lost and the call fails.
schedulerCrash ==
    /\ failure
    /\ redeliver(taken)
    /\ dismiss
    /\ pending' = {}
    /\ discarded' = {}
    /\ UNCHANGED <<version, projected, sending, changes>>
    /\ IF call = None THEN UNCHANGED <<batch, call, dropped>>
       ELSE returned /\ lost(call.todo \cup call.kept)

\* The FILESTORE server dies: what it has not delivered is forgotten.
filestoreCrash ==
    /\ failure
    /\ sending' = {}
    /\ changes' = <<>>
    /\ batch' = noBatch
    /\ call' = None
    /\ pending' = IF call # None /\ call.only THEN pending \ call.kept ELSE pending
    /\ UNCHANGED <<version, projected, queue, workerVars, overtaken, discarded>>
    /\ lost({n.digest : n \in sending \cup Range(changes)} \cup batch[TRUE] \cup batch[FALSE])

-----------------------------------------------------------------------------

handlerStep == \E n \in Notices : enqueueChange(n)

batcherStep == runNotifyBatcher \/ flush

notifyStep == (\E d \in Digests : notifyDigest(d)) \/ PublishObjectChanges

workerStep ==
    \/ \E n \in 1 .. Limit : objectChangeDeliveries(n)
    \/ \E d \in Digests : ProjectionObject(d)
    \/ processObjectChangeDigest
    \/ clearPendingProjectionDigests

ChangesNext ==
    \/ \E d \in Digests, only \in BOOLEAN : write(d, only)
    \/ handlerStep \/ batcherStep \/ notifyStep \/ workerStep
    \/ publishFails \/ notifyFails
    \/ \E k \in 1 .. Limit : ackFails(k)
    \/ nackDeliveries \/ nackUndecodable
    \/ schedulerCrash \/ filestoreCrash

-----------------------------------------------------------------------------
(* Properties *)

current(d) == projected[d] = version[d]

\* Every write reaches the projection, through batching, deduplication, failed
\* batches that are redelivered and a scheduler crash, unless its notice was
\* lost with a failed call, a crash of either process or a discarded batch, or
\* was skipped as pending when the worker had read the object or had discarded
\* the delivery that made it pending; and no later notice or delivery asks for it.
WritesAreProjected == \A d \in Digests :
    [](~current(d) => <>(current(d) \/ d \in dropped \cup overtaken))
=============================================================================
