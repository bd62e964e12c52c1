---------------------------- MODULE ArchiveQueue ----------------------------
(***************************************************************************)
(* Queued archive import: `source import --enqueue-only` walks the archive *)
(* roots and publishes one job per mail (source/archive_import_queue.go);  *)
(* `source import-worker` processes receive, import and acknowledge the    *)
(* jobs (cli/source.go); failed jobs go through a failed, a retry and a    *)
(* dead-letter queue (scheduler/rabbitmq/source_import.go).                *)
(*                                                                         *)
(* A worker that fails a job publishes it to the failed queue and then     *)
(* processes that queue itself: it waits for one failed job, which need    *)
(* not be its own, and takes what else is there.  The consumer stream of   *)
(* the failed queue is opened once per process and stays open.             *)
(*                                                                         *)
(* Abstractions: a job is its mail; the import of a mail (MailVersions)    *)
(* succeeds, is rejected by the parser or fails; a queue is a bag of       *)
(* messages, so every order of delivery is possible.  Worker processes run *)
(* until interrupted (`--jobs 0`, the default).  The prefetch of the work  *)
(* queue, the reports and the run records, which no later step reads, are  *)
(* left out.  RabbitMQ is external.                                        *)
(***************************************************************************)
EXTENDS Naturals, Sequences, Functions, MessageBags

CONSTANTS Walk,        \* the mails of all roots in the order of the walk
          Root,        \* [mail -> its root]
          Path,        \* [mail -> position of its path in string order]
          Offset,      \* [mail -> its offset in an mbox file]
          Mbox,        \* the mails in mbox files
          Unparsable,  \* the mails the parser rejects
          Workers, Procs, ProcOf,
          HighWater,   \* --queue-high-water
          RetryLimit,
          None,
          MaxRuns,     \* bound: enqueue runs
          MaxFaults,   \* bound: failed imports
          MaxStops     \* bound: crashes and failed publishes

Mails == {Walk[i] : i \in 1 .. Len(Walk)}

ASSUME QueueAssumption ==
  /\ {HighWater, RetryLimit, MaxRuns, MaxFaults, MaxStops} \subseteq Nat
  /\ HighWater > 0
  /\ ProcOf \in [Workers -> Procs]
  /\ Mbox \cup Unparsable \subseteq Mails

\* Of the walk: a mail that comes after another of the same file, and was not met
\* before, lies behind it in an mbox; any other file has one mail.
ASSUME WalkAssumption ==
  /\ Len(Walk) \in Nat
  /\ Path \in [Mails -> Nat] /\ Offset \in [Mails -> Nat]
  /\ \A k \in 1 .. Len(Walk), i \in 1 .. Len(Walk) :
        i < k /\ Path[Walk[i]] = Path[Walk[k]] =>
           \/ \E j \in 1 .. k - 1 : Walk[j] = Walk[k]
           \/ Walk[k] \in Mbox /\ Offset[Walk[i]] < Offset[Walk[k]]

VARIABLES
  enq,      \* the enqueue run: [pc, pos, lastPath, lastOffset, fatal, enqueued]
  msgs,     \* the broker's messages, [at, by, job, attempt], and how many copies there are
  pc,       \* pc[w]: what a worker does
  stream,   \* stream[p]: whether a process consumes the failed queue
  up,       \* up[p]: whether a worker process runs
  settled,  \* mails imported or rejected
  runs, faults, stops,
  published,\* history: mails some run published
  failures  \* history: failed imports per mail

vars == <<enq, msgs, pc, stream, up, settled, runs, faults, stops, published, failures>>

-----------------------------------------------------------------------------
\* The broker

In(queue) == {m \in DOMAIN msgs : m.at = queue}
With(at, by) == {m \in In(at) : m.by = by}

Message(queue, job, attempt) == [at |-> queue, by |-> None, job |-> job, attempt |-> attempt]

\* A confirmed publish, a delivery, and an acknowledgement, which takes the one
\* delivery its worker has.
Publish(m) == msgs' = Plus(msgs, m)
Deliver(m, at, by) == msgs' = Plus(Minus(msgs, m), [m EXCEPT !.at = at, !.by = by])
Ack(m) == msgs' = Without(msgs, m)

-----------------------------------------------------------------------------
\* The enqueue run

FreshRun == [pc |-> "walk", pos |-> 1, lastPath |-> 0, lastOffset |-> 0,
             fatal |-> FALSE, enqueued |-> 0]

Init ==
  /\ enq = FreshRun
  /\ msgs = <<>>
  /\ pc = [w \in Workers |-> "idle"]
  /\ stream = [p \in Procs |-> FALSE]
  /\ up = [p \in Procs |-> TRUE]
  /\ settled = {}
  /\ runs = 1 /\ faults = 0 /\ stops = 0
  /\ published = {}
  /\ failures = [m \in Mails |-> 0]

workerVars == <<pc, stream, up, settled>>
bounds == <<runs, faults, stops>>
history == <<published, failures>>

Current == Walk[enq.pos]
Walking == enq.pc = "walk" /\ enq.pos <= Len(Walk)

\* Mutated form of SkipsPath: an mbox file is skipped like any other once a mail of it is published.
SkipsPathWholeMbox(m) == enq.lastPath # 0 /\ Path[m] <= enq.lastPath

\* shouldSkipArchivePath, and for an mbox the offset test of
\* enqueueArchiveFileJobs: lastPath is 0 before the first job.
SkipsPath(m) ==
  /\ enq.lastPath # 0
  /\ \/ Path[m] < enq.lastPath
     \/ Path[m] = enq.lastPath /\ m \notin Mbox
     \/ Path[m] = enq.lastPath /\ Offset[m] <= enq.lastOffset

SkipFile ==
  /\ Walking
  /\ SkipsPath(Current)
  /\ enq' = [enq EXCEPT !.pos = @ + 1]
  /\ UNCHANGED <<msgs, workerVars, bounds, history>>

\* Mutated form of HasCapacity: the local backlog alone decides, and an enqueue
\* run processes nothing.
HasCapacityLocal == enq.enqueued < HighWater

\* SourceImportStatus counts the messages of a queue: a job published twice is two.
MessagesIn(places) == FoldFunctionOnSet(+, 0, msgs, UNION {In(q) : q \in places})

\* waitForArchiveImportCapacity: Enqueued - Processed of an enqueue run is all
\* it has enqueued; the broker then says how many messages still wait.
HasCapacity ==
  \/ enq.enqueued < HighWater
  \/ MessagesIn({"work", "retry"}) < HighWater

\* The walk after Current: of the publish and of the state file that follows.
Passed(e) == [e EXCEPT !.lastPath = Path[Current], !.lastOffset = Offset[Current],
                       !.enqueued = e.enqueued + 1]

\* publishArchiveImportJob
PublishJob ==
  /\ Walking
  /\ ~SkipsPath(Current)
  /\ HasCapacity
  /\ Publish(Message("work", Current, 0))
  /\ enq' = [Passed(enq) EXCEPT !.pos = @ + 1]
  /\ published' = published \cup {Current}
  /\ UNCHANGED <<workerVars, bounds, failures>>

\* i is the first mail of the next root.
NextRoot(i) ==
  /\ \A k \in enq.pos .. i - 1 : Root[Walk[k]] = Root[Current]
  /\ i <= Len(Walk) => Root[Walk[i]] # Root[Current]

\* The job is not published, or is but not confirmed, or the state file is not
\* saved after it: the error ends the walk of this root, not of the next.
PublishFails ==
  /\ Walking
  /\ ~SkipsPath(Current)
  /\ stops < MaxStops
  /\ stops' = stops + 1
  /\ \E i \in enq.pos + 1 .. Len(Walk) + 1 :
       /\ NextRoot(i)
       /\ \/ /\ enq' = [enq EXCEPT !.fatal = TRUE, !.pos = i]
             /\ UNCHANGED <<msgs, published>>
          \/ /\ HasCapacity
             /\ Publish(Message("work", Current, 0))
             /\ published' = published \cup {Current}
             /\ \E e \in {enq, Passed(enq)} : enq' = [e EXCEPT !.fatal = TRUE, !.pos = i]
  /\ UNCHANGED <<workerVars, runs, faults, failures>>

EndWalk ==
  /\ enq.pc = "walk"
  /\ enq.pos > Len(Walk)
  /\ enq' = [enq EXCEPT !.pc = "done"]
  /\ UNCHANGED <<msgs, workerVars, bounds, history>>

EnqueueCrashes ==
  /\ enq.pc = "walk"
  /\ stops < MaxStops
  /\ stops' = stops + 1
  /\ enq' = [enq EXCEPT !.pc = "crashed"]
  /\ UNCHANGED <<msgs, workerVars, runs, faults, history>>

\* The operator runs a failed command again.  EnqueueOnly starts from the
\* beginning of the walk each time: it does not read the state file.
EnqueueAgain ==
  /\ enq.pc = "crashed" \/ (enq.pc = "done" /\ enq.fatal)
  /\ runs < MaxRuns
  /\ runs' = runs + 1
  /\ enq' = FreshRun
  /\ UNCHANGED <<msgs, workerVars, faults, stops, history>>

-----------------------------------------------------------------------------
\* The worker processes

Live(w) == up[ProcOf[w]]
Held(w) == CHOOSE m \in With("held", w) : TRUE
Routing(w) == CHOOSE m \in With("routing", w) : TRUE
Go(w, next) == pc' = [pc EXCEPT ![w] = next]

Receive(w) ==
  /\ Live(w) /\ pc[w] = "idle"
  /\ \E m \in In("work") : Deliver(m, "held", w)
  /\ Go(w, "import")
  /\ UNCHANGED <<enq, stream, up, settled, bounds, history>>

\* ProcessSourceImportJob without error, or ErrArchiveMessageRejected.
ImportJob(w) ==
  /\ Live(w) /\ pc[w] = "import"
  /\ settled' = settled \cup {Held(w).job}
  /\ Go(w, "ack")
  /\ UNCHANGED <<enq, msgs, stream, up, bounds, history>>

ImportFails(w) ==
  /\ Live(w) /\ pc[w] = "import"
  /\ Held(w).job \notin Unparsable
  /\ faults < MaxFaults
  /\ faults' = faults + 1
  /\ failures' = [failures EXCEPT ![Held(w).job] = @ + 1]
  /\ Go(w, "fail")
  /\ UNCHANGED <<enq, msgs, stream, up, settled, runs, stops, published>>

AckJob(w) ==
  /\ Live(w) /\ pc[w] = "ack"
  /\ Ack(Held(w))
  /\ Go(w, "idle")
  /\ UNCHANGED <<enq, stream, up, settled, bounds, history>>

\* Mutated form of PublishFailure: the error of the publish is ignored and the job acknowledged.
PublishFailureUnsent(w) ==
  /\ Live(w) /\ pc[w] = "fail"
  /\ Go(w, "failack")
  /\ UNCHANGED <<enq, msgs, stream, up, settled, bounds, history>>

\* SourceImportJobReceipt.Retry: publish to the failed queue, then acknowledge.
PublishFailure(w) ==
  /\ Live(w) /\ pc[w] = "fail"
  /\ Publish(Message("failed", Held(w).job, Held(w).attempt))
  /\ Go(w, "failack")
  /\ UNCHANGED <<enq, stream, up, settled, bounds, history>>

\* ProcessSourceImportFailures follows, and opens the consumer stream.
AckFailure(w) ==
  /\ Live(w) /\ pc[w] = "failack"
  /\ Ack(Held(w))
  /\ stream' = [stream EXCEPT ![ProcOf[w]] = TRUE]
  /\ Go(w, "wait")
  /\ UNCHANGED <<enq, up, settled, bounds, history>>

\* The broker hands a failed job to a process that consumes the failed queue.
DeliverFailed(p) ==
  /\ up[p] /\ stream[p]
  /\ \E m \in In("failed") : Deliver(m, "stream", p)
  /\ UNCHANGED <<enq, workerVars, bounds, history>>

\* Only the first receive waits.
TakeFailed(w) ==
  /\ Live(w) /\ pc[w] \in {"wait", "more"}
  /\ \E m \in With("stream", ProcOf[w]) : Deliver(m, "routing", w)
  /\ Go(w, "route")
  /\ UNCHANGED <<enq, stream, up, settled, bounds, history>>

\* The limit of the call is reached, or the client library has no delivery
\* ready at this moment: it may still be on its way.
NoMoreFailed(w) ==
  /\ Live(w) /\ pc[w] = "more"
  /\ Go(w, "idle")
  /\ UNCHANGED <<enq, msgs, stream, up, settled, bounds, history>>

\* The failed job is published to the retry or the dead-letter queue ...
RouteFailed(w) ==
  /\ Live(w) /\ pc[w] = "route"
  /\ LET attempt == Routing(w).attempt + 1
         queue == IF attempt > RetryLimit THEN "dead" ELSE "retry"
     IN Publish(Message(queue, Routing(w).job, attempt))
  /\ Go(w, "routeack")
  /\ UNCHANGED <<enq, stream, up, settled, bounds, history>>

\* ... and then acknowledged.
AckRouted(w) ==
  /\ Live(w) /\ pc[w] = "routeack"
  /\ Ack(Routing(w))
  /\ Go(w, "more")
  /\ UNCHANGED <<enq, stream, up, settled, bounds, history>>

\* The backoff of a retried job ends.
RetryExpires ==
  /\ \E m \in In("retry") : Deliver(m, "work", None)
  /\ UNCHANGED <<enq, workerVars, bounds, history>>

\* Where the broker puts an unacknowledged message when process p is gone.
Requeue(p, m) ==
  CASE m.at = "held" /\ ProcOf[m.by] = p -> [m EXCEPT !.at = "work", !.by = None]
    [] m.at = "routing" /\ ProcOf[m.by] = p -> [m EXCEPT !.at = "failed", !.by = None]
    [] m.at = "stream" /\ m.by = p -> [m EXCEPT !.at = "failed", !.by = None]
    [] OTHER -> m

\* A process crashes or is interrupted, or a publish or an acknowledgement of
\* one worker fails: its error cancels the others and ends the process.
StopProcess(p) ==
  /\ up[p]
  /\ stops < MaxStops
  /\ stops' = stops + 1
  /\ up' = [up EXCEPT ![p] = FALSE]
  /\ msgs' = [x \in {Requeue(p, m) : m \in DOMAIN msgs} |->
                FoldFunctionOnSet(+, 0, msgs, {m \in DOMAIN msgs : Requeue(p, m) = x})]
  /\ pc' = [w \in Workers |-> IF ProcOf[w] = p THEN "idle" ELSE pc[w]]
  /\ stream' = [stream EXCEPT ![p] = FALSE]
  /\ UNCHANGED <<enq, settled, runs, faults, history>>

\* The operator starts the worker command again.
StartProcess(p) ==
  /\ ~up[p]
  /\ up' = [up EXCEPT ![p] = TRUE]
  /\ UNCHANGED <<enq, msgs, pc, stream, settled, bounds, history>>

WorkerStep(w) ==
  \/ Receive(w) \/ ImportJob(w) \/ AckJob(w)
  \/ PublishFailure(w) \/ AckFailure(w)
  \/ TakeFailed(w) \/ NoMoreFailed(w) \/ RouteFailed(w) \/ AckRouted(w)

Next ==
  \/ SkipFile
  \/ PublishJob
  \/ PublishFails
  \/ EndWalk
  \/ EnqueueCrashes
  \/ EnqueueAgain
  \/ \E w \in Workers : Receive(w)
  \/ \E w \in Workers : ImportJob(w)
  \/ \E w \in Workers : ImportFails(w)
  \/ \E w \in Workers : AckJob(w)
  \/ \E w \in Workers : PublishFailure(w)
  \/ \E w \in Workers : AckFailure(w)
  \/ \E w \in Workers : TakeFailed(w)
  \/ \E w \in Workers : NoMoreFailed(w)
  \/ \E w \in Workers : RouteFailed(w)
  \/ \E w \in Workers : AckRouted(w)
  \/ \E p \in Procs : DeliverFailed(p)
  \/ \E p \in Procs : StopProcess(p)
  \/ \E p \in Procs : StartProcess(p)
  \/ RetryExpires

\* Go runs every goroutine that can run, RabbitMQ delivers and expires, the
\* walk goes on.  Nothing obliges an operator to start a command again.
Fairness ==
  /\ WF_vars(SkipFile \/ PublishJob \/ EndWalk)
  /\ \A w \in Workers : WF_vars(WorkerStep(w))
  /\ \A p \in Procs : WF_vars(DeliverFailed(p))
  /\ WF_vars(RetryExpires)

Spec == Init /\ [][Next]_vars /\ Fairness

-----------------------------------------------------------------------------
\* Properties

\* A mail that was published is imported or rejected, or the broker still has
\* a message for it, whatever crashes between publishing and acknowledging.
JobsNeverLost ==
  \A j \in published : j \in settled \/ \E m \in DOMAIN msgs : m.job = j

\* A walk that ends without a fatal failure published every mail it met, except
\* those whose path sorts before one it had published already.
WalkPublishes ==
  (enq.pc = "done" /\ ~enq.fatal) =>
     \A k \in 1 .. Len(Walk) :
        \/ Walk[k] \in published
        \/ \E i \in 1 .. k - 1 : Path[Walk[i]] > Path[Walk[k]]

\* Unless a command stopped, the walk gets past its high-water mark, and every
\* mail it published is imported, rejected or dead-lettered.
JobsSettle ==
  <>[](\/ stops > 0
       \/ /\ enq.pc = "done"
          /\ \A j \in published : j \in settled \/ \E m \in In("dead") : m.job = j)
=============================================================================
