---------------------------- MODULE AnalysisJobs ----------------------------
(***************************************************************************)
(* The life of an analysis job of one analyzer                             *)
(* (internal/analysis/worker.go, circuitbreaker.go,                        *)
(* internal/scheduler/rabbitmq/analysis_source.go, broker.go).  Workers    *)
(* take jobs from the work queue, ask the circuit breaker, run the         *)
(* analyzer, write its annotation and ack; a job whose analyzer is not     *)
(* available is parked on the work queue, a job that fails by itself goes  *)
(* through the failed and retry queues and in the end to the dead letters. *)
(* The broker redelivers what was not acked when the worker process dies,  *)
(* which also resets the breaker and the worker's annotation cache.  An    *)
(* operator may run reconcile-pending, which passes the waiting jobs       *)
(* through a scratch queue and drops those that are done or duplicates.    *)
(***************************************************************************)
EXTENDS Integers, FiniteSets, Functions, MessageBags

CONSTANTS
    Objects,
    Workers,        \* consumer goroutines of one worker process
    Operators,      \* who may run reconcile-pending
    Threshold,      \* breaker.threshold
    RetryLimit,
    MaxCrashes,     \* bound: crashes of the worker process and of the router
    MaxFailures,    \* bound: jobs that fail by themselves
    MaxOutages,     \* bound: times the backend goes down
    MaxDeletes,     \* bound: deletes
    MaxRuns,        \* bound: runs of reconcile-pending
    MaxFaults,      \* bound: all of these together
    Reingest,       \* whether deleted objects may be stored again
    None

ASSUME AnalysisJobsAssumption ==
    /\ IsFiniteSet(Workers)
    /\ Threshold \in Nat \ {0}
    /\ RetryLimit \in Nat /\ MaxCrashes \in Nat /\ MaxFailures \in Nat
    /\ MaxOutages \in Nat /\ MaxDeletes \in Nat /\ MaxRuns \in Nat /\ MaxFaults \in Nat
    /\ Reingest \in BOOLEAN
    /\ None \notin [obj : Objects, attempt : Nat, at : {"work", "failed", "retry", "dead", "scratch"}]

VARIABLES
    exists,     \* objects with a manifest
    annotated,  \* objects with the analyzer's annotation
    queues,     \* the messages of the four queues and the scratch queue
    held,       \* the unacked delivery of each worker
    wpc,        \* where each worker is in Handle
    cache,      \* runtime.annotated
    failures, halfOpen, window,     \* breakerState; window: now < openUntil
    up,         \* the analyzer's backing service answers
    outages, crashes, deletes, runs,    \* how often the bounded events happened
    reconciler, \* ReconcilePending of each operator: [at, msg, seen]
    wanted,     \* history: objects whose job was published
    failed,     \* history: failures of an object's own job
    probes      \* history: workers that run a half-open probe

breakerVars == <<failures, halfOpen, window>>
envVars == <<up, outages, crashes, deletes, runs, wanted, failed>>
workerVars == <<held, wpc, cache, breakerVars, probes>>
vars == <<exists, annotated, queues, workerVars, envVars, reconciler>>

jobFailures == FoldFunction(+, 0, failed)
faults == jobFailures + crashes + outages + deletes + runs
off == [at |-> "off", msg |-> None, seen |-> {}]

message(o, n, place) == [obj |-> o, attempt |-> n, at |-> place]
in(place) == {m \in DOMAIN queues : m.at = place}

Init ==
    /\ exists = Objects
    /\ annotated = {}
    /\ queues = <<>>
    /\ held = [w \in Workers |-> None]
    /\ wpc = [w \in Workers |-> "idle"]
    /\ cache = {}
    /\ failures = 0
    /\ halfOpen = FALSE
    /\ window = FALSE
    /\ up = TRUE
    /\ outages = 0
    /\ crashes = 0
    /\ deletes = 0
    /\ runs = 0
    /\ reconciler = [q \in Operators |-> off]
    /\ wanted = {}
    /\ failed = [o \in Objects |-> 0]
    /\ probes = {}

-----------------------------------------------------------------------------
(* The circuit breaker *)

open == failures >= Threshold

\* allow: a closed circuit, or the one probe once the window has elapsed.
allowed == ~open \/ (~window /\ ~halfOpen)

allow(w) ==
    /\ allowed
    /\ halfOpen' = (halfOpen \/ open)
    /\ probes' = IF open THEN probes \cup {w} ELSE probes
    /\ UNCHANGED <<failures, window>>

recordSuccess ==
    /\ failures' = 0
    /\ halfOpen' = FALSE
    /\ window' = FALSE

\* Mutated form of recordFailure: a probe that fails stays half-open.
recordFailureHalfOpen ==
    /\ failures' = IF failures < Threshold THEN failures + 1 ELSE failures
    /\ window' = (window \/ (~halfOpen /\ failures + 1 >= Threshold))
    /\ halfOpen' = halfOpen

\* recordFailure opens the circuit, or reopens it with a new window.
recordFailure ==
    /\ failures' = IF failures < Threshold THEN failures + 1 ELSE failures
    /\ IF halfOpen \/ failures + 1 >= Threshold
       THEN halfOpen' = FALSE /\ window' = TRUE
       ELSE UNCHANGED <<halfOpen, window>>

isOpen == open /\ window

windowElapses ==
    /\ window
    /\ window' = FALSE
    /\ UNCHANGED <<exists, annotated, queues, held, wpc, cache, failures, halfOpen, envVars, probes, reconciler>>

-----------------------------------------------------------------------------
(* The worker: Runtime.Handle *)

\* Deliveries end in one of three ways: acked, or requeued, or acked after a
\* copy went to the failed queue.
release(w) ==
    /\ held' = [held EXCEPT ![w] = None]
    /\ wpc' = [wpc EXCEPT ![w] = "idle"]

Receive(w) ==
    /\ wpc[w] = "idle"
    /\ \E m \in in("work") :
          /\ held' = [held EXCEPT ![w] = m]
          /\ queues' = Minus(queues, m)
    /\ wpc' = [wpc EXCEPT ![w] = "received"]
    /\ UNCHANGED <<exists, annotated, cache, breakerVars, envVars, probes, reconciler>>

\* The circuit is open: the job waits on the work queue.
parkDenied(w) ==
    /\ wpc[w] = "received"
    /\ ~allowed
    /\ queues' = Plus(queues, held[w])
    /\ release(w)
    /\ UNCHANGED <<exists, annotated, cache, breakerVars, envVars, probes, reconciler>>

\* Process is entered; an annotation that is cached, or stored, is skipped.
processSkips(w) ==
    /\ wpc[w] = "received"
    /\ allow(w)
    /\ held[w].obj \in cache \cup annotated
    /\ cache' = cache \cup {held[w].obj}
    /\ wpc' = [wpc EXCEPT ![w] = "done"]
    /\ UNCHANGED <<exists, annotated, queues, held, envVars, reconciler>>

processRuns(w) ==
    /\ wpc[w] = "received"
    /\ allow(w)
    /\ held[w].obj \notin cache \cup annotated
    /\ wpc' = [wpc EXCEPT ![w] = "analyze"]
    /\ UNCHANGED <<exists, annotated, queues, held, cache, envVars, reconciler>>

\* The analyzer answers and its annotation is written; only then is it cached.
writeAnnotation(w) ==
    /\ wpc[w] = "analyze"
    /\ up
    /\ held[w].obj \in exists
    /\ annotated' = annotated \cup {held[w].obj}
    /\ cache' = cache \cup {held[w].obj}
    /\ wpc' = [wpc EXCEPT ![w] = "done"]
    /\ UNCHANGED <<exists, queues, held, breakerVars, envVars, probes, reconciler>>

\* Success is recorded and the delivery acked.
handled(w) ==
    /\ wpc[w] = "done"
    /\ recordSuccess
    /\ release(w)
    /\ probes' = probes \ {w}
    /\ UNCHANGED <<exists, annotated, queues, cache, envVars, reconciler>>

\* Mutated form of dropBogus: any missing file counts as the object's.
dropBogusUnconfirmed(w) ==
    /\ wpc[w] = "analyze"
    /\ release(w)
    /\ probes' = probes \ {w}
    /\ UNCHANGED <<exists, annotated, queues, cache, breakerVars, envVars, reconciler>>

\* The object is gone: the job is acked without a word to the breaker.
dropBogus(w) ==
    /\ wpc[w] = "analyze"
    /\ held[w].obj \notin exists
    /\ release(w)
    /\ probes' = probes \ {w}
    /\ UNCHANGED <<exists, annotated, queues, cache, breakerVars, envVars, reconciler>>

\* Mutated form of unavailable: the job is retried like any failure.
unavailableRetried(w) ==
    /\ wpc[w] = "analyze"
    /\ ~up
    /\ recordFailure
    /\ queues' = Plus(queues, [held[w] EXCEPT !.at = "failed"])
    /\ release(w)
    /\ probes' = probes \ {w}
    /\ UNCHANGED <<exists, annotated, cache, envVars, reconciler>>

\* The backing service does not answer: the failure is recorded, the job parked.
unavailable(w) ==
    /\ wpc[w] = "analyze"
    /\ ~up
    /\ recordFailure
    /\ queues' = Plus(queues, held[w])
    /\ release(w)
    /\ probes' = probes \ {w}
    /\ UNCHANGED <<exists, annotated, cache, envVars, reconciler>>

\* The job fails by itself, and the breaker counts it.
jobFails(w) ==
    /\ wpc[w] = "analyze"
    /\ LET o == held[w].obj IN
          /\ jobFailures < MaxFailures
          /\ faults < MaxFaults
          /\ failed' = [failed EXCEPT ![o] = @ + 1]
    /\ recordFailure
    /\ wpc' = [wpc EXCEPT ![w] = "failed"]
    /\ probes' = probes \ {w}
    /\ UNCHANGED <<exists, annotated, queues, held, cache, up, outages, crashes, deletes, wanted, runs, reconciler>>

\* The failed job is parked if the circuit is open by now, else retried.
routeFailed(w) ==
    /\ wpc[w] = "failed"
    /\ queues' = Plus(queues, IF isOpen THEN held[w] ELSE [held[w] EXCEPT !.at = "failed"])
    /\ release(w)
    /\ UNCHANGED <<exists, annotated, cache, breakerVars, envVars, probes, reconciler>>

-----------------------------------------------------------------------------
(* The broker and the scheduler *)

Publish(o) ==
    /\ o \in exists
    /\ o \notin wanted
    /\ wanted' = wanted \cup {o}
    /\ queues' = Plus(queues, message(o, 0, "work"))
    /\ UNCHANGED <<exists, annotated, held, wpc, cache, breakerVars, up, outages, crashes,
                   deletes, failed, probes, runs, reconciler>>

\* ProcessFailures counts the attempt and chooses retry or dead letter.
routed(m) ==
    message(m.obj, m.attempt + 1, IF m.attempt + 1 > RetryLimit THEN "dead" ELSE "retry")

ProcessFailures ==
    /\ \E m \in in("failed") : queues' = Plus(Minus(queues, m), routed(m))
    /\ UNCHANGED <<exists, annotated, held, wpc, cache, breakerVars, envVars, probes, reconciler>>

\* The router dies between its publish and its ack: the failed job stays.
routerCrash ==
    /\ crashes < MaxCrashes
    /\ faults < MaxFaults
    /\ crashes' = crashes + 1
    /\ \E m \in in("failed") : queues' = Plus(queues, routed(m))
    /\ UNCHANGED <<exists, annotated, held, wpc, cache, breakerVars, up, outages, deletes,
                   wanted, failed, probes, runs, reconciler>>

\* The retry message expires and its queue hands it back to the work queue.
retryExpires ==
    /\ \E m \in in("retry") : queues' = Plus(Minus(queues, m), [m EXCEPT !.at = "work"])
    /\ UNCHANGED <<exists, annotated, held, wpc, cache, breakerVars, envVars, probes, reconciler>>

\* An operator sends a dead letter back with a fresh attempt count.
RequeueDeadLetters ==
    /\ \E m \in in("dead") : queues' = Plus(Minus(queues, m), message(m.obj, 0, "work"))
    /\ UNCHANGED <<exists, annotated, held, wpc, cache, breakerVars, envVars, probes, reconciler>>

\* What a dead worker process held is redelivered; its memory is gone.
restart ==
    /\ crashes < MaxCrashes
    /\ faults < MaxFaults
    /\ crashes' = crashes + 1
    /\ held' = [w \in Workers |-> None]
    /\ wpc' = [w \in Workers |-> "idle"]
    /\ cache' = {}
    /\ failures' = 0
    /\ halfOpen' = FALSE
    /\ window' = FALSE
    /\ probes' = {}
    /\ UNCHANGED <<exists, annotated, up, outages, deletes, wanted, failed, runs, reconciler>>

redelivered ==
    LET busy == {w \in Workers : held[w] # None}
    IN  [m \in {held[w] : w \in busy} |-> Cardinality({w \in busy : held[w] = m})]

workerCrash ==
    /\ restart
    /\ queues' = Join(queues, redelivered)

\* Retry had published the failure of w's job when the process died unacked.
retryCrash(w) ==
    /\ wpc[w] = "failed"
    /\ ~isOpen
    /\ restart
    /\ queues' = Plus(Join(queues, redelivered), [held[w] EXCEPT !.at = "failed"])

-----------------------------------------------------------------------------
(* reconcile-pending, in a process of its own *)

at(q, phase) == reconciler' = [reconciler EXCEPT ![q].at = phase]

ReconcilePending(q) ==
    /\ reconciler[q].at = "off"
    /\ runs < MaxRuns
    /\ faults < MaxFaults
    /\ runs' = runs + 1
    /\ at(q, "drain")
    /\ UNCHANGED <<exists, annotated, queues, workerVars, up, outages, crashes, deletes,
                   wanted, failed>>

\* Before and after its pass the run sends the scratch jobs back to work.
drainReconcileByAnalyzer(q) ==
    /\ reconciler[q].at \in {"drain", "return"}
    /\ \E m \in in("scratch") : queues' = Plus(Minus(queues, m), [m EXCEPT !.at = "work"])
    /\ UNCHANGED <<exists, annotated, workerVars, envVars, reconciler>>

reconcileTakes(q) ==
    /\ reconciler[q].at = "pass"
    /\ \E m \in in("work") :
          /\ queues' = Minus(queues, m)
          /\ reconciler' = [reconciler EXCEPT ![q].at = "check", ![q].msg = m]
    /\ UNCHANGED <<exists, annotated, workerVars, envVars>>

\* A job whose annotation is stored, or that the run has seen, is dropped;
\* any other is kept on the scratch queue.
dropped(q) == reconciler[q].msg.obj \in annotated \cup reconciler[q].seen

reconcileChecks(q) ==
    LET m == reconciler[q].msg IN
    /\ reconciler[q].at = "check"
    /\ queues' = IF dropped(q) THEN queues ELSE Plus(queues, [m EXCEPT !.at = "scratch"])
    /\ reconciler' = [reconciler EXCEPT ![q] =
          [at |-> "pass", msg |-> None,
           seen |-> reconciler[q].seen \cup (IF dropped(q) THEN {} ELSE {m.obj})]]
    /\ UNCHANGED <<exists, annotated, workerVars, envVars>>

\* The stream hands over nothing, or the limit is reached, and the loop ends.
\* A message that is still on its way to the stream is not waited for.
loopEnds(q) ==
    /\ \/ reconciler[q].at = "drain" /\ at(q, "pass")
       \/ reconciler[q].at = "pass" /\ at(q, "return")
       \/ reconciler[q].at = "return" /\ reconciler' = [reconciler EXCEPT ![q] = off]
    /\ UNCHANGED <<exists, annotated, queues, workerVars, envVars>>

\* The copy a run has published when it stops between that and the ack.
published(q) ==
    CASE reconciler[q].at = "check" -> {[reconciler[q].msg EXCEPT !.at = "scratch"]}
      [] reconciler[q].at \in {"drain", "return"} -> {[m EXCEPT !.at = "work"] : m \in in("scratch")}
      [] OTHER -> {}

\* The run fails or dies: what it did not ack goes back to its queue.
reconcileStops(q) ==
    /\ reconciler[q].at # "off"
    /\ crashes < MaxCrashes
    /\ faults < MaxFaults
    /\ crashes' = crashes + 1
    /\ \E some \in {queues} \cup {Plus(queues, m) : m \in published(q)} :
          queues' = IF reconciler[q].msg = None THEN some ELSE Plus(some, reconciler[q].msg)
    /\ reconciler' = [reconciler EXCEPT ![q] = off]
    /\ UNCHANGED <<exists, annotated, workerVars, up, outages, deletes, runs, wanted, failed>>

reconcile(q) ==
    drainReconcileByAnalyzer(q) \/ reconcileTakes(q) \/ reconcileChecks(q) \/ loopEnds(q)

-----------------------------------------------------------------------------
(* The environment *)

goesDown ==
    /\ up
    /\ outages < MaxOutages
    /\ faults < MaxFaults
    /\ outages' = outages + 1
    /\ up' = FALSE
    /\ UNCHANGED <<exists, annotated, queues, held, wpc, cache, breakerVars, crashes, deletes,
                   wanted, failed, probes, runs, reconciler>>

comesUp ==
    /\ ~up
    /\ up' = TRUE
    /\ UNCHANGED <<exists, annotated, queues, held, wpc, cache, breakerVars, outages, crashes,
                   deletes, wanted, failed, probes, runs, reconciler>>

DeleteObject(o) ==
    /\ o \in exists
    /\ deletes < MaxDeletes
    /\ faults < MaxFaults
    /\ deletes' = deletes + 1
    /\ exists' = exists \ {o}
    /\ annotated' = annotated \ {o}
    /\ wanted' = wanted \ {o}
    /\ UNCHANGED <<queues, held, wpc, cache, breakerVars, up, outages, crashes, failed, probes, runs, reconciler>>

\* The same content is stored again, under the same digest.
Put(o) ==
    /\ Reingest
    /\ o \notin exists
    /\ exists' = exists \cup {o}
    /\ UNCHANGED <<annotated, queues, held, wpc, cache, breakerVars, envVars, probes, reconciler>>

-----------------------------------------------------------------------------

handle(w) ==
    \/ parkDenied(w) \/ processSkips(w) \/ processRuns(w) \/ writeAnnotation(w)
    \/ handled(w) \/ dropBogus(w) \/ unavailable(w) \/ routeFailed(w)

Next ==
    \/ \E w \in Workers : Receive(w) \/ handle(w) \/ jobFails(w) \/ retryCrash(w)
    \/ \E o \in Objects : Publish(o) \/ DeleteObject(o) \/ Put(o)
    \/ ProcessFailures \/ routerCrash \/ retryExpires \/ RequeueDeadLetters
    \/ \E q \in Operators : ReconcilePending(q) \/ reconcile(q) \/ reconcileStops(q)
    \/ windowElapses \/ workerCrash \/ goesDown \/ comesUp

\* Consumers, the failure router, message expiry and the clock always go on,
\* and the backing service comes back; failures and crashes need not happen.
Spec ==
    /\ Init
    /\ [][Next]_vars
    /\ \A w \in Workers : WF_vars(Receive(w)) /\ WF_vars(handle(w))
    /\ \A q \in Operators : WF_vars(reconcile(q))
    /\ WF_vars(ProcessFailures)
    /\ WF_vars(retryExpires)
    /\ WF_vars(windowElapses)
    /\ WF_vars(comesUp)

-----------------------------------------------------------------------------
(* Properties *)

jobs == DOMAIN queues \cup
    (({held[w] : w \in Workers} \cup {reconciler[q].msg : q \in Operators}) \ {None})

\* A job is never lost: until its annotation is stored, a message for the object
\* is in some queue or in the hands of a worker, whatever crashes, parks,
\* retries and redeliveries happened.  When objects are deleted and ingested
\* again, only the worker's annotation cache can drop the job of a live object.
\* Without deletes the cache is right ("a positive answer is cached forever")
\* and drops none.
JobsNeverLost == deletes = 0 \/ crashes = 0 =>
    \A o \in wanted \ (annotated \cup (IF deletes = 0 THEN {} ELSE cache)) : \E m \in jobs : m.obj = o

\* Parking consumes no retries: a message's attempts were all paid for by
\* failures of its own job, so an outage alone never dead-letters anything.
RetriesEarned == \A m \in jobs : m.attempt <= failed[m.obj]

finished(o) == o \notin wanted \ annotated \/ \E m \in in("dead") : m.obj = o

\* A run of reconcile-pending ended and left the job on the scratch queue.
leftBehind(o) == reconciler = [q \in Operators |-> off] /\ \E m \in in("scratch") : m.obj = o

\* Every job that was published is finished in the end (its annotation stored,
\* its object gone) or dead-lettered, through outages, parks and restarts.
JobsFinish == \A o \in Objects : [](o \in wanted => <>finished(o))

\* The same while no object is deleted, except for a job that a run of
\* reconcile-pending left on its scratch queue, where it waits for the next run.
\* (A probe for an object that is gone is acked without a result, and leaves the
\* circuit half-open for good.)
JobsFinishKept == [](deletes = 0) =>
    \A o \in Objects : [](o \in wanted => <>(finished(o) \/ leftBehind(o)))
=============================================================================
