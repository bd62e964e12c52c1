------------------------- MODULE AnalysisJobsProofs -------------------------
(***************************************************************************)
(* Proofs about AnalysisJobs, for any objects, workers and limits, and any *)
(* number of crashes, outages, failures and deletes.                       *)
(***************************************************************************)
EXTENDS AnalysisJobs, TLAPS

Messages == [obj : Objects, attempt : Nat, at : {"work", "failed", "retry", "dead", "scratch"}]
Places == {"idle", "received", "analyze", "done", "failed"}
Phases == {"off", "drain", "pass", "check", "return"}
Runs == [at : Phases, msg : Messages \cup {None}, seen : SUBSET Objects]

\* The messages a worker or a run has in its hands.
Hands == {held[w] : w \in Workers} \cup {reconciler[q].msg : q \in Operators}

JobTypes ==
  /\ DOMAIN queues \subseteq Messages
  /\ held \in [Workers -> Messages \cup {None}]
  /\ wpc \in [Workers -> Places]
  /\ \A w \in Workers : held[w] = None <=> wpc[w] = "idle"
  /\ reconciler \in [Operators -> Runs]
  /\ \A q \in Operators : reconciler[q].msg = None <=> reconciler[q].at # "check"
  /\ \A q \in Operators : reconciler[q].at \in {"off", "drain"} => reconciler[q].seen = {}
  /\ failed \in [Objects -> Nat]
  /\ wanted \subseteq exists /\ exists \subseteq Objects
  /\ crashes \in Nat /\ deletes \in Nat

\* What a message has spent of its retries, and what its routing will spend: the
\* failure of its job was counted before it reached the failed queue.
Paid(m, f) == (IF m.at = "failed" THEN m.attempt + 1 ELSE m.attempt) <= f[m.obj]

RetriesPaid ==
  /\ \A m \in DOMAIN queues : Paid(m, failed)
  /\ \A m \in Hands \ {None} : Paid(m, failed)
  /\ \A w \in Workers : wpc[w] = "failed" => held[w].attempt + 1 <= failed[held[w].obj]

\* The objects that do not need a job: annotated, or skipped by a worker's cache.
Done == annotated \cup (IF deletes = 0 THEN {} ELSE cache)

\* A worker is done only with an object in the cache, which is right while
\* nothing is deleted; what a run of reconcile-pending has seen is on its scratch
\* queue until the run returns it.
JobsKept ==
  /\ deletes = 0 => exists = Objects /\ cache \subseteq annotated
  /\ \A w \in Workers : wpc[w] = "done" => held[w].obj \in cache
  /\ \A q \in Operators : reconciler[q].at \in {"pass", "check"} =>
        \A o \in reconciler[q].seen : \E m \in in("scratch") : m.obj = o
  /\ deletes = 0 \/ crashes = 0 =>
        \A o \in wanted \ Done : \E m \in DOMAIN queues \cup (Hands \ {None}) : m.obj = o

PaidInv == JobTypes /\ RetriesPaid

-----------------------------------------------------------------------------
(* Messages and bags of them *)

\* What the operations on bags do to the messages that are there at all.
LEMMA BagDomains ==
  ASSUME NEW bag, NEW other, NEW m
  PROVE  /\ DOMAIN Plus(bag, m) = DOMAIN bag \cup {m}
         /\ DOMAIN bag \ {m} \subseteq DOMAIN Minus(bag, m)
         /\ DOMAIN Minus(bag, m) \subseteq DOMAIN bag
         /\ DOMAIN Join(bag, other) = DOMAIN bag \cup DOMAIN other
  BY Zenon DEF Plus, Minus, Join

\* A message that changes queues keeps its object and its attempts.
LEMMA Relabels ==
  ASSUME NEW m \in Messages, NEW place \in {"work", "failed", "retry", "dead", "scratch"}
  PROVE  LET new == [m EXCEPT !.at = place]
         IN  new \in Messages /\ new.obj = m.obj /\ new.attempt = m.attempt /\ new.at = place
  BY Zenon DEF Messages

\* None is no message.
LEMMA NoneIsNone == None \notin Messages
  BY Zenon, AnalysisJobsAssumption DEF Messages

\* A message moves from queue to queue, or is copied: other copies may stay.
MovesTo(m, new) ==
  /\ new \in Messages
  /\ DOMAIN queues' \subseteq DOMAIN queues \cup {new}
  /\ (DOMAIN queues \ {m}) \cup {new} \subseteq DOMAIN queues'

\* A message that is published to another queue, with or without the acknowledgement
\* of the first, is in it, and every other message stays.
LEMMA MovesMessage ==
  ASSUME DOMAIN queues \subseteq Messages, NEW m \in DOMAIN queues, NEW new \in Messages,
         queues' = Plus(Minus(queues, m), new) \/ queues' = Plus(queues, new)
  PROVE  MovesTo(m, new)
<1>1. CASE queues' = Plus(Minus(queues, m), new)
  <2>1. DOMAIN queues' = DOMAIN Minus(queues, m) \cup {new}
    BY Zenon, <1>1, BagDomains
  <2>2. DOMAIN queues \ {m} \subseteq DOMAIN Minus(queues, m) /\ DOMAIN Minus(queues, m) \subseteq DOMAIN queues
    BY Zenon, BagDomains
  <2> QED
    BY Zenon, <2>1, <2>2 DEF MovesTo
<1>2. CASE queues' = Plus(queues, new)
  <2>1. DOMAIN queues' = DOMAIN queues \cup {new}
    BY Zenon, <1>2, BagDomains
  <2> QED
    BY Zenon, <2>1 DEF MovesTo
<1> QED
  BY Zenon, <1>1, <1>2

\* The messages that the broker, the router and the operators move.
LEMMA QueueMoves ==
  ASSUME JobTypes, \/ ProcessFailures \/ routerCrash \/ retryExpires \/ RequeueDeadLetters
                   \/ \E q \in Operators : drainReconcileByAnalyzer(q)
  PROVE  \E m \in DOMAIN queues, new \in Messages :
            /\ MovesTo(m, new) /\ new.obj = m.obj
            /\ \/ m.at = "failed" /\ new.attempt = m.attempt + 1 /\ new.at \in {"dead", "retry"}
               \/ m.at \in {"retry", "scratch"} /\ new.attempt = m.attempt /\ new.at = "work"
               \/ m.at = "dead" /\ new.attempt = 0 /\ new.at = "work"
            /\ m.at = "scratch" => \E q \in Operators : reconciler[q].at \in {"drain", "return"}
<1>0. DOMAIN queues \subseteq Messages
  BY Zenon DEF JobTypes
<1>1. ASSUME ProcessFailures \/ routerCrash
      PROVE  \E m \in DOMAIN queues, new \in Messages :
                MovesTo(m, new) /\ new.obj = m.obj
                /\ m.at = "failed" /\ new.attempt = m.attempt + 1 /\ new.at \in {"dead", "retry"}
  <2>1. PICK m \in in("failed") : queues' = Plus(Minus(queues, m), routed(m)) \/ queues' = Plus(queues, routed(m))
    BY Zenon, <1>1 DEF ProcessFailures, routerCrash
  <2>2. m \in DOMAIN queues /\ m.at = "failed" /\ m \in Messages
    BY Zenon, <1>0 DEF in
  <2> DEFINE new == routed(m)
  <2>3. new \in Messages /\ new.obj = m.obj /\ new.attempt = m.attempt + 1 /\ new.at \in {"dead", "retry"}
    BY <2>2 DEF routed, message, Messages
  <2> HIDE DEF new
  <2>4. queues' = Plus(Minus(queues, m), new) \/ queues' = Plus(queues, new)
    BY Zenon, <2>1 DEF new
  <2>5. MovesTo(m, new)
    BY Zenon, <1>0, <2>2, <2>3, <2>4, MovesMessage
  <2> QED
    BY Zenon, <2>2, <2>3, <2>5
<1>2. ASSUME retryExpires \/ \E q \in Operators : drainReconcileByAnalyzer(q)
      PROVE  \E m \in DOMAIN queues, new \in Messages :
                /\ MovesTo(m, new) /\ new.obj = m.obj
                /\ m.at \in {"retry", "scratch"} /\ new.attempt = m.attempt /\ new.at = "work"
                /\ m.at = "scratch" => \E q \in Operators : reconciler[q].at \in {"drain", "return"}
  <2>1. PICK m \in in("retry") \cup in("scratch") :
           /\ queues' = Plus(Minus(queues, m), [m EXCEPT !.at = "work"])
           /\ m \in in("retry") \/ \E q \in Operators : reconciler[q].at \in {"drain", "return"}
    BY Zenon, <1>2 DEF retryExpires, drainReconcileByAnalyzer
  <2>2. m \in DOMAIN queues /\ m.at \in {"retry", "scratch"} /\ m \in Messages /\ (m \in in("retry") => m.at = "retry")
    BY Zenon, <1>0 DEF in
  <2> DEFINE new == [m EXCEPT !.at = "work"]
  <2>3. new \in Messages /\ new.obj = m.obj /\ new.attempt = m.attempt /\ new.at = "work"
    BY Zenon, <2>2, Relabels
  <2> HIDE DEF new
  <2>4. queues' = Plus(Minus(queues, m), new)
    BY Zenon, <2>1 DEF new
  <2>5. MovesTo(m, new)
    BY Zenon, <1>0, <2>2, <2>3, <2>4, MovesMessage
  <2> QED
    BY Zenon, <2>1, <2>2, <2>3, <2>5
<1>3. ASSUME RequeueDeadLetters
      PROVE  \E m \in DOMAIN queues, new \in Messages :
                MovesTo(m, new) /\ new.obj = m.obj /\ m.at = "dead" /\ new.attempt = 0 /\ new.at = "work"
  <2>1. PICK m \in in("dead") : queues' = Plus(Minus(queues, m), message(m.obj, 0, "work"))
    BY Zenon, <1>3 DEF RequeueDeadLetters
  <2>2. m \in DOMAIN queues /\ m.at = "dead" /\ m \in Messages
    BY Zenon, <1>0 DEF in
  <2> DEFINE new == message(m.obj, 0, "work")
  <2>3. new \in Messages /\ new.obj = m.obj /\ new.attempt = 0 /\ new.at = "work"
    BY Zenon, <2>2 DEF message, Messages
  <2> HIDE DEF new
  <2>4. queues' = Plus(Minus(queues, m), new)
    BY Zenon, <2>1 DEF new
  <2>5. MovesTo(m, new)
    BY Zenon, <1>0, <2>2, <2>3, <2>4, MovesMessage
  <2> QED
    BY Zenon, <2>2, <2>3, <2>5
<1> QED
  BY Zenon, <1>1, <1>2, <1>3

-----------------------------------------------------------------------------
(* What the steps of a worker do to the messages *)

takesJob(w, m) ==
  /\ wpc[w] = "idle" /\ wpc' = [wpc EXCEPT ![w] = "received"] /\ held' = [held EXCEPT ![w] = m]
  /\ m \in DOMAIN queues /\ m.at = "work"
  /\ DOMAIN queues' \subseteq DOMAIN queues /\ DOMAIN queues \ {m} \subseteq DOMAIN queues'
  /\ UNCHANGED <<annotated, cache, failed>>

keepsJob(w, x) ==
  /\ wpc[w] # "idle" /\ wpc' = [wpc EXCEPT ![w] = x]
  /\ UNCHANGED <<held, queues>>
  /\ IF x = "failed" THEN failed' = [failed EXCEPT ![held[w].obj] = @ + 1] ELSE failed' = failed
  /\ x = "done" => held[w].obj \in cache'
  /\ cache \subseteq cache' /\ annotated \subseteq annotated'
  /\ cache' \cup annotated' \subseteq cache \cup annotated \cup {held[w].obj}
  /\ cache' = cache \/ held[w].obj \in annotated' \/ held[w].obj \in cache

returnsJob(w, new) ==
  /\ wpc[w] # "idle" /\ wpc' = [wpc EXCEPT ![w] = "idle"] /\ held' = [held EXCEPT ![w] = None]
  /\ DOMAIN queues' = DOMAIN queues \cup {new}
  /\ new \in Messages /\ new.obj = held[w].obj /\ new.attempt = held[w].attempt
  /\ new = held[w] \/ (new.at = "failed" /\ wpc[w] = "failed")
  /\ UNCHANGED <<annotated, cache, failed>>

dropsJob(w) ==
  /\ wpc[w] # "idle" /\ wpc' = [wpc EXCEPT ![w] = "idle"] /\ held' = [held EXCEPT ![w] = None]
  /\ wpc[w] = "done" \/ held[w].obj \notin exists
  /\ UNCHANGED <<queues, annotated, cache, failed>>

\* A worker takes a job, goes on with it, puts it back on a queue, or drops it;
\* it drops a job it is done with or whose object is gone, and no other.
LEMMA WorkerActs ==
  ASSUME JobTypes, NEW w \in Workers, Receive(w) \/ handle(w) \/ jobFails(w)
  PROVE  /\ UNCHANGED <<exists, wanted, reconciler, crashes, deletes>>
         /\ \/ \E m : takesJob(w, m)
            \/ \E x \in {"analyze", "done", "failed"} : keepsJob(w, x)
            \/ \E new : returnsJob(w, new)
            \/ dropsJob(w)
<1>0. DOMAIN queues \subseteq Messages /\ held[w] \in Messages \cup {None} /\ (held[w] = None <=> wpc[w] = "idle")
  BY Zenon DEF JobTypes
<1>1. UNCHANGED <<exists, wanted, reconciler, crashes, deletes>>
  BY Zenon DEF Receive, handle, jobFails, parkDenied, processSkips, processRuns, writeAnnotation, handled, dropBogus,
         unavailable, routeFailed, envVars
<1>2. ASSUME Receive(w) PROVE \E m : takesJob(w, m)
  <2>1. PICK m \in in("work") : held' = [held EXCEPT ![w] = m] /\ queues' = Minus(queues, m)
    BY Zenon, <1>2 DEF Receive
  <2>2. DOMAIN queues' \subseteq DOMAIN queues /\ DOMAIN queues \ {m} \subseteq DOMAIN queues'
    BY Zenon, <2>1, BagDomains
  <2> QED
    BY Zenon, <1>2, <2>1, <2>2 DEF Receive, takesJob, in, envVars
<1>3. ASSUME processSkips(w) \/ processRuns(w) \/ writeAnnotation(w) \/ jobFails(w)
      PROVE  \E x \in {"analyze", "done", "failed"} : keepsJob(w, x)
  <2>1. CASE processSkips(w)
    <3>1. keepsJob(w, "done")
      BY Zenon, <2>1 DEF processSkips, keepsJob, envVars
    <3> QED
      BY Zenon, <3>1
  <2>2. CASE processRuns(w)
    <3>1. keepsJob(w, "analyze")
      BY Zenon, <2>2 DEF processRuns, keepsJob, envVars
    <3> QED
      BY Zenon, <3>1
  <2>3. CASE writeAnnotation(w)
    <3>1. keepsJob(w, "done")
      BY Zenon, <2>3 DEF writeAnnotation, keepsJob, envVars
    <3> QED
      BY Zenon, <3>1
  <2>4. CASE jobFails(w)
    <3>1. keepsJob(w, "failed")
      BY Zenon, <2>4 DEF jobFails, keepsJob
    <3> QED
      BY Zenon, <3>1
  <2> QED
    BY Zenon, <1>3, <2>1, <2>2, <2>3, <2>4
<1>4. ASSUME parkDenied(w) \/ unavailable(w) \/ routeFailed(w) PROVE \E new : returnsJob(w, new)
  <2>1. held[w] \in Messages /\ wpc[w] # "idle"
    BY Zenon, <1>0, <1>4 DEF parkDenied, unavailable, routeFailed
  <2>2. PICK new \in {held[w], [held[w] EXCEPT !.at = "failed"]} :
           queues' = Plus(queues, new) /\ (new = held[w] \/ wpc[w] = "failed")
    BY Zenon, <1>4 DEF parkDenied, unavailable, routeFailed
  <2>3. new \in Messages /\ new.obj = held[w].obj /\ new.attempt = held[w].attempt /\ (new = held[w] \/ new.at = "failed")
    <3>1. LET f == [held[w] EXCEPT !.at = "failed"]
          IN  f \in Messages /\ f.obj = held[w].obj /\ f.attempt = held[w].attempt /\ f.at = "failed"
      BY Zenon, <2>1 DEF Messages
    <3>2. new = held[w] \/ new = [held[w] EXCEPT !.at = "failed"]
      BY Zenon
    <3> QED
      BY Zenon, <2>1, <3>1, <3>2
  <2>4. DOMAIN queues' = DOMAIN queues \cup {new}
    BY Zenon, <2>2, BagDomains
  <2>5. release(w) /\ UNCHANGED <<annotated, cache, failed>>
    BY Zenon, <1>4 DEF parkDenied, unavailable, routeFailed, envVars
  <2>6. returnsJob(w, new)
    BY Zenon, <2>1, <2>2, <2>3, <2>4, <2>5 DEF release, returnsJob
  <2> QED
    BY Zenon, <2>6
<1>5. ASSUME handled(w) \/ dropBogus(w) PROVE dropsJob(w)
  BY Zenon, <1>0, <1>5 DEF handled, dropBogus, release, dropsJob, envVars
<1> QED
  BY Zenon, <1>1, <1>2, <1>3, <1>4, <1>5 DEF handle

\* A crash of the worker process: every delivery is back on its queue, and one of
\* them may have a copy on the failed queue as well.
LEMMA CrashActs ==
  ASSUME JobTypes, workerCrash \/ \E w \in Workers : retryCrash(w)
  PROVE  /\ UNCHANGED <<exists, annotated, wanted, reconciler, deletes, failed>>
         /\ crashes' = crashes + 1 /\ cache' = {}
         /\ held' = [w \in Workers |-> None] /\ wpc' = [w \in Workers |-> "idle"]
         /\ DOMAIN queues \subseteq DOMAIN queues' /\ \A w \in Workers : held[w] # None => held[w] \in DOMAIN queues'
         /\ \A m \in DOMAIN queues' :
               \/ m \in DOMAIN queues
               \/ \E w \in Workers : /\ held[w] # None /\ m \in Messages
                                     /\ m.obj = held[w].obj /\ m.attempt = held[w].attempt
                                     /\ m = held[w] \/ (m.at = "failed" /\ wpc[w] = "failed")
<1>0. /\ \A w \in Workers : held[w] \in Messages \cup {None} /\ (held[w] = None <=> wpc[w] = "idle")
  BY Zenon DEF JobTypes
<1>1. /\ UNCHANGED <<exists, annotated, wanted, reconciler, deletes, failed>>
      /\ crashes' = crashes + 1 /\ cache' = {}
      /\ held' = [w \in Workers |-> None] /\ wpc' = [w \in Workers |-> "idle"]
  BY Zenon DEF workerCrash, retryCrash, restart
<1>2. DOMAIN redelivered = {held[w] : w \in {v \in Workers : held[v] # None}}
  BY Zenon DEF redelivered
<1>3. DOMAIN Join(queues, redelivered) = DOMAIN queues \cup DOMAIN redelivered
  BY Zenon, BagDomains
<1>4. CASE workerCrash
  <2>1. DOMAIN queues' = DOMAIN queues \cup DOMAIN redelivered
    BY Zenon, <1>3, <1>4 DEF workerCrash
  <2> QED
    BY Zenon, <1>0, <1>1, <1>2, <2>1
<1>5. ASSUME NEW w \in Workers, retryCrash(w)
      PROVE  /\ DOMAIN queues \subseteq DOMAIN queues' /\ \A v \in Workers : held[v] # None => held[v] \in DOMAIN queues'
             /\ \A m \in DOMAIN queues' :
                   \/ m \in DOMAIN queues
                   \/ \E v \in Workers : /\ held[v] # None /\ m \in Messages
                                         /\ m.obj = held[v].obj /\ m.attempt = held[v].attempt
                                         /\ m = held[v] \/ (m.at = "failed" /\ wpc[v] = "failed")
  <2> DEFINE new == [held[w] EXCEPT !.at = "failed"]
  <2>1. wpc[w] = "failed" /\ held[w] \in Messages /\ held[w] # None
    BY Zenon, <1>0, <1>5, NoneIsNone DEF retryCrash
  <2>2. new \in Messages /\ new.obj = held[w].obj /\ new.attempt = held[w].attempt /\ new.at = "failed"
    BY Zenon, <2>1, Relabels
  <2>3. queues' = Plus(Join(queues, redelivered), new)
    BY Zenon, <1>5 DEF retryCrash
  <2> HIDE DEF new
  <2>4. DOMAIN queues' = DOMAIN queues \cup DOMAIN redelivered \cup {new}
    <3> DEFINE b == Join(queues, redelivered)
    <3>1. DOMAIN Plus(b, new) = DOMAIN b \cup {new}
      BY Zenon, BagDomains
    <3> QED
      BY Zenon, <1>3, <2>3, <3>1
  <2>5. \A v \in Workers : held[v] # None => held[v] \in Messages
    BY Zenon, <1>0
  <2>6. \A m \in DOMAIN redelivered : \E v \in Workers : held[v] # None /\ m = held[v] /\ m \in Messages
    BY Zenon, <1>2, <2>5
  <2>7. \A v \in Workers : held[v] # None => held[v] \in DOMAIN redelivered
    BY Zenon, <1>2
  <2> QED
    BY Zenon, <2>1, <2>2, <2>4, <2>6, <2>7
<1> QED
  BY Zenon, <1>1, <1>4, <1>5

-----------------------------------------------------------------------------
(* What the steps of a run of reconcile-pending do to the messages *)

runMoves(q, new) ==
  /\ queues' = queues /\ reconciler[q].msg = None /\ new.msg = None
  /\ \/ new.at \in {"off", "drain", "pass"} /\ new.seen = {}
     \/ new.at = "return"

runTakes(q, new) ==
  /\ reconciler[q].at = "pass" /\ new.at = "check" /\ new.seen = reconciler[q].seen
  /\ new.msg \in DOMAIN queues /\ new.msg.at = "work"
  /\ DOMAIN queues' \subseteq DOMAIN queues /\ DOMAIN queues \ {new.msg} \subseteq DOMAIN queues'

runDrops(q, new) ==
  /\ reconciler[q].at = "check" /\ new.at = "pass" /\ new.msg = None /\ new.seen = reconciler[q].seen
  /\ dropped(q) /\ queues' = queues

runKeeps(q, new, m) ==
  /\ reconciler[q].at = "check" /\ new.at = "pass" /\ new.msg = None
  /\ new.seen = reconciler[q].seen \cup {m.obj}
  /\ m.obj = reconciler[q].msg.obj /\ m.attempt = reconciler[q].msg.attempt /\ m.at = "scratch"
  /\ DOMAIN queues' = DOMAIN queues \cup {m}

runStops(q) ==
  LET had == DOMAIN queues \cup ({reconciler[q].msg} \ {None})
  IN  /\ had \subseteq DOMAIN queues'
      /\ \A m \in DOMAIN queues' :
            \/ m \in had
            \/ /\ m \in Messages /\ m.at \in {"work", "scratch"}
               /\ \E n \in had : m.obj = n.obj /\ m.attempt = n.attempt

\* A run moves on, takes a job, drops it or keeps it on the scratch queue, or
\* stops and leaves everything on the queues.
LEMMA RunActs ==
  ASSUME JobTypes, NEW q \in Operators,
         ReconcilePending(q) \/ reconcileTakes(q) \/ reconcileChecks(q) \/ loopEnds(q) \/ reconcileStops(q)
  PROVE  /\ UNCHANGED <<exists, annotated, wanted, deletes, failed, held, wpc, cache>>
         /\ crashes' \in {crashes, crashes + 1}
         /\ \E new \in Runs :
              /\ reconciler' = [reconciler EXCEPT ![q] = new]
              /\ \/ runMoves(q, new) \/ runTakes(q, new) \/ runDrops(q, new)
                 \/ \E m \in Messages : runKeeps(q, new, m)
                 \/ new = off /\ runStops(q)
<1> DEFINE r == reconciler[q]
           Goal == \E new \in Runs :
                     /\ reconciler' = [reconciler EXCEPT ![q] = new]
                     /\ \/ runMoves(q, new) \/ runTakes(q, new) \/ runDrops(q, new)
                        \/ \E m \in Messages : runKeeps(q, new, m)
                        \/ new = off /\ runStops(q)
<1>0. /\ DOMAIN queues \subseteq Messages /\ reconciler \in [Operators -> Runs] /\ r \in Runs
      /\ r.at \in Phases /\ r.msg \in Messages \cup {None} /\ r.seen \in SUBSET Objects
      /\ r.msg = None <=> r.at # "check"
      /\ r.at \in {"off", "drain"} => r.seen = {}
  BY Zenon DEF JobTypes, Runs
<1>1. UNCHANGED <<exists, annotated, wanted, deletes, failed, held, wpc, cache>> /\ crashes' \in {crashes, crashes + 1}
  BY Zenon DEF ReconcilePending, reconcileTakes, reconcileChecks, loopEnds, reconcileStops, envVars, workerVars
<1>2. off \in Runs /\ off.at = "off" /\ off.msg = None /\ off.seen = {}
  BY Zenon DEF off, Runs, Phases
<1>3. ASSUME NEW x \in {"drain", "pass", "return"}, at(q, x), queues' = queues, r.msg = None,
             x \in {"drain", "pass"} => r.seen = {}
      PROVE  Goal
  <2> DEFINE new == [r EXCEPT !.at = x]
  <2>1. new \in Runs /\ new.at = x /\ new.msg = r.msg /\ new.seen = r.seen
    BY Zenon, <1>0 DEF Runs, Phases
  <2>2. reconciler' = [reconciler EXCEPT ![q] = new]
    BY Zenon, <1>0, <1>3 DEF at
  <2> HIDE DEF new
  <2>3. runMoves(q, new)
    BY Zenon, <1>3, <2>1 DEF runMoves
  <2> QED
    BY Zenon, <2>1, <2>2, <2>3
<1>4. ASSUME ReconcilePending(q) PROVE Goal
  BY Zenon, <1>0, <1>3, <1>4 DEF ReconcilePending
<1>5. ASSUME loopEnds(q) PROVE Goal
  <2>1. CASE \/ r.at = "drain" /\ at(q, "pass")
             \/ r.at = "pass" /\ at(q, "return")
    BY Zenon, <1>0, <1>3, <1>5, <2>1 DEF loopEnds
  <2>2. CASE r.at = "return" /\ reconciler' = [reconciler EXCEPT ![q] = off]
    <3>1. runMoves(q, off)
      BY Zenon, <1>0, <1>2, <1>5, <2>2 DEF loopEnds, runMoves
    <3> QED
      BY Zenon, <1>2, <2>2, <3>1
  <2> QED
    BY Zenon, <1>5, <2>1, <2>2 DEF loopEnds
<1>6. ASSUME reconcileTakes(q) PROVE Goal
  <2>1. PICK m \in in("work") :
           queues' = Minus(queues, m) /\ reconciler' = [reconciler EXCEPT ![q].at = "check", ![q].msg = m]
    BY Zenon, <1>6 DEF reconcileTakes
  <2>2. m \in DOMAIN queues /\ m \in Messages /\ m.at = "work" /\ r.at = "pass"
    BY Zenon, <1>0, <1>6 DEF in, reconcileTakes
  <2> DEFINE new == [r EXCEPT !.at = "check", !.msg = m]
  <2>3. new \in Runs /\ new.at = "check" /\ new.msg = m /\ new.seen = r.seen
    BY Zenon, <1>0, <2>2 DEF Runs, Phases
  <2>4. reconciler' = [reconciler EXCEPT ![q] = new]
    BY Zenon, <1>0, <2>1
  <2> HIDE DEF new
  <2>5. DOMAIN queues' \subseteq DOMAIN queues /\ DOMAIN queues \ {m} \subseteq DOMAIN queues'
    BY Zenon, <2>1, BagDomains
  <2>6. runTakes(q, new)
    BY Zenon, <2>2, <2>3, <2>5 DEF runTakes
  <2> QED
    BY Zenon, <2>3, <2>4, <2>6
<1>7. ASSUME reconcileChecks(q) PROVE Goal
  <2> DEFINE new == [at |-> "pass", msg |-> None, seen |-> r.seen \cup (IF dropped(q) THEN {} ELSE {r.msg.obj})]
  <2>1. /\ r.at = "check" /\ reconciler' = [reconciler EXCEPT ![q] = new]
        /\ queues' = IF dropped(q) THEN queues ELSE Plus(queues, [r.msg EXCEPT !.at = "scratch"])
    BY Zenon, <1>7 DEF reconcileChecks
  <2>2. r.msg \in Messages /\ r.msg.obj \in Objects
    BY Zenon, <1>0, <2>1 DEF Messages
  <2>3. /\ new \in Runs /\ new.at = "pass" /\ new.msg = None
        /\ new.seen = r.seen \cup (IF dropped(q) THEN {} ELSE {r.msg.obj})
    BY Zenon, <1>0, <2>2 DEF Runs, Phases
  <2> HIDE DEF new
  <2>4. CASE dropped(q)
    <3>1. runDrops(q, new)
      BY Zenon, <2>1, <2>3, <2>4 DEF runDrops
    <3> QED
      BY Zenon, <2>1, <2>3, <3>1
  <2>5. CASE ~dropped(q)
    <3> DEFINE m == [r.msg EXCEPT !.at = "scratch"]
    <3>1. m \in Messages /\ m.obj = r.msg.obj /\ m.attempt = r.msg.attempt /\ m.at = "scratch"
      BY Zenon, <2>2, Relabels
    <3>2. queues' = Plus(queues, m)
      BY Zenon, <2>1, <2>5
    <3> HIDE DEF m
    <3>3. DOMAIN queues' = DOMAIN queues \cup {m}
      BY Zenon, <3>2, BagDomains
    <3>4. runKeeps(q, new, m)
      BY Zenon, <2>1, <2>3, <2>5, <3>1, <3>3 DEF runKeeps
    <3> QED
      BY Zenon, <2>1, <2>3, <3>1, <3>4
  <2> QED
    BY Zenon, <2>4, <2>5
<1>8. ASSUME reconcileStops(q) PROVE Goal
  <2> DEFINE had == DOMAIN queues \cup ({r.msg} \ {None})
  <2>1. PICK some \in {queues} \cup {Plus(queues, m) : m \in published(q)} :
           queues' = IF r.msg = None THEN some ELSE Plus(some, r.msg)
    BY Zenon, <1>8 DEF reconcileStops
  <2>2. ASSUME NEW m \in published(q)
        PROVE  m \in Messages /\ m.at \in {"work", "scratch"} /\ \E n \in had : m.obj = n.obj /\ m.attempt = n.attempt
    <3>1. CASE r.at = "check"
      <4>1. m = [r.msg EXCEPT !.at = "scratch"] /\ r.msg \in Messages /\ r.msg # None
        BY Zenon, <1>0, <3>1, NoneIsNone DEF published
      <4> QED
        BY Zenon, <4>1, Relabels
    <3>2. CASE r.at \in {"drain", "return"}
      <4>1. PICK n \in in("scratch") : m = [n EXCEPT !.at = "work"]
        BY Zenon, <3>2 DEF published
      <4>2. n \in DOMAIN queues /\ n \in Messages
        BY Zenon, <1>0 DEF in
      <4> QED
        BY Zenon, <4>1, <4>2, Relabels
    <3>3. CASE r.at \notin {"check", "drain", "return"}
      BY Zenon, <3>3 DEF published
    <3> QED
      BY Zenon, <3>1, <3>2, <3>3
  <2>3. \A m : DOMAIN Plus(queues, m) = DOMAIN queues \cup {m}
    BY Zenon, BagDomains
  <2>4. /\ DOMAIN queues \subseteq DOMAIN some
        /\ \A m \in DOMAIN some : m \in DOMAIN queues \cup published(q)
    BY Zenon, <2>1, <2>3
  <2>5. DOMAIN queues' = DOMAIN some \cup ({r.msg} \ {None})
    <3>1. DOMAIN Plus(some, r.msg) = DOMAIN some \cup {r.msg}
      BY Zenon, BagDomains
    <3> QED
      BY Zenon, <2>1, <3>1
  <2>6. runStops(q)
    BY Zenon, <2>2, <2>4, <2>5 DEF runStops
  <2>7. reconciler' = [reconciler EXCEPT ![q] = off]
    BY Zenon, <1>8 DEF reconcileStops
  <2> QED
    BY Zenon, <1>2, <2>6, <2>7
<1> QED
  BY Zenon, <1>1, <1>4, <1>5, <1>6, <1>7, <1>8

-----------------------------------------------------------------------------
(* Retries *)

\* Every step keeps the types and the account of the retries.
LEMMA PaidStep == PaidInv /\ [Next]_vars => PaidInv'
<1> SUFFICES ASSUME PaidInv, [Next]_vars PROVE PaidInv'
  BY Zenon
<1> DEFINE D == DOMAIN queues
<1>0. /\ JobTypes /\ RetriesPaid /\ D \subseteq Messages /\ None \notin Messages
      /\ held \in [Workers -> Messages \cup {None}] /\ wpc \in [Workers -> Places]
      /\ \A w \in Workers : held[w] = None <=> wpc[w] = "idle"
      /\ reconciler \in [Operators -> Runs] /\ failed \in [Objects -> Nat]
      /\ wanted \subseteq exists /\ exists \subseteq Objects /\ crashes \in Nat /\ deletes \in Nat
      /\ \A q \in Operators : reconciler[q].msg = None <=> reconciler[q].at # "check"
      /\ \A q \in Operators : reconciler[q].at \in {"off", "drain"} => reconciler[q].seen = {}
  BY Zenon, NoneIsNone DEF PaidInv, JobTypes
<1>1. /\ \A m \in D : Paid(m, failed)
      /\ \A w \in Workers : held[w] # None => Paid(held[w], failed)
      /\ \A q \in Operators : reconciler[q].msg # None => Paid(reconciler[q].msg, failed)
      /\ \A w \in Workers : wpc[w] = "failed" => held[w].attempt + 1 <= failed[held[w].obj]
  BY Zenon, <1>0 DEF RetriesPaid, Hands
<1>2. ASSUME D' \subseteq Messages, \A m \in D' : Paid(m, failed'),
             held' \in [Workers -> Messages \cup {None}], wpc' \in [Workers -> Places],
             \A w \in Workers : held'[w] = None <=> wpc'[w] = "idle",
             \A w \in Workers : held'[w] # None => Paid(held'[w], failed'),
             \A w \in Workers : wpc'[w] = "failed" => held'[w].attempt + 1 <= failed'[held'[w].obj],
             reconciler' \in [Operators -> Runs],
             \A q \in Operators : reconciler'[q].msg = None <=> reconciler'[q].at # "check",
             \A q \in Operators : reconciler'[q].at \in {"off", "drain"} => reconciler'[q].seen = {},
             \A q \in Operators : reconciler'[q].msg # None => Paid(reconciler'[q].msg, failed'),
             failed' \in [Objects -> Nat], wanted' \subseteq exists', exists' \subseteq Objects,
             crashes' \in Nat, deletes' \in Nat
      PROVE  PaidInv'
  BY <1>2 DEF PaidInv, JobTypes, RetriesPaid, Hands
<1>m. \A m \in Messages : m.obj \in Objects /\ m.attempt \in Nat
  BY Zenon DEF Messages
<1> HIDE DEF D
<1>3. ASSUME NEW w \in Workers, Receive(w) \/ handle(w) \/ jobFails(w) PROVE PaidInv'
  <2>0. UNCHANGED <<exists, wanted, reconciler, crashes, deletes>>
    BY Zenon, <1>0, <1>3, WorkerActs
  <2>1. ASSUME NEW m, takesJob(w, m) PROVE PaidInv'
    <3>1. /\ held' = [held EXCEPT ![w] = m] /\ wpc' = [wpc EXCEPT ![w] = "received"] /\ failed' = failed
          /\ m \in D /\ D' \subseteq D /\ "received" \in Places
      BY Zenon, <2>1 DEF takesJob, D, Places
    <3> QED
      BY Zenon, <1>0, <1>1, <1>2, <2>0, <3>1
  <2>2. ASSUME NEW x \in {"analyze", "done", "failed"}, keepsJob(w, x) PROVE PaidInv'
    <3>1. /\ wpc[w] # "idle" /\ wpc' = [wpc EXCEPT ![w] = x] /\ held' = held /\ D' = D /\ x \in Places
          /\ IF x = "failed" THEN failed' = [failed EXCEPT ![held[w].obj] = @ + 1] ELSE failed' = failed
      BY Zenon, <2>2 DEF keepsJob, D, Places
    <3>2. held[w] \in Messages /\ held[w].obj \in Objects
      BY Zenon, <1>0, <1>m, <3>1
    <3>3. failed' \in [Objects -> Nat] /\ \A o \in Objects : failed[o] <= failed'[o]
      BY <1>0, <3>1, <3>2
    <3>4. \A m \in Messages : Paid(m, failed) => Paid(m, failed')
      BY <1>0, <1>m, <3>3 DEF Paid
    <3>5. x = "failed" => held[w].attempt + 1 <= failed'[held[w].obj]
      <4>1. held[w].attempt <= failed[held[w].obj]
        BY <1>0, <1>1, <1>m, <3>2 DEF Paid
      <4> QED
        BY <1>0, <1>m, <3>1, <3>2, <4>1
    <3>6. \A v \in Workers : wpc'[v] = "failed" => held[v].attempt + 1 <= failed'[held[v].obj]
      <4> SUFFICES ASSUME NEW v \in Workers, wpc'[v] = "failed" PROVE held[v].attempt + 1 <= failed'[held[v].obj]
        BY Zenon
      <4>1. CASE v = w
        BY Zenon, <1>0, <3>1, <3>5, <4>1
      <4>2. CASE v # w
        <5>1. wpc[v] = "failed" /\ held[v] \in Messages
          BY Zenon, <1>0, <3>1, <4>2
        <5> QED
          BY <1>0, <1>1, <1>m, <3>3, <5>1
      <4> QED
        BY Zenon, <4>1, <4>2
    <3>7. wpc' \in [Workers -> Places] /\ \A v \in Workers : held[v] = None <=> wpc'[v] = "idle"
      BY Zenon, <1>0, <3>1, <3>2
    <3>8. \A q \in Operators : reconciler[q].msg \in Messages \cup {None}
      BY Zenon, <1>0 DEF Runs
    <3> QED
      BY Zenon, <1>0, <1>1, <1>2, <2>0, <3>1, <3>3, <3>4, <3>6, <3>7, <3>8
  <2>3. ASSUME NEW new, returnsJob(w, new) PROVE PaidInv'
    <3>1. /\ held' = [held EXCEPT ![w] = None] /\ wpc' = [wpc EXCEPT ![w] = "idle"] /\ failed' = failed /\ wpc[w] # "idle"
          /\ D' = D \cup {new} /\ new \in Messages /\ new.obj = held[w].obj /\ new.attempt = held[w].attempt
          /\ new = held[w] \/ (new.at = "failed" /\ wpc[w] = "failed")
          /\ "idle" \in Places
      BY Zenon, <2>3 DEF returnsJob, D, Places
    <3>2. Paid(new, failed)
      BY Zenon, <1>0, <1>1, <3>1 DEF Paid
    <3> QED
      BY Zenon, <1>0, <1>1, <1>2, <2>0, <3>1, <3>2
  <2>4. ASSUME dropsJob(w) PROVE PaidInv'
    <3>1. /\ held' = [held EXCEPT ![w] = None] /\ wpc' = [wpc EXCEPT ![w] = "idle"] /\ failed' = failed /\ D' = D
          /\ "idle" \in Places
      BY Zenon, <2>4 DEF dropsJob, D, Places
    <3> QED
      BY Zenon, <1>0, <1>1, <1>2, <2>0, <3>1
  <2> QED
    BY Zenon, <1>0, <1>3, <2>1, <2>2, <2>3, <2>4, WorkerActs
<1>4. ASSUME workerCrash \/ \E w \in Workers : retryCrash(w) PROVE PaidInv'
  <2>1. /\ UNCHANGED <<exists, wanted, reconciler, deletes, failed>> /\ crashes' = crashes + 1
        /\ held' = [w \in Workers |-> None] /\ wpc' = [w \in Workers |-> "idle"] /\ "idle" \in Places
        /\ \A m \in D' : \/ m \in D
                         \/ \E w \in Workers : /\ held[w] # None /\ m \in Messages
                                               /\ m.obj = held[w].obj /\ m.attempt = held[w].attempt
                                               /\ m = held[w] \/ (m.at = "failed" /\ wpc[w] = "failed")
    BY Zenon, <1>0, <1>4, CrashActs DEF D, Places
  <2>2. \A m \in D' : m \in Messages /\ Paid(m, failed)
    BY <1>0, <1>1, <2>1 DEF Paid
  <2> QED
    BY <1>0, <1>1, <1>2, <2>1, <2>2
<1>5. ASSUME ProcessFailures \/ routerCrash \/ retryExpires \/ RequeueDeadLetters
             \/ \E q \in Operators : drainReconcileByAnalyzer(q)
      PROVE  PaidInv'
  <2>1. UNCHANGED <<held, wpc, reconciler, failed, wanted, exists, deletes>> /\ crashes' \in {crashes, crashes + 1}
    BY Zenon, <1>5 DEF ProcessFailures, routerCrash, retryExpires, RequeueDeadLetters, drainReconcileByAnalyzer, envVars, workerVars
  <2>2. PICK m \in D, new \in Messages :
            /\ MovesTo(m, new) /\ new.obj = m.obj
            /\ \/ m.at = "failed" /\ new.attempt = m.attempt + 1 /\ new.at \in {"dead", "retry"}
               \/ m.at \in {"retry", "scratch"} /\ new.attempt = m.attempt /\ new.at = "work"
               \/ m.at = "dead" /\ new.attempt = 0 /\ new.at = "work"
    BY Zenon, <1>0, <1>5, QueueMoves DEF D
  <2>3. D' \subseteq D \cup {new}
    BY Zenon, <2>2 DEF MovesTo, D
  <2>4. Paid(new, failed)
    <3>1. m \in Messages /\ Paid(m, failed) /\ failed[m.obj] \in Nat
      BY Zenon, <1>0, <1>1, <1>m
    <3> QED
      BY <1>m, <2>2, <3>1 DEF Paid
  <2> QED
    BY <1>0, <1>1, <1>2, <2>1, <2>3, <2>4
<1>6. ASSUME NEW q \in Operators,
             ReconcilePending(q) \/ reconcileTakes(q) \/ reconcileChecks(q) \/ loopEnds(q) \/ reconcileStops(q)
      PROVE  PaidInv'
  <2>0. UNCHANGED <<exists, wanted, deletes, failed, held, wpc>> /\ crashes' \in Nat
    BY <1>0, <1>6, RunActs
  <2>1. PICK new \in Runs :
           /\ reconciler' = [reconciler EXCEPT ![q] = new]
           /\ \/ runMoves(q, new) \/ runTakes(q, new) \/ runDrops(q, new)
              \/ \E m \in Messages : runKeeps(q, new, m)
              \/ new = off /\ runStops(q)
    BY Zenon, <1>0, <1>6, RunActs
  <2>2. ASSUME D' \subseteq Messages, \A m \in D' : Paid(m, failed), new.msg = None <=> new.at # "check",
               new.at \in {"off", "drain"} => new.seen = {}, new.msg # None => Paid(new.msg, failed)
        PROVE  PaidInv'
    BY Zenon, <1>0, <1>1, <1>2, <2>0, <2>1, <2>2
  <2>3. CASE runMoves(q, new)
    BY Zenon, <1>0, <1>1, <2>2, <2>3 DEF runMoves, D
  <2>4. CASE runTakes(q, new)
    BY Zenon, <1>0, <1>1, <2>2, <2>4 DEF runTakes, D
  <2>5. CASE runDrops(q, new)
    BY Zenon, <1>0, <1>1, <2>2, <2>5 DEF runDrops, D
  <2>6. ASSUME NEW m \in Messages, runKeeps(q, new, m) PROVE PaidInv'
    <3>1. Paid(m, failed)
      <4>1. reconciler[q].msg \in Messages /\ Paid(reconciler[q].msg, failed)
        BY Zenon, <1>0, <1>1, <2>6 DEF runKeeps, Runs
      <4>2. reconciler[q].msg.attempt <= failed[m.obj]
        BY <1>0, <1>m, <2>6, <4>1 DEF runKeeps, Paid
      <4> QED
        BY Zenon, <2>6, <4>2 DEF runKeeps, Paid
    <3> QED
      BY Zenon, <1>0, <1>1, <2>2, <2>6, <3>1 DEF runKeeps, D
  <2>7. CASE new = off /\ runStops(q)
    <3> DEFINE had == D \cup ({reconciler[q].msg} \ {None})
    <3>1. \A m \in had : m \in Messages /\ Paid(m, failed)
      BY Zenon, <1>0, <1>1 DEF Runs
    <3>2. \A m \in D' : \/ m \in had
                        \/ /\ m \in Messages /\ m.at \in {"work", "scratch"}
                           /\ \E n \in had : m.obj = n.obj /\ m.attempt = n.attempt
      BY Zenon, <2>7 DEF runStops, D
    <3>3. \A n \in had : n.attempt <= failed[n.obj]
      BY <1>0, <1>m, <3>1 DEF Paid
    <3> HIDE DEF had
    <3>4. \A m \in D' : m \in Messages /\ Paid(m, failed)
      BY Zenon, <3>1, <3>2, <3>3 DEF Paid
    <3> QED
      BY Zenon, <2>2, <2>7, <3>4 DEF off
  <2> QED
    BY Zenon, <2>1, <2>3, <2>4, <2>5, <2>6, <2>7
<1>7. ASSUME NEW o \in Objects, Publish(o) PROVE PaidInv'
  <2> DEFINE new == message(o, 0, "work")
  <2>1. new \in Messages /\ new.obj = o /\ new.attempt = 0 /\ new.at = "work"
    BY Zenon DEF message, Messages
  <2>2. /\ queues' = Plus(queues, new) /\ wanted' = wanted \cup {o} /\ o \in exists
        /\ UNCHANGED <<exists, held, wpc, reconciler, failed, crashes, deletes>>
    BY Zenon, <1>7 DEF Publish
  <2> HIDE DEF new
  <2>3. D' = D \cup {new}
    BY Zenon, <2>2, BagDomains DEF D
  <2>4. Paid(new, failed)
    BY <1>0, <2>1 DEF Paid
  <2> QED
    BY Zenon, <1>0, <1>1, <1>2, <2>1, <2>2, <2>3, <2>4
<1>8. ASSUME UNCHANGED <<queues, held, wpc, reconciler, failed, crashes>>, wanted' \subseteq exists', exists' \subseteq Objects,
             deletes' \in Nat
      PROVE  PaidInv'
  BY Zenon, <1>0, <1>1, <1>2, <1>8 DEF D
<1>9. ASSUME NEW o \in Objects, DeleteObject(o) \/ Put(o) PROVE PaidInv'
  BY <1>0, <1>8, <1>9 DEF DeleteObject, Put, envVars
<1>10. ASSUME windowElapses \/ goesDown \/ comesUp \/ UNCHANGED vars PROVE PaidInv'
  BY Zenon, <1>0, <1>8, <1>10 DEF windowElapses, goesDown, comesUp, vars, envVars, workerVars
<1> QED
  BY Zenon, <1>3, <1>4, <1>5, <1>6, <1>7, <1>9, <1>10 DEF Next, reconcile

\* The queues and the workers start empty.
LEMMA Starts == Init => PaidInv /\ JobsKept
<1> SUFFICES ASSUME Init PROVE PaidInv /\ JobsKept
  BY Zenon
<1>1. DOMAIN queues = {} /\ off \in Runs /\ "idle" \in Places /\ off.at = "off" /\ off.msg = None /\ off.seen = {}
  BY DEF Init, off, Runs, Phases, Places
<1>2. JobTypes
  BY Zenon, <1>1 DEF Init, JobTypes
<1>3. Hands \ {None} = {}
  BY Zenon, <1>1 DEF Init, Hands
<1>4. RetriesPaid
  BY Zenon, <1>1, <1>3 DEF Init, RetriesPaid
<1>5. JobsKept
  BY Zenon, <1>1 DEF Init, JobsKept
<1> QED
  BY Zenon, <1>2, <1>4, <1>5 DEF PaidInv

\* Parking a job, redelivering it after a crash or passing it through
\* reconcile-pending never costs it one of its retries.
THEOREM RetriesAlwaysEarned == Spec => []RetriesEarned
<1>1. Init => PaidInv
  BY Zenon, Starts
<1>2. PaidInv => RetriesEarned
  <2> SUFFICES ASSUME PaidInv, NEW m \in jobs PROVE m.attempt <= failed[m.obj]
    BY Zenon DEF RetriesEarned
  <2>1. m \in Messages /\ Paid(m, failed)
    BY DEF PaidInv, JobTypes, RetriesPaid, jobs, Hands, Runs
  <2>2. m.attempt \in Nat /\ failed[m.obj] \in Nat
    BY Zenon, <2>1 DEF Messages, PaidInv, JobTypes
  <2> QED
    BY <2>1, <2>2 DEF Paid
<1> QED
  BY <1>1, <1>2, PaidStep, PTL DEF Spec

-----------------------------------------------------------------------------
(* No job is lost *)

\* At most one run of reconcile-pending at a time.
OneRun == \A p, q \in Operators : reconciler[p].at # "off" /\ reconciler[q].at # "off" => p = q

\* Whatever the workers, the router, the broker, the one run of reconcile-pending
\* and the crashes do, the job of an object without its annotation stays.
LEMMA KeptStep == PaidInv /\ JobsKept /\ OneRun /\ [Next]_vars => JobsKept'
<1> SUFFICES ASSUME PaidInv, JobsKept, OneRun, [Next]_vars PROVE JobsKept'
  BY Zenon
<1> DEFINE D == DOMAIN queues
           H == Hands \ {None}
<1>0. /\ JobTypes /\ D \subseteq Messages /\ None \notin Messages
      /\ held \in [Workers -> Messages \cup {None}] /\ wpc \in [Workers -> Places]
      /\ \A w \in Workers : held[w] = None <=> wpc[w] = "idle"
      /\ reconciler \in [Operators -> Runs]
      /\ wanted \subseteq exists /\ exists \subseteq Objects /\ crashes \in Nat /\ deletes \in Nat
      /\ \A q \in Operators : reconciler[q].msg = None <=> reconciler[q].at # "check"
  BY Zenon, NoneIsNone DEF PaidInv, JobTypes
<1>h. /\ \A x : x \in H <=> /\ x # None
                            /\ (\E w \in Workers : x = held[w]) \/ \E q \in Operators : x = reconciler[q].msg
      /\ \A x : x \in H' <=> /\ x # None
                             /\ (\E w \in Workers : x = held'[w]) \/ \E q \in Operators : x = reconciler'[q].msg
  BY Zenon DEF Hands
<1>1. /\ deletes = 0 => exists = Objects /\ cache \subseteq annotated
      /\ \A w \in Workers : wpc[w] = "done" => held[w].obj \in cache
      /\ \A q \in Operators : reconciler[q].at \in {"pass", "check"} =>
            \A o \in reconciler[q].seen : \E m \in D : m.at = "scratch" /\ m.obj = o
      /\ deletes = 0 \/ crashes = 0 => \A o \in wanted \ Done : \E m \in D \cup H : m.obj = o
  BY Zenon DEF JobsKept, in
<1>2. ASSUME deletes' = 0 => exists' = Objects /\ cache' \subseteq annotated',
             \A w \in Workers : wpc'[w] = "done" => held'[w].obj \in cache',
             \A q \in Operators : reconciler'[q].at \in {"pass", "check"} =>
                \A o \in reconciler'[q].seen : \E m \in D' : m.at = "scratch" /\ m.obj = o,
             deletes' = 0 \/ crashes' = 0 => \A o \in wanted' \ Done' : \E m \in D' \cup H' : m.obj = o
      PROVE  JobsKept'
  BY Zenon, <1>2 DEF JobsKept, in
<1> HIDE DEF D, H
\* The steps that change no object, annotation, cache or count.
<1>3. ASSUME UNCHANGED <<exists, wanted, deletes, annotated, cache>>, crashes' \in {crashes, crashes + 1},
             \A w \in Workers : wpc'[w] = "done" => held'[w].obj \in cache,
             \A q \in Operators : reconciler'[q].at \in {"pass", "check"} =>
                \A o \in reconciler'[q].seen : \E m \in D' : m.at = "scratch" /\ m.obj = o,
             \A m \in D \cup H : m.obj \in wanted \ Done => \E n \in D' \cup H' : n.obj = m.obj
      PROVE  JobsKept'
  <2>1. Done' = Done
    BY Zenon, <1>3 DEF Done
  <2>2. deletes' = 0 \/ crashes' = 0 => deletes = 0 \/ crashes = 0
    BY <1>0, <1>3
  <2>3. deletes' = 0 \/ crashes' = 0 => \A o \in wanted \ Done : \E m \in D' \cup H' : m.obj = o
    BY <1>1, <1>3, <2>2
  <2> QED
    BY Zenon, <1>1, <1>2, <1>3, <2>1, <2>3
\* The scratch queue keeps what it has.
<1>s. ASSUME reconciler' = reconciler, \A m \in D : m.at = "scratch" => m \in D'
      PROVE  \A q \in Operators : reconciler'[q].at \in {"pass", "check"} =>
                \A o \in reconciler'[q].seen : \E m \in D' : m.at = "scratch" /\ m.obj = o
  BY Zenon, <1>1, <1>s
<1>4. ASSUME NEW w \in Workers, Receive(w) \/ handle(w) \/ jobFails(w) PROVE JobsKept'
  <2>0. UNCHANGED <<exists, wanted, reconciler, crashes, deletes>>
    BY Zenon, <1>0, <1>4, WorkerActs
  <2>1. ASSUME NEW m, takesJob(w, m) PROVE JobsKept'
    <3>1. /\ held' = [held EXCEPT ![w] = m] /\ wpc' = [wpc EXCEPT ![w] = "received"] /\ held[w] = None
          /\ m \in D /\ m.at = "work" /\ D \ {m} \subseteq D' /\ UNCHANGED <<annotated, cache>>
      BY Zenon, <1>0, <2>1 DEF takesJob, D
    <3>2. m # None /\ m \in H'
      BY <1>0, <1>h, <3>1
    <3>3. \A x \in D \cup H : x \in D' \cup H'
      BY <1>0, <1>h, <2>0, <3>1, <3>2
    <3>4. \A v \in Workers : wpc'[v] = "done" => held'[v].obj \in cache
      BY <1>0, <1>1, <3>1
    <3> QED
      BY Zenon, <1>3, <1>s, <2>0, <3>1, <3>3, <3>4
  <2>2. ASSUME NEW x \in {"analyze", "done", "failed"}, keepsJob(w, x) PROVE JobsKept'
    <3>1. /\ wpc[w] # "idle" /\ wpc' = [wpc EXCEPT ![w] = x] /\ held' = held /\ D' = D
          /\ x = "done" => held[w].obj \in cache'
          /\ cache \subseteq cache' /\ annotated \subseteq annotated'
          /\ cache' \subseteq cache \cup annotated \cup {held[w].obj}
          /\ cache' = cache \/ held[w].obj \in annotated' \/ held[w].obj \in cache
      BY Zenon, <2>2 DEF keepsJob, D
    <3>2. H' = H
      BY Zenon, <2>0, <3>1 DEF H, Hands
    <3>3. Done \subseteq Done'
      BY Zenon, <2>0, <3>1 DEF Done
    <3>4. deletes = 0 => cache' \subseteq annotated'
      BY Zenon, <1>1, <3>1
    <3>5. \A v \in Workers : wpc'[v] = "done" => held'[v].obj \in cache'
      BY <1>0, <1>1, <3>1
    <3>6. deletes' = 0 \/ crashes' = 0 => \A o \in wanted' \ Done' : \E m \in D' \cup H' : m.obj = o
      BY Zenon, <1>1, <2>0, <3>1, <3>2, <3>3
    <3> QED
      BY Zenon, <1>1, <1>2, <1>s, <2>0, <3>1, <3>4, <3>5, <3>6
  <2>3. ASSUME NEW new, returnsJob(w, new) PROVE JobsKept'
    <3>1. /\ held' = [held EXCEPT ![w] = None] /\ wpc' = [wpc EXCEPT ![w] = "idle"] /\ UNCHANGED <<annotated, cache>>
          /\ D' = D \cup {new} /\ new.obj = held[w].obj
      BY Zenon, <2>3 DEF returnsJob, D
    <3>2. \A x \in D \cup H : \E n \in D' \cup H' : n.obj = x.obj
      BY <1>0, <1>h, <2>0, <3>1
    <3>3. \A v \in Workers : wpc'[v] = "done" => held'[v].obj \in cache
      BY <1>0, <1>1, <3>1
    <3> QED
      BY Zenon, <1>3, <1>s, <2>0, <3>1, <3>2, <3>3
  <2>4. ASSUME dropsJob(w) PROVE JobsKept'
    <3>1. /\ held' = [held EXCEPT ![w] = None] /\ wpc' = [wpc EXCEPT ![w] = "idle"] /\ UNCHANGED <<annotated, cache>>
          /\ D' = D /\ (wpc[w] = "done" \/ held[w].obj \notin exists)
      BY Zenon, <2>4 DEF dropsJob, D
    <3>2. held[w].obj \notin wanted \ Done
      <4>1. cache \subseteq Done
        BY Zenon, <1>1 DEF Done
      <4> QED
        BY Zenon, <1>0, <1>1, <3>1, <4>1
    <3>3. \A x \in D \cup H : x.obj \in wanted \ Done => x \in D' \cup H'
      BY <1>0, <1>h, <2>0, <3>1, <3>2
    <3>4. \A v \in Workers : wpc'[v] = "done" => held'[v].obj \in cache
      BY <1>0, <1>1, <3>1
    <3> QED
      BY Zenon, <1>3, <1>s, <2>0, <3>1, <3>3, <3>4
  <2> QED
    BY Zenon, <1>0, <1>4, <2>1, <2>2, <2>3, <2>4, WorkerActs
<1>5. ASSUME workerCrash \/ \E w \in Workers : retryCrash(w) PROVE JobsKept'
  <2>1. /\ UNCHANGED <<exists, annotated, wanted, reconciler, deletes>> /\ crashes' = crashes + 1 /\ cache' = {}
        /\ held' = [w \in Workers |-> None] /\ wpc' = [w \in Workers |-> "idle"]
        /\ D \subseteq D' /\ \A w \in Workers : held[w] # None => held[w] \in D'
    BY Zenon, <1>0, <1>5, CrashActs DEF D
  <2>2. D \cup H \subseteq D' \cup H'
    BY <1>h, <2>1
  <2>3. deletes' = 0 \/ crashes' = 0 => deletes = 0 /\ Done' = Done
    BY <1>0, <2>1 DEF Done
  <2>4. deletes' = 0 \/ crashes' = 0 => \A o \in wanted' \ Done' : \E m \in D' \cup H' : m.obj = o
    BY Zenon, <1>1, <2>1, <2>2, <2>3
  <2> QED
    BY Zenon, <1>1, <1>2, <1>s, <2>1, <2>4
<1>6. ASSUME ProcessFailures \/ routerCrash \/ retryExpires \/ RequeueDeadLetters
             \/ \E q \in Operators : drainReconcileByAnalyzer(q)
      PROVE  JobsKept'
  <2>1. UNCHANGED <<held, wpc, cache, annotated, reconciler, wanted, exists, deletes>> /\ crashes' \in {crashes, crashes + 1}
    BY Zenon, <1>6 DEF ProcessFailures, routerCrash, retryExpires, RequeueDeadLetters, drainReconcileByAnalyzer, envVars, workerVars
  <2>2. PICK m \in D, new \in Messages :
            /\ MovesTo(m, new) /\ new.obj = m.obj
            /\ m.at = "scratch" => \E q \in Operators : reconciler[q].at \in {"drain", "return"}
    BY Zenon, <1>0, <1>6, QueueMoves DEF D
  <2>3. (D \ {m}) \cup {new} \subseteq D'
    BY Zenon, <2>2 DEF MovesTo, D
  <2>4. H' = H
    BY Zenon, <2>1 DEF H, Hands
  <2>5. \A x \in D \cup H : \E n \in D' \cup H' : n.obj = x.obj
    BY Zenon, <2>2, <2>3, <2>4
  <2>6. \A q \in Operators : reconciler'[q].at \in {"pass", "check"} =>
           \A o \in reconciler'[q].seen : \E n \in D' : n.at = "scratch" /\ n.obj = o
    <3>1. CASE m.at = "scratch"
      <4>1. PICK q \in Operators : reconciler[q].at \in {"drain", "return"}
        BY Zenon, <2>2, <3>1
      <4>2. \A p \in Operators : reconciler[p].at \notin {"pass", "check"}
        BY Zenon, <4>1 DEF OneRun
      <4> QED
        BY Zenon, <2>1, <4>2
    <3>2. CASE m.at # "scratch"
      BY Zenon, <1>s, <2>1, <2>3, <3>2
    <3> QED
      BY Zenon, <3>1, <3>2
  <2> QED
    BY Zenon, <1>1, <1>3, <2>1, <2>5, <2>6
<1>7. ASSUME NEW q \in Operators,
             ReconcilePending(q) \/ reconcileTakes(q) \/ reconcileChecks(q) \/ loopEnds(q) \/ reconcileStops(q)
      PROVE  JobsKept'
  <2>0. UNCHANGED <<exists, annotated, wanted, deletes, held, wpc, cache>> /\ crashes' \in {crashes, crashes + 1}
    BY Zenon, <1>0, <1>7, RunActs
  <2>1. PICK new \in Runs :
           /\ reconciler' = [reconciler EXCEPT ![q] = new]
           /\ \/ runMoves(q, new) \/ runTakes(q, new) \/ runDrops(q, new)
              \/ \E m \in Messages : runKeeps(q, new, m)
              \/ new = off /\ runStops(q)
    BY Zenon, <1>0, <1>7, RunActs
  <2>n. reconciler'[q] = new /\ \A p \in Operators : p # q => reconciler'[p] = reconciler[p]
    BY Zenon, <1>0, <2>1
  <2>2. ASSUME \A m \in D : m.at = "scratch" => m \in D',
               new.at \in {"pass", "check"} => \A o \in new.seen : \E m \in D' : m.at = "scratch" /\ m.obj = o,
               \A m \in D \cup {reconciler[q].msg} :
                  m # None /\ m.obj \in wanted \ Done => \E n \in D' \cup ({new.msg} \ {None}) : n.obj = m.obj
        PROVE  JobsKept'
    <3>1. \A p \in Operators : reconciler'[p].at \in {"pass", "check"} =>
             \A o \in reconciler'[p].seen : \E m \in D' : m.at = "scratch" /\ m.obj = o
      <4>1. ASSUME NEW p \in Operators, p # q, reconciler'[p].at \in {"pass", "check"}
            PROVE  \A o \in reconciler'[p].seen : \E m \in D' : m.at = "scratch" /\ m.obj = o
        <5>1. \A o \in reconciler[p].seen : \E m \in D : m.at = "scratch" /\ m.obj = o
          BY Zenon, <1>1, <2>n, <4>1
        <5> QED
          BY Zenon, <2>2, <2>n, <4>1, <5>1
      <4> QED
        BY Zenon, <2>n, <2>2, <4>1
    <3>2. D' \cup ({new.msg} \ {None}) \subseteq D' \cup H'
      BY ZenonT(30), <1>0, <1>h, <2>1
    <3>3. \A m \in D \cup H : m.obj \in wanted \ Done => \E n \in D' \cup H' : n.obj = m.obj
      <4> SUFFICES ASSUME NEW m \in D \cup H, m.obj \in wanted \ Done PROVE \E n \in D' \cup H' : n.obj = m.obj
        BY Zenon
      <4>1. CASE m \in D \/ m = reconciler[q].msg
        BY <1>0, <1>h, <2>2, <3>2, <4>1
      <4>2. CASE m \in H /\ m # reconciler[q].msg
        <5>0. held' = held
          BY Zenon, <2>0
        <5>1. m \in H'
          BY <1>h, <2>n, <4>2, <5>0
        <5> QED
          BY Zenon, <5>1
      <4> QED
        BY Zenon, <4>1, <4>2
    <3> QED
      BY Zenon, <1>1, <1>3, <2>0, <3>1, <3>3
  <2>3. CASE runMoves(q, new)
    BY Zenon, <1>1, <2>2, <2>3 DEF runMoves, D
  <2>4. CASE runTakes(q, new)
    <3>1. /\ reconciler[q].at = "pass" /\ new.seen = reconciler[q].seen /\ new.msg \in D /\ new.msg.at = "work"
          /\ D \ {new.msg} \subseteq D' /\ reconciler[q].msg = None /\ new.msg # None
      BY Zenon, <1>0, <2>4 DEF runTakes, D
    <3>2. \A m \in D : m.at = "scratch" => m \in D'
      BY Zenon, <3>1
    <3> QED
      BY Zenon, <1>1, <2>2, <3>1, <3>2
  <2>5. CASE runDrops(q, new)
    <3>1. /\ reconciler[q].at = "check" /\ new.seen = reconciler[q].seen /\ D' = D
          /\ reconciler[q].msg.obj \in annotated \cup reconciler[q].seen
      BY Zenon, <2>5 DEF runDrops, dropped, D
    <3>2. reconciler[q].msg.obj \in wanted \ Done => \E n \in D' : n.obj = reconciler[q].msg.obj
      <4>1. CASE reconciler[q].msg.obj \in annotated
        BY Zenon, <4>1 DEF Done
      <4>2. CASE reconciler[q].msg.obj \in reconciler[q].seen
        <5>1. reconciler[q].at \in {"pass", "check"}
          BY Zenon, <3>1
        <5>2. \E m \in D : m.obj = reconciler[q].msg.obj
          BY ZenonT(30), <1>1, <4>2, <5>1
        <5> QED BY Zenon, <3>1, <5>2
      <4> QED BY Zenon, <3>1, <4>1, <4>2
    <3> QED
      BY <1>1, <2>2, <3>1, <3>2
  <2>6. ASSUME NEW m \in Messages, runKeeps(q, new, m) PROVE JobsKept'
    <3>1. /\ reconciler[q].at = "check" /\ new.seen = reconciler[q].seen \cup {m.obj} /\ D' = D \cup {m}
          /\ m.obj = reconciler[q].msg.obj /\ m.at = "scratch"
      BY Zenon, <2>6 DEF runKeeps, D
    <3> QED
      BY Zenon, <1>1, <2>2, <3>1
  <2>7. CASE new = off /\ runStops(q)
    <3>1. D \cup ({reconciler[q].msg} \ {None}) \subseteq D' /\ new.at = "off"
      BY Zenon, <2>7 DEF runStops, D, off
    <3> QED
      BY Zenon, <2>2, <3>1
  <2> QED
    BY Zenon, <2>1, <2>3, <2>4, <2>5, <2>6, <2>7
<1>8. ASSUME NEW o \in Objects, Publish(o) PROVE JobsKept'
  <2> DEFINE new == message(o, 0, "work")
  <2>1. new.obj = o
    BY Zenon DEF message
  <2>2. /\ queues' = Plus(queues, new) /\ wanted' = wanted \cup {o}
        /\ UNCHANGED <<exists, held, wpc, cache, annotated, reconciler, crashes, deletes>>
    BY Zenon, <1>8 DEF Publish
  <2> HIDE DEF new
  <2>3. D' = D \cup {new}
    BY Zenon, <2>2, BagDomains DEF D
  <2>4. H' = H /\ Done' = Done
    BY Zenon, <2>2 DEF H, Hands, Done
  <2> QED
    BY Zenon, <1>1, <1>2, <1>s, <2>1, <2>2, <2>3, <2>4
<1>9. ASSUME NEW o \in Objects, DeleteObject(o) PROVE JobsKept'
  <2>1. /\ deletes' = deletes + 1 /\ deletes' # 0 /\ annotated' = annotated \ {o} /\ wanted' = wanted \ {o}
        /\ UNCHANGED <<queues, held, wpc, cache, reconciler, crashes>>
    BY <1>0, <1>9 DEF DeleteObject
  <2>2. D' = D /\ H' = H
    BY Zenon, <2>1 DEF D, H, Hands
  <2>3. wanted' \ Done' \subseteq wanted \ Done
    BY Zenon, <2>1 DEF Done
  <2> QED
    BY Zenon, <1>1, <1>2, <1>s, <2>1, <2>2, <2>3
<1>10. ASSUME NEW o \in Objects, Put(o) PROVE JobsKept'
  <2>1. /\ o \notin exists /\ exists' = exists \cup {o}
        /\ UNCHANGED <<queues, held, wpc, cache, annotated, wanted, reconciler, crashes, deletes>>
    BY Zenon, <1>10 DEF Put, envVars
  <2>2. D' = D /\ H' = H /\ Done' = Done
    BY Zenon, <2>1 DEF D, H, Hands, Done
  <2> QED
    BY Zenon, <1>1, <1>2, <1>s, <2>1, <2>2
<1>11. ASSUME windowElapses \/ goesDown \/ comesUp \/ UNCHANGED vars PROVE JobsKept'
  <2>1. UNCHANGED <<queues, held, wpc, cache, annotated, wanted, exists, reconciler, crashes, deletes>>
    BY Zenon, <1>11 DEF windowElapses, goesDown, comesUp, vars, envVars, workerVars
  <2>2. D' = D /\ H' = H
    BY Zenon, <2>1 DEF D, H, Hands
  <2> QED
    BY Zenon, <1>1, <1>3, <1>s, <2>1, <2>2
<1> QED
  BY Zenon, <1>4, <1>5, <1>6, <1>7, <1>8, <1>9, <1>10, <1>11 DEF Next, reconcile

\* As long as runs of reconcile-pending do not overlap, a job that was published
\* stays on a queue or in someone's hands until its annotation is stored.
THEOREM JobsAreNeverLost == Spec /\ []OneRun => []JobsNeverLost
<1>1. PaidInv /\ JobsKept => JobsNeverLost
  BY Zenon DEF JobsKept, JobsNeverLost, jobs, Hands, Done
<1> QED
  BY <1>1, Starts, PaidStep, KeptStep, PTL DEF Spec
=============================================================================
