---------------------------- MODULE ServiceProofs ----------------------------
(***************************************************************************)
(* Proofs about three services the rest of the system stands on: the       *)
(* operations callers share instead of repeating, the pool of backend      *)
(* processes, and the queue of archive imports.                            *)
(***************************************************************************)
EXTENDS Operations, BackendPool, ArchiveQueue, TLAPS, FiniteSetTheorems

(* Shared operations *)

\* The places of callers and executors.
CallerPlaces == {"idle", "select", "conflict", "join", "insert", "created", "wait", "unwait"}
ExecutorPlaces == {"work", "complete", "fail", "finish"}

OperationTypes ==
  /\ records \in Seq({"running", "complete", "failed"})
  /\ caller \in [Callers -> [at : CallerPlaces, op : Nat]]
  /\ executor \in [DOMAIN executor -> ExecutorPlaces]
  /\ DOMAIN executor \subseteq ids

\* The inductive invariant of the shared operations: the unique index leaves one
\* running record; a creator's record exists; an executor that has nothing more
\* to do has ended its record, or could not and orphaned it.
OperationsInv ==
  /\ OperationTypes
  /\ \A i, j \in running : i = j
  /\ \A c \in Callers : caller[c].at = "created" => opOf(c) \in ids
  /\ \A i \in DOMAIN executor : executor[i] = "finish" => i \in finished \cup orphaned
  /\ \A i \in running \ orphaned :
        i \in DOMAIN executor \/ \E c \in Callers : caller[c] = [at |-> "created", op |-> i]

\* A set without two different elements has at most one.
LEMMA AtMostOne ==
  ASSUME NEW S, \A x, y \in S : x = y
  PROVE  Cardinality(S) <= 1
<1>1. CASE S = {}
  BY <1>1, FS_EmptySet
<1>2. CASE S # {}
  <2>1. PICK x : S = {x}
    BY <1>2
  <2>2. Cardinality({x}) = 1
    BY FS_Singleton, Zenon
  <2> QED
    BY <2>1, <2>2
<1> QED
  BY Zenon, <1>1, <1>2

\* What the steps that only move a caller preserve.
LEMMA CallerMoves ==
  ASSUME OperationsInv, NEW c \in Callers, NEW place \in CallerPlaces, NEW i \in Nat,
         caller[c].at # "created", place # "created",
         to(c, place, i), UNCHANGED <<records, executor, orphaned>>
  PROVE  OperationsInv'
<1>1. OperationTypes'
  BY Zenon DEF OperationsInv, OperationTypes, to, ids
<1>2. \A d \in Callers : caller'[d] = caller[d] \/ (d = c /\ caller'[d].at = place)
  BY Zenon DEF OperationsInv, OperationTypes, to
<1>3. \A d \in Callers : caller[d].at = "created" => caller'[d] = caller[d]
  BY Zenon DEF OperationsInv, OperationTypes, to
<1> QED
  BY <1>1, <1>2, <1>3 DEF OperationsInv, running, finished, ids, opOf

\* What the steps that only move an executor preserve.
LEMMA ExecutorMoves ==
  ASSUME OperationsInv, NEW i \in DOMAIN executor, NEW place \in ExecutorPlaces \ {"finish"},
         step(i, place), UNCHANGED <<records, caller, orphaned>>
  PROVE  OperationsInv'
<1>1. DOMAIN executor' = DOMAIN executor /\ \A j \in DOMAIN executor : j # i => executor'[j] = executor[j]
  BY Zenon DEF OperationsInv, OperationTypes, step
<1>2. executor'[i] = place
  BY Zenon DEF OperationsInv, OperationTypes, step
<1>3. OperationTypes'
  BY Zenon, <1>1, <1>2 DEF OperationsInv, OperationTypes, step, ids
<1> QED
  BY Zenon, <1>1, <1>2, <1>3 DEF OperationsInv, running, finished, ids, opOf

\* A record that is inserted is the only running one.
LEMMA Inserts ==
  ASSUME OperationsInv, NEW c \in Callers, caller[c].at = "insert", running = {},
         records' = Append(records, "running"), UNCHANGED executor,
         \/ to(c, "created", Len(records) + 1) /\ UNCHANGED orphaned
         \/ to(c, "idle", 0) /\ orphaned' = orphaned \cup {Len(records) + 1}
  PROVE  OperationsInv'
<1> DEFINE new == Len(records) + 1
<1>1. /\ Len(records) \in Nat /\ new \in Nat /\ ids' = ids \cup {new} /\ new \notin ids
      /\ records'[new] = "running" /\ \A i \in ids : records'[i] = records[i]
      /\ records' \in Seq({"running", "complete", "failed"})
  BY DEF OperationsInv, OperationTypes, ids
<1>2. running' = {new} /\ finished \subseteq finished'
  BY Zenon, <1>1 DEF running, finished
<1>0. PICK place \in {"created", "idle"}, n \in Nat :
         /\ caller' = [caller EXCEPT ![c] = [at |-> place, op |-> n]]
         /\ place = "created" => n = new
  BY Zenon, <1>1 DEF to
<1>3. caller' \in [Callers -> [at : CallerPlaces, op : Nat]]
  BY Zenon, <1>0 DEF OperationsInv, OperationTypes, CallerPlaces
<1>4. OperationTypes'
  BY Zenon, <1>1, <1>3 DEF OperationsInv, OperationTypes
<1>5. \A d \in Callers : caller'[d].at = "created" => opOf(d)' \in ids'
  BY Zenon, <1>0, <1>1 DEF OperationsInv, OperationTypes, opOf
<1>6. new \in orphaned' \/ caller'[c] = [at |-> "created", op |-> new]
  BY DEF OperationsInv, OperationTypes, to
<1> QED
  BY Zenon, <1>1, <1>2, <1>4, <1>5, <1>6 DEF OperationsInv

\* An executor that ends its record.
LEMMA Ends ==
  ASSUME OperationsInv, NEW i \in DOMAIN executor, NEW status \in {"complete", "failed"},
         records' = [records EXCEPT ![i] = status], step(i, "finish"),
         UNCHANGED <<caller, orphaned>>
  PROVE  OperationsInv'
<1>1. /\ records' \in Seq({"running", "complete", "failed"}) /\ ids' = ids
      /\ records'[i] = status /\ \A j \in ids : j # i => records'[j] = records[j]
  BY DEF OperationsInv, OperationTypes, ids
<1>2. running' = running \ {i} /\ finished' = finished \cup {i}
  BY <1>1 DEF OperationsInv, OperationTypes, running, finished
<1>3. DOMAIN executor' = DOMAIN executor /\ \A j \in DOMAIN executor : j # i => executor'[j] = executor[j]
  BY Zenon DEF OperationsInv, OperationTypes, step
<1>4. OperationTypes'
  BY Zenon, <1>1, <1>3 DEF OperationsInv, OperationTypes, step, ExecutorPlaces
<1> QED
  BY Zenon, <1>1, <1>2, <1>3, <1>4 DEF OperationsInv, opOf

\* Every request, insert, conflict, execution, restart and stutter keeps the
\* invariant of the shared operations.
LEMMA OperationsStep == OperationsInv /\ [OperationsNext]_opsVars => OperationsInv'
<1> SUFFICES ASSUME OperationsInv, [OperationsNext]_opsVars PROVE OperationsInv'
  BY Zenon
<1>t. OperationTypes
  BY Zenon DEF OperationsInv
<1>1. ASSUME NEW c \in Callers, runOperation(c) PROVE OperationsInv'
  BY Zenon, <1>1, CallerMoves DEF runOperation, opStore, CallerPlaces
<1>2. ASSUME NEW c \in Callers, runningOperationByRequestHash(c) PROVE OperationsInv'
  <2>1. CASE \E i \in running : to(c, "join", i)
    <3>1. PICK i \in running : to(c, "join", i)
      BY Zenon, <2>1
    <3>2. i \in Nat
      BY <1>t DEF OperationTypes, running, ids
    <3> QED
      BY Zenon, <1>2, <3>1, <3>2, CallerMoves DEF runningOperationByRequestHash, opStore, CallerPlaces
  <2>2. CASE to(c, "insert", 0) \/ to(c, "idle", 0)
    BY Zenon, <1>2, <2>2, CallerMoves DEF runningOperationByRequestHash, opStore, CallerPlaces
  <2> QED
    BY Zenon, <1>2, <2>1, <2>2 DEF runningOperationByRequestHash
<1>3. ASSUME NEW c \in Callers, insertOperation(c) PROVE OperationsInv'
  <2>1. CASE running = {}
    BY Zenon, <1>3, <2>1, Inserts DEF insertOperation
  <2>2. CASE running # {}
    BY Zenon, <1>3, <2>2, CallerMoves DEF insertOperation, CallerPlaces
  <2> QED
    BY Zenon, <2>1, <2>2
<1>4. ASSUME NEW c \in Callers, startOperation(c) PROVE OperationsInv'
  <2> DEFINE i == opOf(c)
  <2>1. i \in ids /\ i \in Nat
    BY Zenon, <1>4 DEF OperationsInv, OperationTypes, startOperation, opOf, ids
  <2>2. DOMAIN executor' = DOMAIN executor \cup {i} /\ executor'[i] = "work"
        /\ \A j \in DOMAIN executor : j # i => executor'[j] = executor[j]
    BY Zenon, <1>4 DEF startOperation
  <2>3. executor' \in [DOMAIN executor' -> ExecutorPlaces]
    BY Zenon, <1>4, <1>t, <2>2 DEF OperationTypes, ExecutorPlaces, startOperation
  <2>4. OperationTypes'
    BY Zenon, <1>4, <1>t, <2>1, <2>2, <2>3 DEF OperationTypes, startOperation, to, opStore, ids, CallerPlaces
  <2>5. \A d \in Callers : d # c => caller'[d] = caller[d]
    BY Zenon, <1>4, <1>t DEF startOperation, to, OperationTypes
  <2>6. caller'[c].at = "wait"
    BY Zenon, <1>4, <1>t DEF startOperation, to, OperationTypes
  <2>7. \A j \in running \ orphaned : j \in DOMAIN executor'
                 \/ \E d \in Callers : caller'[d] = [at |-> "created", op |-> j]
    <3> SUFFICES ASSUME NEW j \in running \ orphaned, j \notin DOMAIN executor, j # i
                 PROVE  \E d \in Callers : caller'[d] = [at |-> "created", op |-> j]
      BY Zenon, <2>2
    <3>1. PICK d \in Callers : caller[d] = [at |-> "created", op |-> j]
      BY Zenon DEF OperationsInv
    <3>2. d # c
      BY <3>1 DEF opOf
    <3> QED
      BY Zenon, <3>1, <3>2, <2>5
  <2>8. UNCHANGED <<records, orphaned>>
    BY Zenon, <1>4 DEF startOperation, opStore
  <2> QED
    BY <2>2, <2>4, <2>5, <2>6, <2>7, <2>8 DEF OperationsInv, running, finished, ids, opOf
<1>5. ASSUME NEW c \in Callers, joinOperation(c) PROVE OperationsInv'
  BY Zenon, <1>5, <1>t, CallerMoves DEF joinOperation, opStore, opOf, CallerPlaces, OperationTypes
<1>6. ASSUME NEW c \in Callers, finishOperationWaiter(c) PROVE OperationsInv'
  BY Zenon, <1>6, <1>t, CallerMoves DEF finishOperationWaiter, opStore, opOf, CallerPlaces, OperationTypes
<1>7. ASSUME NEW c \in Callers, waitForOperation(c) \/ leave(c) \/ callerFault(c) PROVE OperationsInv'
  BY Zenon, <1>7, CallerMoves DEF waitForOperation, leave, callerFault, opStore, CallerPlaces
<1>8. ASSUME NEW c \in Callers, insertUnanswered(c) PROVE OperationsInv'
  BY Zenon, <1>8, Inserts DEF insertUnanswered
<1>9. ASSUME NEW c \in Callers, NEW i \in 1 .. MaxOperations, OperationResume(c, i) PROVE OperationsInv'
  <2>1. CASE i \in ids
    BY <1>9, <2>1, OperationsAssumption, CallerMoves DEF OperationResume, opStore, CallerPlaces
  <2>2. CASE i \notin ids
    BY <1>9, <2>2 DEF OperationResume, opStore, OperationsInv, OperationTypes, running, finished, ids, opOf
  <2> QED
    BY Zenon, <2>1, <2>2
<1>10. ASSUME NEW i \in DOMAIN executor, workEnds(i) \/ completeFault(i) PROVE OperationsInv'
  BY Zenon, <1>10, ExecutorMoves DEF workEnds, completeFault, opStore, ExecutorPlaces
<1>11. ASSUME NEW i \in DOMAIN executor, Complete(i) \/ Fail(i) PROVE OperationsInv'
  BY Zenon, <1>11, Ends DEF Complete, Fail
<1>12. ASSUME NEW i \in DOMAIN executor, failFault(i) PROVE OperationsInv'
  <2>1. DOMAIN executor' = DOMAIN executor /\ \A j \in DOMAIN executor : j # i => executor'[j] = executor[j]
    BY Zenon, <1>12, <1>t DEF OperationTypes, failFault, step
  <2>2. OperationTypes'
    BY Zenon, <1>12, <1>t, <2>1 DEF OperationTypes, failFault, step, ExecutorPlaces, ids
  <2> QED
    BY <1>12, <2>1, <2>2 DEF OperationsInv, failFault, running, finished, ids, opOf
<1>13. ASSUME NEW i \in DOMAIN executor, executorEnds(i) PROVE OperationsInv'
  <2>1. OperationTypes'
    BY Zenon, <1>13, <1>t DEF OperationTypes, executorEnds, opStore, ids
  <2> QED
    BY <1>13, <2>1 DEF OperationsInv, executorEnds, opStore, running, finished, ids, opOf
<1>14. ASSUME interfaceStops PROVE OperationsInv'
  <2>1. OperationTypes'
    BY <1>14, <1>t DEF OperationTypes, interfaceStops, ids, nobody, CallerPlaces
  <2> QED
    BY <1>14, <2>1 DEF OperationsInv, interfaceStops, running, finished, ids, opOf, nobody
<1>15. ASSUME UNCHANGED opsVars PROVE OperationsInv'
  BY Zenon, <1>15 DEF opsVars, OperationsInv, OperationTypes, running, finished, ids, opOf
<1> QED
  BY Zenon, <1>1, <1>2, <1>3, <1>4, <1>5, <1>6, <1>7, <1>8, <1>9, <1>10, <1>11, <1>12, <1>13, <1>14, <1>15
     DEF OperationsNext, requestStep, executeOperation

\* Identical requests share one execution, whatever the order of lookups, inserts
\* and conflicts, for any number of callers, operations, crashes and faults.
THEOREM ExecutionAlwaysShared == OperationsSpec => []SharedExecution
<1>1. OperationsInit => OperationsInv
  BY DEF OperationsInit, OperationsInv, OperationTypes, running, finished, ids, opOf, nobody, CallerPlaces
<1>2. OperationsInv => SharedExecution
  <2> SUFFICES ASSUME OperationsInv PROVE Cardinality(DOMAIN executor \ finished) <= 1
    BY Zenon DEF SharedExecution, OperationsInv
  <2>1. \A i, j \in DOMAIN executor \ finished : i = j
    BY Zenon DEF OperationsInv, OperationTypes, finished
  <2> QED
    BY Zenon, <2>1, AtMostOne
<1> QED
  BY <1>1, <1>2, OperationsStep, PTL DEF OperationsSpec

-----------------------------------------------------------------------------
(* The pool of backends *)

ClientPlaces == {"rest", "acquire"} \cup holding
ReaperPlaces == {"rest", "drain", "forget", "return", "put"}
Carrying == {"register", "await", "use", "forget"}
Backends == Processes \cup {NoBackend}

PoolTypes ==
  /\ slots \in Nat
  /\ ready \subseteq Processes /\ keep \subseteq Processes /\ alive \subseteq Processes
  /\ client \in [Clients -> [at : ClientPlaces, b : Backends]]
  /\ reaper \in [at : ReaperPlaces, b : Backends]
  /\ manager \in {"open", "quit", "closing", "closed"}

\* Every backend is in one place: a client has one exactly from the start of its
\* process until it is forgotten, when the process has ended; what closeAll has
\* still to close is all it has not missed.
PoolPlaced ==
  /\ \A c \in Clients : mine(c) # NoBackend <=> client[c].at \in Carrying
  /\ \A c \in Clients : client[c].at = "forget" => mine(c) \notin alive
  /\ alive \subseteq ready \cup keep \cup {mine(c) : c \in Clients}
  /\ ready \cap keep = {}
  /\ \A c \in Clients : mine(c) \notin ready \cup keep
  /\ \A c, d \in Clients : mine(c) = mine(d) /\ mine(c) # NoBackend => c = d
  /\ manager = "closing" => alive \subseteq closing \cup late
  /\ manager = "closed" => alive \subseteq late

\* Every slot is in its channel, with a backend, or with whoever gives it back.
PoolCount ==
  slots + Cardinality(ready) + Cardinality(keep) + Cardinality(holders) + reaping = MaxInstances

PoolInv == PoolTypes /\ PoolPlaced /\ PoolCount

\* The pool's channels and the clients that hold a slot can be counted.
LEMMA PoolFinite ==
  ASSUME PoolTypes
  PROVE  /\ IsFiniteSet(ready) /\ IsFiniteSet(keep) /\ IsFiniteSet(holders)
         /\ Cardinality(ready) \in Nat /\ Cardinality(keep) \in Nat /\ Cardinality(holders) \in Nat
<1>1. IsFiniteSet(ready) /\ IsFiniteSet(keep)
  BY Zenon, FS_Subset, BackendPoolAssumption DEF PoolTypes
<1>2. IsFiniteSet(holders)
  BY Zenon, FS_Subset, BackendPoolAssumption DEF holders
<1> QED
  BY Zenon, <1>1, <1>2, FS_CardinalityType

\* A client that takes a slot or a ready backend is one holder more.
LEMMA ClientEnters ==
  ASSUME PoolTypes, NEW c \in Clients, NEW place, NEW b, go(c, place, b),
         client[c].at \notin holding, place \in holding
  PROVE  Cardinality(holders)' = Cardinality(holders) + 1
<1>1. holders' = holders \cup {c} /\ c \notin holders
  BY Zenon DEF PoolTypes, go, at, holders
<1> QED
  BY Zenon, <1>1, PoolFinite, FS_AddElement

\* A client that goes on with its slot, or has none, changes no count.
LEMMA ClientStays ==
  ASSUME PoolTypes, NEW c \in Clients, NEW place, NEW b, go(c, place, b),
         client[c].at \in holding <=> place \in holding
  PROVE  Cardinality(holders)' = Cardinality(holders)
<1>1. holders' = holders
  BY Zenon DEF PoolTypes, go, at, holders
<1> QED
  BY Zenon, <1>1

\* A client that gives its slot or backend back is one holder less.
LEMMA ClientLeaves ==
  ASSUME PoolTypes, NEW c \in Clients, NEW place, NEW b, go(c, place, b),
         client[c].at \in holding, place \notin holding
  PROVE  Cardinality(holders)' = Cardinality(holders) - 1
<1>1. holders' = holders \ {c} /\ c \in holders
  BY Zenon DEF PoolTypes, go, at, holders
<1> QED
  BY Zenon, <1>1, PoolFinite, FS_RemoveElement

\* A client's step changes its own place and backend only.
LEMMA ClientGoes ==
  ASSUME PoolTypes, NEW c \in Clients, NEW place \in ClientPlaces, NEW b \in Backends, go(c, place, b)
  PROVE  /\ client' \in [Clients -> [at : ClientPlaces, b : Backends]]
         /\ client'[c].at = place /\ client'[c].b = b
         /\ \A d \in Clients \ {c} : client'[d] = client[d]
  BY Zenon DEF PoolTypes, go, at

\* A new process has a name that nobody uses.
LEMMA UnusedName ==
  ASSUME Processes \ inUse # {}
  PROVE  unusedName \in Processes \ inUse
  BY Zenon DEF unusedName

\* Run, acquire, start, await, release and discard keep the pool's types.
LEMMA ClientTypes ==
  ASSUME PoolInv, NEW c \in Clients, Run(c) \/ acquire(c) \/ runStep(c) \/ runFault(c)
  PROVE  PoolTypes'
<1>t. PoolTypes /\ mine(c) \in Backends /\ NoBackend \in Backends
  BY Zenon DEF PoolInv, PoolTypes, mine, Backends
<1>1. CASE Run(c) \/ acquireCancelled(c) \/ startFails(c) \/ register(c) \/ awaitReady(c) \/ forget(c)
  BY Zenon, <1>1, <1>t, ClientGoes
     DEF Run, acquireCancelled, startFails, register, awaitReady, forget, PoolTypes, channels, lifecycle,
         ClientPlaces, holding
<1>2. CASE acquireReady(c)
  <2>1. PICK b \in ready : ready' = ready \ {b} /\ go(c, "use", b)
    BY Zenon, <1>2 DEF acquireReady
  <2> QED
    BY Zenon, <1>2, <1>t, <2>1, ClientGoes DEF acquireReady, PoolTypes, lifecycle, ClientPlaces, holding, Backends
<1>3. CASE acquireSlot(c) \/ returnSlot(c)
  BY <1>3, <1>t, ClientGoes DEF acquireSlot, returnSlot, PoolTypes, lifecycle, ClientPlaces, holding
<1>4. CASE startProcess(c)
  <2>1. unusedName \in Processes
    BY Zenon, <1>4, UnusedName DEF startProcess
  <2> QED
    BY Zenon, <1>4, <1>t, <2>1, ClientGoes
       DEF startProcess, PoolTypes, channels, lifecycle, ClientPlaces, holding, Backends
<1>5. CASE awaitFails(c) \/ discard(c)
  BY Zenon, <1>5, <1>t, ClientGoes DEF awaitFails, discard, PoolTypes, channels, lifecycle, ClientPlaces, holding
<1>6. CASE release(c)
  <2>1. mine(c) \in Processes
    BY <1>6, <1>t DEF release, PoolTypes
  <2> QED
    BY Zenon, <1>6, <1>t, <2>1, ClientGoes DEF release, PoolTypes, lifecycle, ClientPlaces, holding
<1> QED
  BY Zenon, <1>1, <1>2, <1>3, <1>4, <1>5, <1>6 DEF acquire, runStep, runFault

\* A backend that a client takes, starts, gives back or loses stays in one place.
LEMMA ClientPlaced ==
  ASSUME PoolInv, NEW c \in Clients, Run(c) \/ acquire(c) \/ runStep(c) \/ runFault(c)
  PROVE  PoolPlaced'
<1>t. PoolTypes /\ PoolPlaced /\ mine(c) \in Backends /\ NoBackend \in Backends /\ NoBackend \notin Processes
  BY Zenon, BackendPoolAssumption DEF PoolInv, PoolTypes, mine, Backends
<1>1. CASE Run(c) \/ acquireCancelled(c) \/ startFails(c) \/ acquireSlot(c) \/ returnSlot(c)
  <2>1. PICK place \in ClientPlaces \ Carrying : go(c, place, NoBackend)
    BY Zenon, <1>1 DEF Run, acquireCancelled, startFails, acquireSlot, returnSlot, ClientPlaces, holding, Carrying
  <2>2. client[c].at \notin Carrying
    BY <1>1 DEF Run, acquireCancelled, startFails, acquireSlot, returnSlot, Carrying, at
  <2>3. UNCHANGED <<ready, keep, alive, closing, late, manager>>
    BY Zenon, <1>1 DEF Run, acquireCancelled, startFails, acquireSlot, returnSlot, channels, lifecycle
  <2>4. \A d \in Clients : mine(d)' = mine(d) /\ (client'[d] = client[d] \/ (d = c /\ client'[d].at = place))
    BY <1>t, <2>1, <2>2, ClientGoes DEF PoolPlaced, mine
  <2>5. \A d \in Clients : client'[d].at \in Carrying <=> client[d].at \in Carrying
    BY Zenon, <2>1, <2>2, <2>4
  <2>6. {mine(d) : d \in Clients}' = {mine(d) : d \in Clients}
    BY Zenon, <2>4
  <2> QED
    BY <1>t, <2>3, <2>4, <2>5, <2>6 DEF PoolPlaced, Carrying
<1>2. CASE register(c) \/ awaitReady(c)
  <2>1. PICK place \in Carrying \ {"forget"} : go(c, place, mine(c))
    BY Zenon, <1>2 DEF register, awaitReady, Carrying
  <2>2. client[c].at \in Carrying
    BY Zenon, <1>2 DEF register, awaitReady, Carrying
  <2>3. UNCHANGED <<ready, keep, alive, closing, late, manager>>
    BY Zenon, <1>2 DEF register, awaitReady, channels, lifecycle
  <2>4. \A d \in Clients : mine(d)' = mine(d) /\ (client'[d] = client[d] \/ (d = c /\ client'[d].at = place))
    BY <1>t, <2>1, ClientGoes DEF mine, Carrying, ClientPlaces, holding
  <2>6. {mine(d) : d \in Clients}' = {mine(d) : d \in Clients}
    BY Zenon, <2>4
  <2> QED
    BY <1>t, <2>1, <2>2, <2>3, <2>4, <2>6 DEF PoolPlaced
<1>3. CASE awaitFails(c) \/ discard(c)
  <2>1. go(c, "forget", mine(c)) /\ alive' = alive \ {mine(c)} /\ client[c].at \in Carrying
    BY Zenon, <1>3 DEF awaitFails, discard, Carrying
  <2>2. UNCHANGED <<ready, keep, closing, late, manager>>
    BY Zenon, <1>3 DEF awaitFails, discard, channels, lifecycle
  <2>4. \A d \in Clients : mine(d)' = mine(d) /\ (client'[d] = client[d] \/ (d = c /\ client'[d].at = "forget"))
    BY Zenon, <1>t, <2>1, ClientGoes DEF mine, ClientPlaces, holding
  <2>6. {mine(d) : d \in Clients}' = {mine(d) : d \in Clients}
    BY Zenon, <2>4
  <2> QED
    BY <1>t, <2>1, <2>2, <2>4, <2>6 DEF PoolPlaced, Carrying
<1>4. CASE acquireReady(c)
  <2>1. PICK b \in ready : ready' = ready \ {b} /\ go(c, "use", b)
    BY Zenon, <1>4 DEF acquireReady
  <2>2. mine(c)' = b /\ client'[c].at = "use" /\ mine(c) = NoBackend /\ b # NoBackend
    BY <1>4, <1>t, <2>1, ClientGoes
       DEF acquireReady, PoolTypes, PoolPlaced, mine, Carrying, ClientPlaces, holding, Backends
  <2>3. \A d \in Clients \ {c} : mine(d)' = mine(d) /\ client'[d] = client[d]
    BY Zenon, <1>t, <2>1, ClientGoes DEF PoolTypes, mine, ClientPlaces, holding, Backends
  <2>4. UNCHANGED <<keep, alive, closing, late, manager>>
    BY Zenon, <1>4 DEF acquireReady, lifecycle
  <2>5. alive \subseteq ready' \cup keep \cup {mine(d) : d \in Clients}'
    BY <1>t, <2>1, <2>2, <2>3 DEF PoolTypes, PoolPlaced
  <2> QED
    BY SMTT(30), <1>t, <2>1, <2>2, <2>3, <2>4, <2>5 DEF PoolPlaced, Carrying
<1>5. CASE startProcess(c)
  <2> DEFINE b == unusedName
  <2>1. b \in Processes /\ b \notin inUse
    BY Zenon, <1>5, UnusedName DEF startProcess
  <2>2. mine(c)' = b /\ client'[c].at = "register" /\ b # NoBackend /\ mine(c) = NoBackend
    BY <1>5, <1>t, <2>1, ClientGoes DEF startProcess, mine, at, ClientPlaces, holding, Backends
  <2>3. \A d \in Clients \ {c} : mine(d)' = mine(d) /\ client'[d] = client[d]
    BY Zenon, <1>5, <1>t, <2>1, ClientGoes DEF startProcess, mine, ClientPlaces, holding, Backends
  <2>4. b \notin ready /\ b \notin keep /\ b \notin alive /\ \A d \in Clients : mine(d) # b
    BY Zenon, <2>1 DEF inUse
  <2>5. UNCHANGED <<ready, keep, closing, manager>> /\ alive' = alive \cup {b}
    BY Zenon, <1>5 DEF startProcess, channels, lifecycle
  <2>6. alive' \subseteq ready \cup keep \cup {mine(d) : d \in Clients}'
    BY <1>t, <2>2, <2>3, <2>5 DEF PoolTypes, PoolPlaced
  <2>7. manager \in {"closing", "closed"} => late' = late \cup {b}
    BY Zenon, <1>5 DEF startProcess
  <2> QED
    BY <1>t, <2>2, <2>3, <2>4, <2>5, <2>6, <2>7 DEF PoolPlaced, Carrying
<1>6. CASE release(c)
  <2>1. /\ ready' = ready \cup {mine(c)} /\ go(c, "rest", NoBackend) /\ mine(c) # NoBackend
        /\ UNCHANGED <<keep, alive, closing, late, manager>>
    BY Zenon, <1>6, <1>t DEF release, lifecycle, PoolTypes
  <2>2. mine(c)' = NoBackend /\ client'[c].at = "rest"
    BY Zenon, <1>t, <2>1, ClientGoes DEF mine, ClientPlaces
  <2>3. \A d \in Clients \ {c} : mine(d)' = mine(d) /\ client'[d] = client[d]
    BY Zenon, <1>t, <2>1, ClientGoes DEF mine, ClientPlaces
  <2>4. alive \subseteq ready' \cup keep \cup {mine(d) : d \in Clients}'
    BY <1>t, <2>1, <2>3 DEF PoolPlaced
  <2>5. NoBackend \notin ready' \cup keep
    BY Zenon, <1>t, <2>1 DEF PoolTypes
  <2> QED
    BY <1>t, <2>1, <2>2, <2>3, <2>4, <2>5 DEF PoolPlaced, Carrying
<1>7. CASE forget(c)
  <2>1. /\ go(c, "return", NoBackend) /\ client[c].at = "forget"
        /\ UNCHANGED <<ready, keep, alive, closing, late, manager>>
    BY Zenon, <1>7 DEF forget, channels, lifecycle
  <2>2. mine(c)' = NoBackend /\ client'[c].at = "return"
    BY Zenon, <1>t, <2>1, ClientGoes DEF mine, ClientPlaces, holding
  <2>3. \A d \in Clients \ {c} : mine(d)' = mine(d) /\ client'[d] = client[d]
    BY Zenon, <1>t, <2>1, ClientGoes DEF mine, ClientPlaces, holding
  <2>4. alive \subseteq ready \cup keep \cup {mine(d) : d \in Clients}'
    BY <1>t, <2>1, <2>3 DEF PoolPlaced
  <2>5. NoBackend \notin ready \cup keep
    BY Zenon, <1>t DEF PoolTypes
  <2> QED
    BY <1>t, <2>1, <2>2, <2>3, <2>4, <2>5 DEF PoolPlaced, Carrying
<1> QED
  BY Zenon, <1>1, <1>2, <1>3, <1>4, <1>5, <1>6, <1>7 DEF acquire, runStep, runFault

\* No step of a client loses or invents a slot, failed starts included.
LEMMA ClientCount ==
  ASSUME PoolInv, NEW c \in Clients, Run(c) \/ acquire(c) \/ runStep(c) \/ runFault(c)
  PROVE  PoolCount'
<1>t. /\ PoolTypes /\ PoolPlaced /\ PoolCount /\ slots \in Nat /\ reaping \in {0, 1} /\ MaxInstances \in Nat
      /\ Cardinality(ready) \in Nat /\ Cardinality(keep) \in Nat /\ Cardinality(holders) \in Nat
      /\ IsFiniteSet(ready)
  BY Zenon, PoolFinite, BackendPoolAssumption DEF PoolInv, PoolTypes, reaping
<1>1. CASE Run(c) \/ acquireCancelled(c) \/ startProcess(c) \/ startFails(c) \/ register(c) \/ awaitReady(c)
           \/ awaitFails(c) \/ discard(c) \/ forget(c)
  <2>1. Cardinality(holders)' = Cardinality(holders)
    BY <1>1, <1>t, ClientStays
       DEF Run, acquireCancelled, startProcess, startFails, register, awaitReady, awaitFails, discard, forget,
           holding, at
  <2>2. UNCHANGED <<slots, ready, keep, reaper>>
    BY Zenon, <1>1 DEF Run, acquireCancelled, startProcess, startFails, register, awaitReady, awaitFails, discard,
                forget, channels
  <2> QED
    BY ZenonT(30), <1>t, <2>1, <2>2 DEF PoolCount, reaping
<1>2. CASE acquireReady(c)
  <2>1. PICK b \in ready : ready' = ready \ {b} /\ go(c, "use", b)
    BY Zenon, <1>2 DEF acquireReady
  <2>2. Cardinality(ready)' = Cardinality(ready) - 1
    BY Zenon, <1>t, <2>1, FS_RemoveElement
  <2>3. Cardinality(holders)' = Cardinality(holders) + 1
    BY Zenon, <1>2, <1>t, <2>1, ClientEnters DEF acquireReady, holding
  <2>4. UNCHANGED <<slots, keep, reaper>>
    BY Zenon, <1>2 DEF acquireReady
  <2> QED
    BY <1>t, <2>2, <2>3, <2>4 DEF PoolCount, reaping
<1>3. CASE acquireSlot(c)
  <2>1. Cardinality(holders)' = Cardinality(holders) + 1
    BY Zenon, <1>3, <1>t, ClientEnters DEF acquireSlot, holding
  <2>2. UNCHANGED <<ready, keep, reaper>> /\ slots' = slots - 1
    BY Zenon, <1>3 DEF acquireSlot
  <2> QED
    BY <1>t, <2>1, <2>2 DEF PoolCount, reaping
<1>4. CASE returnSlot(c)
  <2>1. Cardinality(holders)' = Cardinality(holders) - 1
    BY Zenon, <1>4, <1>t, ClientLeaves DEF returnSlot, holding
  <2>2. UNCHANGED <<ready, keep, reaper>> /\ slots' = slots + 1
    BY Zenon, <1>4 DEF returnSlot
  <2> QED
    BY <1>t, <2>1, <2>2 DEF PoolCount, reaping
<1>5. CASE release(c)
  <2>1. Cardinality(holders)' = Cardinality(holders) - 1
    BY Zenon, <1>5, <1>t, ClientLeaves DEF release, holding
  <2>2. Cardinality(ready)' = Cardinality(ready) + 1
    <3>1. mine(c) \notin ready
      BY Zenon, <1>t DEF PoolPlaced
    <3>2. ready' = ready \cup {mine(c)}
      BY Zenon, <1>5 DEF release
    <3> QED
      BY Zenon, <1>t, <3>1, <3>2, FS_AddElement
  <2>3. UNCHANGED <<slots, keep, reaper>>
    BY Zenon, <1>5 DEF release
  <2> QED
    BY <1>t, <2>1, <2>2, <2>3 DEF PoolCount, reaping
<1> QED
  BY Zenon, <1>1, <1>2, <1>3, <1>4, <1>5 DEF acquire, runStep, runFault

\* The reaper moves idle backends and slots through its hands without losing any.
LEMMA ReaperStep ==
  ASSUME PoolInv, reapIdle \/ reapStep
  PROVE  PoolInv'
<1>t. /\ PoolTypes /\ PoolPlaced /\ PoolCount /\ slots \in Nat /\ MaxInstances \in Nat
      /\ Cardinality(ready) \in Nat /\ Cardinality(keep) \in Nat /\ Cardinality(holders) \in Nat
      /\ IsFiniteSet(ready) /\ IsFiniteSet(keep) /\ NoBackend \in Backends
  BY Zenon, PoolFinite, BackendPoolAssumption DEF PoolInv, PoolTypes, Backends
<1>1. CASE reapIdle \/ reapForget \/ reapDrained
  <2>1. UNCHANGED <<slots, ready, keep, client, alive, closing, late, manager>>
    BY Zenon, <1>1 DEF reapIdle, reapForget, reapDrained, channels, lifecycle
  <2>2. reaper' \in [at : ReaperPlaces, b : Backends] /\ reaping' = reaping
    BY <1>1, <1>t DEF reapIdle, reapForget, reapDrained, at, resting, ReaperPlaces, reaping
  <2>3. holders' = holders /\ \A c \in Clients : mine(c)' = mine(c)
    BY Zenon, <2>1 DEF holders, mine
  <2> QED
    BY <1>t, <2>1, <2>2, <2>3 DEF PoolInv, PoolTypes, PoolPlaced, PoolCount, mine
<1>2. CASE reapReturn
  <2>1. UNCHANGED <<ready, keep, client, alive, closing, late, manager>> /\ slots' = slots + 1
    BY Zenon, <1>2 DEF reapReturn, lifecycle
  <2>2. reaper' \in [at : ReaperPlaces, b : Backends] /\ reaping = 1 /\ reaping' = 0
    BY Zenon, <1>2, <1>t DEF reapReturn, at, ReaperPlaces, reaping
  <2>3. holders' = holders
    BY Zenon, <2>1 DEF holders
  <2>4. PoolCount'
    BY <1>t, <2>1, <2>2, <2>3 DEF PoolCount
  <2> QED
    BY <1>t, <2>1, <2>2, <2>4 DEF PoolInv, PoolTypes, PoolPlaced, mine
<1>3. CASE reapTake
  <2>1. PICK b \in ready :
           /\ ready' = ready \ {b}
           /\ \/ keep' = keep \cup {b} /\ UNCHANGED <<reaper, alive>>
              \/ reaper' = at("forget", b) /\ alive' = alive \ {b} /\ UNCHANGED keep
    BY Zenon, <1>3 DEF reapTake
  <2>2. UNCHANGED <<slots, client, closing, late, manager>> /\ reaper.at = "drain" /\ holders' = holders
    BY Zenon, <1>3 DEF reapTake, lifecycle, holders
  <2>3. Cardinality(ready)' = Cardinality(ready) - 1
    BY Zenon, <1>t, <2>1, FS_RemoveElement
  <2>4. PoolTypes'
    BY SMTT(30), <1>t, <2>1, <2>2 DEF PoolTypes, at, ReaperPlaces, Backends
  <2>5. PoolPlaced'
    BY <1>t, <2>1, <2>2 DEF PoolPlaced, mine
  <2>6. CASE keep' = keep \cup {b} /\ UNCHANGED <<reaper, alive>>
    <3>1. Cardinality(keep)' = Cardinality(keep) + 1
      BY Zenon, <1>t, <2>6, FS_AddElement DEF PoolPlaced
    <3>2. PoolCount'
      BY SMTT(30), <1>t, <2>2, <2>3, <2>6, <3>1 DEF PoolCount, reaping
    <3> QED
      BY Zenon, <2>4, <2>5, <3>2 DEF PoolInv
  <2>7. CASE reaper' = at("forget", b) /\ alive' = alive \ {b} /\ UNCHANGED keep
    <3>1. reaping = 0 /\ reaping' = 1
      BY Zenon, <2>2, <2>7 DEF reaping, at
    <3>2. PoolCount'
      BY SMTT(30), <1>t, <2>2, <2>3, <2>7, <3>1 DEF PoolCount
    <3> QED
      BY Zenon, <2>4, <2>5, <3>2 DEF PoolInv
  <2> QED
    BY Zenon, <2>1, <2>6, <2>7
<1>4. CASE reapPut
  <2>1. PICK b \in keep :
           /\ ready' = ready \cup {b}
           /\ keep' = keep \ {b}
           /\ reaper' = IF keep = {b} THEN resting ELSE reaper
    BY Zenon, <1>4 DEF reapPut
  <2>2. UNCHANGED <<slots, client, alive, closing, late, manager>> /\ reaper.at = "put" /\ holders' = holders
    BY Zenon, <1>4 DEF reapPut, lifecycle, holders
  <2>3. Cardinality(ready)' = Cardinality(ready) + 1 /\ Cardinality(keep)' = Cardinality(keep) - 1
    BY Zenon, <1>t, <2>1, FS_AddElement, FS_RemoveElement DEF PoolPlaced
  <2>4. PoolTypes'
    BY Zenon, <1>t, <2>1, <2>2 DEF PoolTypes, resting, at, ReaperPlaces
  <2>5. PoolPlaced'
    BY <1>t, <2>1, <2>2 DEF PoolPlaced, mine
  <2>6. reaping = 0 /\ reaping' = 0
    BY Zenon, <2>1, <2>2 DEF reaping, resting, at
  <2>7. PoolCount'
    BY SMTT(30), <1>t, <2>2, <2>3, <2>6 DEF PoolCount
  <2> QED
    BY Zenon, <2>4, <2>5, <2>7 DEF PoolInv
<1> QED
  BY Zenon, <1>1, <1>2, <1>3, <1>4 DEF reapStep

\* Close, closeAll and the crash of a backend leave slots and channels alone.
LEMMA CloseStep ==
  ASSUME PoolInv, Close \/ closeStep \/ backendCrashes
  PROVE  PoolInv'
<1>1. UNCHANGED <<slots, ready, keep, client, reaper>>
  BY Zenon DEF Close, closeStep, closeAll, closeBackend, backendCrashes, channels, lifecycle
<1>2. PoolCount'
  BY Zenon, <1>1 DEF PoolInv, PoolCount, holders, reaping
<1>3. alive' \subseteq alive /\ manager' \in {"open", "quit", "closing", "closed"}
  BY Zenon DEF Close, closeStep, closeAll, closeBackend, backendCrashes, lifecycle, PoolInv, PoolTypes
<1>4. /\ manager' = "closing" => alive' \subseteq closing' \cup late'
      /\ manager' = "closed" => alive' \subseteq late'
  BY Zenon DEF Close, closeStep, closeAll, closeBackend, backendCrashes, lifecycle, PoolInv, PoolPlaced
<1> QED
  BY <1>1, <1>2, <1>3, <1>4 DEF PoolInv, PoolTypes, PoolPlaced, mine

\* Every step of the pool keeps its invariant.
LEMMA PoolStep == PoolInv /\ [BackendPoolNext]_poolVars => PoolInv'
<1> SUFFICES ASSUME PoolInv, [BackendPoolNext]_poolVars PROVE PoolInv'
  BY Zenon
<1>1. ASSUME NEW c \in Clients, Run(c) \/ acquire(c) \/ runStep(c) \/ runFault(c) PROVE PoolInv'
  BY Zenon, <1>1, ClientTypes, ClientPlaced, ClientCount DEF PoolInv
<1>2. CASE reapIdle \/ reapStep
  BY Zenon, <1>2, ReaperStep
<1>3. CASE Close \/ closeStep \/ backendCrashes
  BY Zenon, <1>3, CloseStep
<1>4. CASE UNCHANGED poolVars
  BY <1>4 DEF poolVars, PoolInv, PoolTypes, PoolPlaced, PoolCount, holders, reaping, mine
<1> QED
  BY Zenon, <1>1, <1>2, <1>3, <1>4 DEF BackendPoolNext

\* Slots and backends are conserved for any number of clients and instances,
\* through failed spawns, crashes, reaping and Close.
THEOREM SlotsAlwaysConserved == BackendPoolSpec => []SlotsConserved
<1>1. BackendPoolInit => PoolInv
  <2> SUFFICES ASSUME BackendPoolInit PROVE PoolInv
    BY Zenon
  <2>1. PoolTypes
    BY Zenon, BackendPoolAssumption DEF BackendPoolInit, PoolTypes, resting, at, ClientPlaces, ReaperPlaces, Backends
  <2>2. PoolPlaced
    BY Zenon DEF BackendPoolInit, PoolPlaced, resting, at, mine, Carrying
  <2>3. holders = {} /\ reaping = 0
    BY Zenon DEF BackendPoolInit, resting, at, holders, holding, reaping
  <2>4. PoolCount
    BY <2>3, FS_EmptySet, BackendPoolAssumption DEF BackendPoolInit, PoolCount
  <2> QED
    BY Zenon, <2>1, <2>2, <2>4 DEF PoolInv
<1>2. PoolInv => SlotsConserved
  BY Zenon DEF PoolInv, PoolPlaced, PoolCount, SlotsConserved
<1> QED
  BY <1>1, <1>2, PoolStep, PTL DEF BackendPoolSpec

-----------------------------------------------------------------------------
(* The archive queue *)

Holding == {"import", "ack", "fail", "failack"}
RoutingAt == {"route", "routeack"}
At(m, queue, w) == m.at = queue /\ m.by = w

\* A delivery whose acknowledgement comes next: its worker settled the job, or
\* published it again.
Spent(m, place) ==
  \/ m.at = "held" /\ place[m.by] \in {"ack", "failack"}
  \/ m.at = "routing" /\ place[m.by] = "routeack"

\* Of the broker's messages M and the places of the workers: a worker that
\* holds a delivery has one, no other worker has any, and a worker acknowledges
\* a job that is settled.
Deliveries(M, place, done) ==
  /\ \A m \in M : m.at = "held" =>
        m.by \in Workers /\ place[m.by] \in Holding /\ (place[m.by] = "ack" => m.job \in done)
  /\ \A m \in M : m.at = "routing" => m.by \in Workers /\ place[m.by] \in RoutingAt
  /\ \A m, n \in M : m.at = n.at /\ m.by = n.by /\ m.at \in {"held", "routing"} => m = n
  /\ \A w \in Workers : place[w] \in Holding => \E m \in M : At(m, "held", w)
  /\ \A w \in Workers : place[w] \in RoutingAt => \E m \in M : At(m, "routing", w)

\* Every published job is settled, or the broker has a message for it that no
\* acknowledgement is about to take.
JobsKept(J, M, place, done) ==
  \A j \in J : j \in done \/ \E m \in M : m.job = j /\ ~Spent(m, place)

Places == {"idle", "wait", "more"} \cup Holding \cup RoutingAt
Queues == {"work", "held", "failed", "stream", "routing", "retry", "dead"}
Messages == [at : Queues, by : Workers \cup Procs \cup {None}, job : Mails, attempt : Nat]

QueueInv ==
  /\ DOMAIN msgs \subseteq Messages
  /\ pc \in [Workers -> Places]
  /\ Deliveries(DOMAIN msgs, pc, settled)
  /\ JobsKept(published, DOMAIN msgs, pc, settled)

\* Of the walk of a run without a fatal failure: what it has passed, and the mail
\* its state file names.
WalkInv ==
  /\ enq \in [pc : {"walk", "done", "crashed"}, pos : Nat, lastPath : Nat, lastOffset : Nat,
              fatal : BOOLEAN, enqueued : Nat]
  /\ enq.pos \in 1 .. Len(Walk) + 1
  /\ ~enq.fatal =>
       /\ enq.pc = "done" => enq.pos = Len(Walk) + 1
       /\ enq.lastPath # 0 =>
            \E i \in 1 .. enq.pos - 1 : Path[Walk[i]] = enq.lastPath /\ Offset[Walk[i]] = enq.lastOffset
       /\ \A k \in 1 .. enq.pos - 1 :
            \/ Walk[k] \in published
            \/ \E i \in 1 .. k - 1 : Path[Walk[i]] > Path[Walk[k]]

-----------------------------------------------------------------------------
(* The broker of the archive queue *)

\* What the operations on bags do to the messages that are there at all.
LEMMA BagDomains ==
  ASSUME NEW bag, NEW m
  PROVE  /\ DOMAIN Plus(bag, m) = DOMAIN bag \cup {m}
         /\ DOMAIN Without(bag, m) = DOMAIN bag \ {m}
         /\ DOMAIN bag \ {m} \subseteq DOMAIN Minus(bag, m)
         /\ DOMAIN Minus(bag, m) \subseteq DOMAIN bag
  BY Zenon DEF Plus, Minus, Without

\* A delivery moves a message: other copies of it may stay.
LEMMA Delivers ==
  ASSUME NEW m \in DOMAIN msgs, NEW queue \in Queues, NEW by \in Workers \cup Procs \cup {None},
         Deliver(m, queue, by), DOMAIN msgs \subseteq Messages
  PROVE  \E new \in Messages :
            /\ new.at = queue /\ new.by = by /\ new.job = m.job
            /\ DOMAIN msgs' \subseteq DOMAIN msgs \cup {new}
            /\ (DOMAIN msgs \ {m}) \cup {new} \subseteq DOMAIN msgs'
<1> DEFINE new == [m EXCEPT !.at = queue, !.by = by]
<1>1. new \in Messages /\ new.at = queue /\ new.by = by /\ new.job = m.job
  BY Zenon DEF Messages
<1>2. msgs' = Plus(Minus(msgs, m), new)
  BY Zenon DEF Deliver
<1> HIDE DEF new
<1>3. DOMAIN msgs' = DOMAIN Minus(msgs, m) \cup {new}
  BY Zenon, <1>2, BagDomains
<1>4. DOMAIN msgs \ {m} \subseteq DOMAIN Minus(msgs, m) /\ DOMAIN Minus(msgs, m) \subseteq DOMAIN msgs
  BY Zenon, BagDomains
<1> QED
  BY Zenon, <1>1, <1>3, <1>4

\* A message moves between queues, or to a stream, and no worker moves.
LEMMA MovesQueues ==
  ASSUME NEW J, NEW M, NEW N, NEW place, NEW done, NEW m \in M, NEW new,
         Deliveries(M, place, done), JobsKept(J, M, place, done),
         m.at \notin {"held", "routing"}, new.at \notin {"held", "routing"}, new.job = m.job,
         N \subseteq M \cup {new}, (M \ {m}) \cup {new} \subseteq N
  PROVE  Deliveries(N, place, done) /\ JobsKept(J, N, place, done)
<1>1. Deliveries(N, place, done)
  BY DEF Deliveries, At
<1>2. \A n \in M \ {m} : n \in N
  BY Zenon
<1>3. ~Spent(new, place) /\ new \in N
  BY Zenon DEF Spent
<1>4. JobsKept(J, N, place, done)
  BY Zenon, <1>2, <1>3 DEF JobsKept
<1> QED
  BY Zenon, <1>1, <1>4

\* A worker that has no delivery takes one.
LEMMA Takes ==
  ASSUME NEW J, NEW M, NEW N, NEW place \in [Workers -> Places], NEW done,
         NEW m \in M, NEW new, NEW w \in Workers, NEW next,
         Deliveries(M, place, done), JobsKept(J, M, place, done),
         m.at \notin {"held", "routing"}, new.by = w, new.job = m.job, place[w] \notin Holding \cup RoutingAt,
         \/ new.at = "held" /\ next = "import"
         \/ new.at = "routing" /\ next = "route",
         N \subseteq M \cup {new}, (M \ {m}) \cup {new} \subseteq N
  PROVE  LET moved == [place EXCEPT ![w] = next]
         IN  Deliveries(N, moved, done) /\ JobsKept(J, N, moved, done)
<1> DEFINE moved == [place EXCEPT ![w] = next]
<1>1. moved[w] = next /\ \A v \in Workers \ {w} : moved[v] = place[v]
  BY Zenon
<1> HIDE DEF moved
<1>2. \A n \in M : n.at \in {"held", "routing"} => n.by \in Workers \ {w}
  BY Zenon DEF Deliveries, Holding, RoutingAt
<1>3. \A n \in M \ {m} : n \in N
  BY Zenon
<1>4. new \in N /\ ~Spent(new, moved)
  BY Zenon, <1>1 DEF Spent
<1>5. Deliveries(N, moved, done)
  <2>1. \A n \in N : n = new \/ n \in M
    BY Zenon
  <2>2. \A n \in N : n.at = "held" =>
           n.by \in Workers /\ moved[n.by] \in Holding /\ (moved[n.by] = "ack" => n.job \in done)
    BY Zenon, <1>1, <1>2, <2>1 DEF Deliveries, Holding
  <2>3. \A n \in N : n.at = "routing" => n.by \in Workers /\ moved[n.by] \in RoutingAt
    BY Zenon, <1>1, <1>2, <2>1 DEF Deliveries, RoutingAt
  <2>4. \A n, o \in N : n.at = o.at /\ n.by = o.by /\ n.at \in {"held", "routing"} => n = o
    BY Zenon, <1>2, <2>1 DEF Deliveries
  <2>5. \A v \in Workers : moved[v] \in Holding => \E n \in N : At(n, "held", v)
    BY SMTT(30), <1>1, <1>3, <1>4 DEF Deliveries, At, Holding
  <2>6. \A v \in Workers : moved[v] \in RoutingAt => \E n \in N : At(n, "routing", v)
    BY <1>1, <1>3, <1>4 DEF Deliveries, At, RoutingAt
  <2> QED
    BY Zenon, <2>2, <2>3, <2>4, <2>5, <2>6 DEF Deliveries
<1>6. JobsKept(J, N, moved, done)
  <2>1. \A n \in M : ~Spent(n, place) => ~Spent(n, moved)
    BY Zenon, <1>1, <1>2 DEF Spent
  <2> QED
    BY Zenon, <1>3, <1>4, <2>1 DEF JobsKept
<1> QED
  BY Zenon, <1>5, <1>6 DEF moved

\* A worker goes on with the delivery it has; what it publishes keeps the job.
LEMMA GoesOn ==
  ASSUME NEW J, NEW M, NEW N, NEW place \in [Workers -> Places], NEW done, NEW then, NEW w \in Workers, NEW next,
         Deliveries(M, place, done), JobsKept(J, M, place, done), done \subseteq then,
         NEW m \in M, m.by = w,
         \/ m.at = "held" /\ place[w] \in Holding /\ next \in Holding
         \/ m.at = "routing" /\ place[w] \in RoutingAt /\ next \in RoutingAt,
         M \subseteq N, \A n \in N \ M : n.at \notin {"held", "routing"},
         next = "ack" => m.job \in then,
         \/ m.job \in then
         \/ \E n \in N \ {m} : n.job = m.job /\ n.at \notin {"held", "routing"}
         \/ m.at = "held" /\ next \in {"import", "fail"}
  PROVE  LET moved == [place EXCEPT ![w] = next]
         IN  Deliveries(N, moved, then) /\ JobsKept(J, N, moved, then)
<1> DEFINE moved == [place EXCEPT ![w] = next]
<1>1. moved[w] = next /\ \A v \in Workers \ {w} : moved[v] = place[v]
  BY Zenon
<1> HIDE DEF moved
<1>2. \A n \in M : n.at \in {"held", "routing"} /\ n.by = w => n = m
  BY Zenon DEF Deliveries, Holding, RoutingAt
<1>3. \A n \in M : n.at \in {"held", "routing"} => n.by \in Workers
  BY Zenon DEF Deliveries
<1>5. Deliveries(N, moved, then)
  <2>1. \A n \in N : n.at \in {"held", "routing"} => n \in M
    BY Zenon
  <2>2. \A n \in N : n.at = "held" =>
           n.by \in Workers /\ moved[n.by] \in Holding /\ (moved[n.by] = "ack" => n.job \in then)
    BY Zenon, <1>1, <1>2, <1>3, <2>1 DEF Deliveries, Holding, RoutingAt
  <2>3. \A n \in N : n.at = "routing" => n.by \in Workers /\ moved[n.by] \in RoutingAt
    BY Zenon, <1>1, <1>2, <1>3, <2>1 DEF Deliveries, RoutingAt, Holding
  <2>4. \A n, o \in N : n.at = o.at /\ n.by = o.by /\ n.at \in {"held", "routing"} => n = o
    BY Zenon, <2>1 DEF Deliveries
  <2>5. \A v \in Workers : moved[v] \in Holding => \E n \in N : At(n, "held", v)
    BY SMTT(30), <1>1 DEF Deliveries, At, Holding, RoutingAt
  <2>6. \A v \in Workers : moved[v] \in RoutingAt => \E n \in N : At(n, "routing", v)
    BY <1>1 DEF Deliveries, At, RoutingAt, Holding
  <2> QED
    BY Zenon, <2>2, <2>3, <2>4, <2>5, <2>6 DEF Deliveries
<1>6. JobsKept(J, N, moved, then)
  <2>1. \A n \in M \ {m} : ~Spent(n, place) => ~Spent(n, moved)
    BY Zenon, <1>1, <1>2, <1>3 DEF Spent
  <2>2. m.job \in then \/ \E n \in N : n.job = m.job /\ ~Spent(n, moved)
    BY Zenon, <1>1 DEF Spent
  <2> QED
    BY Zenon, <2>1, <2>2 DEF JobsKept
<1> QED
  BY Zenon, <1>5, <1>6 DEF moved

\* A worker acknowledges its delivery.
LEMMA Acks ==
  ASSUME NEW J, NEW M, NEW place \in [Workers -> Places], NEW done, NEW w \in Workers, NEW next, NEW m \in M,
         Deliveries(M, place, done), JobsKept(J, M, place, done), m.by = w, Spent(m, place),
         next \in Places \ (Holding \cup RoutingAt)
  PROVE  LET moved == [place EXCEPT ![w] = next]
         IN  Deliveries(M \ {m}, moved, done) /\ JobsKept(J, M \ {m}, moved, done)
<1> DEFINE moved == [place EXCEPT ![w] = next]
           N == M \ {m}
<1>1. moved[w] = next /\ \A v \in Workers \ {w} : moved[v] = place[v]
  BY Zenon
<1> HIDE DEF moved
<1>2. \A n \in N : n.at \in {"held", "routing"} => n.by \in Workers \ {w}
  BY Zenon DEF Deliveries, Holding, RoutingAt, Spent
<1>5. Deliveries(N, moved, done)
  <2>2. \A n \in N : n.at = "held" =>
           n.by \in Workers /\ moved[n.by] \in Holding /\ (moved[n.by] = "ack" => n.job \in done)
    BY Zenon, <1>1, <1>2 DEF Deliveries
  <2>3. \A n \in N : n.at = "routing" => n.by \in Workers /\ moved[n.by] \in RoutingAt
    BY Zenon, <1>1, <1>2 DEF Deliveries
  <2>4. \A n, o \in N : n.at = o.at /\ n.by = o.by /\ n.at \in {"held", "routing"} => n = o
    BY Zenon DEF Deliveries
  <2>5. \A v \in Workers : moved[v] \in Holding => \E n \in N : At(n, "held", v)
    BY ZenonT(30), <1>1 DEF Deliveries, At
  <2>6. \A v \in Workers : moved[v] \in RoutingAt => \E n \in N : At(n, "routing", v)
    BY Zenon, <1>1 DEF Deliveries, At
  <2> QED
    BY Zenon, <2>2, <2>3, <2>4, <2>5, <2>6 DEF Deliveries
<1>6. JobsKept(J, N, moved, done)
  <2>1. \A n \in N : ~Spent(n, place) => ~Spent(n, moved)
    BY Zenon, <1>1, <1>2 DEF Spent
  <2>2. \A n \in M : ~Spent(n, place) => n \in N
    BY Zenon
  <2> QED
    BY Zenon, <2>1, <2>2 DEF JobsKept
<1> QED
  BY Zenon, <1>5, <1>6 DEF moved

-----------------------------------------------------------------------------
(* The steps of the archive queue *)

\* What a worker with a delivery has.
LEMMA HasDelivery ==
  ASSUME QueueInv, NEW w \in Workers
  PROVE  /\ pc[w] \in Holding => Held(w) \in DOMAIN msgs /\ Held(w).at = "held" /\ Held(w).by = w
         /\ pc[w] \in RoutingAt => Routing(w) \in DOMAIN msgs /\ Routing(w).at = "routing" /\ Routing(w).by = w
<1>1. ASSUME pc[w] \in Holding PROVE Held(w) \in DOMAIN msgs /\ Held(w).at = "held" /\ Held(w).by = w
  <2>1. \E m : m \in With("held", w)
    BY Zenon, <1>1 DEF QueueInv, Deliveries, At, With, In
  <2>2. Held(w) \in With("held", w)
    BY Zenon, <2>1 DEF Held
  <2> QED
    BY Zenon, <2>2 DEF With, In
<1>2. ASSUME pc[w] \in RoutingAt PROVE Routing(w) \in DOMAIN msgs /\ Routing(w).at = "routing" /\ Routing(w).by = w
  <2>1. \E m : m \in With("routing", w)
    BY Zenon, <1>2 DEF QueueInv, Deliveries, At, With, In
  <2>2. Routing(w) \in With("routing", w)
    BY Zenon, <2>1 DEF Routing
  <2> QED
    BY Zenon, <2>2 DEF With, In
<1> QED
  BY Zenon, <1>1, <1>2

\* What a publish adds.
LEMMA Publishes ==
  ASSUME DOMAIN msgs \subseteq Messages, NEW queue \in Queues \ {"held", "routing"}, NEW job \in Mails,
         NEW attempt \in Nat, Publish(Message(queue, job, attempt))
  PROVE  \E new \in Messages : new.at = queue /\ new.job = job /\ DOMAIN msgs' = DOMAIN msgs \cup {new}
<1> DEFINE new == Message(queue, job, attempt)
<1>1. new \in Messages /\ new.at = queue /\ new.job = job
  BY Zenon DEF Message, Messages
<1> HIDE DEF new
<1>2. msgs' = Plus(msgs, new)
  BY Zenon DEF Publish, new
<1>3. DOMAIN msgs' = DOMAIN msgs \cup {new}
  BY Zenon, <1>2, BagDomains
<1> QED
  BY Zenon, <1>1, <1>3

\* A step of a worker.
LEMMA WorkerKeeps ==
  ASSUME QueueInv, NEW w \in Workers, WorkerStep(w) \/ ImportFails(w)
  PROVE  QueueInv'
<1> DEFINE D == DOMAIN msgs
<1>0. /\ D \subseteq Messages /\ pc \in [Workers -> Places] /\ Deliveries(D, pc, settled)
      /\ JobsKept(published, D, pc, settled)
  BY Zenon DEF QueueInv
<1>p. published' = published
  BY Zenon DEF WorkerStep, Receive, ImportJob, AckJob, PublishFailure, AckFailure, TakeFailed, NoMoreFailed,
         RouteFailed, AckRouted, ImportFails, history
<1>q. ASSUME NEW next \in Places, Go(w, next), D' \subseteq Messages,
             Deliveries(D', [pc EXCEPT ![w] = next], settled'),
             JobsKept(published, D', [pc EXCEPT ![w] = next], settled')
      PROVE  QueueInv'
  <2>1. pc' = [pc EXCEPT ![w] = next] /\ pc' \in [Workers -> Places]
    BY Zenon, <1>0, <1>q DEF Go
  <2> QED
    BY Zenon, <1>p, <1>q, <2>1 DEF QueueInv
<1>n. /\ Holding \subseteq Places /\ RoutingAt \subseteq Places
      /\ \A m \in D : m \in Messages /\ m.job \in Mails /\ m.attempt \in Nat
  BY Zenon, <1>0 DEF Places, Messages
<1> HIDE DEF D
<1>1. ASSUME NEW m \in D, NEW queue, NEW next, m.at \notin {"held", "routing"}, Deliver(m, queue, w), Go(w, next),
             pc[w] \notin Holding \cup RoutingAt, settled' = settled,
             \/ queue = "held" /\ next = "import"
             \/ queue = "routing" /\ next = "route"
      PROVE  QueueInv'
  <2>1. PICK new \in Messages : /\ new.at = queue /\ new.by = w /\ new.job = m.job
                                /\ D' \subseteq D \cup {new} /\ (D \ {m}) \cup {new} \subseteq D'
    <3>1. queue \in Queues
      BY Zenon, <1>1 DEF Queues
    <3> QED
      BY Zenon, <1>0, <1>1, <3>1, Delivers DEF D
  <2>2. Deliveries(D', [pc EXCEPT ![w] = next], settled) /\ JobsKept(published, D', [pc EXCEPT ![w] = next], settled)
    BY Zenon, <1>0, <1>1, <2>1, Takes
  <2>3. next \in Places
    BY Zenon, <1>1 DEF Places, Holding, RoutingAt
  <2> QED
    BY Zenon, <1>0, <1>1, <1>q, <2>1, <2>2, <2>3
<1>2. ASSUME Receive(w) PROVE QueueInv'
  <2>1. PICK m \in In("work") : Deliver(m, "held", w)
    BY Zenon, <1>2 DEF Receive
  <2>2. m \in D /\ m.at = "work" /\ pc[w] = "idle" /\ Go(w, "import") /\ settled' = settled
    BY Zenon, <1>2 DEF Receive, In, D
  <2> QED
    BY Zenon, <1>1, <2>1, <2>2 DEF Holding, RoutingAt
<1>3. ASSUME TakeFailed(w) PROVE QueueInv'
  <2>1. PICK m \in With("stream", ProcOf[w]) : Deliver(m, "routing", w)
    BY Zenon, <1>3 DEF TakeFailed
  <2>2. m \in D /\ m.at = "stream" /\ pc[w] \in {"wait", "more"} /\ Go(w, "route") /\ settled' = settled
    BY Zenon, <1>3 DEF TakeFailed, With, In, D
  <2> QED
    BY Zenon, <1>1, <2>1, <2>2 DEF Holding, RoutingAt
<1>4. ASSUME ImportJob(w) PROVE QueueInv'
  <2> DEFINE m == Held(w)
  <2>1. pc[w] = "import" /\ Go(w, "ack") /\ D' = D /\ settled' = settled \cup {m.job}
    BY Zenon, <1>4 DEF ImportJob, D
  <2>2. m \in D /\ m.at = "held" /\ m.by = w /\ pc[w] \in Holding
    BY Zenon, <2>1, HasDelivery DEF D, Holding
  <2> HIDE DEF m
  <2>3. /\ Deliveries(D, [pc EXCEPT ![w] = "ack"], settled \cup {m.job})
        /\ JobsKept(published, D, [pc EXCEPT ![w] = "ack"], settled \cup {m.job})
    <3>1. "ack" \in Holding
      BY Zenon DEF Holding
    <3> QED
      BY Zenon, <1>0, <2>2, <3>1, GoesOn
  <2>4. "ack" \in Places
    BY Zenon DEF Places, Holding
  <2> QED
    BY Zenon, <1>0, <1>q, <2>1, <2>3, <2>4
<1>5. ASSUME ImportFails(w) PROVE QueueInv'
  <2> DEFINE m == Held(w)
  <2>1. pc[w] = "import" /\ Go(w, "fail") /\ D' = D /\ settled' = settled
    BY Zenon, <1>5 DEF ImportFails, D
  <2>2. m \in D /\ m.at = "held" /\ m.by = w /\ pc[w] \in Holding
    BY Zenon, <2>1, HasDelivery DEF D, Holding
  <2> HIDE DEF m
  <2>3. Deliveries(D, [pc EXCEPT ![w] = "fail"], settled) /\ JobsKept(published, D, [pc EXCEPT ![w] = "fail"], settled)
    <3>1. "fail" \in Holding
      BY Zenon DEF Holding
    <3> QED
      BY Zenon, <1>0, <2>2, <3>1, GoesOn
  <2>4. "fail" \in Places
    BY Zenon DEF Places, Holding
  <2> QED
    BY Zenon, <1>0, <1>q, <2>1, <2>3, <2>4
<1>6. ASSUME NEW m \in D, m.by = w, Spent(m, pc), Ack(m), NEW next \in {"idle", "wait", "more"}, Go(w, next),
             settled' = settled
      PROVE  QueueInv'
  <2>1. D' = D \ {m}
    BY Zenon, <1>6, BagDomains DEF Ack, D
  <2>2. next \in Places \ (Holding \cup RoutingAt)
    BY Zenon DEF Places, Holding, RoutingAt
  <2>3. /\ Deliveries(D \ {m}, [pc EXCEPT ![w] = next], settled)
        /\ JobsKept(published, D \ {m}, [pc EXCEPT ![w] = next], settled)
    BY Zenon, <1>0, <1>6, <2>2, Acks
  <2> QED
    BY Zenon, <1>0, <1>6, <1>q, <2>1, <2>2, <2>3
<1>7. ASSUME AckJob(w) \/ AckFailure(w) PROVE QueueInv'
  <2> DEFINE m == Held(w)
  <2>1. /\ pc[w] \in {"ack", "failack"} /\ Ack(m) /\ settled' = settled
        /\ Go(w, "idle") \/ Go(w, "wait")
    BY Zenon, <1>7 DEF AckJob, AckFailure
  <2>2. m \in D /\ m.at = "held" /\ m.by = w
    BY Zenon, <2>1, HasDelivery DEF D, Holding
  <2> HIDE DEF m
  <2> QED
    BY Zenon, <1>6, <2>1, <2>2 DEF Spent
<1>8. ASSUME AckRouted(w) PROVE QueueInv'
  <2> DEFINE m == Routing(w)
  <2>1. pc[w] = "routeack" /\ Ack(m) /\ settled' = settled /\ Go(w, "more")
    BY Zenon, <1>8 DEF AckRouted
  <2>2. m \in D /\ m.at = "routing" /\ m.by = w
    BY Zenon, <2>1, HasDelivery DEF D, RoutingAt
  <2> HIDE DEF m
  <2> QED
    BY Zenon, <1>6, <2>1, <2>2 DEF Spent
<1>9. ASSUME NEW m \in D, m.by = w, NEW queue \in Queues \ {"held", "routing"}, NEW attempt \in Nat,
             Publish(Message(queue, m.job, attempt)), NEW next, Go(w, next), settled' = settled,
             \/ m.at = "held" /\ pc[w] \in Holding /\ next = "failack"
             \/ m.at = "routing" /\ pc[w] \in RoutingAt /\ next = "routeack"
      PROVE  QueueInv'
  <2>1. PICK new \in Messages : new.at = queue /\ new.job = m.job /\ D' = D \cup {new}
    <3> DEFINE j == m.job
    <3>1. j \in Mails /\ Publish(Message(queue, j, attempt)) /\ DOMAIN msgs \subseteq Messages
      BY Zenon, <1>0, <1>9, <1>n DEF D
    <3> HIDE DEF j
    <3>2. \E new \in Messages : new.at = queue /\ new.job = j /\ DOMAIN msgs' = DOMAIN msgs \cup {new}
      BY Zenon, <3>1, <1>9, Publishes
    <3> QED
      BY Zenon, <3>2 DEF j, D
  <2>2. /\ next \in Places /\ next # "ack"
        /\ \/ m.at = "held" /\ pc[w] \in Holding /\ next \in Holding
           \/ m.at = "routing" /\ pc[w] \in RoutingAt /\ next \in RoutingAt
    BY Zenon, <1>9 DEF Places, Holding, RoutingAt
  <2>3. D \subseteq D' /\ new \in D' \ {m} /\ \A n \in D' \ D : n.at \notin {"held", "routing"}
    <3>1. new.at \notin {"held", "routing"} /\ m.at \in {"held", "routing"}
      BY Zenon, <1>9, <2>1
    <3>2. new # m
      BY Zenon, <3>1
    <3> QED
      BY Zenon, <2>1, <3>1, <3>2
  <2>4. Deliveries(D', [pc EXCEPT ![w] = next], settled) /\ JobsKept(published, D', [pc EXCEPT ![w] = next], settled)
    <3>1. \E n \in D' \ {m} : n.job = m.job /\ n.at \notin {"held", "routing"}
      BY Zenon, <2>1, <2>3
    <3> HIDE DEF D
    <3> QED
      BY Zenon, <1>0, <1>9, <2>2, <2>3, <3>1, GoesOn
  <2> QED
    BY Zenon, <1>0, <1>9, <1>q, <2>1, <2>2, <2>4
<1>10. ASSUME PublishFailure(w) PROVE QueueInv'
  <2> DEFINE m == Held(w)
  <2>1. pc[w] = "fail" /\ Publish(Message("failed", m.job, m.attempt)) /\ Go(w, "failack") /\ settled' = settled
    BY Zenon, <1>10 DEF PublishFailure
  <2>2. m \in D /\ m.at = "held" /\ m.by = w /\ pc[w] \in Holding /\ m.attempt \in Nat
    BY Zenon, <1>n, <2>1, HasDelivery DEF D, Holding
  <2>3. "failed" \in Queues \ {"held", "routing"}
    BY Zenon DEF Queues
  <2> HIDE DEF m
  <2> QED
    BY Zenon, <1>9, <2>1, <2>2, <2>3
<1>11. ASSUME RouteFailed(w) PROVE QueueInv'
  <2> DEFINE m == Routing(w)
             queue == IF m.attempt + 1 > RetryLimit THEN "dead" ELSE "retry"
  <2>1. pc[w] = "route" /\ Publish(Message(queue, m.job, m.attempt + 1)) /\ Go(w, "routeack") /\ settled' = settled
    BY Zenon, <1>11 DEF RouteFailed
  <2>2. m \in D /\ m.at = "routing" /\ m.by = w /\ pc[w] \in RoutingAt /\ m.attempt \in Nat
    BY Zenon, <1>n, <2>1, HasDelivery DEF D, RoutingAt
  <2>3. queue \in Queues \ {"held", "routing"}
    BY Zenon DEF Queues
  <2> HIDE DEF m, queue
  <2> QED
    BY SMTT(30), <1>9, <2>1, <2>2, <2>3
<1>12. ASSUME NoMoreFailed(w) PROVE QueueInv'
  <2> DEFINE moved == [pc EXCEPT ![w] = "idle"]
  <2>1. pc[w] = "more" /\ Go(w, "idle") /\ D' = D /\ settled' = settled
    BY Zenon, <1>12 DEF NoMoreFailed, D
  <2>2. moved[w] = "idle" /\ \A v \in Workers \ {w} : moved[v] = pc[v]
    BY Zenon, <1>0
  <2>3. "idle" \in Places /\ "idle" \notin Holding \cup RoutingAt /\ "more" \notin Holding \cup RoutingAt
    BY Zenon DEF Places, Holding, RoutingAt
  <2> HIDE DEF moved
  <2>4. \A n \in D : n.at \in {"held", "routing"} => n.by \in Workers \ {w}
    BY Zenon, <1>0, <2>1, <2>3 DEF Deliveries
  <2>5. Deliveries(D, moved, settled)
    BY Zenon, <1>0, <2>2, <2>3, <2>4 DEF Deliveries
  <2>6. JobsKept(published, D, moved, settled)
    <3>1. \A n \in D : Spent(n, pc) <=> Spent(n, moved)
      BY Zenon, <2>2, <2>4 DEF Spent
    <3> QED
      BY Zenon, <1>0, <3>1 DEF JobsKept
  <2> QED
    BY Zenon, <1>0, <1>q, <2>1, <2>3, <2>5, <2>6 DEF moved
<1> QED
  BY Zenon, <1>2, <1>3, <1>4, <1>5, <1>7, <1>8, <1>10, <1>11, <1>12 DEF WorkerStep

\* The end of a process: the broker takes back what it had not acknowledged.
LEMMA StopKeeps ==
  ASSUME QueueInv, NEW p \in Procs, StopProcess(p)
  PROVE  QueueInv'
<1> DEFINE D == DOMAIN msgs
           R(m) == Requeue(p, m)
<1>0. /\ D \subseteq Messages /\ pc \in [Workers -> Places] /\ Deliveries(D, pc, settled)
      /\ JobsKept(published, D, pc, settled) /\ ProcOf \in [Workers -> Procs]
  BY Zenon, QueueAssumption DEF QueueInv
<1>1. /\ D' = {R(m) : m \in D} /\ settled' = settled /\ published' = published
      /\ pc' = [w \in Workers |-> IF ProcOf[w] = p THEN "idle" ELSE pc[w]]
  BY Zenon DEF StopProcess, history
<1>2. ASSUME NEW m \in D
      PROVE  /\ R(m) \in Messages /\ R(m).job = m.job
             /\ R(m) = m \/ R(m).at \in {"work", "failed"}
             /\ R(m).at = "held" => R(m) = m /\ ProcOf[m.by] # p
             /\ R(m).at = "routing" => R(m) = m /\ ProcOf[m.by] # p
             /\ m.at = "held" /\ ProcOf[m.by] # p => R(m) = m
             /\ m.at = "routing" /\ ProcOf[m.by] # p => R(m) = m
  <2>0. m \in Messages
    BY Zenon, <1>0
  <2>1. CASE m.at = "held" /\ ProcOf[m.by] = p
    BY Zenon, <2>0, <2>1 DEF Requeue, Messages, Queues
  <2>2. CASE m.at = "routing" /\ ProcOf[m.by] = p
    BY Zenon, <2>0, <2>2 DEF Requeue, Messages, Queues
  <2>3. CASE m.at = "stream" /\ m.by = p
    BY Zenon, <2>0, <2>3 DEF Requeue, Messages, Queues
  <2>4. CASE /\ ~(m.at = "held" /\ ProcOf[m.by] = p) /\ ~(m.at = "routing" /\ ProcOf[m.by] = p)
             /\ ~(m.at = "stream" /\ m.by = p)
    BY Zenon, <2>0, <2>4 DEF Requeue
  <2> QED
    BY Zenon, <2>1, <2>2, <2>3, <2>4
<1> HIDE DEF D, R
<1>3. D' \subseteq Messages /\ \A m \in D : R(m) \in D'
  BY Zenon, <1>1, <1>2
<1>4. /\ pc' \in [Workers -> Places]
      /\ \A w \in Workers : (ProcOf[w] = p => pc'[w] = "idle") /\ (ProcOf[w] # p => pc'[w] = pc[w])
  <2>1. "idle" \in Places
    BY Zenon DEF Places
  <2> QED
    BY Zenon, <1>0, <1>1, <2>1
<1>5. \A n \in D' : n.at \in {"held", "routing"} => n \in D /\ ProcOf[n.by] # p
  BY Zenon, <1>1, <1>2
<1>6. "idle" \notin Holding \cup RoutingAt
  BY Zenon DEF Holding, RoutingAt
<1>7. Deliveries(D', pc', settled)
  <2>2. \A n \in D' : n.at = "held" =>
           n.by \in Workers /\ pc'[n.by] \in Holding /\ (pc'[n.by] = "ack" => n.job \in settled)
    BY Zenon, <1>0, <1>4, <1>5 DEF Deliveries
  <2>3. \A n \in D' : n.at = "routing" => n.by \in Workers /\ pc'[n.by] \in RoutingAt
    BY Zenon, <1>0, <1>4, <1>5 DEF Deliveries
  <2>4. \A n, o \in D' : n.at = o.at /\ n.by = o.by /\ n.at \in {"held", "routing"} => n = o
    BY Zenon, <1>0, <1>5 DEF Deliveries
  <2>5. ASSUME NEW w \in Workers, pc'[w] \in Holding PROVE \E n \in D' : At(n, "held", w)
    <3>1. ProcOf[w] # p /\ pc[w] \in Holding
      BY Zenon, <1>4, <1>6, <2>5
    <3>2. PICK n \in D : At(n, "held", w)
      BY Zenon, <1>0, <3>1 DEF Deliveries
    <3> QED
      BY Zenon, <1>2, <1>3, <3>1, <3>2 DEF At
  <2>6. ASSUME NEW w \in Workers, pc'[w] \in RoutingAt PROVE \E n \in D' : At(n, "routing", w)
    <3>1. ProcOf[w] # p /\ pc[w] \in RoutingAt
      BY Zenon, <1>4, <1>6, <2>6
    <3>2. PICK n \in D : At(n, "routing", w)
      BY Zenon, <1>0, <3>1 DEF Deliveries
    <3> QED
      BY Zenon, <1>2, <1>3, <3>1, <3>2 DEF At
  <2> QED
    BY Zenon, <2>2, <2>3, <2>4, <2>5, <2>6 DEF Deliveries
<1>8. JobsKept(published, D', pc', settled)
  <2>1. \A m \in D : ~Spent(m, pc) => ~Spent(R(m), pc')
    <3> SUFFICES ASSUME NEW m \in D, ~Spent(m, pc) PROVE ~Spent(R(m), pc')
      BY Zenon
    <3>1. CASE R(m).at \in {"held", "routing"}
      <4>1. R(m) = m /\ ProcOf[m.by] # p /\ m.by \in Workers
        BY Zenon, <1>0, <1>2, <3>1 DEF Deliveries
      <4> QED
        BY Zenon, <1>4, <4>1 DEF Spent
    <3>2. CASE R(m).at \notin {"held", "routing"}
      BY Zenon, <3>2 DEF Spent
    <3> QED
      BY Zenon, <3>1, <3>2
  <2> QED
    BY <1>0, <1>2, <1>3, <2>1 DEF JobsKept
<1> QED
  BY Zenon, <1>1, <1>3, <1>4, <1>7, <1>8 DEF QueueInv, D

\* Every step keeps the jobs.
LEMMA QueueStep == QueueInv /\ WalkInv /\ [Next]_vars => QueueInv'
<1> SUFFICES ASSUME QueueInv, WalkInv, [Next]_vars PROVE QueueInv'
  BY Zenon
<1> DEFINE D == DOMAIN msgs
<1>0. /\ D \subseteq Messages /\ pc \in [Workers -> Places] /\ Deliveries(D, pc, settled)
      /\ JobsKept(published, D, pc, settled)
  BY Zenon DEF QueueInv
<1>1. ASSUME NEW w \in Workers, WorkerStep(w) \/ ImportFails(w) PROVE QueueInv'
  BY Zenon, <1>1, WorkerKeeps
<1>2. ASSUME NEW p \in Procs, StopProcess(p) PROVE QueueInv'
  BY Zenon, <1>2, StopKeeps
<1>3. ASSUME UNCHANGED <<msgs, pc, settled, published>> PROVE QueueInv'
  BY Zenon, <1>3 DEF QueueInv
<1>4. ASSUME NEW m \in D, NEW queue \in Queues \ {"held", "routing"}, NEW by \in Procs \cup {None}, Deliver(m, queue, by),
             m.at \notin {"held", "routing"}, UNCHANGED <<pc, settled, published>>
      PROVE  QueueInv'
  <2>1. PICK new \in Messages : /\ new.at = queue /\ new.by = by /\ new.job = m.job
                                /\ D' \subseteq D \cup {new} /\ (D \ {m}) \cup {new} \subseteq D'
    BY Zenon, <1>0, <1>4, Delivers
  <2> HIDE DEF D
  <2>2. Deliveries(D', pc, settled) /\ JobsKept(published, D', pc, settled)
    BY Zenon, <1>0, <1>4, <2>1, MovesQueues
  <2> QED
    BY Zenon, <1>0, <1>4, <2>1, <2>2 DEF QueueInv, D
<1>5. ASSUME NEW p \in Procs, DeliverFailed(p) PROVE QueueInv'
  <2>1. PICK m \in In("failed") : Deliver(m, "stream", p)
    BY Zenon, <1>5 DEF DeliverFailed
  <2>2. m \in D /\ m.at = "failed" /\ "stream" \in Queues \ {"held", "routing"} /\ UNCHANGED <<pc, settled, published>>
    BY Zenon, <1>5 DEF DeliverFailed, In, Queues, workerVars, history
  <2> QED
    BY Zenon, <1>4, <2>1, <2>2
<1>6. ASSUME RetryExpires PROVE QueueInv'
  <2>1. PICK m \in In("retry") : Deliver(m, "work", None)
    BY Zenon, <1>6 DEF RetryExpires
  <2>2. m \in D /\ m.at = "retry" /\ "work" \in Queues \ {"held", "routing"} /\ UNCHANGED <<pc, settled, published>>
    BY Zenon, <1>6 DEF RetryExpires, In, Queues, workerVars, history
  <2> QED
    BY Zenon, <1>4, <2>1, <2>2
<1>7. ASSUME Walking, Publish(Message("work", Current, 0)), published' = published \cup {Current}, UNCHANGED <<pc, settled>>
      PROVE  QueueInv'
  <2> DEFINE c == Current
  <2>1. c \in Mails
    <3>1. enq.pos \in 1 .. Len(Walk)
      BY <1>7, WalkAssumption DEF Walking, WalkInv
    <3> QED
      BY Zenon, <3>1 DEF Current, Mails
  <2>2. PICK new \in Messages : new.at = "work" /\ new.job = c /\ D' = D \cup {new}
    <3>1. "work" \in Queues \ {"held", "routing"} /\ 0 \in Nat /\ Publish(Message("work", c, 0))
      BY Zenon, <1>7 DEF Queues
    <3> HIDE DEF c
    <3> QED
      BY ZenonT(30), <1>0, <2>1, <3>1, Publishes
  <2> HIDE DEF D, c
  <2>3. Deliveries(D', pc, settled)
    BY <1>0, <2>2 DEF Deliveries, At
  <2>4. JobsKept(published \cup {c}, D', pc, settled)
    BY Zenon, <1>0, <2>2 DEF JobsKept, Spent
  <2> QED
    BY Zenon, <1>0, <1>7, <2>2, <2>3, <2>4 DEF QueueInv, D, c
<1>8. ASSUME PublishJob \/ PublishFails PROVE QueueInv'
  BY Zenon, <1>3, <1>7, <1>8 DEF PublishJob, PublishFails, workerVars, history
<1>9. ASSUME \/ SkipFile \/ EndWalk \/ EnqueueCrashes \/ EnqueueAgain \/ (\E p \in Procs : StartProcess(p))
             \/ UNCHANGED vars
      PROVE  QueueInv'
  BY Zenon, <1>3, <1>9 DEF SkipFile, EndWalk, EnqueueCrashes, EnqueueAgain, StartProcess, vars, workerVars, history
<1> QED
  BY Zenon, <1>1, <1>2, <1>5, <1>6, <1>8, <1>9 DEF Next, WorkerStep

\* Every step of the walk.  A mail that is skipped sorts before one published
\* already, or is behind it in no mbox, and then it was met before.
LEMMA WalkStep == WalkInv /\ [Next]_vars => WalkInv'
<1> SUFFICES ASSUME WalkInv, [Next]_vars PROVE WalkInv'
  BY Zenon
<1> DEFINE Passes(k) == Walk[k] \in published \/ \E i \in 1 .. k - 1 : Path[Walk[i]] > Path[Walk[k]]
<1>0. /\ enq \in [pc : {"walk", "done", "crashed"}, pos : Nat, lastPath : Nat, lastOffset : Nat,
                  fatal : BOOLEAN, enqueued : Nat]
      /\ enq.pos \in 1 .. Len(Walk) + 1 /\ Len(Walk) \in Nat
  BY Zenon, WalkAssumption DEF WalkInv
<1>1. ASSUME UNCHANGED <<enq, published>> PROVE WalkInv'
  BY Zenon, <1>1 DEF WalkInv
<1>2. ASSUME SkipFile PROVE WalkInv'
  <2> DEFINE c == enq.pos
             P == Path[Walk[c]]
  <2>1. /\ enq.pc = "walk" /\ c \in 1 .. Len(Walk) /\ enq' = [enq EXCEPT !.pos = c + 1] /\ published' = published
        /\ SkipsPath(Walk[c])
    BY <1>0, <1>2 DEF SkipFile, Walking, Current, history
  <2>2. enq'.pc = enq.pc /\ enq'.pos = c + 1 /\ enq'.lastPath = enq.lastPath /\ enq'.lastOffset = enq.lastOffset
        /\ enq'.fatal = enq.fatal
    BY Zenon, <1>0, <2>1
  <2>3. ASSUME ~enq.fatal PROVE Passes(c)
    <3>1. PICK i \in 1 .. c - 1 : Path[Walk[i]] = enq.lastPath /\ Offset[Walk[i]] = enq.lastOffset
      BY Zenon, <2>1, <2>3 DEF WalkInv, SkipsPath
    <3>2. Path[Walk[i]] \in Nat /\ P \in Nat /\ Offset[Walk[i]] \in Nat /\ Offset[Walk[c]] \in Nat
      <4>1. Walk[i] \in Mails /\ Walk[c] \in Mails
        BY SMTT(30), <1>0, <2>1 DEF Mails
      <4> QED
        BY Zenon, <4>1, WalkAssumption
    <3>3. CASE P < enq.lastPath
      BY Zenon, <3>1, <3>2, <3>3
    <3>4. CASE P = enq.lastPath /\ (Walk[c] \notin Mbox \/ Offset[Walk[c]] <= enq.lastOffset)
      <4>1. PICK j \in 1 .. c - 1 : Walk[j] = Walk[c]
        <5>1. i \in 1 .. Len(Walk) /\ i < c /\ Path[Walk[i]] = Path[Walk[c]]
          BY SMTT(30), <1>0, <2>1, <3>1, <3>4
        <5>2. \/ \E j \in 1 .. c - 1 : Walk[j] = Walk[c]
              \/ Walk[c] \in Mbox /\ Offset[Walk[i]] < Offset[Walk[c]]
          BY Zenon, <2>1, <5>1, WalkAssumption
        <5> QED
          BY SMTT(30), <3>1, <3>2, <3>4, <5>2
      <4>2. Passes(j)
        BY Zenon, <2>1, <2>3 DEF WalkInv
      <4>3. 1 .. j - 1 \subseteq 1 .. c - 1
        BY <1>0
      <4> QED
        BY Zenon, <4>1, <4>2, <4>3
    <3> QED
      BY Zenon, <2>1, <3>3, <3>4 DEF SkipsPath
  <2>4. ASSUME ~enq.fatal, NEW k \in 1 .. c PROVE Passes(k)
    <3>1. k = c \/ k \in 1 .. c - 1
      BY <1>0
    <3> QED
      BY Zenon, <2>3, <2>4, <3>1 DEF WalkInv
  <2>5. 1 .. c - 1 \subseteq 1 .. c /\ (c + 1) - 1 = c /\ c + 1 \in 1 .. Len(Walk) + 1
    BY SMTT(30), <1>0, <2>1
  <2>6. enq' \in [pc : {"walk", "done", "crashed"}, pos : Nat, lastPath : Nat, lastOffset : Nat,
                  fatal : BOOLEAN, enqueued : Nat]
    BY SMTT(30), <1>0, <2>1
  <2> HIDE DEF c
  <2> QED
    BY Zenon, <2>1, <2>2, <2>4, <2>5, <2>6 DEF WalkInv, c
<1>3. ASSUME PublishJob PROVE WalkInv'
  <2> DEFINE c == enq.pos
  <2>1. /\ enq.pc = "walk" /\ c \in 1 .. Len(Walk) /\ published' = published \cup {Walk[c]}
        /\ enq' = [Passed(enq) EXCEPT !.pos = @ + 1]
    BY <1>0, <1>3 DEF PublishJob, Walking, Current
  <2>p. Path[Walk[c]] \in Nat /\ Offset[Walk[c]] \in Nat
    <3>1. Walk[c] \in Mails
      BY Zenon, <2>1 DEF Mails
    <3> QED
      BY Zenon, <3>1, WalkAssumption
  <2>2. /\ enq'.pc = enq.pc /\ enq'.pos = c + 1 /\ enq'.lastPath = Path[Walk[c]] /\ enq'.lastOffset = Offset[Walk[c]]
        /\ enq'.fatal = enq.fatal
        /\ enq' \in [pc : {"walk", "done", "crashed"}, pos : Nat, lastPath : Nat, lastOffset : Nat,
                     fatal : BOOLEAN, enqueued : Nat]
    <3>1. Path[Current] \in Nat /\ Offset[Current] \in Nat /\ enq.enqueued + 1 \in Nat
      BY <1>0, <2>p DEF Current
    <3> DEFINE e == Passed(enq)
    <3>2. /\ e \in [pc : {"walk", "done", "crashed"}, pos : Nat, lastPath : Nat, lastOffset : Nat,
                    fatal : BOOLEAN, enqueued : Nat]
          /\ e.lastPath = Path[Current] /\ e.lastOffset = Offset[Current] /\ e.pc = enq.pc /\ e.fatal = enq.fatal
          /\ e.pos = c
      BY Zenon, <1>0, <3>1 DEF Passed
    <3>3. enq' = [e EXCEPT !.pos = c + 1]
      BY Zenon, <2>1, <3>2
    <3> HIDE DEF e
    <3>4. c + 1 \in Nat
      BY <1>0, <2>1
    <3>5. Current = Walk[c]
      BY Zenon DEF Current
    <3> QED
      BY Zenon, <3>2, <3>3, <3>4, <3>5
  <2>3. ASSUME ~enq.fatal, NEW k \in 1 .. c
        PROVE  Walk[k] \in published' \/ \E i \in 1 .. k - 1 : Path[Walk[i]] > Path[Walk[k]]
    <3>1. k = c \/ k \in 1 .. c - 1
      BY <1>0
    <3> QED
      BY Zenon, <2>1, <2>3, <3>1 DEF WalkInv
  <2>4. c \in 1 .. c /\ (c + 1) - 1 = c /\ c + 1 \in 1 .. Len(Walk) + 1
    BY <1>0, <2>1
  <2> HIDE DEF c
  <2> QED
    BY Zenon, <2>1, <2>2, <2>3, <2>4 DEF WalkInv, c
<1>4. ASSUME PublishFails PROVE WalkInv'
  <2>1. PICK i \in enq.pos + 1 .. Len(Walk) + 1, e \in {enq, Passed(enq)} : enq' = [e EXCEPT !.fatal = TRUE, !.pos = i]
    BY Zenon, <1>4 DEF PublishFails
  <2>2. Path[Current] \in Nat /\ Offset[Current] \in Nat
    <3>1. enq.pos \in 1 .. Len(Walk)
      BY <1>0, <1>4 DEF PublishFails, Walking
    <3>2. Current \in Mails
      BY Zenon, <3>1 DEF Mails, Current
    <3> QED
      BY Zenon, <3>2, WalkAssumption
  <2>3. e \in [pc : {"walk", "done", "crashed"}, pos : Nat, lastPath : Nat, lastOffset : Nat,
               fatal : BOOLEAN, enqueued : Nat]
    <3>1. enq.enqueued + 1 \in Nat
      BY <1>0
    <3> QED
      BY Zenon, <1>0, <2>2, <3>1 DEF Passed
  <2>4. i \in 1 .. Len(Walk) + 1 /\ i \in Nat
    BY <1>0
  <2> QED
    BY Zenon, <2>1, <2>3, <2>4 DEF WalkInv
<1>5. ASSUME EndWalk PROVE WalkInv'
  <2>1. enq.pos = Len(Walk) + 1 /\ enq' = [enq EXCEPT !.pc = "done"] /\ published' = published
    BY <1>0, <1>5 DEF EndWalk, history
  <2>2. /\ enq'.pos = enq.pos /\ enq'.lastPath = enq.lastPath /\ enq'.lastOffset = enq.lastOffset
        /\ enq'.fatal = enq.fatal
        /\ enq' \in [pc : {"walk", "done", "crashed"}, pos : Nat, lastPath : Nat, lastOffset : Nat,
                     fatal : BOOLEAN, enqueued : Nat]
    BY Zenon, <1>0, <2>1
  <2> QED
    BY Zenon, <2>1, <2>2 DEF WalkInv
<1>6. ASSUME EnqueueCrashes PROVE WalkInv'
  <2>1. enq' = [enq EXCEPT !.pc = "crashed"] /\ published' = published
    BY Zenon, <1>6 DEF EnqueueCrashes, history
  <2>2. /\ enq'.pc = "crashed" /\ enq'.pos = enq.pos /\ enq'.lastPath = enq.lastPath
        /\ enq'.lastOffset = enq.lastOffset /\ enq'.fatal = enq.fatal
        /\ enq' \in [pc : {"walk", "done", "crashed"}, pos : Nat, lastPath : Nat, lastOffset : Nat,
                     fatal : BOOLEAN, enqueued : Nat]
    BY Zenon, <1>0, <2>1
  <2> QED
    BY Zenon, <2>1, <2>2 DEF WalkInv
<1>7. ASSUME EnqueueAgain PROVE WalkInv'
  BY <1>0, <1>7 DEF EnqueueAgain, FreshRun, WalkInv
<1>8. ASSUME \/ \E w \in Workers : WorkerStep(w) \/ ImportFails(w)
             \/ \E p \in Procs : DeliverFailed(p) \/ StopProcess(p) \/ StartProcess(p)
             \/ RetryExpires \/ UNCHANGED vars
      PROVE  WalkInv'
  BY Zenon, <1>1, <1>8 DEF WorkerStep, Receive, ImportJob, ImportFails, AckJob, PublishFailure, AckFailure, TakeFailed,
     NoMoreFailed, RouteFailed, AckRouted, DeliverFailed, StopProcess, StartProcess, RetryExpires, history, vars
<1> QED
  BY Zenon, <1>2, <1>3, <1>4, <1>5, <1>6, <1>7, <1>8 DEF Next, WorkerStep

-----------------------------------------------------------------------------

\* Both invariants hold from the first publish of the first run on.
LEMMA QueueInvariant == Spec => [](QueueInv /\ WalkInv)
<1>1. Init => QueueInv /\ WalkInv
  <2> SUFFICES ASSUME Init PROVE QueueInv /\ WalkInv
    BY Zenon
  <2>1. DOMAIN msgs = {} /\ pc = [w \in Workers |-> "idle"] /\ published = {} /\ enq = FreshRun
    BY DEF Init
  <2>2. "idle" \in Places /\ "idle" \notin Holding \cup RoutingAt
    BY Zenon DEF Places, Holding, RoutingAt
  <2>3. QueueInv
    BY Zenon, <2>1, <2>2 DEF QueueInv, Deliveries, JobsKept
  <2>4. WalkInv
    BY <2>1, WalkAssumption DEF WalkInv, FreshRun
  <2> QED
    BY Zenon, <2>3, <2>4
<1> QED
  BY <1>1, QueueStep, WalkStep, PTL DEF Spec

\* No published job is ever lost: whatever worker process stops between a publish
\* and an acknowledgement, the job is settled or the broker has a message for it
\* (Retry and ProcessSourceImportFailures publish before they acknowledge).
THEOREM JobsAreNeverLost == Spec => []JobsNeverLost
<1>1. QueueInv => JobsNeverLost
  BY Zenon DEF QueueInv, JobsKept, JobsNeverLost
<1> QED
  BY <1>1, QueueInvariant, PTL

\* A walk that ends without a fatal failure has published every mail, except
\* those whose path sorts before one it had published already.
THEOREM WalkAlwaysPublishes == Spec => []WalkPublishes
<1>1. WalkInv => WalkPublishes
  <2> SUFFICES ASSUME WalkInv, enq.pc = "done", ~enq.fatal, NEW k \in 1 .. Len(Walk)
               PROVE  Walk[k] \in published \/ \E i \in 1 .. k - 1 : Path[Walk[i]] > Path[Walk[k]]
    BY Zenon DEF WalkPublishes
  <2>1. k \in 1 .. enq.pos - 1
    BY WalkAssumption DEF WalkInv
  <2> QED
    BY Zenon, <2>1 DEF WalkInv
<1> QED
  BY <1>1, QueueInvariant, PTL
=============================================================================
