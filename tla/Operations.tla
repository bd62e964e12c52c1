----------------------------- MODULE Operations -----------------------------
(***************************************************************************)
(* Long-running interface operations that identical requests share         *)
(* (internal/appsvc/operations.go, internal/query/postgres/operations.go). *)
(* A request first looks for a running record of its hash, else inserts    *)
(* one, which a unique index on the running records may refuse; the        *)
(* creator starts an executor, every caller polls the record.  Waiters     *)
(* wake callers early; polling alone makes them correct.  The requests of  *)
(* the model have one hash: records of other hashes never meet them.       *)
(***************************************************************************)
EXTENDS Naturals, Sequences, FiniteSets

CONSTANTS
    Callers,        \* goroutines of the interface process
    MaxOperations,  \* bound: records ever inserted
    MaxOpFaults     \* bound: failed statements and crashes of the process

ASSUME OperationsAssumption ==
    /\ IsFiniteSet(Callers)
    /\ {MaxOperations, MaxOpFaults} \subseteq Nat

VARIABLES
    records,    \* the status of each record, in insertion order
    caller,     \* where each caller is: [at, op]
    executor,   \* where each operation's executor is; absent when none runs
    waiters,    \* operations with an entry in operationWaiters
    opFaults,
    orphaned    \* history: running records whose executor is gone

opStore == <<records, opFaults>>
opsVars == <<records, caller, executor, waiters, opFaults, orphaned>>

ids == DOMAIN records
running == {i \in ids : records[i] = "running"}
finished == ids \ running
nobody == [at |-> "idle", op |-> 0]
to(c, place, i) == caller' = [caller EXCEPT ![c] = [at |-> place, op |-> i]]
opOf(c) == caller[c].op

OperationsInit ==
    /\ records = <<>>
    /\ caller = [c \in Callers |-> nobody]
    /\ executor = <<>>
    /\ waiters = {}
    /\ opFaults = 0
    /\ orphaned = {}

-----------------------------------------------------------------------------
(* runOperation *)

runOperation(c) ==
    /\ caller[c].at = "idle"
    /\ to(c, "select", 0)
    /\ UNCHANGED <<opStore, executor, waiters, orphaned>>

\* runningOperationByRequestHash: before the insert, and after its conflict.
runningOperationByRequestHash(c) ==
    /\ caller[c].at \in {"select", "conflict"}
    /\ \/ \E i \in running : to(c, "join", i)
       \/ /\ running = {}
          /\ IF caller[c].at = "select" THEN to(c, "insert", 0) ELSE to(c, "idle", 0)
    /\ UNCHANGED <<opStore, executor, waiters, orphaned>>

\* Mutated form of insertOperation: no unique index on the running records.
insertOperationTwice(c) ==
    /\ caller[c].at = "insert"
    /\ Len(records) < MaxOperations
    /\ records' = Append(records, "running")
    /\ to(c, "created", Len(records) + 1)
    /\ UNCHANGED <<executor, waiters, opFaults, orphaned>>

\* The INSERT of CreateOrGet.
insertOperation(c) ==
    /\ caller[c].at = "insert"
    /\ IF running = {}
       THEN /\ Len(records) < MaxOperations
            /\ records' = Append(records, "running")
            /\ to(c, "created", Len(records) + 1)
       ELSE to(c, "conflict", 0) /\ UNCHANGED records
    /\ UNCHANGED <<executor, waiters, opFaults, orphaned>>

\* The creator registers a waiter and starts the executor.
startOperation(c) ==
    /\ caller[c].at = "created"
    /\ waiters' = waiters \cup {opOf(c)}
    /\ executor' = [i \in DOMAIN executor \cup {opOf(c)} |->
                       IF i = opOf(c) THEN "work" ELSE executor[i]]
    /\ to(c, "wait", opOf(c))
    /\ UNCHANGED <<opStore, orphaned>>

\* operationWaiter of a caller that joins: a waiter it had to make is its own to finish.
joinOperation(c) ==
    /\ caller[c].at = "join"
    /\ waiters' = waiters \cup {opOf(c)}
    /\ to(c, IF opOf(c) \in waiters THEN "wait" ELSE "unwait", opOf(c))
    /\ UNCHANGED <<opStore, executor, orphaned>>

finishOperationWaiter(c) ==
    /\ caller[c].at = "unwait"
    /\ waiters' = waiters \ {opOf(c)}
    /\ to(c, "wait", opOf(c))
    /\ UNCHANGED <<opStore, executor, orphaned>>

\* A poll of waitForOperation that finds the operation over answers the caller.
waitForOperation(c) ==
    /\ caller[c].at = "wait"
    /\ opOf(c) \in finished
    /\ to(c, "idle", 0)
    /\ UNCHANGED <<opStore, executor, waiters, orphaned>>

\* The context of the caller ends before the operation does.
leave(c) ==
    /\ caller[c].at = "wait"
    /\ to(c, "idle", 0)
    /\ UNCHANGED <<opStore, executor, waiters, orphaned>>

\* A statement of a caller fails; it returns the error.
callerFault(c) ==
    /\ caller[c].at \in {"select", "insert", "conflict", "wait"}
    /\ opFaults < MaxOpFaults
    /\ opFaults' = opFaults + 1
    /\ to(c, "idle", 0)
    /\ UNCHANGED <<records, executor, waiters, orphaned>>

\* OperationResume makes the waiter before it knows whether the record exists.
OperationResume(c, i) ==
    /\ caller[c].at = "idle"
    /\ waiters' = waiters \cup {i}
    /\ IF i \in ids THEN to(c, "wait", i) ELSE UNCHANGED caller
    /\ UNCHANGED <<opStore, executor, orphaned>>

\* The INSERT took effect but its caller got an error: nobody executes it.
insertUnanswered(c) ==
    /\ caller[c].at = "insert"
    /\ running = {}
    /\ Len(records) < MaxOperations
    /\ opFaults < MaxOpFaults
    /\ opFaults' = opFaults + 1
    /\ records' = Append(records, "running")
    /\ orphaned' = orphaned \cup {Len(records) + 1}
    /\ to(c, "idle", 0)
    /\ UNCHANGED <<executor, waiters>>

-----------------------------------------------------------------------------
(* executeOperation, detached from the request that started it *)

step(i, place) == executor' = [executor EXCEPT ![i] = place]

\* The work ends, with a result or with an error.
workEnds(i) ==
    /\ executor[i] = "work"
    /\ \E place \in {"complete", "fail"} : step(i, place)
    /\ UNCHANGED <<opStore, caller, waiters, orphaned>>

Complete(i) ==
    /\ executor[i] = "complete"
    /\ records' = [records EXCEPT ![i] = "complete"]
    /\ step(i, "finish")
    /\ UNCHANGED <<caller, waiters, opFaults, orphaned>>

\* Mutated form of completeFault: a result that cannot be stored is only logged.
completeFaultLogged(i) ==
    /\ executor[i] = "complete"
    /\ opFaults < MaxOpFaults
    /\ opFaults' = opFaults + 1
    /\ step(i, "finish")
    /\ UNCHANGED <<records, caller, waiters, orphaned>>

\* A result that cannot be stored makes the operation a failed one.
completeFault(i) ==
    /\ executor[i] = "complete"
    /\ opFaults < MaxOpFaults
    /\ opFaults' = opFaults + 1
    /\ step(i, "fail")
    /\ UNCHANGED <<records, caller, waiters, orphaned>>

Fail(i) ==
    /\ executor[i] = "fail"
    /\ records' = [records EXCEPT ![i] = "failed"]
    /\ step(i, "finish")
    /\ UNCHANGED <<caller, waiters, opFaults, orphaned>>

\* failOperation only logs its error: the record stays running.
failFault(i) ==
    /\ executor[i] = "fail"
    /\ opFaults < MaxOpFaults
    /\ opFaults' = opFaults + 1
    /\ step(i, "finish")
    /\ orphaned' = orphaned \cup {i}
    /\ UNCHANGED <<records, caller, waiters>>

executorEnds(i) ==
    /\ executor[i] = "finish"
    /\ waiters' = waiters \ {i}
    /\ executor' = [j \in DOMAIN executor \ {i} |-> executor[j]]
    /\ UNCHANGED <<opStore, caller, orphaned>>

\* The interface process dies; nothing ends the records it was executing.
interfaceStops ==
    /\ opFaults < MaxOpFaults
    /\ opFaults' = opFaults + 1
    /\ caller' = [c \in Callers |-> nobody]
    /\ executor' = <<>>
    /\ waiters' = {}
    /\ orphaned' = running
    /\ UNCHANGED records

-----------------------------------------------------------------------------

requestStep(c) ==
    \/ runningOperationByRequestHash(c) \/ insertOperation(c) \/ startOperation(c)
    \/ joinOperation(c) \/ finishOperationWaiter(c) \/ waitForOperation(c)

executeOperation(i) == workEnds(i) \/ Complete(i) \/ Fail(i) \/ executorEnds(i)

OperationsNext ==
    \/ \E c \in Callers : runOperation(c) \/ requestStep(c) \/ leave(c) \/ callerFault(c)
                             \/ insertUnanswered(c)
    \/ \E c \in Callers, i \in 1 .. MaxOperations : OperationResume(c, i)
    \/ \E i \in DOMAIN executor : executeOperation(i) \/ completeFault(i) \/ failFault(i)
    \/ interfaceStops

OperationsSpec == OperationsInit /\ [][OperationsNext]_opsVars

-----------------------------------------------------------------------------
(* Properties *)

\* Identical requests share one execution: while an operation is executed no
\* caller starts another, whatever the order of lookups, inserts and conflicts,
\* and every running record is executed, about to be, or orphaned by a crash,
\* a failed Fail or an unanswered insert.
SharedExecution ==
    /\ Cardinality(DOMAIN executor \ finished) <= 1
    /\ \A i \in running \ orphaned :
          i \in DOMAIN executor \/ \E c \in Callers : caller[c] = [at |-> "created", op |-> i]

\* Every caller that waits for an operation is answered or leaves, unless the
\* operation was orphaned: then nothing but its own context ends the wait.
CallersAnswered == \A c \in Callers :
    [](caller[c].at = "wait" => <>(caller[c].at # "wait" \/ opOf(c) \in orphaned))
=============================================================================
