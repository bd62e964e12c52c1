----------------------------- MODULE BackendPool -----------------------------
(***************************************************************************)
(* The pool of resident analyzer processes of one analyzer                 *)
(* (internal/analysis/backend.go).  Run takes a ready backend or a         *)
(* capacity slot to spawn one, sends one request, and gives the backend    *)
(* back or discards it; the reaper discards backends that were idle for    *)
(* too long; Close terminates what is registered.  The two channels never  *)
(* block a sender only as long as every slot is in exactly one place.      *)
(***************************************************************************)
EXTENDS Integers, FiniteSets

CONSTANTS
    Clients,        \* goroutines that call Run
    MaxInstances,
    Processes,      \* bound: names of backend processes, used again after they end
    MaxTrips,       \* bound: backends that fail, do not start or crash
    NoBackend

ASSUME BackendPoolAssumption ==
    /\ IsFiniteSet(Clients) /\ IsFiniteSet(Processes)
    /\ MaxInstances \in Nat \ {0}
    /\ MaxTrips \in Nat
    /\ NoBackend \notin Processes

VARIABLES
    slots,      \* length of the channel slots
    ready,      \* backends in the channel idle
    all,        \* registered backends
    client,     \* where each client is: [at, b]
    reaper,     \* [at, b]
    keep,       \* backends the reaper has taken out and will put back
    manager,    \* "open", "quit", "closing" or "closed"
    closing,    \* backends closeAll still has to close
    alive,      \* backend processes that run
    trips,
    late        \* history: backends closeAll did not see

poolVars == <<slots, ready, all, client, reaper, keep, manager, closing, alive, trips, late>>
channels == <<slots, ready>>
lifecycle == <<manager, closing>>

at(place, b) == [at |-> place, b |-> b]
resting == at("rest", NoBackend)
go(c, place, b) == client' = [client EXCEPT ![c] = at(place, b)]
mine(c) == client[c].b

BackendPoolInit ==
    /\ slots = MaxInstances
    /\ ready = {} /\ all = {} /\ keep = {} /\ closing = {} /\ alive = {} /\ late = {}
    /\ client = [c \in Clients |-> resting]
    /\ reaper = resting
    /\ manager = "open"
    /\ trips = 0

trip == trips < MaxTrips /\ trips' = trips + 1

-----------------------------------------------------------------------------
(* Run *)

Run(c) ==
    /\ client[c].at = "rest"
    /\ go(c, "acquire", NoBackend)
    /\ UNCHANGED <<channels, all, reaper, keep, lifecycle, alive, trips, late>>

\* acquire: a ready backend, ...
acquireReady(c) ==
    /\ client[c].at = "acquire"
    /\ \E b \in ready :
          /\ ready' = ready \ {b}
          /\ go(c, "use", b)
    /\ UNCHANGED <<slots, all, reaper, keep, lifecycle, alive, trips, late>>

\* ... or a slot; a backend may have come back since idle was looked at.
acquireSlot(c) ==
    /\ client[c].at = "acquire"
    /\ slots > 0
    /\ slots' = slots - 1
    /\ go(c, "spawn", NoBackend)
    /\ UNCHANGED <<ready, all, reaper, keep, lifecycle, alive, trips, late>>

\* The context of the call ends while it waits.
acquireCancelled(c) ==
    /\ client[c].at = "acquire"
    /\ go(c, "rest", NoBackend)
    /\ UNCHANGED <<channels, all, reaper, keep, lifecycle, alive, trips, late>>

inUse == ready \cup all \cup keep \cup closing \cup alive \cup {reaper.b}
         \cup {mine(c) : c \in Clients}

\* A process of no earlier backend: which name it gets tells nothing.
unusedName == CHOOSE b \in Processes : b \notin inUse

\* spawn: the process starts, ...
startProcess(c) ==
    /\ client[c] = at("spawn", NoBackend)
    /\ Processes \ inUse # {}
    /\ alive' = alive \cup {unusedName}
    /\ late' = IF manager \in {"closing", "closed"} THEN late \cup {unusedName} ELSE late \ {unusedName}
    /\ go(c, "register", unusedName)
    /\ UNCHANGED <<channels, all, reaper, keep, lifecycle, trips>>

\* ... or it cannot be started and the slot goes back.
startFails(c) ==
    /\ client[c] = at("spawn", NoBackend)
    /\ trip
    /\ go(c, "return", NoBackend)
    /\ UNCHANGED <<channels, all, reaper, keep, lifecycle, alive, late>>

register(c) ==
    /\ client[c].at = "register"
    /\ all' = all \cup {mine(c)}
    /\ go(c, "await", mine(c))
    /\ UNCHANGED <<channels, reaper, keep, lifecycle, alive, trips, late>>

awaitReady(c) ==
    /\ client[c].at = "await"
    /\ mine(c) \in alive
    /\ go(c, "use", mine(c))
    /\ UNCHANGED <<channels, all, reaper, keep, lifecycle, alive, trips, late>>

\* The process ends or its startup times out: it is closed, then forgotten.
awaitFails(c) ==
    /\ client[c].at = "await"
    /\ IF mine(c) \in alive THEN trip ELSE UNCHANGED trips
    /\ alive' = alive \ {mine(c)}
    /\ go(c, "forget", mine(c))
    /\ UNCHANGED <<channels, all, reaper, keep, lifecycle, late>>

\* roundTrip answers, perhaps with an error of the object: release.  Its branch
\* for a full channel is never taken, as SlotsConserved shows.
release(c) ==
    /\ client[c].at = "use"
    /\ mine(c) \in alive
    /\ Cardinality(ready) < MaxInstances
    /\ ready' = ready \cup {mine(c)}
    /\ go(c, "rest", NoBackend)
    /\ UNCHANGED <<slots, all, reaper, keep, lifecycle, alive, trips, late>>

\* roundTrip fails: the process is gone, or too slow, or the context ended.
\* The first step of discard closes the backend.
discard(c) ==
    /\ client[c].at = "use"
    /\ IF mine(c) \in alive THEN trip ELSE UNCHANGED trips
    /\ alive' = alive \ {mine(c)}
    /\ go(c, "forget", mine(c))
    /\ UNCHANGED <<channels, all, reaper, keep, lifecycle, late>>

forget(c) ==
    /\ client[c].at = "forget"
    /\ all' = all \ {mine(c)}
    /\ go(c, "return", NoBackend)
    /\ UNCHANGED <<channels, reaper, keep, lifecycle, alive, trips, late>>

\* Mutated form of returnSlot: the slot of a spawn that failed is not given back.
returnSlotLost(c) ==
    /\ client[c].at = "return"
    /\ go(c, "rest", NoBackend)
    /\ UNCHANGED <<channels, all, reaper, keep, lifecycle, alive, trips, late>>

\* The slot goes back; a full channel would block the sender.
returnSlot(c) ==
    /\ client[c].at = "return"
    /\ slots < MaxInstances
    /\ slots' = slots + 1
    /\ go(c, "rest", NoBackend)
    /\ UNCHANGED <<ready, all, reaper, keep, lifecycle, alive, trips, late>>

-----------------------------------------------------------------------------
(* reapLoop and reap *)

reapIdle ==
    /\ reaper.at = "rest"
    /\ manager \in {"open", "quit"}
    /\ reaper' = at("drain", NoBackend)
    /\ UNCHANGED <<channels, all, client, keep, lifecycle, alive, trips, late>>

\* A backend is taken out; whether its idle time is over is the clock's choice.
reapTake ==
    /\ reaper.at = "drain"
    /\ \E b \in ready :
          /\ ready' = ready \ {b}
          /\ \/ keep' = keep \cup {b} /\ UNCHANGED <<reaper, alive>>
             \/ reaper' = at("forget", b) /\ alive' = alive \ {b} /\ UNCHANGED keep
    /\ UNCHANGED <<slots, all, client, lifecycle, trips, late>>

reapForget ==
    /\ reaper.at = "forget"
    /\ all' = all \ {reaper.b}
    /\ reaper' = at("return", NoBackend)
    /\ UNCHANGED <<channels, client, keep, lifecycle, alive, trips, late>>

\* Mutated form of reapReturn: the slot of a reaped backend is not given back.
reapReturnLost ==
    /\ reaper.at = "return"
    /\ reaper' = at("drain", NoBackend)
    /\ UNCHANGED <<channels, all, client, keep, lifecycle, alive, trips, late>>

reapReturn ==
    /\ reaper.at = "return"
    /\ slots < MaxInstances
    /\ slots' = slots + 1
    /\ reaper' = at("drain", NoBackend)
    /\ UNCHANGED <<ready, all, client, keep, lifecycle, alive, trips, late>>

\* Nothing is idle any more: what is kept goes back.
reapDrained ==
    /\ reaper.at = "drain"
    /\ ready = {}
    /\ reaper' = IF keep = {} THEN resting ELSE at("put", NoBackend)
    /\ UNCHANGED <<channels, all, client, keep, lifecycle, alive, trips, late>>

reapPut ==
    /\ reaper.at = "put"
    /\ Cardinality(ready) < MaxInstances
    /\ \E b \in keep :
          /\ ready' = ready \cup {b}
          /\ keep' = keep \ {b}
          /\ reaper' = IF keep = {b} THEN resting ELSE reaper
    /\ UNCHANGED <<slots, all, client, lifecycle, alive, trips, late>>

-----------------------------------------------------------------------------
(* Close, and the processes *)

Close ==
    /\ manager = "open"
    /\ manager' = "quit"
    /\ UNCHANGED <<channels, all, client, reaper, keep, closing, alive, trips, late>>

\* The reaper has returned: closeAll copies the registered backends, ...
closeAll ==
    /\ manager = "quit"
    /\ reaper = resting
    /\ manager' = "closing"
    /\ closing' = all
    /\ late' = alive \ all
    /\ UNCHANGED <<channels, all, client, reaper, keep, alive, trips>>

\* ... and closes them one after the other, whoever uses them.
closeBackend ==
    /\ manager = "closing"
    /\ IF closing = {} THEN manager' = "closed" /\ UNCHANGED <<closing, alive>>
       ELSE \E b \in closing : /\ closing' = closing \ {b}
                               /\ alive' = alive \ {b}
                               /\ UNCHANGED manager
    /\ UNCHANGED <<channels, all, client, reaper, keep, trips, late>>

backendCrashes ==
    /\ trip
    /\ \E b \in alive : alive' = alive \ {b}
    /\ UNCHANGED <<channels, all, client, reaper, keep, lifecycle, late>>

-----------------------------------------------------------------------------

acquire(c) == acquireReady(c) \/ acquireSlot(c)

runStep(c) ==
    \/ startProcess(c) \/ register(c) \/ awaitReady(c) \/ release(c) \/ forget(c) \/ returnSlot(c)
    \/ mine(c) \notin alive /\ (awaitFails(c) \/ discard(c))

runFault(c) == acquireCancelled(c) \/ startFails(c) \/ awaitFails(c) \/ discard(c)

reapStep == reapTake \/ reapForget \/ reapReturn \/ reapDrained \/ reapPut

closeStep == closeAll \/ closeBackend

BackendPoolNext ==
    \/ \E c \in Clients : Run(c) \/ acquire(c) \/ runStep(c) \/ runFault(c)
    \/ reapIdle \/ reapStep
    \/ Close \/ closeStep \/ backendCrashes

BackendPoolSpec == BackendPoolInit /\ [][BackendPoolNext]_poolVars

-----------------------------------------------------------------------------
(* Properties *)

holding == {"spawn", "register", "await", "use", "forget", "return"}
holders == {c \in Clients : client[c].at \in holding}
reaping == IF reaper.at \in {"forget", "return"} THEN 1 ELSE 0

\* "capacity = MaxInstances - len(slots)": every slot is in its channel, with a
\* backend in one place, or with whoever will give it back, so that no sender
\* ever blocks on a channel and nothing is spawned beyond the limit.  And "a
\* backend lives in exactly one place at a time (idle, or out being used)": no
\* process runs that is in no place, where nobody would ever end it, and none
\* serves two clients.  And "Close ... terminates every backend": once it has
\* returned, the backends that run are those a Run in progress spawned too late
\* for closeAll to see.
SlotsConserved ==
    /\ slots + Cardinality(ready) + Cardinality(keep) + Cardinality(holders) + reaping = MaxInstances
    /\ alive \subseteq ready \cup keep \cup {mine(c) : c \in Clients}
    /\ ready \cap keep = {}
    /\ \A c \in Clients : mine(c) \notin ready \cup keep
    /\ \A c, d \in Clients : mine(c) = mine(d) /\ mine(c) # NoBackend => c = d
    /\ manager = "closed" => alive \subseteq late

\* Every Run returns: nobody waits for ever for a backend, through crashes,
\* reaping, failed spawns and Close.
RunsReturn == \A c \in Clients : client[c].at # "rest" ~> client[c].at = "rest"
=============================================================================
