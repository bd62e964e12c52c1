------------------------------ MODULE SelfHeal ------------------------------
(***************************************************************************)
(* The self-heal backstop of the scheduler                                 *)
(* (internal/scheduler/scheduler.go: updatePressure, noteWrite,            *)
(* runSelfHeal, selfHealChunk).  Once per tick the loop samples the queue  *)
(* depth, notices writes, and, when writes have stopped for long enough    *)
(* and there is no backpressure, walks one chunk of the corpus from its    *)
(* cursor, publishing the analysis work that is missing.                   *)
(***************************************************************************)
EXTENDS Integers, FiniteSets, FiniteSetsExt

CONSTANTS
    Objects,        \* the corpus: digests, in the order of WalkProjection
    ChunkSize,      \* SelfHealChunkSize
    IdleThreshold,  \* SelfHealIdleThreshold, in ticks of the loop
    LowWater, HighWater,
    MaxDepth        \* bound: the deepest queue

ASSUME SelfHealAssumption ==
    /\ Objects \subseteq Nat \ {0} /\ IsFiniteSet(Objects)
    /\ ChunkSize \in Nat \ {0}
    /\ IdleThreshold \in Nat
    /\ LowWater \in Nat /\ HighWater \in Nat /\ LowWater < HighWater
    /\ MaxDepth \in Nat

VARIABLES
    depth,      \* pending and retried jobs in the broker
    pressured,
    writeSeen,
    sweepArmed,
    idle,       \* ticks since idleSince, or -1 when it is zero
    sweepPos,   \* the cursor; 0 is ""
    missing,    \* objects with analysis work nobody has published
    visited,    \* history: what the latest step looked at
    failed      \* history: the latest chunk was cut short by a failed publish

healVars == <<depth, pressured, writeSeen, sweepArmed, idle, sweepPos, missing, visited, failed>>

HealInit ==
    /\ depth = 0
    /\ pressured = FALSE
    /\ writeSeen = FALSE
    /\ sweepArmed = FALSE
    /\ idle = -1
    /\ sweepPos = 0
    /\ missing = {}
    /\ visited = {}
    /\ failed = FALSE

\* A write is noted and its jobs published; work for any object may go missing.
noteWrite ==
    /\ depth < MaxDepth
    /\ depth' = depth + 1
    /\ writeSeen' = TRUE
    /\ \E o \in Objects \cup {0} : missing' = (missing \cup {o}) \ {0}
    /\ visited' = {}
    /\ UNCHANGED <<pressured, sweepArmed, idle, sweepPos, failed>>

\* The workers drain the queue.
drain ==
    /\ depth > 0
    /\ depth' = depth - 1
    /\ visited' = {}
    /\ UNCHANGED <<pressured, writeSeen, sweepArmed, idle, sweepPos, missing, failed>>

\* updatePressure: engaged at the high water mark, released at the low one.
updatePressure ==
    IF pressured THEN depth > LowWater ELSE depth >= HighWater

\* The objects selfHealChunk walks from its cursor, the cursor's own included.
rest == {o \in Objects : o >= sweepPos}
lowest(n, s) == {o \in s : Cardinality({x \in s : x <= o}) <= n}

\* Mutated form of nextPos: the end of the corpus is not recognised.
nextPosStuck(seen) == IF seen = {} THEN sweepPos ELSE Max(seen)

\* The cursor after a chunk that counted the objects of seen: a chunk that is
\* not full is taken for the end of the corpus.
nextPos(seen) == IF Cardinality(seen) < ChunkSize THEN 0 ELSE Max(seen)

\* selfHealChunk; fails is the object whose publish fails, 0 when none does.
selfHealChunk(fails) ==
    LET chunk == lowest(ChunkSize, rest)
        seen == IF fails = 0 THEN chunk ELSE {o \in chunk : o <= fails}
    IN  /\ fails \in (chunk \cap missing) \cup {0}
        /\ visited' = seen \ {fails}
        /\ failed' = (fails # 0)
        /\ missing' = missing \ (seen \ {fails})
        /\ sweepPos' = nextPos(seen)

\* The loop body counts a tick as idle only when armed and not pressured.
mayIdle(armed, pressure) == armed /\ ~pressure

\* A write that was noted restarts the idle clock.
restart(seen, since) == IF seen THEN -1 ELSE since

\* One iteration of runSelfHeal.
tick ==
    LET armed == sweepArmed \/ writeSeen
        since == restart(writeSeen, idle)
        counted == IF since = -1 THEN 0 ELSE since
        due == mayIdle(armed, updatePressure) /\ counted >= IdleThreshold
    IN  /\ pressured' = updatePressure
        /\ writeSeen' = FALSE
        /\ sweepArmed' = (armed /\ ~due)
        /\ idle' = IF due THEN -1
                   ELSE IF mayIdle(armed, updatePressure) \/ since # -1
                        THEN IF counted < IdleThreshold THEN counted + 1 ELSE counted
                        ELSE -1
        /\ IF due THEN \E fails \in Objects \cup {0} : selfHealChunk(fails)
           ELSE visited' = {} /\ UNCHANGED <<sweepPos, missing, failed>>
        /\ UNCHANGED depth

HealNext == noteWrite \/ drain \/ tick

-----------------------------------------------------------------------------
(* Properties *)

\* "The cursor advances through the corpus in chunks and restarts from the
\* beginning once it reaches the end, so every object is visited each cycle":
\* while chunks keep being walked without failures, every object is visited
\* again and again.
EveryObjectVisited ==
    []<>(visited # {}) /\ <>[](~failed) => \A o \in Objects : []<>(o \in visited)
=============================================================================
