--------------------------- MODULE SourceBackfill ---------------------------
(***************************************************************************)
(* The SOURCE service pulling a mailbox into FILESTORE.  Every runner is a *)
(* goroutine looping over RunBackfill: the historical backfill, which      *)
(* resumes from its stored cursor and ends, and the inbox refresh, which   *)
(* starts over for ever.  A page of messages is hydrated and its objects   *)
(* are ingested concurrently; FILESTORE serialises the writers of a source *)
(* object with an ingest claim that expires.  The runners keep their       *)
(* cursors in one record, read and rewritten whole.                        *)
(*                                                                         *)
(* A message stands for its source reference and its compound object.      *)
(* Every call to FILESTORE is a step of its own and may fail.              *)
(***************************************************************************)
EXTENDS Naturals, Sequences

CONSTANTS
    Messages,     \* source references
    Runners,      \* goroutines calling RunBackfill, one cursor key each
    Resumed,      \* runners with Resume set; they end on completion
    Pages,        \* [Runners -> Seq(SUBSET Messages)], what the mailbox lists
    MaxPages,     \* [Runners -> Nat], pages per call of RunBackfill, 0 = all
    MaxCrashes,   \* bound on crashes of the source process
    MaxFaults,    \* bound on failed calls
    MaxExpiries   \* bound on claims that run out or are lost

ASSUME SourceBackfillAssumption ==
    /\ "none" \notin Runners
    /\ Pages \in [Runners -> Seq(SUBSET Messages)]
    /\ MaxPages \in [Runners -> Nat]
    /\ {MaxCrashes, MaxFaults, MaxExpiries} \subseteq Nat

VARIABLES
    stored,       \* messages LookupSourceObject finds in FILESTORE
    claims,       \* the lk/ rows of FILESTORE
    cursors,      \* the source cursor record, one entry per runner
    sourceLookup, \* positive lookup cache of the source process
    pc, pos,      \* where each runner is, and the pages its cursor has passed
    first,        \* pos when this call of RunBackfill started
    next, latest, \* cursor to write, and the record it is merged into
    step, result, \* progress and outcome of each ingest of the current page
    crashes, faults, expiries,
    leaked,       \* history: messages whose claiming ingest was cut off
    overdue,      \* history: messages whose claim ran out or was lost
    failed        \* history: messages an ingest returned an error for

storeVars == <<stored, claims, cursors>>
runVars == <<pc, pos, first, next, latest>>
ingestVars == <<step, result>>
bounds == <<crashes, faults, expiries>>
history == <<leaked, overdue, failed>>
vars == <<stored, claims, cursors, sourceLookup, runVars, ingestVars, bounds, history>>

NoClaim == [owner |-> "none", live |-> FALSE]

\* Steps of an ingest between a successful claim and its release.
Claiming == {"recheck", "put", "relook", "release", "defer"}

completed(r, p) == p = Len(Pages[r])
page(r) == Pages[r][pos[r] + 1]

\* p is the position the call of RunBackfill has got to.
MaxPagesNotReached(r, p) == MaxPages[r] = 0 \/ p - first[r] < MaxPages[r]

noCursors == [r \in Runners |-> 0]
idleSteps == [m \in Messages |-> "idle"]
noResults == [m \in Messages |-> "none"]

Init ==
    /\ stored = {}
    /\ claims = [m \in Messages |-> NoClaim]
    /\ cursors = noCursors
    /\ sourceLookup = {}
    /\ pc = [r \in Runners |-> "start"]
    /\ pos = [r \in Runners |-> 0]
    /\ first = [r \in Runners |-> 0]
    /\ next = [r \in Runners |-> 0]
    /\ latest = [r \in Runners |-> noCursors]
    /\ step = [r \in Runners |-> idleSteps]
    /\ result = [r \in Runners |-> noResults]
    /\ crashes = 0 /\ faults = 0 /\ expiries = 0
    /\ leaked = {} /\ overdue = {} /\ failed = {}

-----------------------------------------------------------------------------
(* One ingest: Service.Ingest of message m for runner r. *)

goto(r, m, s) == step' = [step EXCEPT ![r][m] = s]
answer(r, m, o) == result' = [result EXCEPT ![r][m] = o]

\* The ingest of m returns outcome o.
ends(r, m, o) == goto(r, m, "ended") /\ answer(r, m, o)

found(m) == m \in sourceLookup \cup stored

\* lookupSourceObject answers from the cache or asks FILESTORE, and caches
\* what it finds; a hit ends the ingest with nothing written.
lookupFound(r, m) ==
    /\ step[r][m] = "lookup"
    /\ found(m)
    /\ sourceLookup' = sourceLookup \cup {m}
    /\ ends(r, m, "found")
    /\ UNCHANGED <<storeVars, runVars, bounds, history>>

lookupMissed(r, m) ==
    /\ step[r][m] = "lookup"
    /\ ~found(m)
    /\ goto(r, m, "acquire")
    /\ UNCHANGED <<storeVars, sourceLookup, runVars, result, bounds, history>>

\* TryAcquireSourceIngest: a test-and-set under the key lock; a claim past its
\* TTL is replaced.
free(m) == ~claims[m].live
claim(r, m) == claims' = [claims EXCEPT ![m] = [owner |-> r, live |-> TRUE]]

\* Mutated form of TryAcquireSourceIngest: the row found is not looked at.
TryAcquireAlways(r, m) ==
    /\ step[r][m] = "acquire"
    /\ claim(r, m)
    /\ goto(r, m, "recheck")
    /\ UNCHANGED <<stored, cursors, sourceLookup, runVars, result, bounds, history>>

\* Mutated form of TryAcquireSourceIngest: the second lookup is forgotten.
TryAcquireThenPut(r, m) ==
    /\ step[r][m] = "acquire"
    /\ free(m)
    /\ claim(r, m)
    /\ goto(r, m, "put")
    /\ UNCHANGED <<stored, cursors, sourceLookup, runVars, result, bounds, history>>

TryAcquireSourceIngest(r, m) ==
    /\ step[r][m] = "acquire"
    /\ free(m)
    /\ claim(r, m)
    /\ goto(r, m, "recheck")
    /\ UNCHANGED <<stored, cursors, sourceLookup, runVars, result, bounds, history>>

\* A live claim: ErrSourceIngestInProgress.
inProgress(r, m) ==
    /\ step[r][m] = "acquire"
    /\ ~free(m)
    /\ ends(r, m, "busy")
    /\ UNCHANGED <<storeVars, sourceLookup, runVars, bounds, history>>

\* Under the claim the lookup is repeated; a hit releases the claim.
recheck(r, m) ==
    /\ step[r][m] = "recheck"
    /\ IF found(m)
       THEN /\ sourceLookup' = sourceLookup \cup {m}
            /\ goto(r, m, "release")
            /\ answer(r, m, "found")
       ELSE goto(r, m, "put") /\ UNCHANGED <<sourceLookup, result>>
    /\ UNCHANGED <<storeVars, runVars, bounds, history>>

PutCompound(r, m) ==
    /\ step[r][m] = "put"
    /\ stored' = stored \cup {m}
    /\ goto(r, m, "release")
    /\ answer(r, m, "created")
    /\ UNCHANGED <<claims, cursors, sourceLookup, runVars, bounds, history>>

\* The write fails, before or after FILESTORE applied it, and the source
\* reference is looked up once more.
putFails(r, m) ==
    /\ step[r][m] = "put"
    /\ faults < MaxFaults
    /\ faults' = faults + 1
    /\ stored' \in {stored, stored \cup {m}}
    /\ goto(r, m, "relook")
    /\ UNCHANGED <<claims, cursors, sourceLookup, runVars, result, crashes, expiries, history>>

lookupAfterWriteError(r, m) ==
    /\ step[r][m] = "relook"
    /\ sourceLookup' = IF found(m) THEN sourceLookup \cup {m} ELSE sourceLookup
    /\ answer(r, m, IF found(m) THEN "found" ELSE "failed")
    /\ goto(r, m, "defer")
    /\ UNCHANGED <<storeVars, runVars, bounds, history>>

\* What ReleaseSourceIngest leaves of the row: it deletes its own claim only.
owned(r, m) == claims[m].owner = r
released(r, m) == IF owned(r, m) THEN [claims EXCEPT ![m] = NoClaim] ELSE claims

\* ReleaseSourceIngest: a row of another claim is an error, a missing row none;
\* after an error the deferred releaseClaim tries once more.
ReleaseSourceIngest(r, m) ==
    /\ step[r][m] = "release"
    /\ claims' = released(r, m)
    /\ IF owned(r, m) \/ claims[m] = NoClaim
       THEN goto(r, m, "ended") /\ UNCHANGED result
       ELSE goto(r, m, "defer") /\ answer(r, m, "failed")
    /\ UNCHANGED <<stored, cursors, sourceLookup, runVars, bounds, history>>

\* The deferred release; its error is ignored.
releaseClaim(r, m) ==
    /\ step[r][m] = "defer"
    /\ claims' = released(r, m)
    /\ goto(r, m, "ended")
    /\ UNCHANGED <<stored, cursors, sourceLookup, runVars, result, bounds, history>>

\* A lookup call fails: under the claim the deferred release follows.
lookupFails(r, m) ==
    /\ step[r][m] \in {"lookup", "recheck", "relook"}
    /\ m \notin sourceLookup
    /\ faults < MaxFaults
    /\ faults' = faults + 1
    /\ answer(r, m, "failed")
    /\ goto(r, m, IF step[r][m] = "lookup" THEN "ended" ELSE "defer")
    /\ UNCHANGED <<storeVars, sourceLookup, runVars, crashes, expiries, history>>

\* The acquire call fails; when FILESTORE had granted it nobody releases it.
acquireFails(r, m) ==
    /\ step[r][m] = "acquire"
    /\ faults < MaxFaults
    /\ faults' = faults + 1
    /\ ends(r, m, "failed")
    /\ \/ UNCHANGED <<claims, leaked>>
       \/ free(m) /\ claim(r, m) /\ leaked' = leaked \cup {m}
    /\ UNCHANGED <<stored, cursors, sourceLookup, runVars, crashes, expiries, overdue, failed>>

\* A release call fails: the first is retried by the deferred one, which
\* leaves the claim behind when it fails too.
releaseFails(r, m) ==
    /\ step[r][m] \in {"release", "defer"}
    /\ faults < MaxFaults
    /\ faults' = faults + 1
    /\ IF step[r][m] = "release"
       THEN goto(r, m, "defer") /\ answer(r, m, "failed") /\ UNCHANGED leaked
       ELSE goto(r, m, "ended") /\ leaked' = leaked \cup {m} /\ UNCHANGED result
    /\ UNCHANGED <<storeVars, sourceLookup, runVars, crashes, expiries, overdue, failed>>

-----------------------------------------------------------------------------
(* One runner: the loop around RunBackfill. *)

move(r, p) == pc' = [pc EXCEPT ![r] = p]

\* RunBackfill reads the stored cursor; a resumed runner goes on from it, and
\* has nothing to do when it says completed.
startBackfill(r) ==
    /\ pc[r] = "start"
    /\ LET from == IF r \in Resumed THEN cursors[r] ELSE 0
       IN  /\ pos' = [pos EXCEPT ![r] = from]
           /\ first' = [first EXCEPT ![r] = from]
           /\ move(r, IF completed(r, from) THEN "done" ELSE "pull")
    /\ UNCHANGED <<storeVars, sourceLookup, next, latest, ingestVars, bounds, history>>

\* Pull lists the page behind the cursor and hydrates it; its objects go to
\* the workers of ingestBackfillPage.  A background run first waits while the
\* scheduler is under pressure (awaitPressureRelief): that delays the step and
\* changes nothing, so the model has no state for it.
Pull(r) ==
    /\ pc[r] = "pull"
    /\ step' = [step EXCEPT ![r] = [m \in Messages |-> IF m \in page(r) THEN "lookup" ELSE "idle"]]
    /\ next' = [next EXCEPT ![r] = pos[r] + 1]
    /\ move(r, "ingest")
    /\ UNCHANGED <<storeVars, sourceLookup, pos, first, latest, result, bounds, history>>

\* Listing or hydrating fails, for the whole page: the cursor is written where
\* it was, with the error in it, and the call returns the error.
pullFails(r) ==
    /\ pc[r] = "pull"
    /\ faults < MaxFaults
    /\ faults' = faults + 1
    /\ next' = [next EXCEPT ![r] = pos[r]]
    /\ move(r, "read")
    /\ UNCHANGED <<storeVars, sourceLookup, pos, first, latest, ingestVars, crashes, expiries, history>>

ingesting(r) == {m \in Messages : step[r][m] \notin {"idle", "ended"}}
failures(r) == {m \in Messages : result[r][m] = "failed"}

\* Mutated form of pageDone: the page is taken for done when one object is.
pageDoneEarly(r) ==
    /\ pc[r] = "ingest"
    /\ \E m \in Messages : step[r][m] = "ended"
    /\ failed' = failed \cup failures(r)
    /\ move(r, "read")
    /\ UNCHANGED <<storeVars, sourceLookup, pos, first, next, latest, ingestVars, bounds, leaked, overdue>>

\* Mutated form of pageDone: a page with busy messages is pulled again.
pageDoneRetries(r) ==
    /\ pc[r] = "ingest"
    /\ ingesting(r) = {}
    /\ failed' = failed \cup failures(r)
    /\ next' = [next EXCEPT ![r] = IF \E m \in Messages : result[r][m] = "busy" THEN pos[r] ELSE @]
    /\ move(r, "read")
    /\ UNCHANGED <<storeVars, sourceLookup, pos, first, latest, ingestVars, bounds, leaked, overdue>>

\* All workers are through; failures are counted, busy messages are skipped.
pageDone(r) ==
    /\ pc[r] = "ingest"
    /\ ingesting(r) = {}
    /\ failed' = failed \cup failures(r)
    /\ move(r, "read")
    /\ UNCHANGED <<storeVars, sourceLookup, pos, first, next, latest, ingestVars, bounds, leaked, overdue>>

\* writeBackfillCursor reads the latest record before it rewrites it.
readCursor(r) ==
    /\ pc[r] = "read"
    /\ latest' = [latest EXCEPT ![r] = cursors]
    /\ move(r, "write")
    /\ UNCHANGED <<storeVars, sourceLookup, pos, first, next, ingestVars, bounds, history>>

\* namespacedCursor keeps the other keys of the record that was read.
namespacedCursor(r) == [latest[r] EXCEPT ![r] = next[r]]

\* Where RunBackfill goes once its cursor is written: an error and the end of
\* the pages return to the caller, which retries, ends, or starts over.
afterWrite(r) ==
    LET pullFailed == next[r] = pos[r]
        ended == completed(r, next[r]) \/ ~MaxPagesNotReached(r, next[r])
    IN  IF pullFailed \/ failures(r) # {} THEN "wait"
        ELSE IF ended THEN (IF r \in Resumed THEN "done" ELSE "wait")
        ELSE "pull"

\* The page's report and the record read for it go out of scope.
pageOver(r) ==
    /\ step' = [step EXCEPT ![r] = idleSteps]
    /\ result' = [result EXCEPT ![r] = noResults]
    /\ latest' = [latest EXCEPT ![r] = noCursors]

writeCursor(r) ==
    /\ pc[r] = "write"
    /\ cursors' = namespacedCursor(r)
    /\ pos' = [pos EXCEPT ![r] = next[r]]
    /\ move(r, afterWrite(r))
    /\ pageOver(r)
    /\ UNCHANGED <<stored, claims, sourceLookup, first, next, bounds, history>>

\* A cursor call fails and RunBackfill returns the error.
cursorFails(r) ==
    /\ pc[r] \in {"start", "read", "write"}
    /\ faults < MaxFaults
    /\ faults' = faults + 1
    /\ move(r, "wait")
    /\ pageOver(r)
    /\ UNCHANGED <<storeVars, sourceLookup, pos, first, next, crashes, expiries, history>>

\* waitConfiguredSourceRetry, or the refresh interval.
retry(r) ==
    /\ pc[r] = "wait"
    /\ move(r, "start")
    /\ pos' = [pos EXCEPT ![r] = 0]
    /\ first' = [first EXCEPT ![r] = 0]
    /\ next' = [next EXCEPT ![r] = 0]
    /\ UNCHANGED <<storeVars, sourceLookup, latest, ingestVars, bounds, history>>

-----------------------------------------------------------------------------
(* The world around them. *)

\* The source process crashes: the runners and their cache are gone, the
\* claims they held stay in FILESTORE.
crash ==
    /\ crashes < MaxCrashes
    /\ crashes' = crashes + 1
    /\ leaked' = leaked \cup {m \in Messages : \E r \in Runners : step[r][m] \in Claiming}
    /\ failed' = failed \cup UNION {failures(r) : r \in Runners}
    /\ sourceLookup' = {}
    /\ pc' = [r \in Runners |-> "start"]
    /\ pos' = [r \in Runners |-> 0]
    /\ first' = [r \in Runners |-> 0]
    /\ next' = [r \in Runners |-> 0]
    /\ latest' = [r \in Runners |-> noCursors]
    /\ step' = [r \in Runners |-> idleSteps]
    /\ result' = [r \in Runners |-> noResults]
    /\ UNCHANGED <<storeVars, faults, expiries, overdue>>

\* Fifteen minutes pass over a claim; sourceClaimLive no longer holds of it.
sourceClaimExpires(m) ==
    /\ expiries < MaxExpiries
    /\ claims[m].live
    /\ claims' = [claims EXCEPT ![m].live = FALSE]
    /\ expiries' = expiries + 1
    /\ overdue' = overdue \cup {m}
    /\ UNCHANGED <<stored, cursors, sourceLookup, runVars, ingestVars, crashes, faults, leaked, failed>>

\* FILESTORE restarts before an unsynced claim reached the disk.
claimLost(m) ==
    /\ expiries < MaxExpiries
    /\ claims[m] # NoClaim
    /\ claims' = [claims EXCEPT ![m] = NoClaim]
    /\ expiries' = expiries + 1
    /\ overdue' = overdue \cup {m}
    /\ UNCHANGED <<stored, cursors, sourceLookup, runVars, ingestVars, crashes, faults, leaked, failed>>

\* The next step of an ingest, faults aside.
ingestStep(r, m) ==
    \/ lookupFound(r, m) \/ lookupMissed(r, m)
    \/ TryAcquireSourceIngest(r, m) \/ inProgress(r, m)
    \/ recheck(r, m) \/ PutCompound(r, m) \/ lookupAfterWriteError(r, m)
    \/ ReleaseSourceIngest(r, m) \/ releaseClaim(r, m)

ingestFault(r, m) ==
    lookupFails(r, m) \/ acquireFails(r, m) \/ putFails(r, m) \/ releaseFails(r, m)

runnerStep(r) ==
    \/ startBackfill(r) \/ Pull(r) \/ pageDone(r)
    \/ readCursor(r) \/ writeCursor(r) \/ retry(r)

runnerFault(r) == pullFails(r) \/ cursorFails(r)

Next ==
    \/ \E r \in Runners : runnerStep(r) \/ runnerFault(r)
    \/ \E r \in Runners, m \in Messages : ingestStep(r, m) \/ ingestFault(r, m)
    \/ \E m \in Messages : sourceClaimExpires(m) \/ claimLost(m)
    \/ crash

\* The Go scheduler runs every goroutine, a call returns or fails, and pressure
\* on the scheduler is released, as its analysis backlog drains.
Fairness ==
    /\ \A r \in Runners : WF_vars(runnerStep(r))
    /\ \A r \in Runners, m \in Messages : WF_vars(ingestStep(r, m))

Spec == Init /\ [][Next]_vars /\ Fairness

-----------------------------------------------------------------------------

\* r holds what it takes for the ingest claim of m.
holds(r, m) == step[r][m] \in Claiming

\* A stored cursor is never ahead of the mail: a message on a page it has
\* passed is in FILESTORE, an ingest of it returned an error, another runner
\* is ingesting it under a claim, or it met a claim nobody was left to release.  The
\* runners rewrite each other's entry of the record, so an entry may go back,
\* but only to a position this held of.
CursorCovers ==
    \A r \in Runners : \A k \in 1..cursors[r] : \A m \in Pages[r][k] :
        m \in stored \cup failed \cup leaked \/ \E q \in Runners : holds(q, m) \/ m \in failures(q)

\* Ingest claims serialise the writers of a source object: two ingests of one
\* message hold a claim together only after the claim ran out or was lost.  And
\* no return path of Ingest forgets its claim: one in FILESTORE belongs to an
\* ingest that will release it, unless a crash or a failed call left it behind.
ClaimsSerialise ==
    /\ \A m \in Messages \ overdue : \A q, r \in Runners : holds(q, m) /\ holds(r, m) => q = r
    /\ \A m \in Messages \ leaked : \A r \in Runners : owned(r, m) => holds(r, m)

\* The lookup repeated under the claim makes the write unique: PutCompound is
\* not called for a message already stored unless its claim ran out or was
\* lost.
IngestedOnce ==
    [][\A r \in Runners, m \in Messages :
          step[r][m] = "put" /\ step'[r][m] = "release" => m \notin stored \/ m \in overdue]_vars

\* The historical backfill ends: no failed page, busy message or crash makes
\* its retry loop go round for ever.
BackfillEnds == \A r \in Resumed : <>[](pc[r] = "done")
=============================================================================
