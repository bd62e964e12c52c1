------------------------ MODULE SourceBackfillProofs ------------------------
(***************************************************************************)
(* What ingest claims and cursors guarantee, for any mailbox, any number   *)
(* of runners and any failures, crashes and expiries: ClaimsSerialise,     *)
(* IngestedOnce and CursorCovers.                                          *)
(*                                                                         *)
(* None of the three is inductive.                                         *)
(* Claims are serialised because a holder's claim is the row FILESTORE has *)
(* (Claims).  A message on a passed page stays accounted for while its     *)
(* ingest goes through its steps (Work): a release follows a write or an   *)
(* error, and a busy message has an owner.  The cursor record is merged    *)
(* from entries read earlier, so the positions in it, in the records read  *)
(* and in the runners are all passed (Passed).                             *)
(***************************************************************************)
EXTENDS SourceBackfill, TLAPS

Steps == {"idle", "lookup", "acquire", "ended"} \cup Claiming
Results == {"none", "found", "busy", "created", "failed"}
Places == {"start", "pull", "ingest", "read", "write", "wait", "done"}

TypeOK ==
  /\ stored \subseteq Messages /\ sourceLookup \subseteq Messages
  /\ claims \in [Messages -> [owner : Runners \cup {"none"}, live : BOOLEAN]]
  /\ step \in [Runners -> [Messages -> Steps]]
  /\ result \in [Runners -> [Messages -> Results]]
  /\ pc \in [Runners -> Places]
  /\ cursors \in [Runners -> Nat] /\ pos \in [Runners -> Nat] /\ next \in [Runners -> Nat]
  /\ latest \in [Runners -> [Runners -> Nat]]

\* A holder's claim is the row in FILESTORE until it runs out, a row has a
\* holder unless it was left behind, and a live row has an owner.
Claims ==
  /\ \A r \in Runners, m \in Messages :
        holds(r, m) /\ m \notin overdue => owned(r, m) /\ claims[m].live
  /\ \A r \in Runners, m \in Messages : owned(r, m) /\ m \notin leaked => holds(r, m)
  /\ \A m \in Messages : claims[m].live => claims[m].owner \in Runners

\* Ingests run only in their phase, and what each step follows from.
Work ==
  /\ \A r \in Runners : pc[r] # "ingest" =>
        failures(r) \subseteq failed /\ \A m \in Messages : step[r][m] \in {"idle", "ended"}
  /\ \A r \in Runners, m \in Messages :
        /\ step[r][m] = "put" /\ m \notin overdue => m \notin stored
        /\ step[r][m] = "release" => m \in stored
        /\ step[r][m] = "defer" => m \in stored \/ result[r][m] = "failed"
  /\ sourceLookup \subseteq stored

accounted(m) == m \in stored \cup failed \cup leaked \/ \E q \in Runners : holds(q, m) \/ m \in failures(q)

passed(r, p) == p <= Len(Pages[r]) /\ \A k \in 1 .. p : \A m \in Pages[r][k] : accounted(m)

Passed ==
  /\ \A r \in Runners : passed(r, cursors[r]) /\ passed(r, pos[r])
  /\ \A q, r \in Runners : passed(r, latest[q][r])
  /\ \A r \in Runners : pc[r] \in {"read", "write"} => passed(r, next[r])
  /\ \A r \in Runners : pc[r] \in {"pull", "ingest"} => pos[r] < Len(Pages[r])
  /\ \A r \in Runners : pc[r] = "ingest" =>
        /\ next[r] = pos[r] + 1
        /\ \A m \in page(r) : step[r][m] # "idle" /\ (step[r][m] = "ended" => accounted(m))

IngestInv == TypeOK /\ Claims /\ Work /\ Passed

\* What every step of the ingest of m by r has in common.
IngestFrame(r, m) ==
  /\ \E t \in Steps \ {"idle"} : step' = [step EXCEPT ![r][m] = t]
  /\ \E o \in Results : result' = result \/ result' = [result EXCEPT ![r][m] = o]
  /\ \E c \in [owner : Runners \cup {"none"}, live : BOOLEAN] :
        claims' = claims \/ claims' = [claims EXCEPT ![m] = c]
  /\ stored' \in {stored, stored \cup {m}}
  /\ sourceLookup' \in {sourceLookup, sourceLookup \cup {m}}
  /\ leaked' \in {leaked, leaked \cup {m}}
  /\ UNCHANGED <<cursors, runVars, overdue, failed>>

\* Every step of an ingest stays within its frame, and leaves a running ingest.
LEMMA IngestFrames ==
  ASSUME TypeOK, NEW r \in Runners, NEW m \in Messages, ingestStep(r, m) \/ ingestFault(r, m)
  PROVE  IngestFrame(r, m) /\ step[r][m] \notin {"idle", "ended"}
<1> USE DEF TypeOK, IngestFrame, Steps, Results, Claiming, NoClaim, goto, answer, ends, claim, released,
            storeVars, runVars, bounds, history
<1>1. CASE lookupFound(r, m)
  BY <1>1, Zenon DEF lookupFound
<1>2. CASE lookupMissed(r, m)
  BY <1>2, Zenon DEF lookupMissed
<1>3. CASE TryAcquireSourceIngest(r, m)
  BY <1>3, Zenon DEF TryAcquireSourceIngest
<1>4. CASE inProgress(r, m)
  BY <1>4, Zenon DEF inProgress
<1>5. CASE recheck(r, m)
  BY <1>5, Zenon DEF recheck
<1>6. CASE PutCompound(r, m)
  BY <1>6, Zenon DEF PutCompound
<1>7. CASE lookupAfterWriteError(r, m)
  BY <1>7, Zenon DEF lookupAfterWriteError
<1>8. CASE ReleaseSourceIngest(r, m)
  BY <1>8, Zenon DEF ReleaseSourceIngest
<1>9. CASE releaseClaim(r, m)
  BY <1>9, Zenon DEF releaseClaim
<1>10. CASE lookupFails(r, m)
  BY <1>10, Zenon DEF lookupFails
<1>11. CASE acquireFails(r, m)
  BY <1>11, Zenon DEF acquireFails
<1>12. CASE putFails(r, m)
  BY <1>12, Zenon DEF putFails
<1>13. CASE releaseFails(r, m)
  BY <1>13, Zenon DEF releaseFails
<1> QED
  BY <1>1, <1>2, <1>3, <1>4, <1>5, <1>6, <1>7, <1>8, <1>9, <1>10, <1>11, <1>12, <1>13, Zenon
     DEF ingestStep, ingestFault

\* An ingest step keeps the types.
LEMMA IngestType ==
  ASSUME TypeOK, NEW r \in Runners, NEW m \in Messages, IngestFrame(r, m)
  PROVE  TypeOK'
<1>1. PICK t \in Steps : step' = [step EXCEPT ![r][m] = t]
  BY Zenon DEF IngestFrame
<1>2. step' \in [Runners -> [Messages -> Steps]]
  BY Zenon, <1>1 DEF TypeOK
<1>3. PICK o \in Results : result' = result \/ result' = [result EXCEPT ![r][m] = o]
  BY Zenon DEF IngestFrame
<1>4. result' \in [Runners -> [Messages -> Results]]
  <2>1. [result EXCEPT ![r][m] = o] \in [Runners -> [Messages -> Results]]
    BY Zenon DEF TypeOK
  <2> QED
    BY <1>3, <2>1, Zenon DEF TypeOK
<1>5. PICK c \in [owner : Runners \cup {"none"}, live : BOOLEAN] :
          claims' = claims \/ claims' = [claims EXCEPT ![m] = c]
  BY Zenon DEF IngestFrame
<1>6. claims' \in [Messages -> [owner : Runners \cup {"none"}, live : BOOLEAN]]
  BY <1>5, Zenon DEF TypeOK
<1> QED
  BY Zenon, <1>2, <1>4, <1>6 DEF TypeOK, IngestFrame, runVars

\* The ingests and the rows a step of the ingest of m by r leaves alone.
LEMMA IngestOthers ==
  ASSUME TypeOK, NEW r \in Runners, NEW m \in Messages, IngestFrame(r, m)
  PROVE  /\ \A q \in Runners, n \in Messages : q # r \/ n # m =>
               step'[q][n] = step[q][n] /\ result'[q][n] = result[q][n]
         /\ \A n \in Messages : n # m => claims'[n] = claims[n]
  BY DEF TypeOK, IngestFrame

\* A step that leaves the row alone, and stops holding it only by leaving it behind.
LEMMA ClaimKept ==
  ASSUME TypeOK, Claims, NEW r \in Runners, NEW m \in Messages, IngestFrame(r, m),
         claims' = claims, holds(r, m)' => holds(r, m), holds(r, m) => holds(r, m)' \/ m \in leaked'
  PROVE  Claims'
<1>1. \A q \in Runners, n \in Messages : q # r \/ n # m => (holds(q, n)' <=> holds(q, n))
  BY IngestOthers DEF holds
<1>2. overdue' = overdue /\ leaked \subseteq leaked'
  BY Zenon DEF IngestFrame
<1> QED
  BY <1>1, <1>2 DEF Claims, owned

\* A step that takes a free row, and holds it or leaves it behind.
LEMMA ClaimTaken ==
  ASSUME TypeOK, Claims, NEW r \in Runners, NEW m \in Messages, IngestFrame(r, m),
         free(m), claim(r, m), ~holds(r, m), holds(r, m)' \/ m \in leaked'
  PROVE  Claims'
<1>1. \A q \in Runners, n \in Messages : q # r \/ n # m => (holds(q, n)' <=> holds(q, n))
  BY IngestOthers DEF holds
<1>2. overdue' = overdue /\ leaked \subseteq leaked'
  BY Zenon DEF IngestFrame
<1>3. /\ claims'[m].owner = r /\ claims'[m].live
      /\ \A n \in Messages : n # m => claims'[n] = claims[n]
  BY Zenon DEF claim, TypeOK
<1>4. \A q \in Runners : holds(q, m) => m \in overdue
  BY Zenon DEF Claims, free
<1> QED
  BY <1>1, <1>2, <1>3, <1>4 DEF Claims, owned

\* A step that gives its own row back; it goes on holding only what it no longer owned.
LEMMA ClaimReleased ==
  ASSUME TypeOK, Claims, NEW r \in Runners, NEW m \in Messages, IngestFrame(r, m),
         claims' = released(r, m), holds(r, m), holds(r, m)' => ~owned(r, m)
  PROVE  Claims'
<1>1. \A q \in Runners, n \in Messages : q # r \/ n # m => (holds(q, n)' <=> holds(q, n))
  BY IngestOthers DEF holds
<1>2. overdue' = overdue /\ leaked \subseteq leaked'
  BY Zenon DEF IngestFrame
<1>3. CASE owned(r, m)
  <2>1. /\ claims'[m].owner = "none" /\ ~claims'[m].live
        /\ \A n \in Messages : n # m => claims'[n] = claims[n]
    BY Zenon, <1>3 DEF released, NoClaim, TypeOK
  <2>2. \A q \in Runners : ~owned(q, m)'
    BY Zenon, <2>1, SourceBackfillAssumption DEF owned
  <2>3. \A q \in Runners : holds(q, m)' => m \in overdue
    BY Zenon, <1>1, <1>3 DEF Claims, owned
  <2> QED
    BY <1>1, <1>2, <2>1, <2>2, <2>3 DEF Claims, owned
<1>4. CASE ~owned(r, m)
  BY <1>1, <1>2, <1>4 DEF Claims, owned, released
<1> QED
  BY Zenon, <1>3, <1>4

\* An ingest takes a free row, and gives back its own.
LEMMA IngestClaims ==
  ASSUME TypeOK, Claims, NEW r \in Runners, NEW m \in Messages, ingestStep(r, m) \/ ingestFault(r, m)
  PROVE  Claims'
<1>f. IngestFrame(r, m)
  BY Zenon, IngestFrames
<1> USE DEF TypeOK, Claiming, goto, holds, storeVars, history
<1>1. CASE lookupFound(r, m)
  BY <1>1, <1>f, ClaimKept, Zenon DEF lookupFound, ends
<1>10. CASE lookupMissed(r, m)
  BY <1>10, <1>f, ClaimKept, Zenon DEF lookupMissed
<1>11. CASE inProgress(r, m)
  BY <1>11, <1>f, ClaimKept, Zenon DEF inProgress, ends
<1>2. CASE recheck(r, m)
  BY <1>2, <1>f, ClaimKept DEF recheck
<1>3. CASE PutCompound(r, m) \/ putFails(r, m) \/ lookupAfterWriteError(r, m)
  BY <1>3, <1>f, ClaimKept DEF PutCompound, putFails, lookupAfterWriteError
<1>4. CASE lookupFails(r, m)
  BY <1>4, <1>f, ClaimKept, Zenon DEF lookupFails
<1>5. CASE TryAcquireSourceIngest(r, m)
  BY <1>5, <1>f, ClaimTaken, Zenon DEF TryAcquireSourceIngest
<1>6. CASE acquireFails(r, m)
  BY <1>6, <1>f, ClaimKept, ClaimTaken, Zenon DEF acquireFails, ends
<1>7. CASE ReleaseSourceIngest(r, m)
  <2>1. holds(r, m) /\ claims' = released(r, m)
    BY Zenon, <1>7 DEF ReleaseSourceIngest
  <2>2. holds(r, m)' => ~owned(r, m)
    BY <1>7 DEF ReleaseSourceIngest
  <2> QED
    BY Zenon, <1>f, <2>1, <2>2, ClaimReleased
<1>8. CASE releaseClaim(r, m)
  BY Zenon, <1>8, <1>f, ClaimReleased DEF releaseClaim
<1>9. CASE releaseFails(r, m)
  BY <1>9, <1>f, ClaimKept DEF releaseFails
<1> QED
  BY Zenon, <1>1, <1>2, <1>3, <1>4, <1>5, <1>6, <1>7, <1>8, <1>9, <1>10, <1>11
     DEF ingestStep, ingestFault

\* What the steps of an ingest follow from.
IngestOrder(r, m) ==
  /\ stored' # stored => step[r][m] = "put"
  /\ step'[r][m] = "put" => m \notin stored'
  /\ step'[r][m] = "release" => m \in stored'
  /\ step'[r][m] = "defer" => m \in stored' \/ result'[r][m] = "failed"
  /\ sourceLookup' \subseteq stored'
  /\ holds(r, m) \/ result' # result => step'[r][m] = "ended" \/ holds(r, m)'

\* The steps of Ingest come in that order.
LEMMA IngestOrders ==
  ASSUME TypeOK, Work, NEW r \in Runners, NEW m \in Messages, ingestStep(r, m) \/ ingestFault(r, m)
  PROVE  IngestOrder(r, m)
<1> USE DEF TypeOK, Work, IngestOrder, holds, Claiming, goto, answer, storeVars
<1>1. CASE lookupFound(r, m)
  BY <1>1 DEF lookupFound, found, ends
<1>2. CASE lookupMissed(r, m)
  BY <1>2 DEF lookupMissed
<1>3. CASE TryAcquireSourceIngest(r, m)
  BY <1>3 DEF TryAcquireSourceIngest, free, claim
<1>4. CASE inProgress(r, m)
  BY <1>4 DEF inProgress, free, ends
<1>5. CASE recheck(r, m)
  BY <1>5 DEF recheck, found
<1>6. CASE PutCompound(r, m)
  BY <1>6 DEF PutCompound
<1>7. CASE lookupAfterWriteError(r, m)
  BY <1>7 DEF lookupAfterWriteError, found
<1>8. CASE ReleaseSourceIngest(r, m)
  BY <1>8 DEF ReleaseSourceIngest, released
<1>9. CASE releaseClaim(r, m)
  BY <1>9 DEF releaseClaim, released
<1>10. CASE lookupFails(r, m)
  BY <1>10 DEF lookupFails
<1>11. CASE acquireFails(r, m)
  BY <1>11 DEF acquireFails, free, claim, ends
<1>12. CASE putFails(r, m)
  BY <1>12 DEF putFails
<1>13. CASE releaseFails(r, m)
  BY <1>13 DEF releaseFails
<1> QED
  BY <1>1, <1>2, <1>3, <1>4, <1>5, <1>6, <1>7, <1>8, <1>9, <1>10, <1>11, <1>12, <1>13, Zenon
     DEF ingestStep, ingestFault

\* An ingest step keeps what the later ones rely on.
LEMMA IngestWork ==
  ASSUME TypeOK, Claims, Work, NEW r \in Runners, NEW m \in Messages, ingestStep(r, m) \/ ingestFault(r, m)
  PROVE  Work'
<1>1. /\ IngestFrame(r, m) /\ IngestOrder(r, m)
      /\ pc[r] = "ingest" /\ pc' = pc /\ overdue' = overdue /\ failed' = failed
  BY IngestFrames, IngestOrders DEF Work, IngestFrame, runVars
<1>2. \A q \in Runners, n \in Messages : q # r \/ n # m =>
         step'[q][n] = step[q][n] /\ result'[q][n] = result[q][n]
  BY Zenon, <1>1, IngestOthers
<1>3. stored \subseteq stored' /\ \A n \in Messages : n # m => (n \in stored' <=> n \in stored)
  BY Zenon, <1>1 DEF IngestFrame
<1>4. \A q \in Runners : q # r /\ step[q][m] = "put" /\ m \notin overdue => stored' = stored
  BY <1>1 DEF IngestOrder, Claims, holds, owned, Claiming
<1>5. \A q \in Runners : pc'[q] # "ingest" =>
         failures(q)' \subseteq failed' /\ \A n \in Messages : step'[q][n] \in {"idle", "ended"}
  BY <1>1, <1>2 DEF Work, failures
<1>6. \A q \in Runners, n \in Messages :
         /\ step'[q][n] = "put" /\ n \notin overdue' => n \notin stored'
         /\ step'[q][n] = "release" => n \in stored'
         /\ step'[q][n] = "defer" => n \in stored' \/ result'[q][n] = "failed"
  BY <1>1, <1>2, <1>3, <1>4, SMTT(30) DEF Work, IngestOrder
<1> QED
  BY Zenon, <1>1, <1>5, <1>6 DEF Work, IngestOrder

\* An ingest that ends has accounted for its message.
LEMMA IngestAccounts ==
  ASSUME TypeOK, Claims, Work, NEW r \in Runners, NEW m \in Messages, ingestStep(r, m) \/ ingestFault(r, m)
  PROVE  step'[r][m] = "ended" => accounted(m)'
<1> USE DEF TypeOK, Claims, Work, accounted, failures, Steps, Results, Claiming, NoClaim, goto, answer, holds, owned, storeVars, runVars, bounds, history
<1>1. CASE lookupFound(r, m)
  BY Zenon, <1>1 DEF lookupFound, found, ends
<1>2. CASE lookupMissed(r, m)
  BY <1>2 DEF lookupMissed
<1>3. CASE TryAcquireSourceIngest(r, m)
  BY <1>3 DEF TryAcquireSourceIngest, free, claim
<1>4. CASE inProgress(r, m)
  <2>1. PICK q \in Runners : owned(q, m)
    BY Zenon, <1>4 DEF inProgress, free
  <2>2. m \in leaked \/ (holds(q, m) /\ q # r)
    BY Zenon, <1>4, <2>1 DEF inProgress
  <2>3. leaked' = leaked /\ (q # r => step'[q][m] = step[q][m])
    BY <1>4 DEF inProgress, ends
  <2> QED
    BY Zenon, <2>2, <2>3
<1>5. CASE recheck(r, m)
  BY <1>5 DEF recheck, found
<1>6. CASE PutCompound(r, m)
  BY Zenon, <1>6 DEF PutCompound
<1>7. CASE lookupAfterWriteError(r, m)
  BY <1>7 DEF lookupAfterWriteError, found
<1>8. CASE ReleaseSourceIngest(r, m)
  BY Zenon, <1>8 DEF ReleaseSourceIngest, released
<1>9. CASE releaseClaim(r, m)
  BY <1>9 DEF releaseClaim, released
<1>10. CASE lookupFails(r, m)
  BY <1>10 DEF lookupFails
<1>11. CASE acquireFails(r, m)
  BY <1>11 DEF acquireFails, free, claim, ends
<1>12. CASE putFails(r, m)
  BY <1>12 DEF putFails
<1>13. CASE releaseFails(r, m)
  BY <1>13 DEF releaseFails
<1> QED
  BY Zenon, <1>1, <1>2, <1>3, <1>4, <1>5, <1>6, <1>7, <1>8, <1>9, <1>10, <1>11, <1>12, <1>13
     DEF ingestStep, ingestFault

\* Nothing an ingest does loses the account of a message.
LEMMA IngestKeepsAccounts ==
  ASSUME TypeOK, Claims, Work, NEW r \in Runners, NEW m \in Messages, ingestStep(r, m) \/ ingestFault(r, m)
  PROVE  \A n \in Messages : accounted(n) => accounted(n)'
<1>1. IngestFrame(r, m) /\ IngestOrder(r, m) /\ (step'[r][m] = "ended" => accounted(m)')
  BY Zenon, IngestFrames, IngestOrders, IngestAccounts
<1>2. \A q \in Runners, n \in Messages : q # r \/ n # m =>
         step'[q][n] = step[q][n] /\ result'[q][n] = result[q][n]
  BY Zenon, <1>1, IngestOthers
<1>3. stored \subseteq stored' /\ leaked \subseteq leaked' /\ failed' = failed
  BY Zenon, <1>1 DEF IngestFrame
<1>4. ASSUME NEW n \in Messages, NEW q \in Runners, holds(q, n) \/ n \in failures(q), q # r \/ n # m
      PROVE  accounted(n)'
  BY Zenon, <1>2, <1>4 DEF accounted, holds, failures
<1>5. holds(r, m) \/ m \in failures(r) => accounted(m)'
  BY Zenon, <1>1 DEF IngestOrder, accounted, failures
<1> QED
  BY Zenon, <1>3, <1>4, <1>5 DEF accounted

\* What has been passed stays passed when every account is kept.
LEMMA PassedStays ==
  ASSUME NEW r \in Runners, NEW p \in Nat, passed(r, p),
         \A n \in Messages : accounted(n) => accounted(n)'
  PROVE  passed(r, p)'
<1>1. \A k \in 1 .. p : Pages[r][k] \subseteq Messages
  BY SourceBackfillAssumption DEF passed
<1> QED
  BY Zenon, <1>1 DEF passed

\* What the runners have passed stays passed during an ingest, and a message
\* of the current page whose ingest ends is accounted for.
LEMMA IngestPassed ==
  ASSUME TypeOK, Claims, Work, Passed, NEW r \in Runners, NEW m \in Messages,
         ingestStep(r, m) \/ ingestFault(r, m)
  PROVE  Passed'
<1>1. IngestFrame(r, m) /\ (step'[r][m] = "ended" => accounted(m)')
  BY Zenon, IngestFrames, IngestAccounts
<1>2. \A n \in Messages : accounted(n) => accounted(n)'
  BY Zenon, IngestKeepsAccounts
<1>3. cursors' = cursors /\ pos' = pos /\ latest' = latest /\ next' = next /\ pc' = pc
  BY Zenon, <1>1 DEF IngestFrame, runVars
<1>4. \A q \in Runners, n \in Messages : q # r \/ n # m => step'[q][n] = step[q][n]
  BY <1>1, IngestOthers
<1>5. step'[r][m] # "idle"
  BY <1>1 DEF IngestFrame, TypeOK, Steps, Claiming
<1>6. \A q \in Runners : passed(q, cursors[q])' /\ passed(q, pos[q])'
  <2> TAKE q \in Runners
  <2> QED
    BY Zenon, <1>2, <1>3, PassedStays DEF Passed, TypeOK
<1>7. \A q, x \in Runners : passed(x, latest[q][x])'
  <2> TAKE q, x \in Runners
  <2> QED
    BY <1>2, <1>3, PassedStays, SMTT(30) DEF Passed, TypeOK
<1>8. \A q \in Runners : pc[q]' \in {"read", "write"} => passed(q, next[q])'
  <2> TAKE q \in Runners
  <2> QED
    BY Zenon, <1>2, <1>3, PassedStays DEF Passed, TypeOK
<1>9. \A q \in Runners : pc[q]' = "ingest" =>
        /\ next[q]' = pos[q]' + 1
        /\ \A n \in page(q)' : step'[q][n] # "idle" /\ (step'[q][n] = "ended" => accounted(n)')
  <2> SUFFICES ASSUME NEW q \in Runners, pc[q] = "ingest", NEW n \in page(q)
               PROVE  step'[q][n] # "idle" /\ (step'[q][n] = "ended" => accounted(n)')
    BY Zenon, <1>3 DEF Passed, page
  <2>1. n \in Messages
    <3>1. pos[q] \in Nat /\ pos[q] < Len(Pages[q])
      BY Zenon DEF Passed, TypeOK
    <3>2. Pages[q] \in Seq(SUBSET Messages)
      BY Zenon, SourceBackfillAssumption
    <3>3. pos[q] + 1 \in 1 .. Len(Pages[q])
      BY <3>1, <3>2
    <3>4. Pages[q][pos[q] + 1] \in SUBSET Messages
      BY <3>2, <3>3
    <3> QED
      BY Zenon, <3>4 DEF page
  <2> QED
    BY <1>1, <1>2, <1>4, <1>5, <2>1, SMTT(30) DEF Passed
<1> QED
  BY Zenon, <1>3, <1>6, <1>7, <1>8, <1>9 DEF Passed

-----------------------------------------------------------------------------
(* The steps of the runners, crashes and expiries *)

\* What every step of runner r has in common: it touches no claim and no other
\* runner, and it drops a report of its own or leaves it alone.
RunnerFrame(r) ==
  /\ \A q \in Runners : q # r =>
        /\ step'[q] = step[q] /\ result'[q] = result[q] /\ pc'[q] = pc[q]
        /\ pos'[q] = pos[q] /\ next'[q] = next[q] /\ latest'[q] = latest[q]
  /\ \A m \in Messages : step'[r][m] = step[r][m] \/ step'[r][m] = "idle" \/ step'[r][m] = "lookup"
  /\ pc[r] = "ingest" => step' = step /\ result' = result
  /\ \A m \in Messages : result'[r][m] = result[r][m] \/ result'[r][m] = "none"
  /\ failed \subseteq failed'
  /\ UNCHANGED <<stored, claims, sourceLookup, leaked, overdue>>

\* The report of a page goes out of scope, and no other runner's.
LEMMA PageOvers ==
  ASSUME TypeOK, NEW r \in Runners, pageOver(r)
  PROVE  /\ step' \in [Runners -> [Messages -> Steps]] /\ result' \in [Runners -> [Messages -> Results]]
         /\ latest' \in [Runners -> [Runners -> Nat]]
         /\ \A q \in Runners : q # r => step'[q] = step[q] /\ result'[q] = result[q] /\ latest'[q] = latest[q]
         /\ \A m \in Messages : step'[r][m] = "idle" /\ result'[r][m] = "none"
         /\ \A q \in Runners : latest'[r][q] = 0
<1>1. /\ idleSteps \in [Messages -> Steps] /\ noResults \in [Messages -> Results]
      /\ noCursors \in [Runners -> Nat]
  BY Zenon DEF idleSteps, noResults, noCursors, Steps, Results
<1>2. step' \in [Runners -> [Messages -> Steps]] /\ \A q \in Runners : q # r => step'[q] = step[q]
  BY Zenon, <1>1 DEF TypeOK, pageOver
<1>3. result' \in [Runners -> [Messages -> Results]] /\ \A q \in Runners : q # r => result'[q] = result[q]
  BY Zenon, <1>1 DEF TypeOK, pageOver
<1>4. latest' \in [Runners -> [Runners -> Nat]] /\ \A q \in Runners : q # r => latest'[q] = latest[q]
  <2> DEFINE Records == [Runners -> Nat]
  <2>0. latest \in [Runners -> Records]
    BY Zenon DEF TypeOK
  <2>1. noCursors \in Records
    BY Zenon, <1>1
  <2>3. latest' = [latest EXCEPT ![r] = noCursors]
    BY Zenon DEF pageOver
  <2> HIDE DEF Records
  <2>2. latest' \in [Runners -> Records] /\ \A q \in Runners : q # r => latest'[q] = latest[q]
    BY Zenon, <2>0, <2>1, <2>3
  <2> QED
    BY Zenon, <2>2 DEF Records
<1>5. step'[r] = idleSteps /\ result'[r] = noResults /\ latest'[r] = noCursors
  BY Zenon DEF TypeOK, pageOver
<1> QED
  BY <1>2, <1>3, <1>4, <1>5 DEF idleSteps, noResults, noCursors

\* The steps of a runner keep the types and stay within RunnerFrame.
LEMMA RunnerFrames ==
  ASSUME TypeOK, NEW r \in Runners, runnerStep(r) \/ runnerFault(r)
  PROVE  TypeOK' /\ RunnerFrame(r)
<1> USE DEF RunnerFrame, move, storeVars, ingestVars, bounds, history
<1>1. CASE startBackfill(r)
  BY Zenon, <1>1 DEF TypeOK, Places, startBackfill
<1>2. CASE Pull(r)
  <2> DEFINE listed == [m \in Messages |-> IF m \in page(r) THEN "lookup" ELSE "idle"]
  <2>1. listed \in [Messages -> Steps]
    BY Zenon DEF Steps
  <2>2. step' = [step EXCEPT ![r] = listed]
    BY Zenon, <1>2 DEF Pull
  <2>3. step' \in [Runners -> [Messages -> Steps]]
    BY Zenon, <2>1, <2>2 DEF TypeOK
  <2>4. \A m \in Messages : step'[r][m] = "idle" \/ step'[r][m] = "lookup"
    BY Zenon, <2>2 DEF TypeOK
  <2>5. \A q \in Runners : q # r => step'[q] = step[q]
    BY Zenon, <2>2 DEF TypeOK
  <2>6. pc' \in [Runners -> Places] /\ next' \in [Runners -> Nat]
    BY <1>2 DEF TypeOK, Places, Pull
  <2> QED
    BY Zenon, <1>2, <2>3, <2>4, <2>5, <2>6 DEF TypeOK, Pull
<1>3. CASE pageDone(r)
  BY Zenon, <1>3 DEF TypeOK, Places, pageDone
<1>4. CASE readCursor(r)
  BY Zenon, <1>4 DEF TypeOK, Places, readCursor
<1>5. CASE writeCursor(r)
  <2>1. afterWrite(r) \in Places
    BY Zenon DEF afterWrite, Places
  <2>2. namespacedCursor(r) \in [Runners -> Nat]
    BY Zenon DEF namespacedCursor, TypeOK
  <2>3. /\ pc' \in [Runners -> Places] /\ pos' \in [Runners -> Nat]
        /\ \A q \in Runners : q # r => pc'[q] = pc[q] /\ pos'[q] = pos[q]
    BY Zenon, <1>5, <2>1 DEF TypeOK, writeCursor
  <2>4. pageOver(r) /\ pc[r] # "ingest"
    BY Zenon, <1>5 DEF writeCursor
  <2> QED
    BY <1>5, <2>2, <2>3, <2>4, PageOvers DEF TypeOK, writeCursor
<1>6. CASE retry(r)
  BY Zenon, <1>6 DEF TypeOK, Places, retry
<1>7. CASE pullFails(r)
  BY Zenon, <1>7 DEF TypeOK, Places, pullFails
<1>8. CASE cursorFails(r)
  <2>1. pc' \in [Runners -> Places] /\ \A q \in Runners : q # r => pc'[q] = pc[q]
    BY Zenon, <1>8 DEF TypeOK, Places, cursorFails
  <2>2. pageOver(r) /\ pc[r] # "ingest"
    BY Zenon, <1>8 DEF cursorFails
  <2> QED
    BY <1>8, <2>1, <2>2, PageOvers DEF TypeOK, cursorFails
<1> QED
  BY Zenon, <1>1, <1>2, <1>3, <1>4, <1>5, <1>6, <1>7, <1>8 DEF runnerStep, runnerFault

\* A runner's own steps leave every claim with its holder.
LEMMA RunnerHolds ==
  ASSUME TypeOK, Work, NEW r \in Runners, RunnerFrame(r)
  PROVE  \A q \in Runners, n \in Messages : holds(q, n)' <=> holds(q, n)
<1>1. \A n \in Messages : holds(r, n)' <=> holds(r, n)
  <2>1. CASE pc[r] = "ingest"
    BY Zenon, <2>1 DEF RunnerFrame, holds
  <2>2. CASE pc[r] # "ingest"
    BY Zenon, <2>2 DEF Work, RunnerFrame, holds, Claiming
  <2> QED
    BY Zenon, <2>1, <2>2
<1> QED
  BY Zenon, <1>1 DEF RunnerFrame, holds

\* A report that is dropped was counted, so every account is kept.
LEMMA RunnerKeepsAccounts ==
  ASSUME TypeOK, Work, NEW r \in Runners, RunnerFrame(r)
  PROVE  \A n \in Messages : accounted(n) => accounted(n)'
<1>1. \A q \in Runners, n \in Messages : holds(q, n)' <=> holds(q, n)
  BY Zenon, RunnerHolds
<1>2. \A q \in Runners, n \in Messages : n \in failures(q) => n \in failures(q)' \cup failed'
  BY DEF RunnerFrame, Work, failures
<1> QED
  BY Zenon, <1>1, <1>2 DEF accounted, RunnerFrame

\* A runner's own steps touch no claim.
LEMMA RunnerClaims ==
  ASSUME TypeOK, Claims, Work, NEW r \in Runners, RunnerFrame(r)
  PROVE  Claims'
<1>1. \A q \in Runners, n \in Messages : holds(q, n)' <=> holds(q, n)
  BY Zenon, RunnerHolds
<1> QED
  BY <1>1 DEF Claims, RunnerFrame, owned

\* A runner leaves a page with its ingests ended and its failures counted.
LEMMA RunnerWork ==
  ASSUME TypeOK, Work, NEW r \in Runners, runnerStep(r) \/ runnerFault(r)
  PROVE  Work'
<1>1. RunnerFrame(r)
  BY Zenon, RunnerFrames
<1>2. pc'[r] # "ingest" =>
         failures(r)' \subseteq failed' /\ \A m \in Messages : step'[r][m] = "idle" \/ step'[r][m] = "ended"
  <2>1. CASE pageDone(r)
    BY Zenon, <2>1 DEF pageDone, ingesting, failures, ingestVars, Work
  <2>2. CASE Pull(r)
    BY Zenon, <2>2 DEF Pull, move, TypeOK
  <2>3. CASE ~pageDone(r) /\ ~Pull(r)
    <3>1. pc[r] # "ingest"
      BY Zenon, <2>3 DEF runnerStep, runnerFault, startBackfill, readCursor, writeCursor, retry, pullFails, cursorFails
    <3>2. \A m \in Messages : step'[r][m] = step[r][m] \/ step'[r][m] = "idle"
      BY Zenon, <2>3, PageOvers DEF runnerStep, runnerFault, startBackfill, readCursor, writeCursor, retry, pullFails,
                             cursorFails, ingestVars
    <3> QED
      BY <1>1, <3>1, <3>2 DEF RunnerFrame, Work, failures
  <2> QED
    BY Zenon, <2>1, <2>2, <2>3
<1>3. \A q \in Runners : pc'[q] # "ingest" =>
         failures(q)' \subseteq failed' /\ \A m \in Messages : step'[q][m] \in {"idle", "ended"}
  <2> SUFFICES ASSUME NEW q \in Runners, q # r, pc'[q] # "ingest"
               PROVE  failures(q)' \subseteq failed' /\ \A m \in Messages : step'[q][m] \in {"idle", "ended"}
    BY Zenon, <1>2
  <2>1. /\ step'[q] = step[q] /\ result'[q] = result[q] /\ pc'[q] = pc[q]
        /\ failed \subseteq failed'
    BY Zenon, <1>1 DEF RunnerFrame
  <2>2. failures(q) \subseteq failed /\ \A m \in Messages : step[q][m] \in {"idle", "ended"}
    BY Zenon, <2>1 DEF Work
  <2>3. failures(q)' = failures(q)
    BY Zenon, <2>1 DEF failures
  <2> QED
    BY Zenon, <2>1, <2>2, <2>3
<1>4. \A m \in Messages : step'[r][m] \in {"put", "release", "defer"} =>
         step'[r][m] = step[r][m] /\ result'[r][m] = result[r][m]
  BY <1>1 DEF RunnerFrame, Work
<1>5. \A q \in Runners, m \in Messages :
         /\ step'[q][m] = "put" /\ m \notin overdue' => m \notin stored'
         /\ step'[q][m] = "release" => m \in stored'
         /\ step'[q][m] = "defer" => m \in stored' \/ result'[q][m] = "failed"
  BY <1>1, <1>4 DEF RunnerFrame, Work
<1> QED
  BY Zenon, <1>1, <1>3, <1>5 DEF RunnerFrame, Work

\* A runner that pulls or ingests a page has one, and it lists messages.
LEMMA PageListed ==
  ASSUME TypeOK, Passed, NEW r \in Runners, pc[r] = "pull" \/ pc[r] = "ingest"
  PROVE  pos[r] < Len(Pages[r]) /\ page(r) \subseteq Messages
<1>1. pos[r] \in Nat /\ Pages[r] \in Seq(SUBSET Messages)
  BY Zenon, SourceBackfillAssumption DEF TypeOK
<1>2. pos[r] < Len(Pages[r])
  BY Zenon DEF Passed
<1>3. pos[r] + 1 \in 1 .. Len(Pages[r])
  BY <1>1, <1>2
<1>4. Pages[r][pos[r] + 1] \in SUBSET Messages
  BY <1>1, <1>3, SMTT(30)
<1> QED
  BY Zenon, <1>2, <1>4 DEF page

\* The positions a runner's step gets to are passed: it takes them from the
\* cursors, or from a page all of whose messages are accounted for.
LEMMA RunnerPositions ==
  ASSUME TypeOK, Work, Passed, NEW r \in Runners, runnerStep(r) \/ runnerFault(r)
  PROVE  /\ \A q \in Runners : passed(q, cursors'[q])
         /\ \A x \in Runners : passed(x, latest'[r][x])
         /\ passed(r, pos'[r])
         /\ pc'[r] = "read" \/ pc'[r] = "write" => passed(r, next'[r])
         /\ pc'[r] = "pull" \/ pc'[r] = "ingest" => pos'[r] < Len(Pages[r])
         /\ pc'[r] = "ingest" =>
               /\ next'[r] = pos'[r] + 1
               /\ \A m \in page(r)' : step'[r][m] = "lookup"
<1>0. \A q \in Runners : passed(q, 0) /\ Len(Pages[q]) \in Nat
  BY SourceBackfillAssumption DEF passed
<1> USE DEF storeVars, ingestVars, move
<1>1. CASE startBackfill(r)
  <2>1. pos'[r] = cursors[r] \/ pos'[r] = 0
    BY Zenon, <1>1 DEF startBackfill, TypeOK
  <2>2. pc'[r] = "done" \/ (pc'[r] = "pull" /\ pos'[r] # Len(Pages[r]))
    BY Zenon, <1>1 DEF startBackfill, completed, TypeOK
  <2>3. passed(r, pos'[r]) /\ pos'[r] \in Nat
    BY <1>0, <2>1 DEF Passed, TypeOK
  <2>4. pos'[r] <= Len(Pages[r])
    BY Zenon, <2>3 DEF passed
  <2>5. cursors' = cursors /\ latest' = latest
    BY Zenon, <1>1 DEF startBackfill
  <2>6. pc'[r] = "pull" => pos'[r] < Len(Pages[r])
    BY <1>0, <2>2, <2>3, <2>4
  <2> QED
    BY Zenon, <2>2, <2>3, <2>5, <2>6 DEF Passed
<1>2. CASE Pull(r)
  <2>1. page(r) \subseteq Messages /\ pos[r] < Len(Pages[r])
    BY Zenon, <1>2, PageListed DEF Pull
  <2>2. \A m \in Messages : m \in page(r) => step'[r][m] = "lookup"
    BY Zenon, <1>2 DEF Pull, TypeOK
  <2>3. page(r)' = page(r) /\ pos' = pos /\ cursors' = cursors /\ latest' = latest
    BY Zenon, <1>2 DEF Pull, page
  <2>4. next'[r] = pos'[r] + 1 /\ pc'[r] = "ingest"
    BY Zenon, <1>2 DEF Pull, TypeOK
  <2> QED
    BY Zenon, <2>1, <2>2, <2>3, <2>4 DEF Passed
<1>3. CASE pageDone(r)
  <2>1. page(r) \subseteq Messages /\ pos[r] < Len(Pages[r]) /\ next[r] = pos[r] + 1
    BY Zenon, <1>3, PageListed DEF pageDone, Passed
  <2>2. \A m \in page(r) : accounted(m)
    BY Zenon, <1>3, <2>1 DEF pageDone, ingesting, Passed
  <2>3. passed(r, next[r])
    <3>1. passed(r, pos[r]) /\ pos[r] \in Nat
      BY Zenon DEF Passed, TypeOK
    <3>2. next[r] <= Len(Pages[r])
      BY <1>0, <2>1, <3>1
    <3>3. \A k \in 1 .. next[r] : k \in 1 .. pos[r] \/ k = pos[r] + 1
      BY <2>1, <3>1
    <3> QED
      BY Zenon, <2>2, <3>1, <3>2, <3>3 DEF passed, page
  <2> QED
    BY <1>3, <2>3, SMTT(30) DEF pageDone, Passed, TypeOK
<1>4. CASE readCursor(r)
  BY Zenon, <1>4 DEF readCursor, Passed, TypeOK
<1>5. CASE writeCursor(r)
  <2>1. passed(r, next[r])
    BY Zenon, <1>5 DEF writeCursor, Passed
  <2>2. \A q \in Runners : cursors'[q] = IF q = r THEN next[r] ELSE latest[r][q]
    BY Zenon, <1>5 DEF writeCursor, namespacedCursor, TypeOK
  <2>3. pos'[r] = next[r] /\ \A q \in Runners : latest'[r][q] = 0
    BY <1>5, PageOvers DEF writeCursor, TypeOK
  <2>4. \/ pc'[r] = "wait" \/ pc'[r] = "done"
        \/ pc'[r] = "pull" /\ next[r] # Len(Pages[r])
    BY Zenon, <1>5 DEF writeCursor, afterWrite, completed, TypeOK
  <2>5. next[r] <= Len(Pages[r])
    BY Zenon, <2>1 DEF passed
  <2>6. pc'[r] = "pull" => next[r] < Len(Pages[r])
    BY <1>0, <2>4, <2>5 DEF TypeOK
  <2>7. \A q \in Runners : passed(q, cursors'[q])
    BY Zenon, <2>1, <2>2 DEF Passed
  <2> QED
    BY Zenon, <1>0, <2>1, <2>3, <2>4, <2>6, <2>7
<1>6. CASE retry(r)
  BY Zenon, <1>0, <1>6 DEF retry, Passed, TypeOK
<1>7. CASE pullFails(r)
  BY Zenon, <1>7 DEF pullFails, Passed, TypeOK
<1>8. CASE cursorFails(r)
  <2>1. pc'[r] = "wait" /\ cursors' = cursors /\ pos' = pos /\ \A q \in Runners : latest'[r][q] = 0
    BY <1>8, PageOvers DEF cursorFails, TypeOK
  <2> QED
    BY Zenon, <1>0, <2>1 DEF Passed
<1> QED
  BY Zenon, <1>1, <1>2, <1>3, <1>4, <1>5, <1>6, <1>7, <1>8 DEF runnerStep, runnerFault

\* Passed reads the positions, the accounts and the progress of the ingest.
LEMMA SamePassed ==
  ASSUME Passed, stored' = stored, failed' = failed, leaked' = leaked, step' = step, result' = result,
         pc' = pc, pos' = pos, next' = next, latest' = latest, cursors' = cursors
  PROVE  Passed'
<1>1. \A n : accounted(n)' <=> accounted(n)
  BY Zenon DEF accounted, holds, failures
<1>2. \A q, p : passed(q, p)' <=> passed(q, p)
  BY Zenon, <1>1 DEF passed
<1>3. \A q : page(q)' = page(q)
  BY Zenon DEF page
<1> QED
  BY Zenon, <1>1, <1>2, <1>3 DEF Passed

\* What a runner has passed stays passed, and so is what it gets to.
LEMMA RunnerPassed ==
  ASSUME TypeOK, Work, Passed, NEW r \in Runners, runnerStep(r) \/ runnerFault(r)
  PROVE  Passed'
<1>1. TypeOK' /\ RunnerFrame(r)
  BY Zenon, RunnerFrames
<1>2. \A n \in Messages : accounted(n) => accounted(n)'
  BY Zenon, <1>1, RunnerKeepsAccounts
<1>3. \A q \in Runners : \A p \in Nat : passed(q, p) => passed(q, p)'
  BY <1>2, PassedStays, SMTT(30)
<1>4. /\ \A q \in Runners : passed(q, cursors'[q])
      /\ \A q, x \in Runners : passed(x, latest'[q][x])
      /\ \A q \in Runners : passed(q, pos'[q])
      /\ \A q \in Runners : pc'[q] \in {"read", "write"} => passed(q, next'[q])
  <2>1. \A q \in Runners : passed(q, cursors'[q])
    BY Zenon, RunnerPositions
  <2>2. /\ \A x \in Runners : passed(x, latest'[r][x])
        /\ passed(r, pos'[r])
        /\ pc'[r] \in {"read", "write"} => passed(r, next'[r])
    BY Zenon, RunnerPositions
  <2>3. ASSUME NEW q \in Runners, q # r
        PROVE  /\ \A x \in Runners : passed(x, latest'[q][x])
               /\ passed(q, pos'[q])
               /\ pc'[q] \in {"read", "write"} => passed(q, next'[q])
    <3>1. pc'[q] = pc[q] /\ pos'[q] = pos[q] /\ next'[q] = next[q] /\ latest'[q] = latest[q]
      BY Zenon, <1>1, <2>3 DEF RunnerFrame
    <3> QED
      BY Zenon, <3>1 DEF Passed
  <2> QED
    BY Zenon, <2>1, <2>2, <2>3
<1>5. /\ \A q \in Runners : passed(q, cursors[q])' /\ passed(q, pos[q])'
      /\ \A q, x \in Runners : passed(x, latest[q][x])'
      /\ \A q \in Runners : pc'[q] \in {"read", "write"} => passed(q, next[q])'
  BY <1>1, <1>3, <1>4 DEF TypeOK
<1>6. \A q \in Runners : pc'[q] \in {"pull", "ingest"} => pos'[q] < Len(Pages[q])
  <2>1. pc'[r] \in {"pull", "ingest"} => pos'[r] < Len(Pages[r])
    BY Zenon, RunnerPositions
  <2>2. ASSUME NEW q \in Runners, q # r
        PROVE  pc'[q] \in {"pull", "ingest"} => pos'[q] < Len(Pages[q])
    <3>1. pc'[q] = pc[q] /\ pos'[q] = pos[q]
      BY Zenon, <1>1, <2>2 DEF RunnerFrame
    <3> QED
      BY Zenon, <3>1 DEF Passed
  <2> QED
    BY Zenon, <2>1, <2>2
<1>7. \A q \in Runners : pc'[q] = "ingest" =>
         /\ next'[q] = pos'[q] + 1
         /\ \A m \in page(q)' : step'[q][m] # "idle" /\ (step'[q][m] = "ended" => accounted(m)')
  <2>1. pc'[r] = "ingest" => next'[r] = pos'[r] + 1 /\ \A m \in page(r)' : step'[r][m] = "lookup"
    BY Zenon, RunnerPositions
  <2>2. ASSUME NEW q \in Runners, q # r, pc'[q] = "ingest"
        PROVE  /\ next'[q] = pos'[q] + 1
               /\ \A m \in page(q)' : step'[q][m] # "idle" /\ (step'[q][m] = "ended" => accounted(m)')
    <3>1. step'[q] = step[q] /\ pos'[q] = pos[q] /\ next'[q] = next[q] /\ pc'[q] = pc[q]
      BY Zenon, <1>1, <2>2 DEF RunnerFrame
    <3>2. /\ next[q] = pos[q] + 1
          /\ \A m \in page(q) : step[q][m] # "idle" /\ (step[q][m] = "ended" => accounted(m))
      BY Zenon, <2>2, <3>1 DEF Passed
    <3>3. page(q)' = page(q)
      BY Zenon, <3>1 DEF page
    <3>4. page(q) \subseteq Messages
      BY Zenon, <2>2, <3>1, PageListed
    <3> QED
      BY Zenon, <1>2, <3>1, <3>2, <3>3, <3>4
  <2> QED
    BY Zenon, <2>1, <2>2
<1> QED
  BY Zenon, <1>5, <1>6, <1>7 DEF Passed

\* A crash leaves its claims behind, and every position but the cursors is 0.
LEMMA CrashKeeps ==
  ASSUME IngestInv, crash
  PROVE  IngestInv'
<1> USE DEF IngestInv
<1>1. /\ \A r \in Runners, m \in Messages : step'[r][m] = "idle" /\ result'[r][m] = "none"
      /\ \A q, r \in Runners : latest'[q][r] = 0
      /\ \A r \in Runners : pc'[r] = "start" /\ pos'[r] = 0
  BY Zenon DEF crash, idleSteps, noResults, noCursors
<1>2. /\ stored' = stored /\ claims' = claims /\ cursors' = cursors /\ overdue' = overdue
      /\ sourceLookup' = {} /\ leaked \subseteq leaked'
      /\ \A r \in Runners, m \in Messages : holds(r, m) => m \in leaked'
      /\ failed \subseteq failed' /\ \A r \in Runners : failures(r) \subseteq failed'
  BY Zenon DEF crash, storeVars, holds
<1>3. TypeOK'
  <2>1. /\ step' \in [Runners -> [Messages -> Steps]] /\ result' \in [Runners -> [Messages -> Results]]
        /\ pc' \in [Runners -> Places]
    BY Zenon DEF crash, idleSteps, noResults, Steps, Results, Places
  <2>2. pos' \in [Runners -> Nat] /\ next' \in [Runners -> Nat] /\ latest' \in [Runners -> [Runners -> Nat]]
    BY Zenon DEF crash, noCursors
  <2> QED
    BY Zenon, <1>2, <2>1, <2>2 DEF TypeOK
<1>4. Claims'
  BY Zenon, <1>1, <1>2 DEF Claims, holds, owned, Claiming
<1>5. Work'
  BY Zenon, <1>1, <1>2 DEF Work, failures
<1>6. Passed'
  <2>1. \A m \in Messages : accounted(m) => accounted(m)'
    BY Zenon, <1>2 DEF accounted
  <2>2. \A r \in Runners : passed(r, cursors[r])'
    <3>1. \A r \in Runners : cursors[r] \in Nat /\ passed(r, cursors[r])
      BY Zenon DEF TypeOK, Passed
    <3> QED
      BY Zenon, <1>2, <2>1, <3>1, PassedStays
  <2>3. \A r \in Runners : passed(r, 0)'
    BY SourceBackfillAssumption DEF passed
  <2>4. \A q, r \in Runners : passed(r, pos[r])' /\ passed(r, latest[q][r])'
    BY <1>1, <2>3
  <2>5. \A r \in Runners : pc'[r] # "ingest" /\ pc'[r] \notin {"pull", "ingest"} /\ pc'[r] \notin {"read", "write"}
    BY Zenon, <1>1
  <2> QED
    BY Zenon, <2>2, <2>4, <2>5 DEF Passed
<1> QED
  BY Zenon, <1>3, <1>4, <1>5, <1>6

\* A claim that runs out or is lost excuses whoever held it.
LEMMA ExpiryKeeps ==
  ASSUME IngestInv, NEW m \in Messages, sourceClaimExpires(m) \/ claimLost(m)
  PROVE  IngestInv'
<1> USE DEF IngestInv
<1>1. /\ stored' = stored /\ cursors' = cursors /\ sourceLookup' = sourceLookup
      /\ step' = step /\ result' = result /\ leaked' = leaked /\ failed' = failed
      /\ pc' = pc /\ pos' = pos /\ next' = next /\ latest' = latest
      /\ overdue' = overdue \cup {m}
  BY Zenon DEF sourceClaimExpires, claimLost, runVars, ingestVars
<1>2. PICK c \in [owner : Runners \cup {"none"}, live : BOOLEAN] :
         /\ claims' = [claims EXCEPT ![m] = c]
         /\ ~c.live /\ (c.owner = claims[m].owner \/ c.owner = "none")
  <2>1. CASE sourceClaimExpires(m)
    <3>1. claims[m] \in [owner : Runners \cup {"none"}, live : BOOLEAN]
      BY Zenon DEF TypeOK
    <3>2. [claims[m] EXCEPT !.live = FALSE] \in [owner : Runners \cup {"none"}, live : BOOLEAN]
      BY <3>1, Zenon
    <3>3. claims' = [claims EXCEPT ![m] = [claims[m] EXCEPT !.live = FALSE]]
      BY Zenon, <2>1 DEF sourceClaimExpires
    <3> QED
      BY <3>1, <3>2, <3>3, Zenon
  <2>2. CASE claimLost(m)
    <3>1. NoClaim \in [owner : Runners \cup {"none"}, live : BOOLEAN] /\ ~NoClaim.live /\ NoClaim.owner = "none"
      BY Zenon DEF NoClaim
    <3>2. claims' = [claims EXCEPT ![m] = NoClaim]
      BY Zenon, <2>2 DEF claimLost
    <3> QED
      BY <3>1, <3>2, Zenon
  <2> QED
    BY Zenon, <2>1, <2>2
<1>3. TypeOK'
  <2>1. claims' \in [Messages -> [owner : Runners \cup {"none"}, live : BOOLEAN]]
    BY Zenon, <1>2 DEF TypeOK
  <2> QED
    BY Zenon, <1>1, <2>1 DEF TypeOK
<1>4. Claims'
  <2>1. claims'[m] = c /\ \A n \in Messages : n # m => claims'[n] = claims[n]
    BY Zenon, <1>2 DEF TypeOK
  <2>2. \A r \in Runners, n \in Messages : owned(r, n)' => owned(r, n)
    BY Zenon, <1>2, <2>1, SourceBackfillAssumption DEF owned
  <2>3. \A r \in Runners, n \in Messages : (holds(r, n)' <=> holds(r, n))
    BY Zenon, <1>1 DEF holds
  <2> QED
    BY <1>1, <1>2, <2>1, <2>2, <2>3 DEF Claims, owned
<1>5. Work'
  BY <1>1 DEF Work, failures
<1>6. Passed'
  BY Zenon, <1>1, SamePassed
<1> QED
  BY Zenon, <1>3, <1>4, <1>5, <1>6

\* Nothing is claimed, stored or passed when the source process first starts.
LEMMA InitIngest ==
  ASSUME Init
  PROVE  IngestInv
<1>1. TypeOK
  <2>1. claims \in [Messages -> [owner : Runners \cup {"none"}, live : BOOLEAN]]
    BY Zenon DEF Init, NoClaim
  <2>2. /\ step \in [Runners -> [Messages -> Steps]] /\ result \in [Runners -> [Messages -> Results]]
        /\ pc \in [Runners -> Places]
    BY Zenon DEF Init, idleSteps, noResults, Steps, Results, Places
  <2>3. /\ cursors \in [Runners -> Nat] /\ pos \in [Runners -> Nat] /\ next \in [Runners -> Nat]
        /\ latest \in [Runners -> [Runners -> Nat]]
    BY Zenon DEF Init, noCursors
  <2> QED
    BY Zenon, <2>1, <2>2, <2>3 DEF Init, TypeOK
<1>2. \A r \in Runners, m \in Messages : step[r][m] = "idle" /\ result[r][m] = "none"
  BY Zenon DEF Init, idleSteps, noResults
<1>3. \A m \in Messages : claims[m].owner = "none" /\ ~claims[m].live
  BY Zenon DEF Init, NoClaim
<1>4. Claims
  BY <1>2, <1>3, SourceBackfillAssumption DEF Claims, holds, owned, Claiming
<1>5. Work
  BY Zenon, <1>2 DEF Work, failures, Init
<1>6. Passed
  <2>1. \A r \in Runners : passed(r, 0)
    BY SourceBackfillAssumption DEF passed
  <2>2. /\ \A r \in Runners : cursors[r] = 0 /\ pos[r] = 0 /\ pc[r] = "start"
        /\ \A q, r \in Runners : latest[q][r] = 0
    BY Zenon DEF Init, noCursors
  <2> QED
    BY Zenon, <2>1, <2>2 DEF Passed
<1> QED
  BY Zenon, <1>1, <1>4, <1>5, <1>6 DEF IngestInv

\* Every step keeps the invariant.
LEMMA NextIngest ==
  ASSUME IngestInv, [Next]_vars
  PROVE  IngestInv'
<1>1. ASSUME NEW r \in Runners, runnerStep(r) \/ runnerFault(r)
      PROVE  IngestInv'
  BY Zenon, <1>1, RunnerFrames, RunnerClaims, RunnerWork, RunnerPassed DEF IngestInv
<1>2. ASSUME NEW r \in Runners, NEW m \in Messages, ingestStep(r, m) \/ ingestFault(r, m)
      PROVE  IngestInv'
  BY Zenon, <1>2, IngestFrames, IngestType, IngestClaims, IngestWork, IngestPassed DEF IngestInv
<1>3. ASSUME NEW m \in Messages, sourceClaimExpires(m) \/ claimLost(m)
      PROVE  IngestInv'
  BY Zenon, <1>3, ExpiryKeeps
<1>4. CASE crash
  BY Zenon, <1>4, CrashKeeps
<1>5. CASE UNCHANGED vars
  <2>1. TypeOK' /\ Claims' /\ Work'
    BY Zenon, <1>5 DEF IngestInv, TypeOK, Claims, Work, holds, owned, failures, vars, runVars, ingestVars, history
  <2>2. Passed'
    BY Zenon, <1>5, SamePassed DEF IngestInv, vars, runVars, ingestVars, history
  <2> QED
    BY Zenon, <2>1, <2>2 DEF IngestInv
<1> QED
  BY Zenon, <1>1, <1>2, <1>3, <1>4, <1>5 DEF Next

-----------------------------------------------------------------------------
(* What claims and cursors guarantee *)

\* IngestInv holds of every state of the backfill.
THEOREM IngestInvariant == Spec => []IngestInv
<1>1. Init => IngestInv
  BY Zenon, InitIngest
<1>2. IngestInv /\ [Next]_vars => IngestInv'
  BY Zenon, NextIngest
<1> QED
  BY <1>1, <1>2, PTL DEF Spec

\* Two ingests of one message hold its claim together only after it ran out or
\* was lost, and a claim in FILESTORE has a holder unless it was left behind:
\* for any number of sources and messages.
THEOREM ClaimsAlwaysSerialise == Spec => []ClaimsSerialise
<1>1. IngestInv => ClaimsSerialise
  BY DEF IngestInv, Claims, owned, ClaimsSerialise
<1> QED
  BY <1>1, IngestInvariant, PTL

\* A stored cursor is never ahead of the mail, whatever the runners overwrite
\* in each other's record, and whatever fails, runs out or crashes.
THEOREM CursorAlwaysCovers == Spec => []CursorCovers
<1>1. IngestInv => CursorCovers
  BY Zenon DEF IngestInv, Passed, passed, accounted, CursorCovers
<1> QED
  BY <1>1, IngestInvariant, PTL

\* No message already in FILESTORE is written again under a claim in force.
THEOREM MessagesIngestedOnce == Spec => IngestedOnce
<1>1. IngestInv => \A r \in Runners, m \in Messages : step[r][m] = "put" => m \notin stored \/ m \in overdue
  BY Zenon DEF IngestInv, Work
<1>2. IngestInv /\ [Next]_vars =>
         [\A r \in Runners, m \in Messages :
             step[r][m] = "put" /\ step'[r][m] = "release" => m \notin stored \/ m \in overdue]_vars
  BY Zenon, <1>1
<1> QED
  BY <1>2, IngestInvariant, PTL DEF Spec, IngestedOnce
=============================================================================
