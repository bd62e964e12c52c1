------------------------- MODULE MailVersionsProofs -------------------------
(***************************************************************************)
(* The import of one Message-ID, for any mail, any number of workers and   *)
(* any failures and crashes: the lock, and what it and FILESTORE's merge   *)
(* make of the version set.                                                *)
(*                                                                         *)
(* LockInv: a commit writes over the manifest as it is now; that this is   *)
(* the one the worker read, at its lookup and again in PutCompound,        *)
(* follows from the lock: whoever is past it holds it (Holds), and so what *)
(* it has read is current (Current).                                       *)
(*                                                                         *)
(* VersionsInv: as long as no writer replaced a manifest it had not read,  *)
(* the manifest is one that the importer and Gmail build (ManifestOK), and *)
(* every worker may rely on what it found (JobOK), since nothing is taken  *)
(* back (Kept).                                                            *)
(*                                                                         *)
(* OneProcessInv: in one process only the holder of the lock is on its     *)
(* way, so a record that waits for its commit belongs to that worker, and  *)
(* a mail that a manifest lists has what its import promised or its worker *)
(* is about to write it (MailsOK, HolderOK).                               *)
(***************************************************************************)
EXTENDS MailVersions, TLAPS

\* A job record with the fields of Idle.
IsJob(j) == j = [pc |-> j.pc, msg |-> j.msg, seen |-> j.seen, base |-> j.base,
                 order |-> j.order, promote |-> j.promote]

Shape ==
  /\ worker = [w \in Workers |-> worker[w]]
  /\ \A w \in Workers : IsJob(worker[w])
  /\ procOf \in [Workers -> Procs]
  /\ lock \in [Procs -> Workers \cup {None}]

PastLock(w) == worker[w].pc \notin {"idle", "lock"}

Holds == \A w \in Workers : PastLock(w) => lock[procOf[w]] = w

Alone == OneProcess /\ gmailWrote = {}

Current(w) ==
  /\ worker[w].pc \in {"order", "promote", "record", "put", "commit"} => worker[w].seen = canon
  /\ worker[w].pc \in {"commit", "attached"} => worker[w].base = canon

LockInv ==
  /\ Shape
  /\ Holds
  /\ Alone => ~overlapped /\ \A w \in Workers : Current(w)

\* Changing fields of a job leaves a job.
LEMMA JobField ==
  ASSUME NEW r, IsJob(r), NEW x
  PROVE  /\ IsJob([r EXCEPT !.pc = x]) /\ IsJob([r EXCEPT !.msg = x])
         /\ IsJob([r EXCEPT !.base = x]) /\ IsJob([r EXCEPT !.order = x])
         /\ IsJob([r EXCEPT !.promote = x])
  BY DEF IsJob

\* A job with two fields changed, as the steps of an import do, is a job.
LEMMA JobFields ==
  ASSUME NEW r, IsJob(r), NEW pc, NEW x
  PROVE  /\ IsJob([r EXCEPT !.pc = pc, !.msg = x]) /\ IsJob([r EXCEPT !.seen = x, !.pc = pc])
         /\ IsJob([r EXCEPT !.pc = pc, !.base = x]) /\ IsJob([r EXCEPT !.pc = pc, !.order = x])
         /\ IsJob([r EXCEPT !.pc = pc, !.promote = x])
<1> DEFINE q == [r EXCEPT !.pc = pc]
<1>1. IsJob(q)
  BY Zenon, JobField
<1>2. /\ [r EXCEPT !.pc = pc, !.msg = x] = [q EXCEPT !.msg = x]
      /\ [r EXCEPT !.pc = pc, !.base = x] = [q EXCEPT !.base = x]
      /\ [r EXCEPT !.pc = pc, !.order = x] = [q EXCEPT !.order = x]
      /\ [r EXCEPT !.pc = pc, !.promote = x] = [q EXCEPT !.promote = x]
  BY Zenon
<1>3. IsJob([r EXCEPT !.seen = x])
  BY DEF IsJob
<1>4. [r EXCEPT !.seen = x, !.pc = pc] = [[r EXCEPT !.seen = x] EXCEPT !.pc = pc]
  BY Zenon
<1> HIDE DEF q
<1> QED
  BY Zenon, <1>1, <1>2, <1>3, <1>4, JobField

\* Init: nobody is past the lock.
LEMMA LockInvInit == Init => LockInv
<1> SUFFICES ASSUME Init PROVE LockInv
  BY Zenon
<1>1. \A w \in Workers : worker[w] = Idle
  BY Zenon DEF Init
<1>2. Shape
  BY Zenon, <1>1 DEF Init, Shape, IsJob, Idle
<1>3. \A w \in Workers : worker[w].pc = "idle"
  BY <1>1 DEF Idle
<1>4. Holds /\ \A w \in Workers : Current(w)
  BY Zenon, <1>3 DEF Holds, PastLock, Current
<1>5. ~overlapped
  BY Zenon DEF Init
<1> QED
  BY <1>2, <1>4, <1>5, Zenon DEF LockInv

\* In one process at most one worker is past the lock.
LEMMA OneHolder ==
  ASSUME Shape, Holds, OneProcess,
         NEW v \in Workers, NEW w \in Workers, PastLock(v), PastLock(w)
  PROVE  v = w
  BY Zenon DEF Holds, OneProcess

\* A step of one worker that leaves the others, the processes and the manifest
\* alone and moves the lock as its own place requires preserves the invariant.
LEMMA QuietStep ==
  ASSUME LockInv, NEW w \in Workers, NEW j, IsJob(j),
         worker' = [worker EXCEPT ![w] = j],
         UNCHANGED <<canon, procOf, gmailWrote, overlapped>>,
         \/ lock' = lock /\ (j.pc \notin {"idle", "lock"} => PastLock(w))
         \/ /\ lock' = [lock EXCEPT ![procOf[w]] = w]
            /\ lock[procOf[w]] = None
         \/ /\ lock' = [lock EXCEPT ![procOf[w]] = None]
            /\ PastLock(w)
            /\ j.pc = "idle",
         j.pc \in {"order", "promote", "record", "put", "commit"} =>
            j.seen = canon \/ (worker[w].pc \in {"order", "promote", "record", "put"} /\ j.seen = worker[w].seen),
         j.pc \in {"commit", "attached"} => j.base = canon
  PROVE  LockInv'
<1>1. Shape'
  BY DEF LockInv, Shape
<1>2. Holds'
  BY MailAssumption DEF LockInv, Shape, Holds, PastLock
<1>3. ASSUME Alone' PROVE ~overlapped' /\ \A v \in Workers : Current(v)'
  <2>1. Alone
    BY Zenon, <1>3 DEF Alone, OneProcess
  <2>2. ~overlapped /\ \A v \in Workers : Current(v)
    BY Zenon, <2>1 DEF LockInv
  <2> QED
    BY Zenon, <2>2 DEF Current, LockInv, Shape
<1> QED
  BY Zenon, <1>1, <1>2, <1>3 DEF LockInv

\* A step that changes nothing the invariant reads.
LEMMA IdleStep ==
  ASSUME LockInv, UNCHANGED <<canon, worker, lock, procOf, gmailWrote, overlapped>>
  PROVE  LockInv'
  BY Zenon DEF LockInv, Shape, Holds, PastLock, Alone, OneProcess, Current

\* The write of a manifest by a worker past the lock, which then goes on
\* without what it has read.
LEMMA WriteStep ==
  ASSUME LockInv, NEW w \in Workers, NEW next \in {"variant", "finish"},
         PastLock(w), Forget(w, next),
         UNCHANGED <<procOf, lock, gmailWrote>>,
         Alone => ~overlapped'
  PROVE  LockInv'
<1>1. /\ Shape' /\ PastLock(w)'
      /\ worker'[w].pc = next
      /\ \A v \in Workers \ {w} : worker'[v] = worker[v]
  BY Zenon DEF LockInv, Shape, Forget, IsJob, Idle, Msg, PastLock
<1>2. Holds'
  BY Zenon, <1>1 DEF LockInv, Holds, PastLock
<1>3. ASSUME Alone' PROVE ~overlapped' /\ \A v \in Workers : Current(v)'
  <2>1. Alone
    BY Zenon, <1>3 DEF Alone, OneProcess
  <2>2. \A v \in Workers \ {w} : ~PastLock(v)
    BY Zenon, <2>1, OneHolder DEF LockInv, Alone
  <2>3. \A v \in Workers : Current(v)'
    BY Zenon, <1>1, <2>2 DEF Current, PastLock
  <2> QED
    BY Zenon, <2>1, <2>3
<1> QED
  BY Zenon, <1>1, <1>2, <1>3 DEF LockInv

\* Every step preserves the invariant.
LEMMA LockInvStep == LockInv /\ [Next]_vars => LockInv'
<1> SUFFICES ASSUME LockInv, [Next]_vars PROVE LockInv'
  BY Zenon
<1> USE DEF Shared, Bounds, store, history
<1>1. ASSUME NEW w \in Workers, NEW m \in Archive, Begin(w, m) PROVE LockInv'
  <2> DEFINE j == [Idle EXCEPT !.pc = "lock", !.msg = m]
  <2>1. IsJob(j) /\ j.pc = "lock"
    <3>1. IsJob(Idle)
      BY Zenon DEF IsJob, Idle
    <3>2. j.pc = "lock"
      BY Zenon DEF Idle
    <3> QED
      BY Zenon, <3>1, <3>2, JobFields
  <2>2. worker' = [worker EXCEPT ![w] = j]
    BY Zenon, <1>1 DEF Begin
  <2> HIDE DEF j
  <2> QED
    BY Zenon, <1>1, <2>1, <2>2, QuietStep DEF Begin
<1>2. ASSUME NEW w \in Workers, LockMessageID(w) PROVE LockInv'
  <2> DEFINE j == [worker[w] EXCEPT !.pc = "lookup"]
  <2>1. IsJob(j) /\ j.pc = "lookup"
    BY SMTT(30) DEF IsJob, LockInv, Shape
  <2>2. worker' = [worker EXCEPT ![w] = j]
    BY Zenon, <1>2 DEF LockMessageID, Go
  <2> HIDE DEF j
  <2> QED
    BY Zenon, <1>2, <2>1, <2>2, QuietStep DEF LockMessageID
<1>3. ASSUME NEW w \in Workers, Lookup(w) PROVE LockInv'
  <2>1. PICK pc \in {"membership", "attach", "order", "record"} :
          \/ pc \in {"membership", "attach"} /\ worker' = [worker EXCEPT ![w] = [worker[w] EXCEPT !.pc = pc]]
          \/ worker' = [worker EXCEPT ![w] = [worker[w] EXCEPT !.seen = canon, !.pc = pc]]
    BY Zenon, <1>3 DEF Lookup, Go
  <2>2. PastLock(w) /\ IsJob(worker[w])
    BY Zenon, <1>3 DEF Lookup, At, PastLock, LockInv, Shape
  <2>3. CASE pc \in {"membership", "attach"} /\ worker' = [worker EXCEPT ![w] = [worker[w] EXCEPT !.pc = pc]]
    <3> DEFINE j == [worker[w] EXCEPT !.pc = pc]
    <3>1. IsJob(j) /\ j.pc = pc
      BY <2>2 DEF IsJob
    <3>2. worker' = [worker EXCEPT ![w] = j]
      BY Zenon, <2>3
    <3> HIDE DEF j
    <3> QED
      BY Zenon, <1>3, <2>2, <2>3, <3>1, <3>2, QuietStep DEF Lookup
  <2>4. CASE worker' = [worker EXCEPT ![w] = [worker[w] EXCEPT !.seen = canon, !.pc = pc]]
    <3> DEFINE j == [worker[w] EXCEPT !.seen = canon, !.pc = pc]
    <3>1. IsJob(j)
      BY Zenon, <2>2, JobFields
    <3>2. j.pc = pc /\ j.seen = canon
      BY Zenon, <2>2 DEF IsJob
    <3>3. worker' = [worker EXCEPT ![w] = j]
      BY Zenon, <2>4
    <3> HIDE DEF j
    <3> QED
      BY Zenon, <1>3, <2>2, <3>1, <3>2, <3>3, QuietStep DEF Lookup
  <2> QED
    BY Zenon, <2>1, <2>3, <2>4
<1>4. ASSUME NEW w \in Workers, CanonicalBodyOrder(w) PROVE LockInv'
  <2>0. PICK o : worker' = [worker EXCEPT ![w].pc = "promote", ![w].order = o]
    BY ZenonT(30), <1>4 DEF CanonicalBodyOrder
  <2>1. worker' = [worker EXCEPT ![w] = [worker[w] EXCEPT !.pc = "promote", !.order = o]]
    BY Zenon, <2>0
  <2> DEFINE j == [worker[w] EXCEPT !.pc = "promote", !.order = o]
  <2>2. IsJob(j) /\ j.pc = "promote" /\ j.seen = worker[w].seen
    <3>1. IsJob(worker[w])
      BY Zenon DEF LockInv, Shape
    <3>2. j.pc = "promote" /\ j.seen = worker[w].seen
      BY Zenon, <3>1 DEF IsJob
    <3> QED
      BY Zenon, <3>1, <3>2, JobFields
  <2>3. PastLock(w) /\ worker[w].pc = "order"
    BY Zenon, <1>4 DEF CanonicalBodyOrder, At, PastLock
  <2>4. worker' = [worker EXCEPT ![w] = j]
    BY Zenon, <2>1
  <2> HIDE DEF j
  <2> QED
    BY Zenon, <1>4, <2>2, <2>3, <2>4, QuietStep DEF CanonicalBodyOrder
<1>5. ASSUME NEW w \in Workers, ShouldPromote(w) PROVE LockInv'
  <2>1. PICK b : worker' = [worker EXCEPT ![w] = [worker[w] EXCEPT !.pc = "record", !.promote = b]]
    BY Zenon, <1>5 DEF ShouldPromote
  <2> DEFINE j == [worker[w] EXCEPT !.pc = "record", !.promote = b]
  <2>2. IsJob(j) /\ j.pc = "record" /\ j.seen = worker[w].seen
    <3>1. IsJob(worker[w])
      BY Zenon DEF LockInv, Shape
    <3>2. j.pc = "record" /\ j.seen = worker[w].seen
      BY Zenon, <3>1 DEF IsJob
    <3> QED
      BY Zenon, <3>1, <3>2, JobFields
  <2>3. PastLock(w) /\ worker[w].pc = "promote"
    BY Zenon, <1>5 DEF ShouldPromote, At, PastLock
  <2>4. worker' = [worker EXCEPT ![w] = j]
    BY Zenon, <2>1
  <2> HIDE DEF j
  <2> QED
    BY Zenon, <1>5, <2>2, <2>3, <2>4, QuietStep DEF ShouldPromote
<1>6. ASSUME NEW w \in Workers, WriteVersionRecord(w) PROVE LockInv'
  <2> DEFINE j == [worker[w] EXCEPT !.pc = "put"]
  <2>1. IsJob(j) /\ j.pc = "put" /\ j.seen = worker[w].seen
    <3>1. IsJob(worker[w])
      BY Zenon DEF LockInv, Shape
    <3> QED BY <3>1 DEF IsJob
  <2>2. PastLock(w) /\ worker[w].pc = "record"
    BY Zenon, <1>6 DEF WriteVersionRecord, At, PastLock
  <2>3. worker' = [worker EXCEPT ![w] = j]
    BY Zenon, <1>6 DEF WriteVersionRecord, Go
  <2> HIDE DEF j
  <2> QED
    BY Zenon, <1>6, <2>1, <2>2, <2>3, QuietStep DEF WriteVersionRecord
<1>7. ASSUME NEW w \in Workers, PutCompound(w) PROVE LockInv'
  <2>1. PastLock(w) /\ worker[w].pc = "put" /\ IsJob(worker[w])
    BY Zenon, <1>7 DEF PutCompound, At, PastLock, LockInv, Shape
  <2>2. CASE Forget(w, AfterPut(w))
    <3>1. UNCHANGED <<lock, procOf, gmailWrote, overlapped>>
      BY Zenon, <1>7 DEF PutCompound
    <3>2. Alone => ~overlapped'
      BY Zenon, <3>1 DEF LockInv
    <3> QED
      BY Zenon, <2>1, <2>2, <3>1, <3>2, WriteStep DEF AfterPut
  <2>3. CASE worker' = [worker EXCEPT ![w].pc = "commit", ![w].base = canon]
    <3> DEFINE j == [worker[w] EXCEPT !.pc = "commit", !.base = canon]
    <3>1. IsJob(j)
      BY Zenon, <2>1, JobFields
    <3>2. j.pc = "commit" /\ j.seen = worker[w].seen /\ j.base = canon
      BY Zenon, <2>1 DEF IsJob
    <3>3. worker' = [worker EXCEPT ![w] = j]
      BY Zenon, <2>3
    <3> HIDE DEF j
    <3> QED
      BY Zenon, <1>7, <2>1, <3>1, <3>2, <3>3, QuietStep DEF PutCompound
  <2> QED
    BY Zenon, <1>7, <2>2, <2>3 DEF PutCompound
<1>8. ASSUME NEW w \in Workers, IngestInProgress(w) \/ Finish(w) \/ Fail(w) PROVE LockInv'
  <2>1. PastLock(w)
    BY Zenon, <1>8 DEF IngestInProgress, Finish, Fail, At, PastLock
  <2>2. /\ worker' = [worker EXCEPT ![w] = Idle]
        /\ lock' = [lock EXCEPT ![procOf[w]] = None]
        /\ UNCHANGED <<canon, procOf, gmailWrote, overlapped>>
    BY Zenon, <1>8 DEF IngestInProgress, Finish, Fail
  <2>3. IsJob(Idle) /\ Idle.pc = "idle"
    BY Zenon DEF IsJob, Idle
  <2> QED
    BY Zenon, <2>1, <2>2, <2>3, QuietStep
<1>9. ASSUME NEW w \in Workers, CommitCompound(w) PROVE LockInv'
  <2>1. PastLock(w) /\ worker[w].pc = "commit"
    BY Zenon, <1>9 DEF CommitCompound, At, PastLock
  <2>2. Alone => ~overlapped /\ worker[w].base = canon /\ worker[w].seen = canon
    BY Zenon, <2>1 DEF LockInv, Current
  <2>3. overlapped' = (overlapped \/ worker[w].base # canon \/ worker[w].base # worker[w].seen)
    BY Zenon, <1>9 DEF CommitCompound
  <2>4. Alone => ~overlapped'
    BY <2>2, <2>3, Zenon
  <2> QED
    BY Zenon, <1>9, <2>1, <2>4, WriteStep DEF CommitCompound, AfterPut
<1>10. ASSUME NEW w \in Workers, WriteVariant(w) \/ WriteMembership(w) PROVE LockInv'
  <2> DEFINE j == [worker[w] EXCEPT !.pc = "finish"]
  <2>1. IsJob(j) /\ j.pc = "finish"
    <3>1. IsJob(worker[w])
      BY Zenon DEF LockInv, Shape
    <3> QED BY <3>1 DEF IsJob
  <2>2. PastLock(w) /\ worker' = [worker EXCEPT ![w] = j]
    BY Zenon, <1>10 DEF WriteVariant, WriteMembership, At, PastLock, Go
  <2>3. UNCHANGED <<canon, lock, procOf, gmailWrote, overlapped>>
    BY Zenon, <1>10 DEF WriteVariant, WriteMembership
  <2> HIDE DEF j
  <2> QED
    BY Zenon, <2>1, <2>2, <2>3, QuietStep
<1>11. ASSUME NEW w \in Workers, AttachProvenance(w) PROVE LockInv'
  <2>1. PastLock(w) /\ IsJob(worker[w])
    BY Zenon, <1>11 DEF AttachProvenance, At, PastLock, LockInv, Shape
  <2>2. PICK j \in {[worker[w] EXCEPT !.pc = "finish"],
                   [worker[w] EXCEPT !.pc = "attached", !.base = canon]} :
          worker' = [worker EXCEPT ![w] = j]
    BY Zenon, <1>11 DEF AttachProvenance, Go
  <2>3. IsJob(j) /\ (j.pc = "finish" \/ (j.pc = "attached" /\ j.base = canon))
    BY Zenon, <2>1, <2>2 DEF IsJob
  <2>4. UNCHANGED <<canon, lock, procOf, gmailWrote, overlapped>>
    BY Zenon, <1>11 DEF AttachProvenance
  <2> QED
    BY Zenon, <2>1, <2>2, <2>3, <2>4, QuietStep
<1>12. ASSUME NEW w \in Workers, CommitProvenance(w) PROVE LockInv'
  <2>1. PastLock(w) /\ worker[w].pc = "attached"
    BY Zenon, <1>12 DEF CommitProvenance, At, PastLock
  <2>2. Alone => ~overlapped /\ worker[w].base = canon
    BY Zenon, <2>1 DEF LockInv, Current
  <2>3. overlapped' = (overlapped \/ worker[w].base # canon)
    BY Zenon, <1>12 DEF CommitProvenance
  <2>4. Alone => ~overlapped'
    BY <2>2, <2>3, Zenon
  <2> QED
    BY Zenon, <1>12, <2>1, <2>4, WriteStep DEF CommitProvenance
<1>13. ASSUME NEW p \in Procs, Crash(p) PROVE LockInv'
  <2>1. /\ UNCHANGED <<canon, procOf, gmailWrote, overlapped>>
        /\ lock' = [lock EXCEPT ![p] = None]
    BY Zenon, <1>13 DEF Crash
  <2>2. /\ worker' = [w \in Workers |-> worker'[w]]
        /\ \A w \in Workers : worker'[w] = Idle \/ (worker'[w] = worker[w] /\ (procOf[w] # p \/ ~PastLock(w)))
    BY Zenon, <1>13 DEF Crash, At, PastLock
  <2>3. IsJob(Idle) /\ Idle.pc = "idle"
    BY Zenon DEF IsJob, Idle
  <2>4. Shape'
    BY Zenon, <2>1, <2>2, <2>3 DEF LockInv, Shape
  <2>5. Holds'
    BY Zenon, <2>1, <2>2, <2>3 DEF LockInv, Shape, Holds, PastLock
  <2>6. \A w \in Workers : Current(w) => Current(w)'
    BY Zenon, <2>1, <2>2, <2>3 DEF Current
  <2> QED
    BY Zenon, <2>1, <2>4, <2>5, <2>6 DEF LockInv, Alone, OneProcess
<1>14. ASSUME NEW g \in GmailMail, GmailPut(g) PROVE LockInv'
  BY Zenon, <1>14, IdleStep DEF GmailPut
<1>15. CASE GmailCommit
  <2>1. ~Alone'
    BY Zenon, <1>15 DEF GmailCommit, Alone
  <2>2. Shape' /\ Holds'
    BY Zenon, <1>15 DEF GmailCommit, LockInv, Shape, Holds, PastLock
  <2> QED
    BY Zenon, <2>1, <2>2 DEF LockInv
<1>16. CASE UNCHANGED vars
  BY Zenon, <1>16, IdleStep DEF vars, control
<1> QED
  BY <1>1, <1>2, <1>3, <1>4, <1>5, <1>6, <1>7, <1>8, <1>9, <1>10, <1>11, <1>12, <1>13,
     <1>14, <1>15, <1>16 DEF Next

\* The lock of lockMessageID serialises the import of one Message-ID: while all
\* workers are in one process and Gmail stays away, every manifest write of the
\* importer replaces the manifest its writer read.
THEOREM ImportSerialised == Spec => []LockSerialises
<1>1. LockInv => LockSerialises
  BY Zenon DEF LockInv, LockSerialises, Alone
<1> QED
  BY <1>1, LockInvInit, LockInvStep, PTL DEF Spec

-----------------------------------------------------------------------------
(* The version set: the invariant *)

MailFacets == [subject : {Content[m].head : m \in Mail}, bodyLine : {Content[m].body : m \in Mail},
               collision : BOOLEAN, scale : {Minor, Major}, count : Nat \ {0},
               canonicalId : {Fingerprint(m) : m \in Mail}]

IsManifest(c) ==
  /\ c = [mail |-> c.mail, set |-> c.set, parts |-> c.parts, prov |-> c.prov]
  /\ c.mail \in MailFacets
  /\ c.prov \subseteq Mail \cup {Identity}
  /\ {HeaderSlot, BodySlot} \subseteq DOMAIN c.parts

\* A manifest that only Gmail has written: of one version, with no record of an
\* import.
OnlyGmail(c) ==
  /\ c.mail.count = 1 /\ c.mail.scale = Minor /\ c.set = None
  /\ RecordsIn(c) = {}
  /\ c.prov \subseteq GmailMail

\* A manifest with the identity: the records of the mails in R are in the slots
\* up to its count, and it shows the body of a mail of K.
Versioned(c, R, K) ==
  /\ c.set \in VersionSets
  /\ RecordsIn(c) = {RecordSlot(n) : n \in 0 .. c.mail.count - 1}
  /\ {c.parts[s] : s \in RecordsIn(c)} = R
  /\ R \subseteq c.prov
  /\ \E k \in K : c.mail.bodyLine = Content[k].body

\* What CanonicalCoherent says of a manifest.
CoherentManifest(c) ==
  /\ c.mail.canonicalId = <<c.parts[HeaderSlot], c.parts[BodySlot]>>
  /\ c.mail.bodyLine = c.parts[BodySlot]
  /\ c.mail.subject = c.parts[HeaderSlot]
  /\ c.set = [canonicalId |-> c.mail.canonicalId, count |-> c.mail.count, scale |-> c.mail.scale]

Shown == crowned \cup {g \in GmailMail : Known(g)}

ManifestOK ==
  /\ canon = NoManifest \/ IsManifest(canon)
  /\ recorded \subseteq Archive /\ crowned \subseteq recorded
  /\ ~HasIdentity(canon) => recorded = {} /\ (canon = NoManifest \/ OnlyGmail(canon))
  /\ HasIdentity(canon) => Versioned(canon, recorded, Shown)
  /\ HasIdentity(canon) /\ "over" \notin gmailWrote /\ ~orderLost => CoherentManifest(canon)

\* Where a worker goes by the manifest of its lookup.
Reading == {"order", "promote", "record", "put", "commit"}

\* What a worker relies on: the compound it found is still there, and what it has
\* landed stays landed.
JobOK(w) ==
  /\ worker[w].pc \in {"idle", "lock", "lookup", "order", "promote", "record", "put", "commit",
                       "variant", "membership", "attach", "attached", "finish"}
  /\ IF At(w, "idle") THEN Msg(w) = None ELSE Msg(w) \in Archive
  /\ worker[w].pc \in {"membership", "attach", "attached"} => HasIdentity(canon)
  /\ At(w, "variant") => Known(Msg(w))
  /\ At(w, "finish") => Known(Msg(w)) \/ "membership" \in stored[Msg(w)]
  /\ worker[w].pc \in {"put", "commit"} => record[Msg(w)] # None
  /\ worker[w].pc \in Reading /\ HasIdentity(worker[w].seen) => HasIdentity(canon)

LandedOK == done \subseteq Archive /\ \A m \in done : Known(m) \/ "membership" \in stored[m]

RecordTypes ==
  /\ record \in [Archive -> VersionRecords \cup {None}]
  /\ stored = [m \in Archive |-> stored[m]]
  /\ \A m \in recorded : record[m] # None
  /\ \A m \in Archive : record[m] # None /\ ~record[m].full => HasIdentity(canon)

VersionFacts == ManifestOK /\ RecordTypes /\ LandedOK /\ \A w \in Workers : JobOK(w)

VersionsInv ==
  /\ gmail.msg \in GmailMail \cup {None}
  /\ ~overlapped => VersionFacts

\* The further promises of one process.

HasVariant(m) == record[m].full \/ "variant" \in stored[m]
OwnDuplicate(m) == m \in cut /\ \E k \in Shown : Content[k].body = Content[m].body
Settled(m) == m \in recorded => HasVariant(m) \/ OwnDuplicate(m)

\* What the holder of the lock knows of the mail it is on.
HolderOK(w) ==
  /\ worker[w].pc \in Reading => (HasIdentity(worker[w].seen) <=> HasIdentity(canon))
  /\ At(w, "commit") => ~Known(Msg(w))
  /\ worker[w].pc \in {"put", "commit"} /\ Msg(w) \notin cut /\ ~Known(Msg(w)) =>
       (record[Msg(w)].canonical <=> ~HasIdentity(worker[w].seen) \/ worker[w].promote)
  /\ worker[w].pc \in {"membership", "attach", "attached", "finish"} => Settled(Msg(w))

\* What is true of the mails, whoever is on them.
MailsOK ==
  /\ \A m \in Archive \ cut : record[m] # None /\ ~Known(m) =>
       \E w \in Workers : worker[w].pc \in {"put", "commit"} /\ Msg(w) = m
  /\ \A m \in recorded \ cut : HasVariant(m) \/ \E w \in Workers : At(w, "variant") /\ Msg(w) = m
  /\ \A m \in recorded \ cut : record[m].canonical <=> m \in crowned
  /\ \A m \in done \ {Msg(w) : w \in Workers} : Settled(m)

OneProcessInv ==
  ~overlapped /\ OneProcess => MailsOK /\ \A w \in Workers : HolderOK(w)

-----------------------------------------------------------------------------
(* Parts and manifests *)

\* The slots of a merge of parts are those of both.
LEMMA OntoSlots ==
  ASSUME NEW f, NEW g
  PROVE  DOMAIN Onto(f, g) = DOMAIN f \cup DOMAIN g
  BY Zenon DEF Onto

\* A part of the new parts takes its slot.
LEMMA OntoNew ==
  ASSUME NEW f, NEW g, NEW s \in DOMAIN f
  PROVE  Onto(f, g)[s] = f[s]
  BY Zenon DEF Onto

\* A part of the old ones stays in a slot the new ones leave.
LEMMA OntoOld ==
  ASSUME NEW f, NEW g, NEW s \in DOMAIN g \ DOMAIN f
  PROVE  Onto(f, g)[s] = g[s]
  BY Zenon DEF Onto

\* A part alone.
LEMMA PartAlone ==
  ASSUME NEW s, NEW c
  PROVE  DOMAIN Part(s, c) = {s} /\ Part(s, c)[s] = c /\ DOMAIN NoParts = {}
  BY Zenon DEF Part, NoParts

\* The slots of a record are the slots of records, one for each number.
LEMMA RecordSlots ==
  /\ \A n \in Nat : RecordSlot(n)[1] = "version_record"
  /\ \A n, k \in Nat : RecordSlot(n) = RecordSlot(k) => n = k
  /\ HeaderSlot[1] # "version_record" /\ BodySlot[1] # "version_record"
  /\ HeaderSlot # BodySlot
  BY DEF RecordSlot, HeaderSlot, BodySlot, Slot

\* The parts of a mail are its headers, its body and an attachment, no record.
LEMMA PartsOfMail ==
  ASSUME NEW m, NEW order, NEW att
  PROVE  LET P == MessageParts(m, order, att)
         IN /\ {HeaderSlot, Slot("email_body", order)} \subseteq DOMAIN P
            /\ P[HeaderSlot] = Content[m].head
            /\ P[Slot("email_body", order)] = Content[m].body
            /\ \A s \in DOMAIN P : s[1] # "version_record"
<1> DEFINE A == IF Content[m].att = None THEN NoParts ELSE Part(Slot("attachment", att), Content[m].att)
           B == Part(Slot("email_body", order), Content[m].body)
           H == Part(HeaderSlot, Content[m].head)
<1>1. /\ Slot("email_body", order)[1] = "email_body" /\ HeaderSlot[1] = "rfc822_headers"
      /\ Slot("attachment", att)[1] = "attachment"
  BY Zenon DEF Slot, HeaderSlot
<1>2. DOMAIN A \subseteq {Slot("attachment", att)}
  BY Zenon, PartAlone
<1>3. DOMAIN H = {HeaderSlot} /\ H[HeaderSlot] = Content[m].head
  BY Zenon, PartAlone
<1>4. DOMAIN B = {Slot("email_body", order)} /\ B[Slot("email_body", order)] = Content[m].body
  BY Zenon, PartAlone
<1>5. MessageParts(m, order, att) = Onto(H, Onto(B, A))
  BY Zenon DEF MessageParts
<1> HIDE DEF A, B, H
<1>6. DOMAIN Onto(B, A) = DOMAIN B \cup DOMAIN A
  BY Zenon, OntoSlots
<1>7. Onto(B, A)[Slot("email_body", order)] = Content[m].body
  <2>1. Slot("email_body", order) \in DOMAIN B
    BY Zenon, <1>4
  <2>2. Onto(B, A)[Slot("email_body", order)] = B[Slot("email_body", order)]
    BY Zenon, <2>1, OntoNew
  <2> QED BY Zenon, <1>4, <2>2
<1>8. DOMAIN Onto(H, Onto(B, A)) = DOMAIN H \cup (DOMAIN B \cup DOMAIN A)
  BY Zenon, <1>6, OntoSlots
<1>9. Onto(H, Onto(B, A))[HeaderSlot] = Content[m].head
  <2>1. HeaderSlot \in DOMAIN H
    BY Zenon, <1>3
  <2>2. Onto(H, Onto(B, A))[HeaderSlot] = H[HeaderSlot]
    BY Zenon, <2>1, OntoNew
  <2> QED BY Zenon, <1>3, <2>2
<1>10. Slot("email_body", order) \in DOMAIN Onto(B, A) \ DOMAIN H
  BY Zenon, <1>1, <1>3, <1>4, <1>6
<1>11. Onto(H, Onto(B, A))[Slot("email_body", order)] = Content[m].body
  <2>1. Onto(H, Onto(B, A))[Slot("email_body", order)] = Onto(B, A)[Slot("email_body", order)]
    BY <1>10, OntoOld
  <2> QED BY Zenon, <1>7, <2>1
<1> QED BY Zenon, <1>1, <1>2, <1>3, <1>4, <1>5, <1>8, <1>9, <1>11

\* The slots of records, and parts that have none.
recordsOf(P) == {s \in DOMAIN P : s[1] = "version_record"}
noRecords(X) == \A s \in DOMAIN X : s[1] # "version_record"

\* P is the parts X and a record of m in slot n, and Q is that over the parts O.
isVersion(P, m, n, X) ==
  /\ DOMAIN P = DOMAIN X \cup {RecordSlot(n)}
  /\ recordsOf(P) = {RecordSlot(n)} /\ P[RecordSlot(n)] = m
  /\ \A s \in DOMAIN X : P[s] = X[s]
isMerge(Q, m, n, X, O) ==
  /\ DOMAIN Q = DOMAIN X \cup {RecordSlot(n)} \cup DOMAIN O
  /\ recordsOf(Q) = recordsOf(O) \cup {RecordSlot(n)} /\ Q[RecordSlot(n)] = m
  /\ \A s \in DOMAIN X : Q[s] = X[s]
  /\ \A s \in DOMAIN O \ (DOMAIN X \cup {RecordSlot(n)}) : Q[s] = O[s]

\* The parts of a version: its record, and parts that are no records.
LEMMA RecordAndParts ==
  ASSUME NEW m, NEW n \in Nat, NEW X, noRecords(X)
  PROVE  isVersion(Onto(Part(RecordSlot(n), m), X), m, n, X)
<1> DEFINE R == Part(RecordSlot(n), m)
<1>1. DOMAIN R = {RecordSlot(n)} /\ R[RecordSlot(n)] = m
  BY Zenon, PartAlone
<1> HIDE DEF R
<1>2. RecordSlot(n)[1] = "version_record"
  BY Zenon, RecordSlots
<1>3. DOMAIN Onto(R, X) = DOMAIN R \cup DOMAIN X
  BY Zenon, OntoSlots
<1>4. Onto(R, X)[RecordSlot(n)] = R[RecordSlot(n)]
  BY Zenon, <1>1, OntoNew
<1>5. \A s \in DOMAIN X : Onto(R, X)[s] = X[s]
  <2> TAKE s \in DOMAIN X
  <2>1. s \in DOMAIN X \ DOMAIN R
    BY Zenon, <1>1, <1>2 DEF noRecords
  <2> QED BY Zenon, <2>1, OntoOld
<1>6. recordsOf(Onto(R, X)) = {RecordSlot(n)}
  BY Zenon, <1>1, <1>2, <1>3 DEF recordsOf, noRecords
<1> QED BY Zenon, <1>1, <1>3, <1>4, <1>5, <1>6 DEF R, isVersion

\* The same merged into the parts of a manifest.
LEMMA RecordMerged ==
  ASSUME NEW m, NEW n \in Nat, NEW X, noRecords(X), NEW O
  PROVE  isMerge(Onto(Onto(Part(RecordSlot(n), m), X), O), m, n, X, O)
<1> DEFINE P == Onto(Part(RecordSlot(n), m), X)
<1>1. isVersion(P, m, n, X)
  BY Zenon, RecordAndParts
<1> HIDE DEF P
<1>2. DOMAIN Onto(P, O) = DOMAIN P \cup DOMAIN O
  BY Zenon, OntoSlots
<1>3. \A s \in DOMAIN P : Onto(P, O)[s] = P[s]
  BY Zenon, OntoNew
<1>4. \A s \in DOMAIN O \ DOMAIN P : Onto(P, O)[s] = O[s]
  BY Zenon, OntoOld
<1>5. recordsOf(Onto(P, O)) = recordsOf(O) \cup recordsOf(P)
  <2>1. \A s : s \in recordsOf(Onto(P, O)) <=> s \in DOMAIN P \cup DOMAIN O /\ s[1] = "version_record"
    BY Zenon, <1>2 DEF recordsOf
  <2> QED BY Zenon, <2>1 DEF recordsOf
<1>6. isMerge(Onto(P, O), m, n, X, O)
  BY <1>1, <1>2, <1>3, <1>4, <1>5 DEF isVersion, isMerge
<1> QED BY Zenon, <1>6 DEF P

\* Q is the parts X, without records, over the parts O.
isPartsOver(Q, X, O) ==
  /\ DOMAIN Q = DOMAIN X \cup DOMAIN O
  /\ recordsOf(Q) = recordsOf(O)
  /\ \A s \in DOMAIN X : Q[s] = X[s]
  /\ \A s \in DOMAIN O \ DOMAIN X : Q[s] = O[s]

\* Parts without records merged into the parts of a manifest.
LEMMA PartsMerged ==
  ASSUME NEW X, noRecords(X), NEW O
  PROVE  isPartsOver(Onto(X, O), X, O)
<1>1. DOMAIN Onto(X, O) = DOMAIN X \cup DOMAIN O
  BY Zenon, OntoSlots
<1>2. \A s \in DOMAIN X : Onto(X, O)[s] = X[s]
  BY Zenon, OntoNew
<1>3. \A s \in DOMAIN O \ DOMAIN X : Onto(X, O)[s] = O[s]
  BY Zenon, OntoOld
<1>4. recordsOf(Onto(X, O)) = recordsOf(O)
  BY <1>1 DEF recordsOf, noRecords
<1> QED BY Zenon, <1>1, <1>2, <1>3, <1>4 DEF isPartsOver

\* A manifest is not the absence of one.
LEMMA ManifestThere ==
  ASSUME NEW c, IsManifest(c)
  PROVE  c # NoManifest
<1> DEFINE r(a, b, d, e) == [mail |-> a, set |-> b, parts |-> d, prov |-> e]
<1>1. c = r(c.mail, c.set, c.parts, c.prov)
  BY Zenon DEF IsManifest
<1>2. \A a, b, d, e : r(a, b, d, e) # [absent |-> TRUE]
  BY SMT
<1> QED BY Zenon, <1>1, <1>2 DEF NoManifest

\* The mail facet that archiveMailMetadata writes.
LEMMA FacetType ==
  ASSUME NEW m \in Mail, NEW x \in BOOLEAN, NEW scale \in {Minor, Major}, NEW n \in Nat \ {0},
         NEW id \in {Fingerprint(k) : k \in Mail}
  PROVE  MailFacet(m, x, scale, n, id) \in MailFacets
  BY Zenon DEF MailFacet, MailFacets

\* f is the facet b over a.
isFacetOver(f, b, a) ==
  /\ f \in MailFacets
  /\ f.subject = b.subject /\ f.bodyLine = b.bodyLine /\ f.scale = Larger(a.scale, b.scale)
  /\ a.count <= b.count => f.count = b.count /\ f.canonicalId = b.canonicalId
  /\ b.count <= a.count => f.count = a.count

\* mergeFacetMetadata: the count and the scale only grow, and the canonical id
\* is that of the facet that counts more, or of the incoming one.
LEMMA FacetMerged ==
  ASSUME NEW a \in MailFacets, NEW b \in MailFacets
  PROVE  isFacetOver(MergeMailFacet(a, b), b, a)
<1> DEFINE f == MergeMailFacet(a, b)
           n == Larger(a.count, b.count)
           id == IF a.count > b.count THEN a.canonicalId ELSE b.canonicalId
<1>1. a.count \in Nat \ {0} /\ b.count \in Nat \ {0}
  BY Zenon DEF MailFacets
<1>2. /\ n \in Nat \ {0} /\ (a.count <= b.count => n = b.count /\ id = b.canonicalId)
      /\ (b.count <= a.count => n = a.count)
  BY <1>1 DEF Larger
<1>3. Larger(a.scale, b.scale) \in {Minor, Major}
  BY Zenon DEF Larger, MailFacets
<1>4. (a.collision \/ b.collision) \in BOOLEAN
  BY Zenon
<1>5. id \in {Fingerprint(m) : m \in Mail}
  BY Zenon DEF MailFacets
<1>6. f = [b EXCEPT !.count = n, !.scale = Larger(a.scale, b.scale),
                    !.collision = a.collision \/ b.collision, !.canonicalId = id]
  BY Zenon DEF MergeMailFacet
<1> HIDE DEF f, n, id
<1>7. f \in MailFacets
  BY Zenon, <1>2, <1>3, <1>4, <1>5, <1>6 DEF MailFacets
<1>8. /\ f.subject = b.subject /\ f.bodyLine = b.bodyLine /\ f.canonicalId = id
      /\ f.count = n /\ f.scale = Larger(a.scale, b.scale)
  BY Zenon, <1>6 DEF MailFacets
<1> QED BY Zenon, <1>2, <1>7, <1>8 DEF f, isFacetOver

\* c is the manifest new over old.
isOver(c, new, old) ==
  /\ c = [mail |-> c.mail, set |-> c.set, parts |-> c.parts, prov |-> c.prov]
  /\ c.mail = MergeMailFacet(old.mail, new.mail)
  /\ c.set = IF new.set = None THEN old.set ELSE new.set
  /\ c.parts = Onto(new.parts, old.parts)
  /\ c.prov = old.prov \cup new.prov

\* mergeManifest takes the facets and the parts one by one.
LEMMA ManifestMerged ==
  ASSUME NEW old, IsManifest(old), NEW new
  PROVE  isOver(MergeManifest(old, new), new, old)
<1> DEFINE c == MergeManifest(old, new)
<1>1. c = [mail |-> MergeMailFacet(old.mail, new.mail), set |-> IF new.set = None THEN old.set ELSE new.set,
           parts |-> Onto(new.parts, old.parts), prov |-> old.prov \cup new.prov]
  BY Zenon, ManifestThere DEF MergeManifest
<1> HIDE DEF c
<1>2. isOver(c, new, old)
  BY Zenon, <1>1 DEF isOver
<1> QED BY Zenon, <1>2 DEF c

\* The version_set facet.
LEMMA SetType ==
  ASSUME NEW id \in {Fingerprint(k) : k \in Mail}, NEW n \in Nat \ {0}, NEW scale \in {Minor, Major},
         NEW x, x = [canonicalId |-> id, count |-> n, scale |-> scale]
  PROVE  x \in VersionSets /\ x # None
<1>1. x \in VersionSets
  BY Zenon DEF VersionSets
<1>2. None \notin VersionSets
  BY Zenon, MailAssumption
<1> QED BY Zenon, <1>1, <1>2

\* The same for facets that fit.
isManifestOver(c, new, old) ==
  /\ IsManifest(c) /\ c # NoManifest /\ isFacetOver(c.mail, new.mail, old.mail)
  /\ c.set = IF new.set = None THEN old.set ELSE new.set
  /\ c.parts = Onto(new.parts, old.parts)
  /\ c.prov = old.prov \cup new.prov

\* A merge into a manifest is a manifest.
LEMMA OverManifest ==
  ASSUME NEW old, IsManifest(old), NEW new, new.mail \in MailFacets,
         new.prov \subseteq Mail \cup {Identity}, NEW c, c = MergeManifest(old, new)
  PROVE  isManifestOver(c, new, old)
<1>1. isOver(c, new, old)
  BY Zenon, ManifestMerged
<1>2. old.mail \in MailFacets
  BY Zenon DEF IsManifest
<1>3. isFacetOver(MergeMailFacet(old.mail, new.mail), new.mail, old.mail)
  BY Zenon, <1>2, FacetMerged
<1>4. isFacetOver(c.mail, new.mail, old.mail)
  BY Zenon, <1>1, <1>3 DEF isOver
<1>5. DOMAIN c.parts = DOMAIN new.parts \cup DOMAIN old.parts
  BY Zenon, <1>1, OntoSlots DEF isOver
<1>6. {HeaderSlot, BodySlot} \subseteq DOMAIN c.parts
  BY Zenon, <1>5 DEF IsManifest
<1>7. c.prov \subseteq Mail \cup {Identity}
  BY Zenon, <1>1 DEF isOver, IsManifest
<1>8. IsManifest(c)
  BY Zenon, <1>1, <1>4, <1>6, <1>7 DEF isOver, isFacetOver, IsManifest
<1> QED BY Zenon, <1>1, <1>4, <1>8, ManifestThere DEF isOver, isManifestOver

\* The parts of a first version: record 0, headers and body.
LEMMA FirstParts ==
  ASSUME NEW m
  PROVE  /\ noRecords(MessageParts(m, 1, 10))
         /\ {HeaderSlot, BodySlot} \subseteq DOMAIN MessageParts(m, 1, 10)
         /\ MessageParts(m, 1, 10)[HeaderSlot] = Content[m].head
         /\ MessageParts(m, 1, 10)[BodySlot] = Content[m].body
<1> DEFINE P == MessageParts(m, 1, 10)
<1>1. /\ {HeaderSlot, Slot("email_body", 1)} \subseteq DOMAIN P
      /\ P[HeaderSlot] = Content[m].head /\ P[Slot("email_body", 1)] = Content[m].body
      /\ \A s \in DOMAIN P : s[1] # "version_record"
  BY PartsOfMail
<1> HIDE DEF P
<1>2. /\ noRecords(P) /\ {HeaderSlot, BodySlot} \subseteq DOMAIN P
      /\ P[HeaderSlot] = Content[m].head /\ P[BodySlot] = Content[m].body
  BY Zenon, <1>1 DEF BodySlot, noRecords
<1> QED BY Zenon, <1>2 DEF P

\* The records of a manifest are the records among its parts.
LEMMA RecordsAreParts == \A c : RecordsIn(c) = recordsOf(c.parts)
  BY Zenon DEF RecordsIn, recordsOf

\* The manifest of a first archive mail.
LEMMA FirstManifest ==
  ASSUME NEW m \in Mail, NEW new, new = CanonicalManifest(m)
  PROVE  /\ new = [mail |-> new.mail, set |-> new.set, parts |-> new.parts, prov |-> new.prov]
         /\ new.mail = MailFacet(m, FALSE, Minor, 1, Fingerprint(m)) /\ new.mail \in MailFacets
         /\ new.mail.count = 1 /\ new.mail.scale = Minor
         /\ new.mail.subject = Content[m].head /\ new.mail.bodyLine = Content[m].body
         /\ new.mail.canonicalId = Fingerprint(m)
         /\ new.set = [canonicalId |-> Fingerprint(m), count |-> 1, scale |-> Minor]
         /\ new.set \in VersionSets /\ new.set # None
         /\ new.parts = Onto(Part(RecordSlot(0), m), MessageParts(m, 1, 10))
         /\ new.prov = {m, Identity}
<1>1. /\ new = [mail |-> new.mail, set |-> new.set, parts |-> new.parts, prov |-> new.prov]
      /\ new.mail = MailFacet(m, FALSE, Minor, 1, Fingerprint(m))
      /\ new.set = [canonicalId |-> Fingerprint(m), count |-> 1, scale |-> Minor]
      /\ new.parts = Onto(Part(RecordSlot(0), m), MessageParts(m, 1, 10))
      /\ new.prov = {m, Identity}
  BY Zenon DEF CanonicalManifest
<1>2. Minor \in {Minor, Major} /\ 1 \in Nat \ {0} /\ Fingerprint(m) \in {Fingerprint(k) : k \in Mail}
  BY DEF Minor, Major
<1>3. new.mail \in MailFacets
  BY Zenon, <1>1, <1>2, FacetType
<1>4. new.set \in VersionSets /\ new.set # None
  BY Zenon, <1>1, <1>2, SetType
<1>5. /\ new.mail.count = 1 /\ new.mail.scale = Minor
      /\ new.mail.subject = Content[m].head /\ new.mail.bodyLine = Content[m].body
      /\ new.mail.canonicalId = Fingerprint(m)
  <2>1. new.mail = [subject |-> Content[m].head, bodyLine |-> Content[m].body, collision |-> FALSE,
                    scale |-> Minor, count |-> 1, canonicalId |-> Fingerprint(m)]
    BY Zenon, <1>1 DEF MailFacet
  <2> QED BY <2>1
<1> QED BY Zenon, <1>1, <1>3, <1>4, <1>5

\* What ingestCanonicalMessage leaves, over nothing or over a manifest of Gmail:
\* a version set of one, which shows the mail.
LEMMA FirstVersion ==
  ASSUME NEW old, old = NoManifest \/ (IsManifest(old) /\ OnlyGmail(old)), NEW m \in Archive,
         NEW K, m \in K, NEW c, c = MergeManifest(old, CanonicalManifest(m))
  PROVE  /\ IsManifest(c) /\ HasIdentity(c) /\ Versioned(c, {m}, K) /\ CoherentManifest(c)
         /\ old # NoManifest => old.prov \subseteq c.prov
<1> DEFINE new == CanonicalManifest(m)
           X == MessageParts(m, 1, 10)
<1>0. m \in Mail
  BY Zenon DEF Mail
<1>1. /\ new = [mail |-> new.mail, set |-> new.set, parts |-> new.parts, prov |-> new.prov]
      /\ new.mail \in MailFacets /\ new.mail.count = 1 /\ new.mail.scale = Minor
      /\ new.mail.subject = Content[m].head /\ new.mail.bodyLine = Content[m].body
      /\ new.mail.canonicalId = Fingerprint(m)
      /\ new.set = [canonicalId |-> Fingerprint(m), count |-> 1, scale |-> Minor]
      /\ new.set \in VersionSets /\ new.set # None
      /\ new.parts = Onto(Part(RecordSlot(0), m), X)
      /\ new.prov = {m, Identity}
  BY Zenon, <1>0, FirstManifest
<1>2. /\ noRecords(X) /\ {HeaderSlot, BodySlot} \subseteq DOMAIN X
      /\ X[HeaderSlot] = Content[m].head /\ X[BodySlot] = Content[m].body
  BY Zenon, FirstParts
<1>3. c = MergeManifest(old, new)
  BY Zenon
<1> HIDE DEF new, X
<1>4. isVersion(new.parts, m, 0, X)
  BY <1>1, <1>2, RecordAndParts
<1>5. /\ IsManifest(c) /\ c # NoManifest /\ {m, Identity} \subseteq c.prov
      /\ c.mail.count = 1 /\ c.mail.scale = Minor
      /\ c.mail.subject = Content[m].head /\ c.mail.bodyLine = Content[m].body
      /\ c.mail.canonicalId = Fingerprint(m) /\ c.set = new.set
      /\ RecordsIn(c) = {RecordSlot(0)} /\ c.parts[RecordSlot(0)] = m
      /\ c.parts[HeaderSlot] = Content[m].head /\ c.parts[BodySlot] = Content[m].body
      /\ old # NoManifest => old.prov \subseteq c.prov
  <2>1. CASE old = NoManifest
    <3>1. c = new
      BY Zenon, <1>3, <2>1 DEF MergeManifest
    <3>2. {HeaderSlot, BodySlot} \subseteq DOMAIN c.parts
      BY Zenon, <1>2, <1>4, <3>1 DEF isVersion
    <3>3. IsManifest(c)
      BY Zenon, <1>0, <1>1, <3>1, <3>2 DEF IsManifest
    <3> QED BY Zenon, <1>1, <1>2, <1>4, <2>1, <3>1, <3>3, ManifestThere, RecordsAreParts DEF isVersion
  <2>2. CASE IsManifest(old) /\ OnlyGmail(old)
    <3>1. old.mail.count <= new.mail.count /\ new.prov \subseteq Mail \cup {Identity}
      BY <1>0, <1>1, <2>2 DEF OnlyGmail
    <3>2. isManifestOver(c, new, old)
      BY Zenon, <1>1, <1>3, <2>2, <3>1, OverManifest
    <3>3. isMerge(c.parts, m, 0, X, old.parts)
      <4>1. c.parts = Onto(Onto(Part(RecordSlot(0), m), X), old.parts) /\ 0 \in Nat
        BY <1>1, <3>2 DEF isManifestOver
      <4> QED BY Zenon, <1>2, <4>1, RecordMerged
    <3>4. Larger(old.mail.scale, new.mail.scale) = Minor
      BY Zenon, <1>1, <2>2 DEF OnlyGmail, Larger, Minor
    <3>5. recordsOf(old.parts) = {}
      BY Zenon, <2>2, RecordsAreParts DEF OnlyGmail
    <3>6. RecordsIn(c) = {RecordSlot(0)}
      BY Zenon, <3>3, <3>5, RecordsAreParts DEF isMerge
    <3>7. c.parts[HeaderSlot] = Content[m].head /\ c.parts[BodySlot] = Content[m].body
      BY Zenon, <1>2, <3>3 DEF isMerge
    <3>8. c.parts[RecordSlot(0)] = m
      BY Zenon, <3>3 DEF isMerge
    <3> QED BY Zenon, <1>1, <3>2, <3>1, <3>4, <3>6, <3>7, <3>8 DEF isManifestOver, isFacetOver
  <2> QED BY Zenon, <2>1, <2>2
<1>6. HasIdentity(c)
  BY Zenon, <1>5 DEF HasIdentity
<1>7. {RecordSlot(n) : n \in 0 .. c.mail.count - 1} = {RecordSlot(0)}
  <2>1. 0 .. c.mail.count - 1 = {0}
    BY <1>5
  <2> QED BY Zenon, <2>1
<1>8. {c.parts[s] : s \in RecordsIn(c)} = {m}
  BY Zenon, <1>5
<1>9. Versioned(c, {m}, K)
  BY Zenon, <1>1, <1>5, <1>7, <1>8 DEF Versioned
<1>10. CoherentManifest(c)
  BY Zenon, <1>1, <1>5 DEF CoherentManifest, Fingerprint
<1> QED BY Zenon, <1>5, <1>6, <1>9, <1>10

\* What a further version adds to old: a version more, and the mail in front of
\* the others when it is promoted.
isFurther(new, old, m, promote) ==
  /\ new.mail \in MailFacets /\ new.mail.count = old.mail.count + 1
  /\ Larger(old.mail.scale, new.mail.scale) = new.mail.scale
  /\ new.set = [canonicalId |-> new.mail.canonicalId, count |-> new.mail.count, scale |-> new.mail.scale]
  /\ new.set \in VersionSets /\ new.set # None
  /\ new.prov = {m}
  /\ promote => /\ new.mail.subject = Content[m].head /\ new.mail.bodyLine = Content[m].body
                /\ new.mail.canonicalId = Fingerprint(m)
  /\ ~promote => /\ new.mail.subject = old.mail.subject /\ new.mail.bodyLine = old.mail.bodyLine
                 /\ new.mail.canonicalId = old.mail.canonicalId

\* The manifest of a further version.
LEMMA FurtherManifest ==
  ASSUME NEW old, old.mail \in MailFacets, NEW m \in Mail, NEW scale \in {Minor, Major}, NEW promote,
         NEW order, NEW new, new = VariantManifest(m, old, scale, promote, order)
  PROVE  isFurther(new, old, m, promote) /\ new.parts = VariantParts(m, old, promote, order)
<1> DEFINE max == Larger(old.mail.scale, scale)
           count == old.mail.count + 1
           id == IF promote THEN Fingerprint(m) ELSE old.mail.canonicalId
<1>1. /\ new.mail = IF promote THEN MailFacet(m, TRUE, max, count, id)
                    ELSE [old.mail EXCEPT !.collision = TRUE, !.count = count, !.scale = max]
      /\ new.set = [canonicalId |-> id, count |-> count, scale |-> max]
      /\ new.parts = VariantParts(m, old, promote, order)
      /\ new.prov = {m}
  BY SMT DEF VariantManifest
<1>2. count \in Nat \ {0}
  BY DEF MailFacets
<1>3. max \in {Minor, Major} /\ Larger(old.mail.scale, max) = max
  BY Zenon DEF MailFacets, Larger, Minor, Major
<1>4. id \in {Fingerprint(k) : k \in Mail}
  BY Zenon DEF MailFacets
<1> HIDE DEF max, count
<1>5. new.set \in VersionSets /\ new.set # None
  <2>1. PICK i \in {Fingerprint(k) : k \in Mail} : i = id
    BY Zenon, <1>4
  <2>2. PICK x : x = new.set
    BY Zenon
  <2>3. x = [canonicalId |-> i, count |-> count, scale |-> max]
    BY Zenon, <1>1, <2>1, <2>2
  <2>4. x \in VersionSets /\ x # None
    BY Zenon, <1>2, <1>3, <2>3, SetType
  <2> QED BY Zenon, <2>2, <2>4
<1>6. CASE promote
  <2>1. new.mail = MailFacet(m, TRUE, max, count, id) /\ id = Fingerprint(m)
    BY Zenon, <1>1, <1>6
  <2>2. new.mail \in MailFacets
    BY Zenon, <1>2, <1>3, <1>4, <2>1, FacetType
  <2>3. new.mail = [subject |-> Content[m].head, bodyLine |-> Content[m].body, collision |-> TRUE,
                    scale |-> max, count |-> count, canonicalId |-> id]
    BY Zenon, <2>1 DEF MailFacet
  <2>4. /\ new.mail.subject = Content[m].head /\ new.mail.bodyLine = Content[m].body
        /\ new.mail.scale = max /\ new.mail.count = count /\ new.mail.canonicalId = id
    BY <2>3
  <2> QED BY Zenon, <1>1, <1>3, <1>5, <1>6, <2>1, <2>2, <2>4 DEF isFurther, count
<1>7. CASE ~promote
  <2>1. new.mail = [old.mail EXCEPT !.collision = TRUE, !.count = count, !.scale = max]
        /\ id = old.mail.canonicalId
    BY Zenon, <1>1, <1>7
  <2>2. new.mail \in MailFacets
    BY Zenon, <1>2, <1>3, <2>1 DEF MailFacets
  <2>3. /\ new.mail.subject = old.mail.subject /\ new.mail.bodyLine = old.mail.bodyLine
        /\ new.mail.scale = max /\ new.mail.count = count /\ new.mail.canonicalId = id
    BY Zenon, <2>1 DEF MailFacets
  <2> QED BY Zenon, <1>1, <1>3, <1>5, <1>7, <2>1, <2>2, <2>3 DEF isFurther, count
<1> QED BY Zenon, <1>6, <1>7

\* The slots up to the next count are those up to this one and one more.
LEMMA NextSlot ==
  ASSUME NEW n \in Nat \ {0}
  PROVE  /\ {RecordSlot(k) : k \in 0 .. (n + 1) - 1} = {RecordSlot(k) : k \in 0 .. n - 1} \cup {RecordSlot(n)}
         /\ RecordSlot(n) \notin {RecordSlot(k) : k \in 0 .. n - 1}
<1>1. 0 .. (n + 1) - 1 = (0 .. n - 1) \cup {n}
  OBVIOUS
<1>2. {RecordSlot(k) : k \in 0 .. (n + 1) - 1} = {RecordSlot(k) : k \in 0 .. n - 1} \cup {RecordSlot(n)}
  BY Zenon, <1>1
<1>3. n \notin 0 .. n - 1 /\ 0 .. n - 1 \subseteq Nat /\ n \in Nat
  OBVIOUS
<1>4. RecordSlot(n) \notin {RecordSlot(k) : k \in 0 .. n - 1}
  BY Zenon, <1>3, RecordSlots
<1> QED BY Zenon, <1>2, <1>4

\* The records among the parts P are those of the mails R, in the first n slots.
hasRecords(P, n, R) ==
  /\ recordsOf(P) = {RecordSlot(k) : k \in 0 .. n - 1}
  /\ {P[s] : s \in recordsOf(P)} = R

\* The records after another one is added.
LEMMA RecordAdded ==
  ASSUME NEW O, NEW n \in Nat \ {0}, NEW R, hasRecords(O, n, R),
         NEW m, NEW X, noRecords(X), NEW Q, isMerge(Q, m, n, X, O)
  PROVE  hasRecords(Q, n + 1, R \cup {m})
<1>1. recordsOf(Q) = recordsOf(O) \cup {RecordSlot(n)} /\ RecordSlot(n) \notin recordsOf(O)
  BY Zenon, NextSlot DEF isMerge, hasRecords
<1>2. \A s \in recordsOf(O) : s \in DOMAIN O /\ s \notin DOMAIN X \cup {RecordSlot(n)}
  BY Zenon, <1>1 DEF recordsOf, noRecords
<1>3. \A s \in recordsOf(O) : Q[s] = O[s]
  BY Zenon, <1>2 DEF isMerge
<1>4. Q[RecordSlot(n)] = m
  BY Zenon DEF isMerge
<1>5. {Q[s] : s \in recordsOf(Q)} = R \cup {m}
  <2>1. R = {O[s] : s \in recordsOf(O)}
    BY Zenon DEF hasRecords
  <2>2. {Q[s] : s \in recordsOf(Q)} \subseteq R \cup {m}
    BY Zenon, <1>1, <1>3, <1>4, <2>1
  <2>3. R \subseteq {Q[s] : s \in recordsOf(Q)}
    BY Zenon, <1>1, <1>3, <2>1
  <2>4. m \in {Q[s] : s \in recordsOf(Q)}
    BY Zenon, <1>1, <1>4
  <2> QED BY Zenon, <2>2, <2>3, <2>4
<1>6. recordsOf(Q) = {RecordSlot(k) : k \in 0 .. (n + 1) - 1}
  BY Zenon, <1>1, NextSlot DEF hasRecords
<1> QED BY Zenon, <1>5, <1>6 DEF hasRecords

\* c follows old: it has the records of the mails R, and shows a mail of L.
follows(c, old, R, L, promote, order) ==
  /\ IsManifest(c) /\ HasIdentity(c) /\ Versioned(c, R, L)
  /\ old.prov \subseteq c.prov
  /\ CoherentManifest(old) /\ (promote => order = 1) => CoherentManifest(c)

\* What ingestVariantMessage leaves, over the manifest it read: one record more,
\* and the version set still coherent unless the promoted body went beside the
\* canonical one.
LEMMA FurtherVersion ==
  ASSUME NEW old, IsManifest(old), HasIdentity(old), NEW R, NEW K, Versioned(old, R, K),
         NEW m \in Archive, NEW promote, NEW order, NEW L, K \subseteq L, promote => m \in L, NEW c,
         c = MergeManifest(old, VariantManifest(m, old, VersionScale(old.mail, m), promote, order))
  PROVE  follows(c, old, R \cup {m}, L, promote, order)
<1> DEFINE scale == VersionScale(old.mail, m)
           new == VariantManifest(m, old, scale, promote, order)
           n == old.mail.count
           X == IF promote THEN MessageParts(m, order, 10) ELSE NoParts
           O == old.parts
<1>1. m \in Mail /\ old.mail \in MailFacets /\ scale \in {Minor, Major}
  BY Zenon DEF Mail, IsManifest, VersionScale
<1>2. c = MergeManifest(old, new)
  BY Zenon
<1> HIDE DEF scale
<1>3. isFurther(new, old, m, promote) /\ new.parts = VariantParts(m, old, promote, order)
  BY <1>1, FurtherManifest
<1> HIDE DEF new
<1>4. n \in Nat \ {0} /\ n \in Nat /\ n <= new.mail.count
  <2>1. n \in Nat \ {0} /\ new.mail.count = n + 1
    BY Zenon, <1>1, <1>3 DEF MailFacets, isFurther
  <2> QED BY <2>1
<1>5. new.prov \subseteq Mail \cup {Identity} /\ new.mail \in MailFacets
  BY Zenon, <1>1, <1>3 DEF isFurther
<1>6. isManifestOver(c, new, old)
  BY Zenon, <1>2, <1>4, <1>5, OverManifest
<1>7. noRecords(X)
  <2>1. noRecords(NoParts)
    BY Zenon, PartAlone DEF noRecords
  <2>2. noRecords(MessageParts(m, order, 10))
    BY PartsOfMail DEF noRecords
  <2> QED BY Zenon, <2>1, <2>2
<1>8. c.parts = Onto(Onto(Part(RecordSlot(n), m), X), O)
  BY Zenon, <1>3, <1>6 DEF isManifestOver, VariantParts
<1>9. isMerge(c.parts, m, n, X, O)
  BY Zenon, <1>4, <1>7, <1>8, RecordMerged
<1>10. hasRecords(O, n, R)
  BY Zenon, RecordsAreParts DEF Versioned, hasRecords
<1> HIDE DEF X, O, n
<1>11. hasRecords(c.parts, n + 1, R \cup {m})
  BY Zenon, <1>4, <1>7, <1>9, <1>10, RecordAdded
<1>12. /\ c.mail.subject = new.mail.subject /\ c.mail.bodyLine = new.mail.bodyLine
       /\ c.mail.canonicalId = new.mail.canonicalId
       /\ c.mail.count = n + 1 /\ c.mail.count = new.mail.count /\ c.mail.scale = new.mail.scale
       /\ c.set = new.set /\ c.prov = old.prov \cup {m}
  BY Zenon, <1>3, <1>4, <1>6 DEF isFurther, isManifestOver, isFacetOver, n
<1>13. HasIdentity(c)
  BY Zenon, <1>6, <1>12 DEF HasIdentity, isManifestOver
<1>14. Versioned(c, R \cup {m}, L)
  <2>1. RecordsIn(c) = recordsOf(c.parts)
    BY Zenon, RecordsAreParts
  <2>2. R \cup {m} \subseteq c.prov
    BY Zenon, <1>12 DEF Versioned
  <2>3. \E k \in L : c.mail.bodyLine = Content[k].body
    <3>1. CASE promote
      BY Zenon, <1>3, <1>12, <3>1 DEF isFurther
    <3>2. CASE ~promote
      BY Zenon, <1>3, <1>12, <3>2 DEF isFurther, Versioned
    <3> QED BY Zenon, <3>1, <3>2
  <2> QED BY Zenon, <1>3, <1>11, <1>12, <2>1, <2>2, <2>3 DEF Versioned, isFurther, hasRecords
<1>15. ASSUME CoherentManifest(old), promote => order = 1
       PROVE  CoherentManifest(c)
  <2>1. c.set = [canonicalId |-> c.mail.canonicalId, count |-> c.mail.count, scale |-> c.mail.scale]
    BY Zenon, <1>3, <1>12 DEF isFurther
  <2>2. /\ c.mail.canonicalId = <<c.parts[HeaderSlot], c.parts[BodySlot]>>
        /\ c.mail.bodyLine = c.parts[BodySlot] /\ c.mail.subject = c.parts[HeaderSlot]
    <3>1. CASE promote
      <4>1. X = MessageParts(m, 1, 10)
        BY Zenon, <1>15, <3>1 DEF X
      <4>2. c.parts[HeaderSlot] = Content[m].head /\ c.parts[BodySlot] = Content[m].body
        BY Zenon, <1>9, <4>1, FirstParts DEF isMerge
      <4> QED BY Zenon, <1>3, <1>12, <3>1, <4>2 DEF isFurther, Fingerprint
    <3>2. CASE ~promote
      <4>1. DOMAIN X = {}
        BY Zenon, <3>2, PartAlone DEF X
      <4>2. HeaderSlot # RecordSlot(n) /\ BodySlot # RecordSlot(n) /\ {HeaderSlot, BodySlot} \subseteq DOMAIN O
        BY Zenon, <1>4, RecordSlots DEF IsManifest, O
      <4>3. c.parts[HeaderSlot] = O[HeaderSlot] /\ c.parts[BodySlot] = O[BodySlot]
        BY Zenon, <1>9, <4>1, <4>2 DEF isMerge
      <4> QED BY Zenon, <1>3, <1>12, <1>15, <3>2, <4>3 DEF isFurther, CoherentManifest, O
    <3> QED BY Zenon, <3>1, <3>2
  <2> QED BY Zenon, <2>1, <2>2 DEF CoherentManifest
<1> QED BY Zenon, <1>6, <1>12, <1>13, <1>14, <1>15 DEF isManifestOver, follows

\* The manifest of a Gmail message.
LEMMA GmailsManifest ==
  ASSUME NEW g \in GmailMail, NEW new, new = GmailManifest(g)
  PROVE  /\ IsManifest(new) /\ OnlyGmail(new) /\ ~HasIdentity(new)
         /\ noRecords(new.parts) /\ new.set = None /\ new.prov = {g}
         /\ new.mail.count = 1 /\ new.mail.scale = Minor /\ new.mail.bodyLine = Content[g].body
<1> DEFINE P == MessageParts(g, 1, 3)
<1>1. /\ new = [mail |-> new.mail, set |-> new.set, parts |-> new.parts, prov |-> new.prov]
      /\ new.mail = MailFacet(g, FALSE, Minor, 1, Fingerprint(g))
      /\ new.set = None /\ new.parts = P /\ new.prov = {g}
  BY Zenon DEF GmailManifest
<1>2. {HeaderSlot, BodySlot} \subseteq DOMAIN P /\ noRecords(P)
  BY PartsOfMail DEF noRecords, BodySlot
<1> HIDE DEF P
<1>3. /\ g \in Mail /\ Identity # g /\ Minor \in {Minor, Major} /\ 1 \in Nat \ {0}
      /\ Fingerprint(g) \in {Fingerprint(k) : k \in Mail}
  BY MailAssumption DEF Mail, Minor, Major
<1>4. new.mail \in MailFacets
  <2>1. MailFacet(g, FALSE, Minor, 1, Fingerprint(g)) \in MailFacets
    BY Zenon, <1>3, FacetType
  <2> QED BY Zenon, <1>1, <2>1
<1>5. /\ new.mail.count = 1 /\ new.mail.scale = Minor /\ new.mail.bodyLine = Content[g].body
  <2>1. new.mail = [subject |-> Content[g].head, bodyLine |-> Content[g].body, collision |-> FALSE,
                    scale |-> Minor, count |-> 1, canonicalId |-> Fingerprint(g)]
    BY Zenon, <1>1 DEF MailFacet
  <2> QED BY <2>1
<1>6. IsManifest(new)
  BY Zenon, <1>1, <1>2, <1>3, <1>4 DEF IsManifest
<1>7. recordsOf(new.parts) = {}
  BY Zenon, <1>1, <1>2 DEF recordsOf, noRecords
<1>8. OnlyGmail(new)
  BY Zenon, <1>1, <1>5, <1>7, RecordsAreParts DEF OnlyGmail
<1>9. ~HasIdentity(new)
  BY Zenon, <1>1, <1>3 DEF HasIdentity
<1> QED BY Zenon, <1>1, <1>2, <1>5, <1>6, <1>8, <1>9

\* c is old with the Gmail message g in front.
isHydrated(c, old, g) ==
  /\ IsManifest(c) /\ c.prov = old.prov \cup {g}
  /\ HasIdentity(c) <=> HasIdentity(old)
  /\ OnlyGmail(old) => OnlyGmail(c)
  /\ \A R, K, L : Versioned(old, R, K) /\ g \in L => Versioned(c, R, L)

\* What a hydration leaves over a manifest: the same records and the same count,
\* and the body of the Gmail message in front.
LEMMA GmailOver ==
  ASSUME NEW old, IsManifest(old), NEW g \in GmailMail, NEW c, c = MergeManifest(old, GmailManifest(g))
  PROVE  isHydrated(c, old, g)
<1> DEFINE new == GmailManifest(g)
<1>1. /\ IsManifest(new) /\ noRecords(new.parts) /\ new.set = None /\ new.prov = {g}
      /\ new.mail.count = 1 /\ new.mail.scale = Minor /\ new.mail.bodyLine = Content[g].body
  BY Zenon, GmailsManifest
<1>2. c = MergeManifest(old, new)
  BY Zenon
<1> HIDE DEF new
<1>3. isManifestOver(c, new, old)
  BY Zenon, <1>1, <1>2, OverManifest DEF IsManifest
<1>4. new.mail.count <= old.mail.count
  <2>1. old.mail.count \in Nat \ {0}
    BY Zenon DEF IsManifest, MailFacets
  <2> QED BY <1>1, <2>1
<1>5. c.mail.count = old.mail.count /\ c.mail.scale = Larger(old.mail.scale, new.mail.scale)
  BY Zenon, <1>3, <1>4 DEF isManifestOver, isFacetOver
<1>6. c.prov = old.prov \cup {g} /\ c.set = old.set /\ c.mail.bodyLine = Content[g].body /\ IsManifest(c)
  BY Zenon, <1>1, <1>3 DEF isManifestOver, isFacetOver
<1>7. /\ recordsOf(c.parts) = recordsOf(old.parts)
      /\ \A s \in DOMAIN old.parts \ DOMAIN new.parts : c.parts[s] = old.parts[s]
  <2>1. c.parts = Onto(new.parts, old.parts)
    BY Zenon, <1>3 DEF isManifestOver
  <2>2. isPartsOver(c.parts, new.parts, old.parts)
    BY Zenon, <1>1, <2>1, PartsMerged
  <2> QED BY Zenon, <2>2 DEF isPartsOver
<1>8. \A s \in recordsOf(old.parts) : c.parts[s] = old.parts[s]
  BY Zenon, <1>1, <1>7 DEF recordsOf, noRecords
<1>9. RecordsIn(c) = RecordsIn(old) /\ \A s \in RecordsIn(old) : c.parts[s] = old.parts[s]
  BY Zenon, <1>7, <1>8, RecordsAreParts
<1>10. HasIdentity(c) <=> HasIdentity(old)
  BY Zenon, <1>3, <1>6, ManifestThere, MailAssumption DEF HasIdentity, Mail, isManifestOver
<1>11. OnlyGmail(old) => OnlyGmail(c)
  <2>1. Larger(Minor, Minor) = Minor
    BY Zenon DEF Larger
  <2> QED BY Zenon, <1>1, <1>5, <1>6, <1>9, <2>1 DEF OnlyGmail
<1>12. ASSUME NEW R, NEW K, NEW L, Versioned(old, R, K), g \in L PROVE Versioned(c, R, L)
  <2>1. {c.parts[s] : s \in RecordsIn(c)} = R
    BY <1>9, <1>12 DEF Versioned
  <2> QED BY Zenon, <1>5, <1>6, <1>9, <1>12, <2>1 DEF Versioned
<1> QED BY Zenon, <1>6, <1>10, <1>11, <1>12 DEF isHydrated

\* c is old with the source m.
isAttached(c, old, m) ==
  /\ IsManifest(c) /\ c.prov = old.prov \cup {m}
  /\ HasIdentity(old) => HasIdentity(c)
  /\ CoherentManifest(old) => CoherentManifest(c)
  /\ \A R, K, L : Versioned(old, R, K) /\ K \subseteq L => Versioned(c, R, L)

\* AttachProvenance adds to the provenance and leaves the rest.
LEMMA Attached ==
  ASSUME NEW old, IsManifest(old), NEW m \in Mail, NEW c, c = [old EXCEPT !.prov = @ \cup {m}]
  PROVE  isAttached(c, old, m)
<1>1. old = [mail |-> old.mail, set |-> old.set, parts |-> old.parts, prov |-> old.prov]
  BY Zenon DEF IsManifest
<1>2. c = [mail |-> old.mail, set |-> old.set, parts |-> old.parts, prov |-> old.prov \cup {m}]
  BY Zenon, <1>1
<1>3. /\ c = [mail |-> c.mail, set |-> c.set, parts |-> c.parts, prov |-> c.prov]
      /\ c.prov = old.prov \cup {m} /\ c.mail = old.mail /\ c.set = old.set /\ c.parts = old.parts
  BY Zenon, <1>2
<1>4. IsManifest(c)
  BY Zenon, <1>3 DEF IsManifest
<1>5. HasIdentity(old) => HasIdentity(c)
  BY Zenon, <1>3, <1>4, ManifestThere DEF HasIdentity
<1>6. RecordsIn(c) = RecordsIn(old)
  BY Zenon, <1>3 DEF RecordsIn
<1>7. ASSUME NEW R, NEW K, NEW L, Versioned(old, R, K), K \subseteq L PROVE Versioned(c, R, L)
  <2>1. {c.parts[s] : s \in RecordsIn(c)} = R
    <3>1. {c.parts[s] : s \in RecordsIn(c)} = {old.parts[s] : s \in RecordsIn(old)}
      BY <1>3, <1>6
    <3> QED BY Zenon, <1>7, <3>1 DEF Versioned
  <2>2. \E k \in L : c.mail.bodyLine = Content[k].body
    BY Zenon, <1>3, <1>7 DEF Versioned
  <2> QED BY Zenon, <1>3, <1>6, <1>7, <2>1, <2>2 DEF Versioned
<1>8. CoherentManifest(old) => CoherentManifest(c)
  BY Zenon, <1>3 DEF CoherentManifest
<1> QED BY Zenon, <1>3, <1>4, <1>5, <1>7, <1>8 DEF isAttached

-----------------------------------------------------------------------------
(* The version set: its steps *)

\* Everybody but w stays where it is.
OthersStay(w) == \A v \in Workers \ {w} : worker'[v] = worker[v]

\* w goes on to pc with the same mail and the same reading.
Moves(w, pc) ==
  /\ OthersStay(w)
  /\ worker'[w].pc = pc /\ worker'[w].msg = worker[w].msg
  /\ worker'[w].seen = worker[w].seen /\ worker'[w].promote = worker[w].promote

\* Goes on to pc with the same mail.
Leaves(w, pc) == OthersStay(w) /\ worker'[w].pc = pc /\ worker'[w].msg = worker[w].msg

Stops(w) == OthersStay(w) /\ worker'[w].pc = "idle" /\ worker'[w].msg = None

\* What the operators that move a worker do.
LEMMA WorkerMoves ==
  ASSUME Shape, NEW w \in Workers, NEW pc
  PROVE  /\ Go(w, pc) => Moves(w, pc)
         /\ Forget(w, pc) => Leaves(w, pc)
         /\ worker' = [worker EXCEPT ![w] = Idle] => Stops(w)
<1>0. IsJob(worker[w])
  BY Zenon DEF Shape
<1>1. ASSUME Go(w, pc) PROVE Moves(w, pc)
  BY <1>0, <1>1 DEF Go, Moves, OthersStay, Shape, IsJob
<1>2. ASSUME Forget(w, pc) PROVE Leaves(w, pc)
  BY Zenon, <1>0, <1>2 DEF Forget, Leaves, OthersStay, Shape, IsJob, Idle, Msg
<1>3. ASSUME worker' = [worker EXCEPT ![w] = Idle] PROVE Stops(w)
  BY <1>3 DEF Stops, OthersStay, Shape, Idle
<1> QED BY Zenon, <1>1, <1>2, <1>3

\* A worker that goes on with a manifest or an order it has read.
LEMMA ReadMoves ==
  ASSUME Shape, NEW w \in Workers, NEW pc, NEW x,
         \/ worker' = [worker EXCEPT ![w].pc = pc, ![w].base = x]
         \/ worker' = [worker EXCEPT ![w].pc = pc, ![w].order = x]
  PROVE  Moves(w, pc)
<1>0. IsJob(worker[w])
  BY Zenon DEF Shape
<1>1. CASE worker' = [worker EXCEPT ![w].pc = pc, ![w].base = x]
  BY Zenon, <1>0, <1>1 DEF Moves, OthersStay, Shape, IsJob
<1>2. CASE worker' = [worker EXCEPT ![w].pc = pc, ![w].order = x]
  BY <1>0, <1>2 DEF Moves, OthersStay, Shape, IsJob
<1> QED BY Zenon, <1>1, <1>2

\* A worker that has decided on a promotion.
LEMMA PromoteMoves ==
  ASSUME Shape, NEW w \in Workers, NEW pc, NEW x,
         worker' = [worker EXCEPT ![w].pc = pc, ![w].promote = x]
  PROVE  Leaves(w, pc) /\ worker'[w].seen = worker[w].seen
<1>0. IsJob(worker[w])
  BY Zenon DEF Shape
<1> QED BY Zenon, <1>0 DEF Leaves, OthersStay, Shape, IsJob

\* A worker that goes on with the manifest of its lookup.
LEMMA SeenMoves ==
  ASSUME Shape, NEW w \in Workers, NEW pc, NEW x,
         worker' = [worker EXCEPT ![w].seen = x, ![w].pc = pc]
  PROVE  Leaves(w, pc) /\ worker'[w].seen = x
<1>0. IsJob(worker[w])
  BY Zenon DEF Shape
<1> QED BY Zenon, <1>0 DEF Leaves, OthersStay, Shape, IsJob

\* Nothing FILESTORE has is taken back: what the facts say of a manifest, a
\* record or an object that is there.
Kept ==
  /\ HasIdentity(canon) => HasIdentity(canon)'
  /\ \A m : Known(m) => Known(m)'
  /\ \A m \in Archive : stored[m] \subseteq stored'[m]
  /\ \A m \in Archive : record[m] # None => record'[m] = record[m]

\* The facts on a worker that stays where it is stay true.
LEMMA JobStays ==
  ASSUME Kept, NEW v \in Workers, JobOK(v), worker'[v] = worker[v]
  PROVE  JobOK(v)'
<1>1. At(v, "idle")' = At(v, "idle") /\ Msg(v)' = Msg(v)
  BY Zenon DEF At, Msg
<1>2. ~At(v, "idle") => Msg(v) \in Archive
  BY Zenon DEF JobOK
<1>3. worker[v].pc \in {"membership", "attach", "attached"} => HasIdentity(canon)'
  BY Zenon DEF JobOK, Kept
<1>4. At(v, "variant") => Known(Msg(v))'
  BY Zenon, <1>1 DEF JobOK, Kept, Known
<1>5. At(v, "finish") => Known(Msg(v))' \/ "membership" \in stored'[Msg(v)]
  BY <1>1, <1>2 DEF JobOK, Kept, Known, At
<1>6. worker[v].pc \in {"put", "commit"} => record'[Msg(v)] # None
  BY Zenon, <1>2 DEF JobOK, Kept, At
<1>7. worker[v].pc \in Reading /\ HasIdentity(worker[v].seen) => HasIdentity(canon)'
  BY Zenon DEF JobOK, Kept
<1> QED BY Zenon, <1>1, <1>3, <1>4, <1>5, <1>6, <1>7 DEF JobOK, At, Msg, HasIdentity

\* The facts on FILESTORE stay true in a step that writes no manifest.
LEMMA ManifestStays ==
  ASSUME ManifestOK, UNCHANGED <<canon, recorded, crowned, gmailWrote, orderLost>>
  PROVE  ManifestOK'
<1>1. Shown' = Shown
  BY Zenon DEF Shown, Known
<1> QED BY Zenon, <1>1 DEF ManifestOK, HasIdentity

\* A step of one worker that writes no manifest and no record.
LEMMA VersionsQuiet ==
  ASSUME VersionFacts, NEW w \in Workers, OthersStay(w), JobOK(w)',
         UNCHANGED <<canon, record, recorded, crowned, gmailWrote, orderLost>>,
         stored' = [m \in Archive |-> stored'[m]], \A m \in Archive : stored[m] \subseteq stored'[m],
         done' \subseteq done \/ (At(w, "finish") /\ done' \subseteq done \cup {Msg(w)})
  PROVE  VersionFacts' /\ Kept
<1>1. Kept
  BY Zenon DEF Kept, HasIdentity, Known
<1>2. ManifestOK'
  BY Zenon, ManifestStays DEF VersionFacts
<1>3. RecordTypes'
  BY Zenon DEF VersionFacts, RecordTypes, HasIdentity
<1>4. LandedOK'
  <2>1. JobOK(w) /\ LandedOK
    BY Zenon DEF VersionFacts
  <2>2. done' \subseteq Archive
    BY Zenon, <2>1 DEF LandedOK, JobOK, At
  <2>3. \A m \in done' : Known(m) \/ "membership" \in stored[m]
    BY Zenon, <2>1 DEF LandedOK, JobOK, At
  <2> QED BY Zenon, <1>1, <2>2, <2>3 DEF LandedOK, Kept
<1>5. \A v \in Workers : JobOK(v)'
  BY Zenon, <1>1, JobStays DEF VersionFacts, OthersStay
<1> QED BY Zenon, <1>1, <1>2, <1>3, <1>4, <1>5 DEF VersionFacts

\* A worker in a place that asks nothing of it but a mail.
LEMMA JobPlain ==
  ASSUME NEW w \in Workers, worker'[w].pc \in {"lock", "lookup"}, Msg(w)' \in Archive
  PROVE  JobOK(w)'
  BY Zenon DEF JobOK, At, Reading

\* An idle worker.
LEMMA JobIdle ==
  ASSUME NEW w \in Workers, Stops(w)
  PROVE  JobOK(w)'
  BY Zenon DEF JobOK, At, Reading, Stops, Msg

\* A worker that reads.
LEMMA JobReads ==
  ASSUME NEW w \in Workers, worker'[w].pc \in Reading, Msg(w)' \in Archive,
         worker'[w].pc \in {"put", "commit"} => record'[Msg(w)'] # None,
         HasIdentity(worker'[w].seen) => HasIdentity(canon')
  PROVE  JobOK(w)'
  BY Zenon DEF JobOK, At, Reading, Msg

\* A worker with a duplicate.
LEMMA JobDuplicate ==
  ASSUME NEW w \in Workers, worker'[w].pc \in {"membership", "attach", "attached"},
         Msg(w)' \in Archive, HasIdentity(canon')
  PROVE  JobOK(w)'
  BY Zenon DEF JobOK, At, Reading

\* A worker whose mail has landed.
LEMMA JobLanded ==
  ASSUME NEW w \in Workers, worker'[w].pc \in {"variant", "finish"}, Msg(w)' \in Archive,
         Known(Msg(w))' \/ (worker'[w].pc = "finish" /\ "membership" \in stored'[Msg(w)'])
  PROVE  JobOK(w)'
  BY Zenon DEF JobOK, At, Reading

\* The steps of a worker that write no manifest.
quietStep(w) ==
  \/ \E m \in Archive : Begin(w, m)
  \/ LockMessageID(w) \/ Lookup(w) \/ CanonicalBodyOrder(w) \/ ShouldPromote(w)
  \/ PutCompound(w) \/ IngestInProgress(w) \/ WriteVariant(w) \/ WriteMembership(w)
  \/ AttachProvenance(w) \/ Finish(w) \/ Fail(w)

\* They keep the facts.
LEMMA VersionsQuietSteps ==
  ASSUME Shape, VersionFacts, NEW w \in Workers, quietStep(w)
  PROVE  VersionFacts' /\ Kept
<1> USE DEF Shared, Bounds, store, history
<1>0. JobOK(w) /\ stored = [m \in Archive |-> stored[m]]
  BY Zenon DEF VersionFacts, RecordTypes
<1>1. ASSUME stored' = stored, JobOK(w)', OthersStay(w), done' \subseteq done,
             UNCHANGED <<canon, record, recorded, crowned, gmailWrote, orderLost>>
      PROVE  VersionFacts' /\ Kept
  <2>1. stored' = [m \in Archive |-> stored'[m]] /\ \A m \in Archive : stored[m] \subseteq stored'[m]
    BY Zenon, <1>0, <1>1
  <2> QED BY Zenon, <1>1, <2>1, VersionsQuiet
<1>2. ASSUME NEW m \in Archive, Begin(w, m) PROVE VersionFacts' /\ Kept
  <2>1. worker'[w].pc = "lock" /\ worker'[w].msg = m /\ OthersStay(w)
    BY Zenon, <1>2 DEF Begin, Shape, Idle, OthersStay
  <2>2. JobOK(w)'
    BY <2>1, JobPlain DEF Msg
  <2> QED BY Zenon, <1>1, <1>2, <2>1, <2>2 DEF Begin
<1>3. CASE LockMessageID(w)
  <2>1. At(w, "lock") /\ Moves(w, "lookup")
    BY Zenon, <1>3, WorkerMoves DEF LockMessageID
  <2>2. JobOK(w)'
    BY <1>0, <2>1, JobPlain DEF Msg, JobOK, At, Moves
  <2> QED BY Zenon, <1>1, <1>3, <2>1, <2>2 DEF LockMessageID, Moves
<1>4. CASE Lookup(w)
  <2>0. At(w, "lookup") /\ Msg(w) \in Archive
    BY Zenon, <1>0, <1>4 DEF Lookup, JobOK, At
  <2>1. CASE HasIdentity(canon) /\ canon.mail.bodyLine = Content[Msg(w)].body
    <3>1. \E pc \in {"membership", "attach"} : Moves(w, pc)
      BY Zenon, <1>4, <2>1, WorkerMoves DEF Lookup
    <3>2. HasIdentity(canon')
      BY Zenon, <1>4, <2>1 DEF Lookup
    <3>3. JobOK(w)'
      BY Zenon, <2>0, <3>1, <3>2, JobDuplicate DEF Moves, Msg
    <3> QED BY Zenon, <1>1, <1>4, <3>1, <3>3 DEF Lookup, Moves
  <2>2. CASE ~(HasIdentity(canon) /\ canon.mail.bodyLine = Content[Msg(w)].body)
    <3>1. \E pc \in {"order", "record"} : Leaves(w, pc) /\ worker'[w].seen = canon
      <4>1. PICK pc \in {"order", "record"} : worker' = [worker EXCEPT ![w].seen = canon, ![w].pc = pc]
        BY Zenon, <1>4, <2>2 DEF Lookup
      <4> QED BY Zenon, <4>1, SeenMoves
    <3>2. worker'[w].pc \in Reading /\ worker'[w].pc \notin {"put", "commit"}
      BY Zenon, <3>1 DEF Leaves, Reading
    <3>3. JobOK(w)'
      BY Zenon, <1>4, <2>0, <3>1, <3>2, JobReads DEF Lookup, Leaves, Msg
    <3> QED BY Zenon, <1>1, <1>4, <3>1, <3>3 DEF Lookup, Leaves
  <2> QED BY Zenon, <2>1, <2>2
<1>5. CASE CanonicalBodyOrder(w) \/ ShouldPromote(w)
  <2>1. worker[w].pc \in {"order", "promote"} /\ Msg(w) \in Archive
    BY <1>0, <1>5 DEF CanonicalBodyOrder, ShouldPromote, JobOK, At
  <2>2. \E pc \in {"promote", "record"} : Leaves(w, pc) /\ worker'[w].seen = worker[w].seen
    <3>1. CASE CanonicalBodyOrder(w)
      <4>1. PICK x : worker' = [worker EXCEPT ![w].pc = "promote", ![w].order = x]
        BY ZenonT(30), <3>1 DEF CanonicalBodyOrder
      <4> QED BY Zenon, <4>1, ReadMoves DEF Moves, Leaves
    <3>2. CASE ShouldPromote(w)
      <4>1. PICK x : worker' = [worker EXCEPT ![w].pc = "record", ![w].promote = x]
        BY Zenon, <3>2 DEF ShouldPromote
      <4> QED BY Zenon, <4>1, PromoteMoves
    <3> QED BY Zenon, <1>5, <3>1, <3>2
  <2>3. worker'[w].pc \in Reading /\ worker'[w].pc \notin {"put", "commit"} /\ worker[w].pc \in Reading
    BY <2>1, <2>2 DEF Leaves, Reading
  <2>4. UNCHANGED <<store, done, recorded, crowned, gmailWrote, orderLost>>
    BY Zenon, <1>5 DEF CanonicalBodyOrder, ShouldPromote
  <2>5. JobOK(w)'
    BY Zenon, <1>0, <2>1, <2>2, <2>3, <2>4, JobReads DEF JobOK, Leaves, Msg
  <2> QED BY Zenon, <1>1, <2>2, <2>4, <2>5 DEF Leaves
<1>6. CASE PutCompound(w)
  <2>0. At(w, "put") /\ Msg(w) \in Archive /\ record[Msg(w)] # None
    BY <1>0, <1>6 DEF PutCompound, JobOK, At
  <2>1. CASE Known(Msg(w))
    <3>1. \E pc \in {"variant", "finish"} : Leaves(w, pc)
      BY Zenon, <1>6, <2>1, WorkerMoves DEF PutCompound, AfterPut
    <3>2. Known(Msg(w))'
      BY Zenon, <1>6, <2>1, <3>1 DEF PutCompound, Leaves, Known, Msg
    <3>3. JobOK(w)'
      BY <2>0, <3>1, <3>2, JobLanded DEF Leaves, Msg
    <3> QED BY Zenon, <1>1, <1>6, <3>1, <3>3 DEF PutCompound, Leaves
  <2>2. CASE ~Known(Msg(w))
    <3>1. Moves(w, "commit")
      BY Zenon, <1>6, <2>2, ReadMoves DEF PutCompound
    <3>2. worker'[w].pc \in Reading /\ worker[w].pc \in Reading
      BY Zenon, <2>0, <3>1 DEF Moves, Reading, At
    <3>3. JobOK(w)'
      BY Zenon, <1>0, <1>6, <2>0, <3>1, <3>2, JobReads DEF JobOK, PutCompound, Moves, Msg
    <3> QED BY Zenon, <1>1, <1>6, <3>1, <3>3 DEF PutCompound, Moves
  <2> QED BY Zenon, <2>1, <2>2
<1>7. CASE IngestInProgress(w) \/ Fail(w)
  <2>1. Stops(w) /\ UNCHANGED <<store, recorded, crowned, gmailWrote, orderLost>> /\ done' \subseteq done
    BY Zenon, <1>7, WorkerMoves DEF IngestInProgress, Fail
  <2> QED BY Zenon, <1>1, <2>1, JobIdle DEF Stops
<1>8. CASE WriteVariant(w) \/ WriteMembership(w)
  <2>1. worker[w].pc \in {"variant", "membership"} /\ Msg(w) \in Archive /\ Moves(w, "finish")
    <3>1. worker[w].pc \in {"variant", "membership"} /\ Moves(w, "finish")
      BY Zenon, <1>8, WorkerMoves DEF WriteVariant, WriteMembership, At
    <3> QED BY <1>0, <3>1 DEF JobOK, At
  <2>2. \E x \in {"variant", "membership"} : /\ stored' = [stored EXCEPT ![Msg(w)] = @ \cup {x}]
                                             /\ At(w, x)
    BY Zenon, <1>8 DEF WriteVariant, WriteMembership
  <2>3. stored' = [m \in Archive |-> stored'[m]] /\ \A m \in Archive : stored[m] \subseteq stored'[m]
    BY Zenon, <1>0, <2>2
  <2>4. Known(Msg(w)) \/ "membership" \in stored'[Msg(w)]
    BY <1>0, <2>1, <2>2 DEF JobOK, At
  <2>5. JobOK(w)'
    <3>1. Msg(w)' = Msg(w) /\ worker'[w].pc = "finish" /\ canon' = canon
      BY Zenon, <1>8, <2>1 DEF Moves, Msg, WriteVariant, WriteMembership
    <3> QED BY <2>1, <2>4, <3>1, JobLanded DEF Known
  <2>6. UNCHANGED <<canon, record, recorded, crowned, gmailWrote, orderLost, done>>
    BY Zenon, <1>8 DEF WriteVariant, WriteMembership
  <2> QED BY Zenon, <2>1, <2>3, <2>5, <2>6, VersionsQuiet DEF Moves
<1>9. CASE AttachProvenance(w)
  <2>0. At(w, "attach") /\ Msg(w) \in Archive /\ HasIdentity(canon) /\ canon' = canon
    BY Zenon, <1>0, <1>9 DEF AttachProvenance, JobOK, At
  <2>1. CASE Known(Msg(w))
    <3>1. Moves(w, "finish")
      BY Zenon, <1>9, <2>1, WorkerMoves DEF AttachProvenance
    <3>2. JobOK(w)'
      BY <2>0, <2>1, <3>1, JobLanded DEF Moves, Msg, Known
    <3> QED BY Zenon, <1>1, <1>9, <3>1, <3>2 DEF AttachProvenance, Moves
  <2>2. CASE ~Known(Msg(w))
    <3>1. Moves(w, "attached")
      BY Zenon, <1>9, <2>2, ReadMoves DEF AttachProvenance
    <3>2. JobOK(w)'
      BY Zenon, <2>0, <3>1, JobDuplicate DEF Moves, Msg
    <3> QED BY Zenon, <1>1, <1>9, <3>1, <3>2 DEF AttachProvenance, Moves
  <2> QED BY Zenon, <2>1, <2>2
<1>10. CASE Finish(w)
  <2>1. At(w, "finish") /\ Stops(w) /\ done' = done \cup {Msg(w)} /\ stored' = stored
        /\ UNCHANGED <<canon, record, recorded, crowned, gmailWrote, orderLost>>
    BY Zenon, <1>10, WorkerMoves DEF Finish
  <2>2. stored' = [m \in Archive |-> stored'[m]] /\ \A m \in Archive : stored[m] \subseteq stored'[m]
    BY Zenon, <1>0, <2>1
  <2> QED BY Zenon, <2>1, <2>2, VersionsQuiet, JobIdle DEF Stops
<1> QED BY Zenon, <1>2, <1>3, <1>4, <1>5, <1>6, <1>7, <1>8, <1>9, <1>10 DEF quietStep

\* A version record that is there stays, and a new one says what its writer has
\* seen.
LEMMA RecordWritten ==
  ASSUME Shape, VersionFacts, NEW w \in Workers, WriteVersionRecord(w)
  PROVE  /\ VersionFacts' /\ Kept
         /\ At(w, "record") /\ Msg(w) \in Archive /\ Moves(w, "put")
         /\ \A m \in Archive : m # Msg(w) => record'[m] = record[m]
         /\ record[Msg(w)] = None =>
              /\ record'[Msg(w)].full <=> ~HasIdentity(worker[w].seen)
              /\ record'[Msg(w)].canonical <=> ~HasIdentity(worker[w].seen) \/ worker[w].promote
         /\ UNCHANGED <<canon, cut, done, recorded, crowned, gmailWrote, orderLost, gmail>>
<1> DEFINE m == Msg(w)
           full == ~HasIdentity(worker[w].seen)
           new == [full |-> full, canonical |-> full \/ worker[w].promote]
<1>0. JobOK(w) /\ RecordTypes /\ ManifestOK
  BY Zenon DEF VersionFacts
<1>1. At(w, "record") /\ m \in Archive /\ Moves(w, "put")
  <2>1. At(w, "record") /\ Moves(w, "put")
    BY Zenon, WorkerMoves DEF WriteVersionRecord
  <2> QED BY Zenon, <1>0, <2>1 DEF JobOK, At
<1>2. UNCHANGED <<canon, cut, done, recorded, crowned, gmailWrote, orderLost, gmail>>
  BY Zenon DEF WriteVersionRecord, Shared, history
<1>3. stored' = [stored EXCEPT ![m] = @ \cup {"parts"} \cup (IF full THEN {} ELSE {"patches"})]
  BY Zenon DEF WriteVersionRecord
<1>4. record' = [record EXCEPT ![m] = IF @ # None THEN @ ELSE new]
  BY Zenon DEF WriteVersionRecord
<1>5. new \in VersionRecords /\ new # None
  <2>1. full \in BOOLEAN /\ (full \/ worker[w].promote) \in BOOLEAN
    BY Zenon
  <2>2. new \in VersionRecords
    BY Zenon, <2>1 DEF VersionRecords
  <2> QED BY Zenon, <2>2, MailAssumption
<1>6. (new.full <=> full) /\ (new.canonical <=> full \/ worker[w].promote)
  BY Zenon
<1> HIDE DEF new, full
<1>7. stored' = [k \in Archive |-> stored'[k]] /\ \A k \in Archive : stored[k] \subseteq stored'[k]
  BY Zenon, <1>0, <1>3 DEF RecordTypes
<1>8. /\ \A k \in Archive : k # m => record'[k] = record[k]
      /\ record[m] # None => record'[m] = record[m]
      /\ record[m] = None => record'[m] = new
      /\ record' \in [Archive -> VersionRecords \cup {None}]
  <2>1. /\ \A k \in Archive : k # m => record'[k] = record[k]
        /\ record'[m] = IF record[m] # None THEN record[m] ELSE new
    BY Zenon, <1>0, <1>1, <1>4 DEF RecordTypes
  <2>2. record' \in [Archive -> VersionRecords \cup {None}]
    BY Zenon, <1>0, <1>1, <1>4, <1>5 DEF RecordTypes
  <2> QED BY Zenon, <2>1, <2>2
<1>9. Kept
  BY Zenon, <1>2, <1>7, <1>8 DEF Kept, HasIdentity, Known
<1>10. worker[w].pc \in Reading /\ worker'[w].pc \in Reading /\ Msg(w)' = m /\ worker'[w].seen = worker[w].seen
  BY Zenon, <1>1 DEF Reading, At, Moves, Msg
<1>11. HasIdentity(worker[w].seen) => HasIdentity(canon)
  BY Zenon, <1>0, <1>10 DEF JobOK
<1>12. RecordTypes'
  <2>1. \A k \in recorded : record'[k] # None
    BY Zenon, <1>0, <1>8 DEF RecordTypes, ManifestOK
  <2>2. \A k \in Archive : record'[k] # None /\ ~record'[k].full => HasIdentity(canon)
    <3> SUFFICES ASSUME NEW k \in Archive, record'[k] # None, ~record'[k].full PROVE HasIdentity(canon)
      BY Zenon
    <3>1. CASE record'[k] = record[k]
      BY Zenon, <1>0, <3>1 DEF RecordTypes
    <3>2. CASE k = m /\ record[m] = None
      BY Zenon, <1>6, <1>8, <1>11, <3>2 DEF full
    <3> QED BY Zenon, <1>8, <3>1, <3>2
  <2> QED BY Zenon, <1>2, <1>7, <1>8, <2>1, <2>2 DEF RecordTypes, HasIdentity
<1>13. JobOK(w)'
  <2>1. record'[m] # None
    BY Zenon, <1>5, <1>8
  <2> QED BY Zenon, <1>1, <1>2, <1>10, <1>11, <2>1, JobReads
<1>14. ManifestOK' /\ LandedOK'
  BY Zenon, <1>2, <1>9, ManifestStays DEF VersionFacts, LandedOK, Kept
<1>15. \A v \in Workers : JobOK(v)'
  BY Zenon, <1>1, <1>9, <1>13, JobStays DEF VersionFacts, Moves, OthersStay
<1>16. VersionFacts'
  BY Zenon, <1>12, <1>14, <1>15 DEF VersionFacts
<1> QED BY Zenon, <1>1, <1>2, <1>6, <1>8, <1>9, <1>16 DEF full

\* A step that adds to the provenance of the manifest and leaves the records and
\* the objects keeps the facts on them.
LEMMA ManifestWritten ==
  ASSUME VersionFacts, ManifestOK', UNCHANGED <<record, stored, done>>,
         recorded' \subseteq Archive, \A m \in recorded' : record[m] # None,
         HasIdentity(canon) => HasIdentity(canon)', \A m : Known(m) => Known(m)',
         \A v \in Workers : JobOK(v)' \/ worker'[v] = worker[v]
  PROVE  VersionFacts' /\ Kept
<1>1. Kept
  BY Zenon DEF Kept
<1>2. RecordTypes'
  BY Zenon DEF VersionFacts, RecordTypes
<1>3. LandedOK'
  BY Zenon DEF VersionFacts, LandedOK
<1>4. \A v \in Workers : JobOK(v)'
  BY Zenon, <1>1, JobStays DEF VersionFacts
<1> QED BY Zenon, <1>1, <1>2, <1>3, <1>4 DEF VersionFacts

\* The commit of a first version.
LEMMA FirstCommitted ==
  ASSUME VersionFacts, NEW w \in Workers, CommitCompound(w), ~overlapped', ~HasIdentity(canon),
         Msg(w) \in Archive
  PROVE  /\ ManifestOK' /\ HasIdentity(canon)' /\ Msg(w) \in canon'.prov /\ \A m : Known(m) => Known(m)'
         /\ recorded = {} /\ recorded' = {Msg(w)} /\ crowned' = {Msg(w)} /\ worker[w].seen = canon
<1> DEFINE m == Msg(w)
<1>0. worker[w].base = canon /\ worker[w].seen = canon
  BY Zenon DEF CommitCompound
<1>1. ManifestOK
  BY Zenon DEF VersionFacts
<1>2. recorded = {} /\ crowned = {} /\ (canon = NoManifest \/ (IsManifest(canon) /\ OnlyGmail(canon)))
  BY Zenon, <1>1 DEF ManifestOK
<1>3. canon' = MergeManifest(canon, CanonicalManifest(m))
  BY Zenon, <1>0 DEF CommitCompound, Incoming
<1>4. recorded' = {m} /\ crowned' = {m} /\ gmailWrote' = gmailWrote
  BY Zenon, <1>0, <1>2 DEF CommitCompound
<1>5. m \in Shown'
  BY Zenon, <1>4 DEF Shown
<1>6. /\ IsManifest(canon') /\ HasIdentity(canon') /\ Versioned(canon', {m}, Shown') /\ CoherentManifest(canon')
      /\ canon # NoManifest => canon.prov \subseteq canon'.prov
  BY Zenon, <1>2, <1>3, <1>5, FirstVersion
<1>7. canon' # NoManifest /\ m \in canon'.prov
  BY Zenon, <1>6, ManifestThere DEF Versioned
<1>8. \A k : Known(k) => Known(k)'
  BY Zenon, <1>6, <1>7 DEF Known
<1>9. ManifestOK'
  <2>1. HasIdentity(canon)' /\ Versioned(canon, recorded, Shown)' /\ CoherentManifest(canon)' /\ IsManifest(canon)'
    BY Zenon, <1>4, <1>6 DEF Versioned, CoherentManifest, IsManifest, HasIdentity, RecordsIn
  <2> QED BY Zenon, <1>4, <2>1 DEF ManifestOK
<1> QED BY Zenon, <1>0, <1>2, <1>4, <1>6, <1>7, <1>8, <1>9 DEF HasIdentity

\* The commit of a further version.
LEMMA FurtherCommitted ==
  ASSUME VersionFacts, NEW w \in Workers, CommitCompound(w), ~overlapped', HasIdentity(canon),
         Msg(w) \in Archive
  PROVE  /\ ManifestOK' /\ HasIdentity(canon)' /\ Msg(w) \in canon'.prov /\ \A m : Known(m) => Known(m)'
         /\ recorded' = recorded \cup {Msg(w)} /\ worker[w].seen = canon
         /\ crowned' = IF worker[w].promote THEN crowned \cup {Msg(w)} ELSE crowned
<1> DEFINE m == Msg(w)
           promote == worker[w].promote
<1>0. worker[w].base = canon /\ worker[w].seen = canon
  BY Zenon DEF CommitCompound
<1>1. /\ IsManifest(canon) /\ recorded \subseteq Archive /\ crowned \subseteq recorded
      /\ Versioned(canon, recorded, Shown)
      /\ "over" \notin gmailWrote /\ ~orderLost => CoherentManifest(canon)
  BY Zenon DEF VersionFacts, ManifestOK, HasIdentity
<1>2. canon' = MergeManifest(canon, VariantManifest(m, canon, VersionScale(canon.mail, m), promote, worker[w].order))
  BY Zenon, <1>0 DEF CommitCompound, Incoming
<1>3. /\ recorded' = recorded \cup {m} /\ gmailWrote' = gmailWrote
      /\ crowned' = IF promote THEN crowned \cup {m} ELSE crowned
      /\ orderLost' = (orderLost \/ (promote /\ worker[w].order # 1))
  BY Zenon, <1>0 DEF CommitCompound
<1>4. \A L : crowned \subseteq L /\ {g \in GmailMail : Known(g)} \subseteq L /\ (promote => m \in L) =>
        follows(canon', canon, recorded \cup {m}, L, promote, worker[w].order)
  <2> TAKE L
  <2> HAVE crowned \subseteq L /\ {g \in GmailMail : Known(g)} \subseteq L /\ (promote => m \in L)
  <2>1. Shown \subseteq L
    BY Zenon DEF Shown
  <2> QED BY Zenon, <1>1, <1>2, <2>1, FurtherVersion
<1>5. canon.prov \subseteq canon'.prov /\ IsManifest(canon')
  <2>1. promote => m \in crowned \cup {g \in GmailMail : Known(g)} \cup {m}
    BY Zenon
  <2> QED BY Zenon, <1>4, <2>1 DEF follows
<1>6. \A k : Known(k) => Known(k)'
  BY Zenon, <1>5, ManifestThere DEF Known
<1>7. crowned \subseteq Shown' /\ {g \in GmailMail : Known(g)} \subseteq Shown' /\ (promote => m \in Shown')
  BY Zenon, <1>3, <1>6 DEF Shown
<1>8. /\ HasIdentity(canon') /\ Versioned(canon', recorded \cup {m}, Shown')
      /\ CoherentManifest(canon) /\ (promote => worker[w].order = 1) => CoherentManifest(canon')
  BY Zenon, <1>4, <1>7 DEF follows
<1>9. m \in canon'.prov
  BY Zenon, <1>8 DEF Versioned
<1>10. "over" \notin gmailWrote' /\ ~orderLost' => CoherentManifest(canon')
  BY Zenon, <1>1, <1>3, <1>8
<1>11. ManifestOK'
  <2>1. HasIdentity(canon)' /\ Versioned(canon, recorded, Shown)' /\ IsManifest(canon)'
    BY Zenon, <1>3, <1>5, <1>8 DEF Versioned, IsManifest, HasIdentity, RecordsIn
  <2>2. ("over" \notin gmailWrote /\ ~orderLost)' => CoherentManifest(canon)'
    BY Zenon, <1>10 DEF CoherentManifest
  <2>3. recorded' \subseteq Archive /\ crowned' \subseteq recorded'
    BY Zenon, <1>1, <1>3
  <2> QED BY Zenon, <2>1, <2>2, <2>3 DEF ManifestOK
<1> QED BY Zenon, <1>0, <1>3, <1>6, <1>8, <1>9, <1>11 DEF HasIdentity

\* A commit keeps the facts.
LEMMA VersionsCommit ==
  ASSUME Shape, VersionFacts, NEW w \in Workers, CommitCompound(w), ~overlapped'
  PROVE  /\ VersionFacts' /\ Kept
         /\ At(w, "commit") /\ Msg(w) \in Archive /\ worker[w].seen = canon
         /\ Leaves(w, AfterPut(w))
<1>0. JobOK(w) /\ RecordTypes /\ ManifestOK
  BY Zenon DEF VersionFacts
<1>1. At(w, "commit") /\ Leaves(w, AfterPut(w))
  BY Zenon, WorkerMoves DEF CommitCompound
<1>2. Msg(w) \in Archive /\ record[Msg(w)] # None
  BY Zenon, <1>0, <1>1 DEF JobOK, At
<1>3. /\ ManifestOK' /\ HasIdentity(canon)' /\ Msg(w) \in canon'.prov /\ \A m : Known(m) => Known(m)'
      /\ recorded' = recorded \cup {Msg(w)} /\ worker[w].seen = canon
  <2>1. CASE HasIdentity(canon)
    BY Zenon, <1>2, <2>1, FurtherCommitted
  <2>2. CASE ~HasIdentity(canon)
    BY Zenon, <1>2, <2>2, FirstCommitted
  <2> QED BY Zenon, <2>1, <2>2
<1>4. Known(Msg(w))'
  BY Zenon, <1>1, <1>3 DEF Known, HasIdentity, Leaves, Msg
<1>5. worker'[w].pc \in {"variant", "finish"} /\ Msg(w)' \in Archive
  BY Zenon, <1>1, <1>2 DEF Leaves, AfterPut, Msg
<1>6. JobOK(w)'
  BY Zenon, <1>4, <1>5, JobLanded
<1>7. \A v \in Workers : JobOK(v)' \/ worker'[v] = worker[v]
  BY Zenon, <1>1, <1>6 DEF Leaves, OthersStay
<1>8. recorded' \subseteq Archive /\ \A m \in recorded' : record[m] # None
  BY Zenon, <1>0, <1>2, <1>3 DEF ManifestOK, RecordTypes
<1>9. UNCHANGED <<record, stored, done>>
  BY Zenon DEF CommitCompound
<1>10. VersionFacts' /\ Kept
  BY Zenon, <1>3, <1>7, <1>8, <1>9, ManifestWritten
<1> QED BY Zenon, <1>1, <1>2, <1>3, <1>10

\* AttachProvenance keeps the facts.
LEMMA VersionsAttach ==
  ASSUME Shape, VersionFacts, NEW w \in Workers, CommitProvenance(w), ~overlapped'
  PROVE  /\ VersionFacts' /\ Kept
         /\ At(w, "attached") /\ Msg(w) \in Archive /\ Leaves(w, "finish")
         /\ HasIdentity(canon)
<1>0. JobOK(w) /\ RecordTypes /\ ManifestOK
  BY Zenon DEF VersionFacts
<1>1. At(w, "attached") /\ Leaves(w, "finish") /\ worker[w].base = canon
      /\ UNCHANGED <<record, stored, done, recorded, crowned, gmailWrote, orderLost>>
  BY Zenon, WorkerMoves DEF CommitProvenance
<1>2. Msg(w) \in Archive /\ HasIdentity(canon)
  BY Zenon, <1>0, <1>1 DEF JobOK, At
<1>3. IsManifest(canon) /\ Versioned(canon, recorded, Shown) /\ Msg(w) \in Mail
  BY Zenon, <1>0, <1>2 DEF ManifestOK, HasIdentity, Mail
<1>4. canon' = [canon EXCEPT !.prov = @ \cup {Msg(w)}]
  BY Zenon, <1>1 DEF CommitProvenance
<1>5. /\ IsManifest(canon') /\ canon'.prov = canon.prov \cup {Msg(w)}
      /\ HasIdentity(canon')
      /\ CoherentManifest(canon) => CoherentManifest(canon')
      /\ \A L : Shown \subseteq L => Versioned(canon', recorded, L)
  <2>1. isAttached(canon', canon, Msg(w))
    BY Zenon, <1>3, <1>4, Attached
  <2> QED BY Zenon, <1>2, <1>3, <2>1 DEF isAttached
<1>6. \A m : Known(m) => Known(m)'
  BY Zenon, <1>5, ManifestThere DEF Known
<1>7. Shown \subseteq Shown'
  BY Zenon, <1>1, <1>6 DEF Shown
<1>8. ManifestOK'
  <2>1. HasIdentity(canon)' /\ Versioned(canon, recorded, Shown)' /\ IsManifest(canon)'
    BY Zenon, <1>1, <1>5, <1>7 DEF Versioned, IsManifest, HasIdentity, RecordsIn
  <2>2. ("over" \notin gmailWrote /\ ~orderLost)' => CoherentManifest(canon)'
    BY Zenon, <1>0, <1>1, <1>2, <1>5 DEF CoherentManifest, ManifestOK
  <2> QED BY Zenon, <1>0, <1>1, <2>1, <2>2 DEF ManifestOK
<1>9. Known(Msg(w))'
  BY Zenon, <1>1, <1>5, ManifestThere DEF Known, Leaves, Msg
<1>10. JobOK(w)'
  BY Zenon, <1>1, <1>2, <1>9, JobLanded DEF Leaves, Msg
<1>11. \A v \in Workers : JobOK(v)' \/ worker'[v] = worker[v]
  BY Zenon, <1>1, <1>10 DEF Leaves, OthersStay
<1>12. recorded' \subseteq Archive /\ \A m \in recorded' : record[m] # None
  BY Zenon, <1>0, <1>1 DEF ManifestOK, RecordTypes
<1>13. HasIdentity(canon)'
  BY Zenon, <1>5 DEF HasIdentity
<1>14. VersionFacts' /\ Kept
  BY Zenon, <1>1, <1>6, <1>8, <1>11, <1>12, <1>13, ManifestWritten
<1> QED BY Zenon, <1>1, <1>2, <1>14

\* A hydration keeps the facts.
LEMMA VersionsGmail ==
  ASSUME VersionFacts, gmail.msg \in GmailMail \cup {None}, GmailCommit, ~overlapped'
  PROVE  VersionFacts' /\ Kept /\ (HasIdentity(canon)' <=> HasIdentity(canon))
         /\ \A m \in Archive : Known(m)' <=> Known(m)
<1> DEFINE g == gmail.msg
<1>0. RecordTypes /\ ManifestOK
  BY Zenon DEF VersionFacts
<1>1. g \in GmailMail /\ gmail.base = canon /\ canon' = MergeManifest(canon, GmailManifest(g))
  BY Zenon DEF GmailCommit
<1>2. /\ UNCHANGED <<record, stored, done, recorded, crowned, orderLost, worker>>
      /\ HasIdentity(canon) => "over" \in gmailWrote'
  BY Zenon, <1>1 DEF GmailCommit
<1>3. g \notin Archive /\ g # Identity
  BY Zenon, <1>1, MailAssumption DEF Mail
<1>4. CASE canon = NoManifest
  <2>1. canon' = GmailManifest(g)
    BY Zenon, <1>1, <1>4 DEF MergeManifest
  <2>2. IsManifest(canon') /\ OnlyGmail(canon') /\ ~HasIdentity(canon') /\ canon'.prov = {g}
    BY Zenon, <1>1, <2>1, GmailsManifest
  <2>3. ~HasIdentity(canon) /\ \A m : ~Known(m)
    BY Zenon, <1>4 DEF HasIdentity, Known
  <2>4. IsManifest(canon)' /\ OnlyGmail(canon)' /\ ~HasIdentity(canon)'
    BY Zenon, <2>2 DEF IsManifest, OnlyGmail, RecordsIn, HasIdentity
  <2>5. ManifestOK'
    BY Zenon, <1>0, <1>2, <2>3, <2>4 DEF ManifestOK
  <2>6. \A m \in Archive : ~Known(m)'
    BY Zenon, <1>3, <2>2 DEF Known
  <2>7. VersionFacts' /\ Kept
    <3>1. recorded' \subseteq Archive /\ \A m \in recorded' : record[m] # None
      BY Zenon, <1>0, <1>2 DEF ManifestOK, RecordTypes
    <3> QED BY Zenon, <1>2, <2>3, <2>5, <3>1, ManifestWritten
  <2> QED BY Zenon, <2>3, <2>4, <2>6, <2>7
<1>5. CASE canon # NoManifest
  <2>1. IsManifest(canon)
    BY Zenon, <1>0, <1>5 DEF ManifestOK
  <2>2. /\ IsManifest(canon') /\ canon'.prov = canon.prov \cup {g}
        /\ HasIdentity(canon') <=> HasIdentity(canon)
        /\ OnlyGmail(canon) => OnlyGmail(canon')
        /\ \A R, K, L : Versioned(canon, R, K) /\ g \in L => Versioned(canon', R, L)
    <3>1. isHydrated(canon', canon, g)
      BY Zenon, <1>1, <2>1, GmailOver
    <3> QED BY Zenon, <3>1 DEF isHydrated
  <2>3. canon' # NoManifest
    BY Zenon, <2>2, ManifestThere
  <2>4. /\ \A m : Known(m) => Known(m)'
        /\ \A m \in Archive : Known(m)' <=> Known(m)
    BY Zenon, <1>3, <1>5, <2>2, <2>3 DEF Known
  <2>5. g \in Shown'
    BY Zenon, <1>1, <2>2, <2>3 DEF Shown, Known
  <2>6. HasIdentity(canon) => Versioned(canon', recorded, Shown')
    BY Zenon, <1>0, <2>2, <2>5 DEF ManifestOK
  <2>7. ManifestOK'
    <3>1. /\ HasIdentity(canon)' => HasIdentity(canon) /\ Versioned(canon, recorded, Shown)'
          /\ IsManifest(canon)' /\ (OnlyGmail(canon) => OnlyGmail(canon)')
      BY Zenon, <1>2, <2>2, <2>6 DEF Versioned, IsManifest, OnlyGmail, RecordsIn, HasIdentity
    <3>2. ~HasIdentity(canon)' => ~HasIdentity(canon)
      BY Zenon, <2>2 DEF HasIdentity
    <3> QED BY Zenon, <1>0, <1>2, <1>5, <3>1, <3>2 DEF ManifestOK
  <2>8. HasIdentity(canon)' <=> HasIdentity(canon)
    BY Zenon, <2>2 DEF HasIdentity
  <2>9. VersionFacts' /\ Kept
    <3>1. recorded' \subseteq Archive /\ \A m \in recorded' : record[m] # None
      BY Zenon, <1>0, <1>2 DEF ManifestOK, RecordTypes
    <3> QED BY Zenon, <1>2, <2>4, <2>7, <2>8, <3>1, ManifestWritten
  <2> QED BY Zenon, <2>4, <2>8, <2>9
<1> QED BY Zenon, <1>4, <1>5

\* Where a step leaves FILESTORE and the history of it alone, and every worker
\* stays or stops.
LEMMA VersionsIdle ==
  ASSUME VersionFacts, UNCHANGED <<store, recorded, crowned, gmailWrote, orderLost>>, done' \subseteq done,
         \A v \in Workers : worker'[v] = worker[v] \/ worker'[v] = Idle
  PROVE  VersionFacts' /\ Kept
<1>1. Kept
  BY Zenon DEF Kept, HasIdentity, Known, store
<1>2. ManifestOK'
  BY Zenon, ManifestStays DEF VersionFacts, store
<1>3. RecordTypes' /\ LandedOK'
  BY Zenon DEF VersionFacts, RecordTypes, LandedOK, HasIdentity, Known, store
<1>4. ASSUME NEW v \in Workers, worker'[v] = Idle PROVE JobOK(v)'
  <2>1. worker'[v].pc = "idle" /\ worker'[v].msg = None
    BY <1>4 DEF Idle
  <2> QED BY Zenon, <2>1 DEF JobOK, At, Msg, Reading
<1>5. \A v \in Workers : JobOK(v)'
  BY Zenon, <1>1, <1>4, JobStays DEF VersionFacts
<1> QED BY Zenon, <1>1, <1>2, <1>3, <1>5 DEF VersionFacts

\* A crash keeps the facts.
LEMMA VersionsCrash ==
  ASSUME VersionFacts, NEW p \in Procs, Crash(p)
  PROVE  VersionFacts' /\ Kept
<1>1. /\ UNCHANGED <<store, recorded, crowned, gmailWrote, orderLost>> /\ done' \subseteq done
      /\ \A v \in Workers : worker'[v] = worker[v] \/ worker'[v] = Idle
  BY Zenon DEF Crash
<1> QED BY Zenon, <1>1, VersionsIdle

\* The invariant holds at first.
LEMMA VersionsInit == Init => VersionsInv
<1> SUFFICES ASSUME Init PROVE VersionsInv
  BY Zenon
<1>1. ~HasIdentity(canon) /\ \A m : ~Known(m)
  BY Zenon DEF Init, HasIdentity, Known
<1>2. ManifestOK /\ LandedOK
  BY Zenon, <1>1 DEF Init, ManifestOK, LandedOK
<1>3. RecordTypes
  BY Zenon DEF Init, RecordTypes
<1>4. \A w \in Workers : JobOK(w)
  <2> TAKE w \in Workers
  <2>1. worker[w].pc = "idle" /\ worker[w].msg = None
    BY Zenon DEF Init, Idle
  <2> QED BY <2>1 DEF JobOK, At, Msg, Reading
<1>5. gmail.msg = None
  BY Zenon DEF Init
<1> QED BY Zenon, <1>2, <1>3, <1>4, <1>5 DEF VersionsInv, VersionFacts

\* Every step keeps the facts, unless it writes a manifest over one its writer
\* had not read, and nothing that FILESTORE has is taken back.
LEMMA VersionsStep ==
  ASSUME Shape, VersionsInv, [Next]_vars
  PROVE  VersionsInv' /\ (~overlapped' => ~overlapped /\ VersionFacts /\ Kept)
<1> USE DEF Shared, Bounds, store, history
<1>1. gmail'.msg \in GmailMail \cup {None}
  <2>1. ASSUME NEW w \in Workers,
               quietStep(w) \/ WriteVersionRecord(w) \/ CommitCompound(w) \/ CommitProvenance(w)
        PROVE  gmail' = gmail
    BY Zenon, <2>1 DEF quietStep, Begin, LockMessageID, Lookup, CanonicalBodyOrder, ShouldPromote, PutCompound,
       IngestInProgress, WriteVariant, WriteMembership, AttachProvenance, Finish, Fail,
       WriteVersionRecord, CommitCompound, CommitProvenance
  <2>2. ASSUME NEW p \in Procs, Crash(p) PROVE gmail' = gmail
    BY Zenon, <2>2 DEF Crash
  <2>3. ASSUME NEW g \in GmailMail, GmailPut(g) PROVE gmail'.msg = g
    BY Zenon, <2>3 DEF GmailPut
  <2>4. ASSUME GmailCommit PROVE gmail'.msg = None
    BY Zenon, <2>4 DEF GmailCommit
  <2>5. ASSUME UNCHANGED vars PROVE gmail' = gmail
    BY Zenon, <2>5 DEF vars, control
  <2> QED BY Zenon, <2>1, <2>2, <2>3, <2>4, <2>5 DEF VersionsInv, Next, quietStep
<1> SUFFICES ASSUME ~overlapped' PROVE ~overlapped /\ VersionFacts /\ VersionFacts' /\ Kept
  BY Zenon, <1>1 DEF VersionsInv
<1>2. ~overlapped
  <2>1. ASSUME NEW w \in Workers, quietStep(w) \/ WriteVersionRecord(w) PROVE overlapped' = overlapped
    BY Zenon, <2>1 DEF quietStep, Begin, LockMessageID, Lookup, CanonicalBodyOrder, ShouldPromote, PutCompound,
       IngestInProgress, WriteVariant, WriteMembership, AttachProvenance, Finish, Fail, WriteVersionRecord
  <2>2. ASSUME NEW w \in Workers, CommitCompound(w) \/ CommitProvenance(w) PROVE overlapped => overlapped'
    BY Zenon, <2>2 DEF CommitCompound, CommitProvenance
  <2>3. ASSUME \/ \E p \in Procs : Crash(p)
               \/ \E g \in GmailMail : GmailPut(g)
               \/ GmailCommit \/ UNCHANGED vars
        PROVE  overlapped => overlapped'
    BY Zenon, <2>3 DEF Crash, GmailPut, GmailCommit, vars
  <2> QED BY Zenon, <2>1, <2>2, <2>3 DEF Next, quietStep
<1>3. VersionFacts
  BY Zenon, <1>2 DEF VersionsInv
<1>4. ASSUME NEW w \in Workers, quietStep(w) PROVE VersionFacts' /\ Kept
  BY Zenon, <1>3, <1>4, VersionsQuietSteps
<1>5. ASSUME NEW w \in Workers, WriteVersionRecord(w) PROVE VersionFacts' /\ Kept
  BY Zenon, <1>3, <1>5, RecordWritten
<1>6. ASSUME NEW w \in Workers, CommitCompound(w) PROVE VersionFacts' /\ Kept
  BY Zenon, <1>3, <1>6, VersionsCommit
<1>7. ASSUME NEW w \in Workers, CommitProvenance(w) PROVE VersionFacts' /\ Kept
  BY Zenon, <1>3, <1>7, VersionsAttach
<1>8. ASSUME NEW p \in Procs, Crash(p) PROVE VersionFacts' /\ Kept
  BY Zenon, <1>3, <1>8, VersionsCrash
<1>9. ASSUME GmailCommit PROVE VersionFacts' /\ Kept
  BY Zenon, <1>3, <1>9, VersionsGmail DEF VersionsInv
<1>10. ASSUME (\E g \in GmailMail : GmailPut(g)) \/ UNCHANGED vars PROVE VersionFacts' /\ Kept
  <2>1. UNCHANGED <<store, recorded, crowned, gmailWrote, orderLost, done, worker>>
    BY Zenon, <1>10 DEF GmailPut, vars, control
  <2> QED BY Zenon, <1>3, <2>1, VersionsIdle
<1> QED BY Zenon, <1>2, <1>3, <1>4, <1>5, <1>6, <1>7, <1>8, <1>9, <1>10 DEF Next, quietStep

-----------------------------------------------------------------------------
(* The version set in one process *)

\* A mail whose record a manifest lists has a record and is known.
LEMMA RecordedKnown ==
  /\ VersionFacts => \A m \in recorded : m \in Archive /\ Known(m) /\ HasIdentity(canon) /\ record[m] # None
  /\ VersionFacts' => \A m \in recorded' : Known(m)'
<1>1. ASSUME VersionFacts PROVE \A m \in recorded : m \in Archive /\ Known(m) /\ HasIdentity(canon) /\ record[m] # None
  <2> TAKE m \in recorded
  <2>1. ManifestOK /\ RecordTypes
    BY Zenon, <1>1 DEF VersionFacts
  <2>2. HasIdentity(canon) /\ recorded \subseteq canon.prov
    BY Zenon, <2>1 DEF ManifestOK, Versioned
  <2> QED BY Zenon, <2>1, <2>2 DEF ManifestOK, RecordTypes, Known, HasIdentity
<1>2. ASSUME VersionFacts' PROVE \A m \in recorded' : Known(m)'
  <2> TAKE m \in recorded'
  <2>1. ManifestOK'
    BY Zenon, <1>2 DEF VersionFacts
  <2>2. HasIdentity(canon') /\ recorded' \subseteq canon'.prov
    BY Zenon, <2>1 DEF ManifestOK, Versioned
  <2> QED BY Zenon, <2>1, <2>2 DEF Known, HasIdentity
<1> QED BY Zenon, <1>1, <1>2

\* What a mail has is not taken back.
LEMMA SettledStays ==
  ASSUME VersionFacts, Kept, cut \subseteq cut', crowned \subseteq crowned',
         NEW m, m \in recorded' => m \in recorded, Settled(m)
  PROVE  Settled(m)'
<1> SUFFICES ASSUME m \in recorded' PROVE HasVariant(m)' \/ OwnDuplicate(m)'
  BY Zenon DEF Settled
<1>1. m \in recorded /\ m \in Archive /\ record[m] # None
  BY Zenon, RecordedKnown
<1>2. HasVariant(m) => HasVariant(m)'
  BY Zenon, <1>1 DEF HasVariant, Kept
<1>3. OwnDuplicate(m) => OwnDuplicate(m)'
  BY Zenon DEF OwnDuplicate, Shown, Kept
<1> QED BY Zenon, <1>1, <1>2, <1>3 DEF Settled

\* The mails in a step of one worker that writes no manifest: a record is new only
\* for a worker that goes on to put it; a worker leaves its put or its variant only
\* when it is through or cut; a mail counts as done only when it is settled.
LEMMA MailsQuiet ==
  ASSUME VersionFacts, Kept, MailsOK, NEW w \in Workers, OthersStay(w),
         UNCHANGED <<canon, recorded, crowned>>, cut \subseteq cut',
         \A m \in Archive : record'[m] # None /\ record[m] = None => worker'[w].pc = "put" /\ worker'[w].msg = m,
         worker[w].pc \in {"put", "commit"} =>
            \/ Msg(w) \in cut' \/ Known(Msg(w))
            \/ worker'[w].pc \in {"put", "commit"} /\ worker'[w].msg = Msg(w),
         At(w, "variant") => Msg(w) \in cut' \/ "variant" \in stored'[Msg(w)],
         \A m \in done' : m = worker'[w].msg \/ Settled(m)' \/ (m \in done /\ m # Msg(w))
  PROVE  MailsOK'
<1>1. ASSUME NEW m \in Archive \ cut', record'[m] # None, ~Known(m)'
      PROVE  \E v \in Workers : worker'[v].pc \in {"put", "commit"} /\ Msg(v)' = m
  <2>1. ~Known(m) /\ m \in Archive \ cut
    BY Zenon, <1>1 DEF Known
  <2>2. CASE record[m] = None
    BY Zenon, <1>1, <2>2 DEF Msg
  <2>3. CASE record[m] # None
    <3>1. PICK v \in Workers : worker[v].pc \in {"put", "commit"} /\ Msg(v) = m
      BY Zenon, <2>1, <2>3 DEF MailsOK
    <3>2. CASE v = w
      BY Zenon, <1>1, <2>1, <3>1, <3>2 DEF Msg
    <3>3. CASE v # w
      <4>1. worker'[v] = worker[v]
        BY Zenon, <3>3 DEF OthersStay
      <4> QED BY Zenon, <3>1, <4>1 DEF Msg
    <3> QED BY Zenon, <3>2, <3>3
  <2> QED BY Zenon, <2>2, <2>3
<1>2. ASSUME NEW m \in recorded' \ cut'
      PROVE  HasVariant(m)' \/ \E v \in Workers : At(v, "variant")' /\ Msg(v)' = m
  <2>1. m \in recorded \ cut /\ m \in Archive /\ record[m] # None
    BY Zenon, <1>2, RecordedKnown
  <2>2. HasVariant(m) => HasVariant(m)'
    BY Zenon, <2>1 DEF HasVariant, Kept
  <2>3. ASSUME NEW v \in Workers, At(v, "variant"), Msg(v) = m
        PROVE  HasVariant(m)' \/ \E u \in Workers : At(u, "variant")' /\ Msg(u)' = m
    <3>1. CASE v = w
      BY Zenon, <1>2, <2>3, <3>1 DEF HasVariant
    <3>2. CASE v # w
      <4>1. worker'[v] = worker[v]
        BY Zenon, <3>2 DEF OthersStay
      <4> QED BY Zenon, <2>3, <4>1 DEF Msg, At
    <3> QED BY Zenon, <3>1, <3>2
  <2> QED BY Zenon, <2>1, <2>2, <2>3 DEF MailsOK
<1>3. ASSUME NEW m \in recorded' \ cut' PROVE record'[m].canonical <=> m \in crowned'
  <2>1. m \in recorded \ cut /\ m \in Archive /\ record[m] # None
    BY Zenon, <1>3, RecordedKnown
  <2>2. record'[m] = record[m]
    BY Zenon, <2>1 DEF Kept
  <2> QED BY Zenon, <2>1, <2>2 DEF MailsOK
<1>4. ASSUME NEW m \in done', m \notin {Msg(v)' : v \in Workers} PROVE Settled(m)'
  <2>1. m # worker'[w].msg
    BY Zenon, <1>4 DEF Msg
  <2>2. CASE m \in done /\ m # Msg(w)
    <3>1. m \notin {Msg(v) : v \in Workers}
      <4> SUFFICES ASSUME NEW v \in Workers, m = Msg(v) PROVE FALSE
        BY Zenon
      <4>1. v # w
        BY Zenon, <2>2
      <4>2. worker'[v] = worker[v]
        BY Zenon, <4>1 DEF OthersStay
      <4> QED BY Zenon, <1>4, <4>2 DEF Msg
    <3>2. Settled(m)
      BY Zenon, <2>2, <3>1 DEF MailsOK
    <3> QED BY Zenon, <3>2, SettledStays
  <2> QED BY Zenon, <1>4, <2>1, <2>2
<1> QED BY Zenon, <1>1, <1>2, <1>3, <1>4 DEF MailsOK

\* A worker of which nothing is asked.
LEMMA HolderOff ==
  ASSUME NEW v \in Workers, worker'[v].pc \in {"idle", "lock", "lookup", "variant"}
  PROVE  HolderOK(v)'
  BY Zenon DEF HolderOK, At, Reading

\* What a worker knows stays true while it stays where it is and the manifest
\* keeps the identity and the archive mails it has.
LEMMA HolderStays ==
  ASSUME VersionFacts, Kept, cut \subseteq cut', crowned \subseteq crowned', recorded' = recorded,
         HasIdentity(canon)' <=> HasIdentity(canon), \A m \in Archive : Known(m)' <=> Known(m),
         NEW v \in Workers, HolderOK(v), worker'[v] = worker[v]
  PROVE  HolderOK(v)'
<1>1. Msg(v)' = Msg(v) /\ \A pc : At(v, pc)' = At(v, pc)
  BY Zenon DEF Msg, At
<1>2. JobOK(v)
  BY Zenon DEF VersionFacts
<1>3. CASE At(v, "idle")
  BY Zenon, <1>3, HolderOff DEF At
<1>4. CASE ~At(v, "idle")
  <2>1. PICK m \in Archive : Msg(v) = m /\ Msg(v)' = m
    BY Zenon, <1>1, <1>2, <1>4 DEF JobOK
  <2>2. worker[v].pc \in Reading => (HasIdentity(worker[v].seen)' <=> HasIdentity(canon)')
    BY Zenon DEF HolderOK, HasIdentity
  <2>3. At(v, "commit") => ~Known(m)'
    BY Zenon, <2>1 DEF HolderOK
  <2>4. worker[v].pc \in {"put", "commit"} => record'[m] = record[m]
    BY Zenon, <1>2, <2>1 DEF JobOK, Kept
  <2>5. worker[v].pc \in {"put", "commit"} /\ m \notin cut' /\ ~Known(m)' =>
          (record'[m].canonical <=> ~HasIdentity(worker[v].seen) \/ worker[v].promote)
    BY Zenon, <2>1, <2>4 DEF HolderOK
  <2>6. worker[v].pc \in {"membership", "attach", "attached", "finish"} => Settled(m)'
    BY Zenon, <2>1, SettledStays DEF HolderOK
  <2> QED BY Zenon, <1>1, <2>1, <2>2, <2>3, <2>5, <2>6 DEF HolderOK, HasIdentity, Known
<1> QED BY Zenon, <1>3, <1>4

\* While one worker is past the lock, the others know nothing.
LEMMA OthersOff ==
  ASSUME Shape, Holds, OneProcess, VersionFacts, NEW w \in Workers, PastLock(w), OthersStay(w)
  PROVE  \A v \in Workers \ {w} : ~PastLock(v) /\ HolderOK(v)'
<1> TAKE v \in Workers \ {w}
<1>1. ~PastLock(v)
  BY Zenon, OneHolder
<1>2. worker'[v].pc \in {"idle", "lock", "lookup", "variant"}
  BY Zenon, <1>1 DEF PastLock, OthersStay
<1> QED BY Zenon, <1>1, <1>2, HolderOff

\* A worker with a settled mail.
LEMMA HolderSettled ==
  ASSUME NEW w \in Workers, worker'[w].pc \in {"membership", "attach", "attached", "finish"},
         NEW m, worker'[w].msg = m, Settled(m)'
  PROVE  HolderOK(w)'
<1>1. worker'[w].pc \notin Reading /\ Msg(w)' = m /\ ~At(w, "commit")'
  BY Zenon DEF At, Reading, Msg
<1>2. Settled(Msg(w))'
  BY Zenon, <1>1 DEF Settled, HasVariant, OwnDuplicate
<1> QED BY Zenon, <1>1, <1>2 DEF HolderOK, Reading

\* A worker that reads.
LEMMA HolderReads ==
  ASSUME NEW w \in Workers, worker'[w].pc \in Reading, NEW m, worker'[w].msg = m,
         HasIdentity(worker'[w].seen) <=> HasIdentity(canon)',
         worker'[w].pc = "commit" => ~Known(m)',
         worker'[w].pc \in {"put", "commit"} /\ m \notin cut' /\ ~Known(m)' =>
            (record'[m].canonical <=> ~HasIdentity(worker'[w].seen) \/ worker'[w].promote)
  PROVE  HolderOK(w)'
<1>1. Msg(w)' = m /\ \A pc : At(w, pc)' = (worker'[w].pc = pc)
  BY Zenon DEF Msg, At
<1>2. worker'[w].pc \notin {"membership", "attach", "attached", "finish"}
  BY Zenon DEF Reading
<1>3. HasIdentity(worker[w].seen)' <=> HasIdentity(worker'[w].seen)
  BY Zenon DEF HasIdentity
<1> QED BY Zenon, <1>1, <1>2, <1>3 DEF HolderOK, Known

\* The steps of a worker that write no manifest keep the promises of one process.
LEMMA OneProcessQuiet ==
  ASSUME Shape, Holds, OneProcess, VersionFacts, Kept, MailsOK, \A v \in Workers : HolderOK(v),
         NEW w \in Workers, quietStep(w) \/ WriteVersionRecord(w)
  PROVE  MailsOK' /\ \A v \in Workers : HolderOK(v)'
<1> USE DEF Shared, Bounds, store, history
<1>0. JobOK(w) /\ HolderOK(w) /\ ManifestOK /\ RecordTypes
  BY Zenon DEF VersionFacts
<1>1. ASSUME OthersStay(w), HolderOK(w)', UNCHANGED <<canon, recorded, crowned>>, cut \subseteq cut'
      PROVE  \A v \in Workers : HolderOK(v)'
  <2> SUFFICES ASSUME NEW v \in Workers, v # w PROVE HolderOK(v)'
    BY Zenon, <1>1
  <2>1. worker'[v] = worker[v] /\ HolderOK(v)
    BY Zenon, <1>1 DEF OthersStay
  <2>2. (HasIdentity(canon)' <=> HasIdentity(canon)) /\ \A m \in Archive : Known(m)' <=> Known(m)
    BY Zenon, <1>1 DEF HasIdentity, Known
  <2> QED BY Zenon, <1>1, <2>1, <2>2, HolderStays
<1>2. ASSUME Leaves(w, worker'[w].pc), HolderOK(w)', UNCHANGED <<canon, record, history>>,
             worker[w].pc \in {"put", "commit"} => Known(Msg(w)) \/ worker'[w].pc \in {"put", "commit"},
             ~At(w, "variant")
      PROVE  MailsOK' /\ \A v \in Workers : HolderOK(v)'
  <2>1. /\ UNCHANGED <<canon, recorded, crowned, cut, done, record>> /\ OthersStay(w)
        /\ worker'[w].msg = Msg(w)
    BY Zenon, <1>2 DEF Leaves, Msg
  <2>2. MailsOK'
    BY Zenon, <1>2, <2>1, MailsQuiet
  <2> QED BY Zenon, <1>1, <1>2, <2>1, <2>2
<1>3. ASSUME Stops(w), UNCHANGED <<canon, record, recorded, crowned>>, cut \subseteq cut',
             worker[w].pc \in {"put", "commit", "variant"} => Msg(w) \in cut',
             \A m \in done' : Settled(m)' \/ (m \in done /\ m # Msg(w))
      PROVE  MailsOK' /\ \A v \in Workers : HolderOK(v)'
  <2>1. OthersStay(w) /\ worker'[w].pc = "idle"
    BY Zenon, <1>3 DEF Stops
  <2>2. HolderOK(w)'
    BY Zenon, <2>1, HolderOff
  <2>3. MailsOK'
    BY Zenon, <1>3, <2>1, MailsQuiet DEF At
  <2> QED BY Zenon, <1>1, <1>3, <2>1, <2>2, <2>3
<1>4. ASSUME NEW m \in Archive, Begin(w, m) PROVE MailsOK' /\ \A v \in Workers : HolderOK(v)'
  <2>1. worker'[w].pc = "lock" /\ worker'[w].msg = m /\ OthersStay(w)
    BY Zenon, <1>4 DEF Begin, Shape, Idle, OthersStay
  <2>2. /\ UNCHANGED <<canon, recorded, crowned, record, cut>>
        /\ done' = done \ {m} /\ worker[w].pc = "idle" /\ ~At(w, "variant")
    BY Zenon, <1>4 DEF Begin, At
  <2>3. \A k \in done' : k \in done /\ k # Msg(w)
    <3>1. Msg(w) = None /\ None \notin Archive
      BY Zenon, <1>0, <2>2, MailAssumption DEF JobOK, At, Mail
    <3>2. done \subseteq Archive
      BY Zenon DEF VersionFacts, LandedOK
    <3> QED BY Zenon, <2>2, <3>1, <3>2
  <2>4. HolderOK(w)'
    BY Zenon, <2>1, HolderOff
  <2>5. MailsOK'
    BY Zenon, <2>1, <2>2, <2>3, MailsQuiet
  <2> QED BY Zenon, <1>1, <2>1, <2>2, <2>4, <2>5
<1>5. CASE LockMessageID(w)
  <2>1. Moves(w, "lookup") /\ worker[w].pc = "lock"
    BY Zenon, <1>5, WorkerMoves DEF LockMessageID, At
  <2>2. Leaves(w, worker'[w].pc) /\ worker'[w].pc = "lookup"
    BY Zenon, <2>1 DEF Moves, Leaves
  <2>3. HolderOK(w)'
    BY Zenon, <2>2, HolderOff
  <2>4. UNCHANGED <<canon, record, history>> /\ ~At(w, "variant")
    BY <1>5, <2>1 DEF LockMessageID, At
  <2> QED BY Zenon, <1>2, <2>1, <2>2, <2>3, <2>4
<1>6. CASE Lookup(w)
  <2>1. worker[w].pc = "lookup" /\ UNCHANGED <<canon, record, stored, history>> /\ PastLock(w)
    BY <1>6 DEF Lookup, At, PastLock
  <2>2. PICK m \in Archive : Msg(w) = m
    BY Zenon, <1>0, <2>1 DEF JobOK, At
  <2>3. ASSUME Leaves(w, worker'[w].pc), HolderOK(w)' PROVE MailsOK' /\ \A v \in Workers : HolderOK(v)'
    BY Zenon, <1>2, <2>1, <2>3 DEF At
  <2>4. CASE HasIdentity(canon) /\ canon.mail.bodyLine = Content[Msg(w)].body
    <3>1. PICK pc \in {"membership", "attach"} : Go(w, pc)
      BY Zenon, <1>6, <2>4 DEF Lookup
    <3>2. Leaves(w, worker'[w].pc) /\ worker'[w].pc = pc /\ worker'[w].msg = m
      BY Zenon, <2>2, <3>1, WorkerMoves DEF Moves, Leaves, Msg
    <3>3. Settled(m)
      <4> SUFFICES ASSUME m \in recorded PROVE HasVariant(m) \/ OwnDuplicate(m)
        BY Zenon DEF Settled
      <4>1. CASE m \in cut
        <5>1. PICK k \in Shown : canon.mail.bodyLine = Content[k].body
          BY Zenon, <1>0, <2>4 DEF ManifestOK, Versioned
        <5> QED BY Zenon, <2>2, <2>4, <4>1, <5>1 DEF OwnDuplicate
      <4>2. CASE m \notin cut
        <5>1. ASSUME NEW v \in Workers, At(v, "variant") PROVE FALSE
          <6>1. PastLock(v) /\ ~At(w, "variant")
            BY <2>1, <5>1 DEF At, PastLock
          <6> QED BY Zenon, <2>1, <5>1, <6>1, OneHolder
        <5> QED BY Zenon, <4>2, <5>1 DEF MailsOK
      <4> QED BY Zenon, <4>1, <4>2
    <3>4. Settled(m)'
      BY Zenon, <2>1, <3>3, SettledStays
    <3>5. HolderOK(w)'
      BY Zenon, <3>2, <3>4, HolderSettled
    <3> QED BY Zenon, <2>3, <3>2, <3>5
  <2>5. CASE ~(HasIdentity(canon) /\ canon.mail.bodyLine = Content[Msg(w)].body)
    <3>1. PICK pc \in {"order", "record"} : worker' = [worker EXCEPT ![w].seen = canon, ![w].pc = pc]
      <4>1. worker' = [worker EXCEPT ![w].seen = canon, ![w].pc = IF HasIdentity(canon) THEN "order" ELSE "record"]
        BY Zenon, <1>6, <2>5 DEF Lookup
      <4>2. PICK q : q = IF HasIdentity(canon) THEN "order" ELSE "record"
        BY Zenon
      <4>3. q \in {"order", "record"}
        BY Zenon, <4>2
      <4>4. worker' = [worker EXCEPT ![w].seen = canon, ![w].pc = q]
        BY Zenon, <4>1, <4>2
      <4> QED BY Zenon, <4>3, <4>4
    <3>2. Leaves(w, worker'[w].pc) /\ worker'[w].pc = pc /\ worker'[w].msg = m /\ worker'[w].seen = canon
      <4>1. PICK x : x = canon
        BY Zenon
      <4>2. worker' = [worker EXCEPT ![w].seen = x, ![w].pc = pc]
        BY Zenon, <3>1, <4>1
      <4>3. Leaves(w, pc) /\ worker'[w].seen = x
        BY Zenon, <4>2, SeenMoves
      <4> QED BY Zenon, <2>2, <4>1, <4>3 DEF Leaves, Msg
    <3>3. pc \in Reading /\ pc \notin {"put", "commit"} /\ pc # "commit"
      BY Zenon DEF Reading
    <3>4. HasIdentity(worker'[w].seen) <=> HasIdentity(canon)'
      BY Zenon, <2>1, <3>2 DEF HasIdentity
    <3>5. HolderOK(w)'
      BY Zenon, <3>2, <3>3, <3>4, HolderReads
    <3> QED BY Zenon, <2>3, <3>2, <3>5
  <2> QED BY Zenon, <2>4, <2>5
<1>7. CASE CanonicalBodyOrder(w) \/ ShouldPromote(w)
  <2>1. worker[w].pc \in {"order", "promote"} /\ UNCHANGED <<canon, record, history>>
    BY Zenon, <1>7 DEF CanonicalBodyOrder, ShouldPromote, At
  <2>2. PICK pc \in {"promote", "record"} : Leaves(w, pc) /\ worker'[w].seen = worker[w].seen
    <3>1. CASE CanonicalBodyOrder(w)
      <4>1. PICK o : worker' = [worker EXCEPT ![w].pc = "promote", ![w].order = o]
        BY ZenonT(30), <3>1 DEF CanonicalBodyOrder
      <4>2. Moves(w, "promote")
        BY Zenon, <4>1, ReadMoves
      <4> QED BY Zenon, <4>2 DEF Moves, Leaves
    <3>2. CASE ShouldPromote(w)
      <4>1. PICK b : worker' = [worker EXCEPT ![w].pc = "record", ![w].promote = b]
        BY Zenon, <3>2 DEF ShouldPromote
      <4> QED BY Zenon, <4>1, PromoteMoves
    <3> QED BY Zenon, <1>7, <3>1, <3>2
  <2>3. Leaves(w, worker'[w].pc) /\ worker'[w].pc = pc
    BY Zenon, <2>2 DEF Leaves
  <2>4. /\ pc \in Reading /\ pc \notin {"put", "commit"} /\ pc # "commit" /\ worker[w].pc \in Reading
        /\ worker[w].pc \notin {"put", "commit"} /\ ~At(w, "variant")
    BY Zenon, <2>1 DEF Reading, At
  <2>5. HasIdentity(worker'[w].seen) <=> HasIdentity(canon)'
    BY Zenon, <1>0, <2>1, <2>2, <2>4 DEF HolderOK, HasIdentity
  <2>6. HolderOK(w)'
    BY Zenon, <2>3, <2>4, <2>5, HolderReads
  <2> QED BY Zenon, <1>2, <2>1, <2>3, <2>4, <2>6
<1>8. CASE WriteVersionRecord(w)
  <2>1. /\ worker[w].pc = "record" /\ PastLock(w)
        /\ UNCHANGED <<canon, history>> /\ Go(w, "put")
    BY Zenon, <1>8 DEF WriteVersionRecord, At, PastLock
  <2>2. PICK m \in Archive : Msg(w) = m
    BY Zenon, <1>0, <2>1 DEF JobOK, At
  <2> DEFINE full == ~HasIdentity(worker[w].seen)
  <2>3. record' = [record EXCEPT ![m] =
           IF record[m] # None THEN record[m] ELSE [full |-> full, canonical |-> full \/ worker[w].promote]]
    BY Zenon, <1>8, <2>2 DEF WriteVersionRecord
  <2>4. /\ OthersStay(w) /\ worker'[w].pc = "put" /\ worker'[w].msg = m
        /\ worker'[w].seen = worker[w].seen /\ worker'[w].promote = worker[w].promote
    BY Zenon, <2>1, <2>2, WorkerMoves DEF Moves, Msg
  <2>5. ASSUME record[m] = None PROVE record'[m].canonical <=> full \/ worker[w].promote
    <3>1. record'[m] = [full |-> full, canonical |-> full \/ worker[w].promote]
      BY Zenon, <1>0, <2>3, <2>5 DEF RecordTypes
    <3>2. PICK a, b : a = full /\ b = (full \/ worker[w].promote)
      BY Zenon
    <3>3. record'[m] = [full |-> a, canonical |-> b]
      BY Zenon, <3>1, <3>2
    <3>4. record'[m].canonical = b
      BY <3>3
    <3> QED BY Zenon, <3>2, <3>4
  <2>6. ASSUME m \notin cut', ~Known(m)' PROVE record[m] = None
    <3> SUFFICES ASSUME record[m] # None PROVE FALSE
      BY Zenon
    <3>1. m \notin cut /\ ~Known(m)
      BY Zenon, <2>1, <2>6 DEF Known
    <3>2. PICK v \in Workers : worker[v].pc \in {"put", "commit"}
      BY Zenon, <3>1 DEF MailsOK
    <3>3. PastLock(v) /\ v # w
      BY <2>1, <3>2 DEF PastLock
    <3> QED BY Zenon, <2>1, <3>3, OneHolder
  <2>7. "put" \in Reading /\ "record" \in Reading /\ worker'[w].pc # "commit"
    BY Zenon, <2>4 DEF Reading
  <2>8. HasIdentity(worker'[w].seen) <=> HasIdentity(canon)'
    BY Zenon, <1>0, <2>1, <2>4, <2>7 DEF HolderOK, HasIdentity
  <2>9. HolderOK(w)'
    BY Zenon, <2>4, <2>5, <2>6, <2>7, <2>8, HolderReads
  <2>10. \A k \in Archive : record'[k] # None /\ record[k] = None => k = m
    BY Zenon, <1>0, <2>3 DEF RecordTypes
  <2>11. ~At(w, "variant") /\ worker[w].pc \notin {"put", "commit"}
    BY <2>1 DEF At
  <2>12. MailsOK'
    BY Zenon, <2>1, <2>2, <2>4, <2>10, <2>11, MailsQuiet
  <2> QED BY Zenon, <1>1, <2>1, <2>4, <2>9, <2>12
<1>9. CASE PutCompound(w)
  <2>1. worker[w].pc = "put" /\ UNCHANGED <<canon, record, stored, history>>
    BY Zenon, <1>9 DEF PutCompound, At
  <2>2. PICK m \in Archive : Msg(w) = m
    BY Zenon, <1>0, <2>1 DEF JobOK, At
  <2>3. worker[w].pc \in Reading /\ "commit" \in Reading /\ ~At(w, "variant")
    BY Zenon, <2>1 DEF Reading, At
  <2>4. CASE Known(m)
    <3>1. Leaves(w, AfterPut(w))
      BY Zenon, <1>9, <2>2, <2>4, WorkerMoves DEF PutCompound
    <3>2. Leaves(w, worker'[w].pc) /\ worker'[w].pc = AfterPut(w) /\ worker'[w].msg = m
      BY Zenon, <2>2, <3>1 DEF Leaves, Msg
    <3>3. CASE HasIdentity(worker[w].seen)
      <4>1. worker'[w].pc = "variant"
        BY Zenon, <3>2, <3>3 DEF AfterPut
      <4>2. HolderOK(w)'
        BY Zenon, <4>1, HolderOff
      <4> QED BY Zenon, <1>2, <2>1, <2>2, <2>3, <2>4, <3>2, <4>2
    <3>4. CASE ~HasIdentity(worker[w].seen)
      <4>1. worker'[w].pc = "finish" /\ ~HasIdentity(canon)
        BY Zenon, <1>0, <2>3, <3>2, <3>4 DEF AfterPut, HolderOK
      <4>2. Settled(m)'
        BY Zenon, <1>0, <2>1, <4>1 DEF Settled, ManifestOK
      <4>3. HolderOK(w)'
        BY Zenon, <3>2, <4>1, <4>2, HolderSettled
      <4> QED BY Zenon, <1>2, <2>1, <2>2, <2>3, <2>4, <3>2, <4>3
    <3> QED BY Zenon, <3>3, <3>4
  <2>5. CASE ~Known(m)
    <3>1. Moves(w, "commit")
      BY Zenon, <1>9, <2>2, <2>5, ReadMoves DEF PutCompound
    <3>2. /\ Leaves(w, worker'[w].pc) /\ worker'[w].pc = "commit" /\ worker'[w].msg = m
          /\ worker'[w].seen = worker[w].seen /\ worker'[w].promote = worker[w].promote
      BY Zenon, <2>2, <3>1 DEF Moves, Leaves, Msg
    <3>3. ~Known(m)' /\ cut' = cut /\ record' = record
      BY Zenon, <2>1, <2>5 DEF Known
    <3>4. HasIdentity(worker'[w].seen) <=> HasIdentity(canon)'
      BY Zenon, <1>0, <2>1, <2>3, <3>2 DEF HolderOK, HasIdentity
    <3>5. m \notin cut => (record[m].canonical <=> ~HasIdentity(worker[w].seen) \/ worker[w].promote)
      BY Zenon, <1>0, <2>1, <2>2, <2>5 DEF HolderOK
    <3>6. HolderOK(w)'
      BY Zenon, <2>3, <3>2, <3>3, <3>4, <3>5, HolderReads DEF HasIdentity
    <3> QED BY Zenon, <1>2, <2>1, <2>3, <3>2, <3>6
  <2> QED BY Zenon, <2>4, <2>5
<1>10. CASE IngestInProgress(w) \/ Fail(w)
  <2>1. /\ Stops(w) /\ UNCHANGED <<canon, record, recorded, crowned>>
        /\ cut' = cut \cup {Msg(w)} /\ done' = done \ {Msg(w)}
    BY Zenon, <1>10, WorkerMoves DEF IngestInProgress, Fail
  <2> QED BY Zenon, <1>3, <2>1
<1>11. CASE Finish(w)
  <2>1. /\ Stops(w) /\ UNCHANGED <<canon, record, recorded, crowned, cut>>
        /\ done' = done \cup {Msg(w)} /\ worker[w].pc = "finish"
    BY Zenon, <1>11, WorkerMoves DEF Finish, At
  <2>2. PICK m : Msg(w) = m
    BY Zenon
  <2>3. Settled(m)
    BY Zenon, <1>0, <2>1, <2>2 DEF HolderOK
  <2>4. Settled(m)'
    BY Zenon, <2>1, <2>3, SettledStays
  <2>5. worker[w].pc \notin {"put", "commit", "variant"}
    BY <2>1
  <2> QED BY Zenon, <1>3, <2>1, <2>2, <2>4, <2>5
<1>12. CASE WriteVariant(w)
  <2>1. /\ worker[w].pc = "variant" /\ UNCHANGED <<canon, record, history>> /\ Moves(w, "finish")
        /\ stored' = [stored EXCEPT ![Msg(w)] = @ \cup {"variant"}]
    BY Zenon, <1>12, WorkerMoves DEF WriteVariant, At
  <2>2. PICK m \in Archive : Msg(w) = m
    BY Zenon, <1>0, <2>1 DEF JobOK, At
  <2>3. "variant" \in stored'[m] /\ worker'[w].pc = "finish" /\ worker'[w].msg = m /\ OthersStay(w)
    BY Zenon, <1>0, <2>1, <2>2 DEF RecordTypes, Moves, Msg
  <2>4. Settled(m)'
    BY Zenon, <2>3 DEF Settled, HasVariant
  <2>5. HolderOK(w)'
    BY Zenon, <2>3, <2>4, HolderSettled
  <2>6. worker[w].pc \notin {"put", "commit"}
    BY Zenon, <2>1
  <2>7. MailsOK'
    BY Zenon, <2>1, <2>2, <2>3, <2>6, MailsQuiet
  <2> QED BY Zenon, <1>1, <2>1, <2>3, <2>5, <2>7
<1>13. CASE WriteMembership(w) \/ AttachProvenance(w)
  <2>1. worker[w].pc \in {"membership", "attach"} /\ UNCHANGED <<canon, record, history>>
    BY Zenon, <1>13 DEF WriteMembership, AttachProvenance, At
  <2>2. PICK pc \in {"finish", "attached"} : Moves(w, pc)
    <3>1. CASE WriteMembership(w)
      BY Zenon, <3>1, WorkerMoves DEF WriteMembership
    <3>2. CASE AttachProvenance(w)
      <4>1. Go(w, "finish") \/ worker' = [worker EXCEPT ![w].pc = "attached", ![w].base = canon]
        BY Zenon, <3>2 DEF AttachProvenance
      <4> QED BY Zenon, <4>1, WorkerMoves, ReadMoves
    <3> QED BY Zenon, <1>13, <3>1, <3>2
  <2>3. PICK m : Msg(w) = m
    BY Zenon
  <2>4. Leaves(w, worker'[w].pc) /\ worker'[w].pc = pc /\ worker'[w].msg = m
    BY Zenon, <2>2, <2>3 DEF Moves, Leaves, Msg
  <2>5. Settled(m)
    BY Zenon, <1>0, <2>1, <2>3 DEF HolderOK
  <2>6. Settled(m)'
    BY Zenon, <2>1, <2>5, SettledStays
  <2>7. HolderOK(w)'
    BY Zenon, <2>4, <2>6, HolderSettled
  <2>8. ~At(w, "variant") /\ worker[w].pc \notin {"put", "commit"}
    BY <2>1 DEF At
  <2> QED BY Zenon, <1>2, <2>1, <2>4, <2>7, <2>8
<1> QED
  BY Zenon, <1>4, <1>5, <1>6, <1>7, <1>8, <1>9, <1>10, <1>11, <1>12, <1>13 DEF quietStep

\* A commit keeps the promises of one process: the mail was not recorded, its
\* record says what the commit makes of it, and it is canonical in full or goes on
\* to its variant.
LEMMA OneProcessCommit ==
  ASSUME Shape, Holds, OneProcess, VersionFacts, VersionFacts', Kept, MailsOK,
         \A v \in Workers : HolderOK(v), NEW w \in Workers, CommitCompound(w)
  PROVE  MailsOK' /\ \A v \in Workers : HolderOK(v)'
<1> USE DEF Shared, Bounds
<1>0. JobOK(w) /\ HolderOK(w) /\ ManifestOK /\ RecordTypes
  BY Zenon DEF VersionFacts
<1>1. /\ worker[w].pc = "commit" /\ Leaves(w, AfterPut(w)) /\ UNCHANGED <<record, stored, done, cut>>
      /\ recorded' = recorded \cup {Msg(w)}
      /\ crowned' = IF HasIdentity(worker[w].seen) /\ ~worker[w].promote THEN crowned ELSE crowned \cup {Msg(w)}
  BY Zenon, WorkerMoves DEF CommitCompound, At
<1>2. PICK m \in Archive : Msg(w) = m
  BY Zenon, <1>0, <1>1 DEF JobOK, At
<1>3. OthersStay(w) /\ worker'[w].pc = AfterPut(w) /\ worker'[w].msg = m /\ PastLock(w)
  BY <1>1, <1>2 DEF Leaves, Msg, PastLock
<1>4. ~Known(m) /\ m \notin recorded /\ m \notin crowned
  <2>1. ~Known(m)
    BY Zenon, <1>0, <1>1, <1>2 DEF HolderOK, At
  <2> QED BY Zenon, <1>0, <2>1, RecordedKnown DEF ManifestOK
<1>5. record[m] # None /\ (HasIdentity(worker[w].seen) <=> HasIdentity(canon))
  BY Zenon, <1>0, <1>1, <1>2 DEF JobOK, HolderOK, Reading
<1>6. HasVariant(m)' \/ worker'[w].pc = "variant"
  <2> SUFFICES ASSUME ~HasIdentity(worker[w].seen) PROVE HasVariant(m)'
    BY Zenon, <1>3 DEF AfterPut
  <2>1. record'[m].full
    BY Zenon, <1>0, <1>1, <1>5 DEF RecordTypes
  <2> QED BY Zenon, <2>1 DEF HasVariant
<1>7. HolderOK(w)'
  <2>1. CASE worker'[w].pc = "variant"
    BY Zenon, <2>1, HolderOff
  <2>2. CASE worker'[w].pc # "variant"
    <3>1. worker'[w].pc = "finish" /\ Settled(m)'
      BY Zenon, <1>3, <1>6, <2>2 DEF AfterPut, Settled
    <3> QED BY Zenon, <1>3, <3>1, HolderSettled
  <2> QED BY Zenon, <2>1, <2>2
<1>8. \A v \in Workers : HolderOK(v)'
  BY Zenon, <1>3, <1>7, OthersOff
<1>9. Known(m)'
  BY Zenon, <1>1, <1>2, RecordedKnown
<1>10. ASSUME NEW k \in Archive \ cut', record'[k] # None, ~Known(k)'
       PROVE  \E v \in Workers : worker'[v].pc \in {"put", "commit"} /\ Msg(v)' = k
  <2>1. record[k] # None /\ ~Known(k) /\ k # m /\ k \in Archive \ cut
    BY Zenon, <1>1, <1>9, <1>10 DEF Kept
  <2>2. PICK v \in Workers : worker[v].pc \in {"put", "commit"} /\ Msg(v) = k
    BY Zenon, <2>1 DEF MailsOK
  <2>3. worker'[v] = worker[v]
    BY Zenon, <1>2, <1>3, <2>1, <2>2 DEF OthersStay
  <2> QED BY Zenon, <2>2, <2>3 DEF Msg
<1>11. ASSUME NEW k \in recorded' \ cut'
       PROVE  HasVariant(k)' \/ \E v \in Workers : At(v, "variant")' /\ Msg(v)' = k
  <2>1. CASE k = m
    BY Zenon, <1>3, <1>6, <2>1 DEF At, Msg
  <2>2. CASE k # m
    <3>1. k \in recorded \ cut
      BY Zenon, <1>1, <1>2, <1>11, <2>2
    <3>2. HasVariant(k) => HasVariant(k)'
      BY Zenon, <1>1 DEF HasVariant
    <3>3. ASSUME NEW v \in Workers, At(v, "variant") PROVE FALSE
      <4>1. v # w /\ PastLock(v)
        BY <1>1, <3>3 DEF At, PastLock
      <4> QED BY Zenon, <1>3, <4>1, OneHolder
    <3> QED BY Zenon, <3>1, <3>2, <3>3 DEF MailsOK
  <2> QED BY Zenon, <2>1, <2>2
<1>12. ASSUME NEW k \in recorded' \ cut' PROVE record'[k].canonical <=> k \in crowned'
  <2>1. CASE k = m
    <3>1. record[m].canonical <=> ~HasIdentity(worker[w].seen) \/ worker[w].promote
      BY Zenon, <1>0, <1>1, <1>2, <1>4, <1>12, <2>1 DEF HolderOK
    <3>2. m \in crowned' <=> ~(HasIdentity(worker[w].seen) /\ ~worker[w].promote)
      BY Zenon, <1>1, <1>2, <1>4
    <3> QED BY Zenon, <1>1, <2>1, <3>1, <3>2
  <2>2. CASE k # m
    <3>1. k \in recorded \ cut /\ (k \in crowned' <=> k \in crowned)
      BY Zenon, <1>1, <1>2, <1>12, <2>2
    <3> QED BY Zenon, <1>1, <3>1 DEF MailsOK
  <2> QED BY Zenon, <2>1, <2>2
<1>13. ASSUME NEW k \in done', k \notin {Msg(v)' : v \in Workers} PROVE Settled(k)'
  <2>1. k # m /\ k \in done
    BY Zenon, <1>1, <1>3, <1>13 DEF Msg
  <2>2. k \notin {Msg(v) : v \in Workers}
    <3> SUFFICES ASSUME NEW v \in Workers, k = Msg(v) PROVE FALSE
      BY Zenon
    <3>1. worker'[v] = worker[v]
      BY Zenon, <1>2, <1>3, <2>1 DEF OthersStay
    <3> QED BY Zenon, <1>13, <3>1 DEF Msg
  <2>3. Settled(k)
    BY Zenon, <2>1, <2>2 DEF MailsOK
  <2>4. cut \subseteq cut' /\ crowned \subseteq crowned' /\ (k \in recorded' => k \in recorded)
    BY Zenon, <1>1, <1>2, <2>1
  <2> QED BY Zenon, <2>3, <2>4, SettledStays
<1>14. MailsOK'
  BY Zenon, <1>10, <1>11, <1>12, <1>13 DEF MailsOK
<1> QED BY Zenon, <1>8, <1>14

\* Steps that only let FILESTORE know more and end jobs as cut keep them.
LEMMA MailsGrow ==
  ASSUME VersionFacts, Kept, MailsOK, UNCHANGED <<record, stored, recorded, crowned>>,
         cut \subseteq cut', done' \subseteq done,
         \A v \in Workers : \/ worker'[v].msg = worker[v].msg
                               /\ (worker[v].pc \in {"put", "commit", "variant"} => worker'[v].pc = worker[v].pc)
                            \/ Msg(v) \in cut' /\ Msg(v) \notin done'
  PROVE  MailsOK'
<1>1. ASSUME NEW m \in Archive \ cut', record'[m] # None, ~Known(m)'
      PROVE  \E v \in Workers : worker'[v].pc \in {"put", "commit"} /\ Msg(v)' = m
  <2>1. record[m] # None /\ ~Known(m) /\ m \in Archive \ cut
    BY Zenon, <1>1 DEF Kept
  <2>2. PICK v \in Workers : worker[v].pc \in {"put", "commit"} /\ Msg(v) = m
    BY Zenon, <2>1 DEF MailsOK
  <2>3. worker'[v].pc = worker[v].pc /\ worker'[v].msg = worker[v].msg
    BY Zenon, <1>1, <2>2
  <2> QED BY Zenon, <2>2, <2>3 DEF Msg
<1>2. ASSUME NEW m \in recorded' \ cut'
      PROVE  HasVariant(m)' \/ \E v \in Workers : At(v, "variant")' /\ Msg(v)' = m
  <2>1. m \in recorded \ cut /\ (HasVariant(m) => HasVariant(m)')
    BY Zenon, <1>2 DEF HasVariant
  <2>2. ASSUME NEW v \in Workers, At(v, "variant"), Msg(v) = m PROVE At(v, "variant")' /\ Msg(v)' = m
    BY Zenon, <1>2, <2>2 DEF At, Msg
  <2> QED BY Zenon, <2>1, <2>2 DEF MailsOK
<1>3. ASSUME NEW m \in recorded' \ cut' PROVE record'[m].canonical <=> m \in crowned'
  BY Zenon, <1>3 DEF MailsOK
<1>4. ASSUME NEW m \in done', m \notin {Msg(v)' : v \in Workers} PROVE Settled(m)'
  <2>1. m \notin {Msg(v) : v \in Workers}
    <3> SUFFICES ASSUME NEW v \in Workers, m = Msg(v) PROVE FALSE
      BY Zenon
    <3>1. worker'[v].msg = worker[v].msg
      BY Zenon, <1>4
    <3> QED BY Zenon, <1>4, <3>1 DEF Msg
  <2>2. Settled(m)
    BY Zenon, <1>4, <2>1 DEF MailsOK
  <2> QED BY Zenon, <2>2, SettledStays
<1> QED BY Zenon, <1>1, <1>2, <1>3, <1>4 DEF MailsOK

\* At first there is no mail.
LEMMA OneProcessInit == Init => OneProcessInv
<1> SUFFICES ASSUME Init PROVE MailsOK /\ \A w \in Workers : HolderOK(w)
  BY Zenon DEF OneProcessInv
<1>1. MailsOK
  BY Zenon DEF Init, MailsOK
<1>2. ASSUME NEW w \in Workers PROVE HolderOK(w)
  <2>1. worker[w].pc = "idle"
    BY Zenon DEF Init, Idle
  <2> QED BY <2>1 DEF HolderOK, At, Reading
<1> QED BY Zenon, <1>1, <1>2

\* Every step keeps the promises of one process.
LEMMA OneProcessStep ==
  ASSUME LockInv, VersionsInv, VersionsInv', OneProcessInv, [Next]_vars
  PROVE  OneProcessInv'
<1> USE DEF Shared, Bounds, store, history
<1> SUFFICES ASSUME ~overlapped', OneProcess' PROVE MailsOK' /\ \A v \in Workers : HolderOK(v)'
  BY Zenon DEF OneProcessInv
<1>1. Shape /\ Holds
  BY Zenon DEF LockInv
<1>2. ~overlapped /\ VersionFacts /\ VersionFacts' /\ Kept
  <2>1. ~overlapped /\ VersionFacts /\ Kept
    BY Zenon, <1>1, VersionsStep
  <2> QED BY Zenon, <2>1 DEF VersionsInv
<1>3. OneProcess
  <2>1. procOf' = procOf
    BY Zenon DEF Next, Begin, LockMessageID, Lookup, CanonicalBodyOrder, ShouldPromote, WriteVersionRecord, PutCompound,
       IngestInProgress, CommitCompound, WriteVariant, WriteMembership, AttachProvenance, CommitProvenance, Finish,
       Fail, Crash, GmailPut, GmailCommit, vars, control
  <2> QED BY Zenon, <2>1 DEF OneProcess
<1>4. MailsOK /\ \A v \in Workers : HolderOK(v)
  BY Zenon, <1>2, <1>3 DEF OneProcessInv
<1>5. ASSUME NEW w \in Workers, quietStep(w) \/ WriteVersionRecord(w)
      PROVE  MailsOK' /\ \A v \in Workers : HolderOK(v)'
  BY Zenon, <1>1, <1>2, <1>3, <1>4, <1>5, OneProcessQuiet
<1>6. ASSUME NEW w \in Workers, CommitCompound(w) PROVE MailsOK' /\ \A v \in Workers : HolderOK(v)'
  BY Zenon, <1>1, <1>2, <1>3, <1>4, <1>6, OneProcessCommit
<1>7. ASSUME NEW w \in Workers, CommitProvenance(w) PROVE MailsOK' /\ \A v \in Workers : HolderOK(v)'
  <2>1. /\ worker[w].pc = "attached" /\ Leaves(w, "finish")
        /\ UNCHANGED <<record, stored, recorded, crowned, cut, done>>
    BY Zenon, <1>1, <1>7, WorkerMoves DEF CommitProvenance, At
  <2>2. PICK m : Msg(w) = m
    BY Zenon
  <2>3. OthersStay(w) /\ worker'[w].pc = "finish" /\ worker'[w].msg = m /\ worker'[w].msg = worker[w].msg
    BY Zenon, <2>1, <2>2 DEF Leaves, Msg
  <2>4. PastLock(w) /\ worker[w].pc \notin {"put", "commit", "variant"}
    BY <2>1 DEF PastLock
  <2>5. Settled(m)'
    <3>1. Settled(m)
      BY Zenon, <1>4, <2>1, <2>2 DEF HolderOK
    <3> QED BY Zenon, <1>2, <2>1, <3>1, SettledStays
  <2>6. HolderOK(w)'
    BY Zenon, <2>3, <2>5, HolderSettled
  <2>7. \A v \in Workers : HolderOK(v)'
    BY Zenon, <1>1, <1>2, <1>3, <2>3, <2>4, <2>6, OthersOff
  <2>8. MailsOK'
    BY Zenon, <1>2, <1>4, <2>1, <2>3, <2>4, MailsGrow DEF OthersStay
  <2> QED BY Zenon, <2>7, <2>8
<1>8. ASSUME NEW p \in Procs, Crash(p) PROVE MailsOK' /\ \A v \in Workers : HolderOK(v)'
  <2>1. /\ UNCHANGED <<canon, record, stored, recorded, crowned>> /\ cut \subseteq cut' /\ done' \subseteq done
        /\ \A v \in Workers : worker'[v] = worker[v] \/ (worker'[v] = Idle /\ Msg(v) \in cut' /\ Msg(v) \notin done')
    BY Zenon, <1>8 DEF Crash
  <2>2. Idle.pc = "idle"
    BY DEF Idle
  <2>3. (HasIdentity(canon)' <=> HasIdentity(canon)) /\ \A m \in Archive : Known(m)' <=> Known(m)
    BY Zenon, <2>1 DEF HasIdentity, Known
  <2>4. ASSUME NEW v \in Workers PROVE HolderOK(v)'
    <3>1. CASE worker'[v] = Idle
      BY Zenon, <2>2, <3>1, HolderOff
    <3>2. CASE worker'[v] = worker[v]
      BY Zenon, <1>2, <1>4, <2>1, <2>3, <3>2, HolderStays
    <3> QED BY Zenon, <2>1, <3>1, <3>2
  <2>5. MailsOK'
    BY Zenon, <1>2, <1>4, <2>1, MailsGrow
  <2> QED BY Zenon, <2>4, <2>5
<1>9. ASSUME \/ GmailCommit
             \/ \E g \in GmailMail : GmailPut(g)
             \/ UNCHANGED vars
      PROVE  MailsOK' /\ \A v \in Workers : HolderOK(v)'
  <2>1. UNCHANGED <<record, stored, worker, recorded, crowned, cut, done>>
    BY Zenon, <1>9 DEF GmailCommit, GmailPut, vars, control
  <2>2. (HasIdentity(canon)' <=> HasIdentity(canon)) /\ \A m \in Archive : Known(m)' <=> Known(m)
    <3>1. CASE GmailCommit
      BY Zenon, <1>2, <3>1, VersionsGmail DEF VersionsInv
    <3>2. CASE canon' = canon
      BY Zenon, <3>2 DEF HasIdentity, Known
    <3>3. GmailCommit \/ canon' = canon
      BY Zenon, <1>9 DEF GmailPut, vars
    <3> QED BY Zenon, <3>1, <3>2, <3>3
  <2>3. \A v \in Workers : HolderOK(v)'
    BY Zenon, <1>2, <1>4, <2>1, <2>2, HolderStays
  <2>4. MailsOK'
    BY Zenon, <1>2, <1>4, <2>1, MailsGrow
  <2> QED BY Zenon, <2>3, <2>4
<1> QED BY Zenon, <1>5, <1>6, <1>7, <1>8, <1>9 DEF Next, quietStep

-----------------------------------------------------------------------------
(* The theorems on the version set *)

\* The three invariants hold together.
LEMMA VersionsHold == Spec => [](LockInv /\ VersionsInv /\ OneProcessInv)
<1>1. Init => LockInv /\ VersionsInv /\ OneProcessInv
  BY Zenon, LockInvInit, VersionsInit, OneProcessInit
<1>2. LockInv /\ VersionsInv /\ OneProcessInv /\ [Next]_vars => (LockInv /\ VersionsInv /\ OneProcessInv)'
  <2> SUFFICES ASSUME LockInv, VersionsInv, OneProcessInv, [Next]_vars PROVE LockInv' /\ VersionsInv' /\ OneProcessInv'
    BY Zenon
  <2>1. LockInv'
    BY Zenon, LockInvStep
  <2>2. VersionsInv'
    BY Zenon, VersionsStep DEF LockInv
  <2>3. OneProcessInv'
    BY Zenon, <2>2, OneProcessStep
  <2> QED BY Zenon, <2>1, <2>2, <2>3
<1> QED BY <1>1, <1>2, PTL DEF Spec

\* The canonical view of a version set is of one mail: while no manifest write
\* replaces a manifest its writer had not read, Gmail writes over no manifest of
\* the importer and no promotion loses its body order, the facet, the version set
\* and the canonical parts that CanonicalManifest and VariantManifest leave agree.
THEOREM VersionsAlwaysCoherent == Spec => []CanonicalCoherent
<1>1. VersionsInv => CanonicalCoherent
  BY Zenon DEF VersionsInv, VersionFacts, ManifestOK, CoherentManifest, CanonicalCoherent
<1> QED BY <1>1, VersionsHold, PTL

\* An import that returned without error has landed its mail: FILESTORE knows it
\* or has its membership, and in one process a mail whose record a manifest lists
\* has its full record, its variant or, after an attempt that was cut, a canonical
\* body it was taken to be a duplicate of.
THEOREM ImportsAlwaysLand == Spec => []ImportsLand
<1>1. VersionsInv /\ OneProcessInv => ImportsLand
  <2> SUFFICES ASSUME VersionsInv, OneProcessInv, ~overlapped
               PROVE  /\ \A m \in done : Known(m) \/ "membership" \in stored[m]
                      /\ OneProcess => \A m \in (done \cap recorded) \ {Msg(w) : w \in Workers} :
                            HasVariant(m) \/ OwnDuplicate(m)
    BY Zenon DEF ImportsLand, HasVariant, OwnDuplicate, Shown
  <2>1. \A m \in done : Known(m) \/ "membership" \in stored[m]
    BY Zenon DEF VersionsInv, VersionFacts, LandedOK
  <2>2. ASSUME OneProcess, NEW m \in (done \cap recorded) \ {Msg(w) : w \in Workers}
        PROVE  HasVariant(m) \/ OwnDuplicate(m)
    BY Zenon, <2>2 DEF OneProcessInv, MailsOK, Settled
  <2> QED BY Zenon, <2>1, <2>2
<1> QED BY <1>1, VersionsHold, PTL

INSTANCE FiniteSetTheorems

\* As many records as slots.
LEMMA RecordCount ==
  ASSUME NEW n \in Nat
  PROVE  Cardinality({RecordSlot(k) : k \in 0 .. n - 1}) = n
<1> DEFINE S == 0 .. n - 1
           T == {RecordSlot(k) : k \in S}
           f == [k \in S |-> RecordSlot(k)]
<1>1. IsFiniteSet(S) /\ Cardinality(S) = n
  <2>1. 0 \in Int /\ n - 1 \in Int
    OBVIOUS
  <2>2. /\ IsFiniteSet(0 .. n - 1)
        /\ Cardinality(0 .. n - 1) = IF 0 > n - 1 THEN 0 ELSE (n - 1) - 0 + 1
    BY Zenon, <2>1, FS_Interval
  <2> QED BY <2>2
<1>2. S \subseteq Nat
  OBVIOUS
<1> HIDE DEF S
<1>3. f \in Bijection(S, T)
  BY Zenon, <1>2, RecordSlots DEF Bijection, Injection, Surjection, IsInjective
<1>4. ExistsBijection(S, T)
  BY Zenon, <1>3 DEF ExistsBijection
<1> HIDE DEF T
<1>5. Cardinality(T) = Cardinality(S)
  BY Zenon, <1>1, <1>4, FS_Bijection
<1> QED BY Zenon, <1>1, <1>5 DEF S, T

\* The records are what was imported: the count of a version set is the number of
\* its records, they are the mails whose commit added one, and in one process the
\* record of a mail that was never cut says whether the mail became canonical.
THEOREM RecordsAlwaysTruthful == Spec => []RecordsTruthful
<1>1. VersionsInv /\ OneProcessInv => RecordsTruthful
  <2> SUFFICES ASSUME VersionsInv, OneProcessInv, ~overlapped
               PROVE  /\ HasIdentity(canon) =>
                            /\ canon.mail.count = Cardinality(RecordsIn(canon))
                            /\ {canon.parts[s] : s \in RecordsIn(canon)} = recorded
                      /\ OneProcess => \A m \in recorded \ cut : record[m].canonical <=> m \in crowned
    BY Zenon DEF RecordsTruthful
  <2>1. ManifestOK
    BY Zenon DEF VersionsInv, VersionFacts
  <2>2. ASSUME HasIdentity(canon)
        PROVE  canon.mail.count = Cardinality(RecordsIn(canon)) /\ {canon.parts[s] : s \in RecordsIn(canon)} = recorded
    <3>1. Versioned(canon, recorded, Shown) /\ IsManifest(canon)
      BY Zenon, <2>1, <2>2 DEF ManifestOK, HasIdentity
    <3>2. PICK n \in Nat : n = canon.mail.count
      BY Zenon, <3>1 DEF IsManifest, MailFacets
    <3>3. RecordsIn(canon) = {RecordSlot(k) : k \in 0 .. n - 1}
      BY Zenon, <3>1, <3>2 DEF Versioned
    <3>4. Cardinality(RecordsIn(canon)) = n
      BY Zenon, <3>3, RecordCount
    <3> QED BY Zenon, <3>1, <3>2, <3>4 DEF Versioned
  <2>3. OneProcess => \A m \in recorded \ cut : record[m].canonical <=> m \in crowned
    BY Zenon DEF OneProcessInv, MailsOK
  <2> QED BY Zenon, <2>2, <2>3
<1> QED BY <1>1, VersionsHold, PTL
=============================================================================
