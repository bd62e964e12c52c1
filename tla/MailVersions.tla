---------------------------- MODULE MailVersions ----------------------------
(***************************************************************************)
(* The version set of one RFC Message-ID in FILESTORE, as the archive      *)
(* importer (source/archive_import.go) and the Gmail adapter write it.     *)
(*                                                                         *)
(* All mail of one Message-ID shares one compound object, whose manifest   *)
(* every PutCompound merges into: a read, a merge, a commit, under no      *)
(* lock.  The importer serialises its own workers by a lock per Message-ID *)
(* that lives in the process; two import processes, or an import beside a  *)
(* Gmail hydration, share only FILESTORE.  A job may be cut by an error or *)
(* a crash between any two of its writes and is then delivered again.      *)
(*                                                                         *)
(* Abstractions: a mail is its headers, its body and at most one           *)
(* attachment, each a content; digests, fingerprints and version ids are   *)
(* the contents they hash.  Archive mails are distinct source objects      *)
(* (path, offset and content version).  An ingest claim ends with its      *)
(* holder (SourceBackfill has its expiry).  A dry run writes nothing and   *)
(* is left out, as are the counters of the report.                         *)
(***************************************************************************)
EXTENDS Naturals, FiniteSets

CONSTANTS Archive,      \* archive mails with this Message-ID
          GmailMail,    \* Gmail messages with this Message-ID
          Content,      \* [mail -> [head, body, att]]
          Size,         \* [body -> length]
          Workers,      \* import workers
          Procs,        \* import processes
          None,         \* absent facet, record, attachment, lock holder
          Identity,     \* the provenance mail_identity/rfc_message_id/<id>
          MaxDeliveries,\* bound: jobs the workers take
          MaxFaults     \* bound: failed calls to FILESTORE and crashes

Mail == Archive \cup GmailMail
\* Version scales; 0 is trivial.
Minor == 1
Major == 2

Fingerprint(m) == <<Content[m].head, Content[m].body>>

\* The version_set facet and the version record of a mail.
VersionSets == [canonicalId : {Fingerprint(m) : m \in Mail}, count : Nat \ {0}, scale : {Minor, Major}]
VersionRecords == [full : BOOLEAN, canonical : BOOLEAN]

ASSUME MailAssumption ==
  /\ Archive \cap GmailMail = {}
  /\ \A m \in Mail : Size[Content[m].body] \in Nat
  /\ {MaxDeliveries, MaxFaults} \subseteq Nat
  /\ None \notin Workers \cup Mail \cup VersionSets \cup VersionRecords
  /\ Identity \notin Mail

VARIABLES
  canon,     \* manifest of the compound mail_message:<id>, or NoManifest
  record,    \* record[m]: the stored version record of m, or None
  stored,    \* stored[m]: the other objects stored for m
  worker,    \* worker[w]: the job a worker is on
  gmail,     \* the hydration in progress
  lock,      \* lock[p]: the holder of the Message-ID lock of process p
  attachLock,\* the holder of FILESTORE's manifest lock (AttachProvenance only)
  procOf,    \* the process each worker runs in
  lowNoise,  \* whether the import runs with --low-noise
  deliveries, faults

\* What happened, for the properties.
VARIABLES
  done,       \* archive mails whose last attempt to end returned without error
  cut,        \* archive mails with an attempt ended by an error or a crash
  recorded,   \* archive mails whose record a manifest write added
  crowned,    \* archive mails a manifest write made canonical
  overlapped, \* a manifest write replaced a manifest its writer had not read
  orderLost,  \* a promotion stored its body beside the canonical body slot
  gmailWrote  \* what Gmail wrote into: "over" a manifest of the importer or not

store == <<canon, record, stored>>
control == <<worker, gmail, lock, attachLock, procOf, lowNoise, deliveries, faults>>
history == <<done, cut, recorded, crowned, overlapped, orderLost, gmailWrote>>
vars == <<store, control, history>>

-----------------------------------------------------------------------------
\* Content

Slot(role, order) == <<role, order>>
BodySlot == Slot("email_body", 1)
HeaderSlot == Slot("rfc822_headers", 0)
RecordSlot(n) == Slot("version_record", 100 + n)

\* The parts new, and those of old whose slots they leave.
Onto(new, old) ==
  [s \in DOMAIN new \cup DOMAIN old |-> IF s \in DOMAIN new THEN new[s] ELSE old[s]]

\* A part alone, and none.
Part(slot, content) == [s \in {slot} |-> content]
NoParts == [s \in {} |-> None]

\* The parts of a mail as slots of the compound.
MessageParts(m, bodyOrder, attachmentOrder) ==
  Onto(Part(HeaderSlot, Content[m].head),
       Onto(Part(Slot("email_body", bodyOrder), Content[m].body),
            IF Content[m].att = None THEN NoParts
            ELSE Part(Slot("attachment", attachmentOrder), Content[m].att)))

\* archiveMailMetadata: the mail facet written for m.
MailFacet(m, collision, scale, count, canonicalId) ==
  [subject |-> Content[m].head, bodyLine |-> Content[m].body, collision |-> collision,
   scale |-> scale, count |-> count, canonicalId |-> canonicalId]

Larger(a, b) == IF b > a THEN b ELSE a

-----------------------------------------------------------------------------
\* mergeManifest

\* mergeFacetMetadata of the mail facet: the incoming values win, except that
\* counts, scales and the collision mark only grow and the canonical id of a
\* larger count stands.
MergeMailFacet(old, new) ==
  [new EXCEPT !.count = Larger(old.count, @),
              !.scale = Larger(old.scale, @),
              !.collision = old.collision \/ @,
              !.canonicalId = IF old.count > new.count THEN old.canonicalId ELSE @]

\* What stands for the manifest of a compound that does not exist.
NoManifest == [absent |-> TRUE]

\* An incoming part takes its slot; the version_set facet is overwritten.
MergeManifest(old, new) ==
  IF old = NoManifest THEN new
  ELSE [mail |-> MergeMailFacet(old.mail, new.mail),
        set |-> IF new.set = None THEN old.set ELSE new.set,
        parts |-> Onto(new.parts, old.parts),
        prov |-> old.prov \cup new.prov]

HasIdentity(manifest) == manifest # NoManifest /\ Identity \in manifest.prov
Known(m) == canon # NoManifest /\ m \in canon.prov

\* ingestCanonicalMessage: the manifest of a first archive mail.
CanonicalManifest(m) ==
  [mail |-> MailFacet(m, FALSE, Minor, 1, Fingerprint(m)),
   set |-> [canonicalId |-> Fingerprint(m), count |-> 1, scale |-> Minor],
   parts |-> Onto(Part(RecordSlot(0), m), MessageParts(m, 1, 10)),
   prov |-> {m, Identity}]

\* Mutated form of VariantParts: a promoted version leaves the canonical content.
VariantPartsRecordOnly(m, seen, promote, bodyOrder) == Part(RecordSlot(seen.mail.count), m)

\* The parts a further version adds: its record in the next slot and, when it
\* is promoted, its content over the canonical one.
VariantParts(m, seen, promote, bodyOrder) ==
  Onto(Part(RecordSlot(seen.mail.count), m),
       IF promote THEN MessageParts(m, bodyOrder, 10) ELSE NoParts)

\* ingestVariantMessage: the manifest of a further version, from the manifest
\* the worker read, and the two decisions it made since.
VariantManifest(m, seen, scale, promote, bodyOrder) ==
  LET maxScale == Larger(seen.mail.scale, scale)
      count == seen.mail.count + 1
      canonicalId == IF promote THEN Fingerprint(m) ELSE seen.mail.canonicalId
  IN [mail |-> IF promote THEN MailFacet(m, TRUE, maxScale, count, canonicalId)
               ELSE [seen.mail EXCEPT !.collision = TRUE, !.count = count, !.scale = maxScale],
      set |-> [canonicalId |-> canonicalId, count |-> count, scale |-> maxScale],
      parts |-> VariantParts(m, seen, promote, bodyOrder),
      prov |-> {m}]

\* The compound of a Gmail message: no identity, no version set.
GmailManifest(g) ==
  [mail |-> MailFacet(g, FALSE, Minor, 1, Fingerprint(g)), set |-> None,
   parts |-> MessageParts(g, 1, 3), prov |-> {g}]

\* archiveVersionScale, for a body that differs.
VersionScale(facet, m) == IF facet.subject = Content[m].head THEN Minor ELSE Major

LongerThanCanonical(m, seen) == Size[Content[m].body] > Size[seen.parts[BodySlot]]

\* A longer body takes the canonical slot, another goes beside it.
BodyOrder(m, seen) == IF LongerThanCanonical(m, seen) THEN 1 ELSE 1000

-----------------------------------------------------------------------------
Idle == [pc |-> "idle", msg |-> None, seen |-> NoManifest, base |-> NoManifest,
         order |-> 1, promote |-> FALSE]

Init ==
  /\ canon = NoManifest
  /\ record = [m \in Archive |-> None]
  /\ stored = [m \in Archive |-> {}]
  /\ worker = [w \in Workers |-> Idle]
  /\ gmail = [msg |-> None, base |-> NoManifest]
  /\ lock = [p \in Procs |-> None]
  /\ attachLock = None
  /\ procOf \in [Workers -> Procs]
  /\ lowNoise \in BOOLEAN
  /\ deliveries = 0
  /\ faults = 0
  /\ done = {} /\ cut = {} /\ recorded = {} /\ crowned = {}
  /\ overlapped = FALSE /\ orderLost = FALSE /\ gmailWrote = {}

At(w, pc) == worker[w].pc = pc
Msg(w) == worker[w].msg
Go(w, pc) == worker' = [worker EXCEPT ![w].pc = pc]

\* Goes on without what it has read.
Forget(w, pc) == worker' = [worker EXCEPT ![w] = [Idle EXCEPT !.pc = pc, !.msg = Msg(w)]]

Shared == <<gmail, procOf, lowNoise>>
Bounds == <<deliveries, faults>>

\* A worker takes a job: a first delivery, a redelivery or a second run.
Begin(w, m) ==
  /\ At(w, "idle")
  /\ deliveries < MaxDeliveries
  /\ deliveries' = deliveries + 1
  /\ worker' = [worker EXCEPT ![w] = [Idle EXCEPT !.pc = "lock", !.msg = m]]
  /\ done' = done \ {m}
  /\ UNCHANGED <<store, lock, attachLock, Shared, faults,
                 cut, recorded, crowned, overlapped, orderLost, gmailWrote>>

\* Mutated form of LockMessageID: the lock is taken without waiting for it.
LockMessageIDSkipped(w) ==
  /\ At(w, "lock")
  /\ lock' = [lock EXCEPT ![procOf[w]] = w]
  /\ Go(w, "lookup")
  /\ UNCHANGED <<store, attachLock, Shared, Bounds, history>>

\* lockMessageID
LockMessageID(w) ==
  /\ At(w, "lock")
  /\ lock[procOf[w]] = None
  /\ lock' = [lock EXCEPT ![procOf[w]] = w]
  /\ Go(w, "lookup")
  /\ UNCHANGED <<store, attachLock, Shared, Bounds, history>>

\* The identity lookup of ingestArchiveMessage and, on a hit, the manifest
\* read and the branch of ingestDuplicateOrVariant.
Lookup(w) ==
  /\ At(w, "lookup")
  /\ IF HasIdentity(canon) /\ canon.mail.bodyLine = Content[Msg(w)].body
     THEN Go(w, IF lowNoise THEN "membership" ELSE "attach")
     ELSE worker' = [worker EXCEPT ![w].seen = canon,
                       ![w].pc = IF HasIdentity(canon) THEN "order" ELSE "record"]
  /\ UNCHANGED <<store, lock, attachLock, Shared, Bounds, history>>

\* canonicalBodyOrder: after a failed read the body goes beside the canonical one.
CanonicalBodyOrder(w) ==
  /\ At(w, "order")
  /\ \/ /\ worker' = [worker EXCEPT ![w].pc = "promote",
             ![w].order = BodyOrder(Msg(w), worker[w].seen)]
        /\ UNCHANGED faults
     \/ /\ faults < MaxFaults
        /\ faults' = faults + 1
        /\ worker' = [worker EXCEPT ![w].pc = "promote", ![w].order = 1000]
  /\ UNCHANGED <<store, lock, attachLock, Shared, deliveries, history>>

\* shouldPromoteCanonical: reads the same body again; a failure means no.
ShouldPromote(w) ==
  /\ At(w, "promote")
  /\ \/ /\ worker' = [worker EXCEPT ![w].pc = "record",
             ![w].promote = LongerThanCanonical(Msg(w), worker[w].seen)]
        /\ UNCHANGED faults
     \/ /\ faults < MaxFaults
        /\ faults' = faults + 1
        /\ worker' = [worker EXCEPT ![w].pc = "record", ![w].promote = FALSE]
  /\ UNCHANGED <<store, lock, attachLock, Shared, deliveries, history>>

\* Mutated form of WriteVersionRecord: the promotion is not written into the record.
WriteVersionRecordUnpromoted(w) ==
  /\ At(w, "record")
  /\ LET full == ~HasIdentity(worker[w].seen)
     IN /\ stored' = [stored EXCEPT ![Msg(w)] =
             @ \cup {"parts"} \cup (IF full THEN {} ELSE {"patches"})]
        /\ record' = [record EXCEPT ![Msg(w)] =
             IF @ # None THEN @ ELSE [full |-> full, canonical |-> full]]
  /\ Go(w, "put")
  /\ UNCHANGED <<canon, lock, attachLock, Shared, Bounds, history>>

\* The objects stored for a mail alone: its parts, the patches of a further
\* version and the version record.  Each is stored once per mail; a record
\* that an earlier attempt stored is reused.
WriteVersionRecord(w) ==
  /\ At(w, "record")
  /\ LET full == ~HasIdentity(worker[w].seen)
     IN /\ stored' = [stored EXCEPT ![Msg(w)] =
             @ \cup {"parts"} \cup (IF full THEN {} ELSE {"patches"})]
        /\ record' = [record EXCEPT ![Msg(w)] =
             IF @ # None THEN @ ELSE [full |-> full, canonical |-> full \/ worker[w].promote]]
  /\ Go(w, "put")
  /\ UNCHANGED <<canon, lock, attachLock, Shared, Bounds, history>>

\* The manifest a worker merges in.
Incoming(w) ==
  LET seen == worker[w].seen
      m == Msg(w)
  IN IF HasIdentity(seen)
     THEN VariantManifest(m, seen, VersionScale(seen.mail, m), worker[w].promote, worker[w].order)
     ELSE CanonicalManifest(m)

AfterPut(w) == IF HasIdentity(worker[w].seen) THEN "variant" ELSE "finish"

\* Service.Ingest of the compound: a known source object is not written again;
\* otherwise, under the ingest claim of this mail, writeObject reads the
\* manifest it will merge into.
PutCompound(w) ==
  /\ At(w, "put")
  /\ ~\E v \in Workers \ {w} : At(v, "commit") /\ Msg(v) = Msg(w)
  /\ IF Known(Msg(w)) THEN Forget(w, AfterPut(w))
     ELSE worker' = [worker EXCEPT ![w].pc = "commit", ![w].base = canon]
  /\ UNCHANGED <<store, lock, attachLock, Shared, Bounds, history>>

\* The claim of the compound is held by another worker on the same mail:
\* ErrSourceIngestInProgress ends the attempt.
IngestInProgress(w) ==
  /\ At(w, "put")
  /\ ~Known(Msg(w))
  /\ \E v \in Workers \ {w} : At(v, "commit") /\ Msg(v) = Msg(w)
  /\ worker' = [worker EXCEPT ![w] = Idle]
  /\ lock' = [lock EXCEPT ![procOf[w]] = None]
  /\ cut' = cut \cup {Msg(w)}
  /\ done' = done \ {Msg(w)}
  /\ UNCHANGED <<store, attachLock, Shared, Bounds,
                 recorded, crowned, overlapped, orderLost, gmailWrote>>

\* writeObject and its commit: manifest and source index in one batch.
CommitCompound(w) ==
  /\ At(w, "commit")
  /\ canon' = MergeManifest(worker[w].base, Incoming(w))
  /\ recorded' = recorded \cup {Msg(w)}
  /\ crowned' = IF HasIdentity(worker[w].seen) /\ ~worker[w].promote THEN crowned
                ELSE crowned \cup {Msg(w)}
  /\ overlapped' = (overlapped \/ worker[w].base # canon \/ worker[w].base # worker[w].seen)
  /\ orderLost' = (orderLost \/ (worker[w].promote /\ worker[w].order # 1))
  /\ Forget(w, AfterPut(w))
  /\ UNCHANGED <<record, stored, lock, attachLock, Shared, Bounds, done, cut, gmailWrote>>

\* The variant compound that holds the patches.
WriteVariant(w) ==
  /\ At(w, "variant")
  /\ stored' = [stored EXCEPT ![Msg(w)] = @ \cup {"variant"}]
  /\ Go(w, "finish")
  /\ UNCHANGED <<canon, record, lock, attachLock, Shared, Bounds, history>>

\* writeArchiveMembershipRecord
WriteMembership(w) ==
  /\ At(w, "membership")
  /\ stored' = [stored EXCEPT ![Msg(w)] = @ \cup {"membership"}]
  /\ Go(w, "finish")
  /\ UNCHANGED <<canon, record, lock, attachLock, Shared, Bounds, history>>

\* AttachProvenance: a read and a write of the manifest under a lock that
\* PutCompound does not take.
AttachProvenance(w) ==
  /\ At(w, "attach")
  /\ attachLock = None
  /\ IF Known(Msg(w))
     THEN /\ Go(w, "finish")
          /\ UNCHANGED attachLock
     ELSE /\ worker' = [worker EXCEPT ![w].pc = "attached", ![w].base = canon]
          /\ attachLock' = w
  /\ UNCHANGED <<store, lock, Shared, Bounds, history>>

\* Mutated form of CommitProvenance: the manifest is written back without the new source.
CommitProvenanceLost(w) ==
  /\ At(w, "attached")
  /\ canon' = worker[w].base
  /\ overlapped' = (overlapped \/ worker[w].base # canon)
  /\ attachLock' = None
  /\ Forget(w, "finish")
  /\ UNCHANGED <<record, stored, lock, Shared, Bounds,
                 done, cut, recorded, crowned, orderLost, gmailWrote>>

CommitProvenance(w) ==
  /\ At(w, "attached")
  /\ canon' = [worker[w].base EXCEPT !.prov = @ \cup {Msg(w)}]
  /\ overlapped' = (overlapped \/ worker[w].base # canon)
  /\ attachLock' = None
  /\ Forget(w, "finish")
  /\ UNCHANGED <<record, stored, lock, Shared, Bounds,
                 done, cut, recorded, crowned, orderLost, gmailWrote>>

\* The import returned: the lock is released and the job acknowledged.
Finish(w) ==
  /\ At(w, "finish")
  /\ worker' = [worker EXCEPT ![w] = Idle]
  /\ lock' = [lock EXCEPT ![procOf[w]] = None]
  /\ done' = done \cup {Msg(w)}
  /\ UNCHANGED <<store, attachLock, Shared, Bounds,
                 cut, recorded, crowned, overlapped, orderLost, gmailWrote>>

\* A call to FILESTORE fails before it takes effect and the attempt returns
\* the error.
Fail(w) ==
  /\ worker[w].pc \in {"lookup", "record", "put", "variant", "membership", "attach"}
  /\ faults < MaxFaults
  /\ faults' = faults + 1
  /\ worker' = [worker EXCEPT ![w] = Idle]
  /\ lock' = [lock EXCEPT ![procOf[w]] = None]
  /\ cut' = cut \cup {Msg(w)}
  /\ done' = done \ {Msg(w)}
  /\ UNCHANGED <<store, attachLock, Shared, deliveries,
                 recorded, crowned, overlapped, orderLost, gmailWrote>>

\* An import process dies; the calls it had sent to FILESTORE are over.
Crash(p) ==
  LET dead == {w \in Workers : procOf[w] = p /\ ~At(w, "idle")}
  IN /\ faults < MaxFaults
     /\ dead # {}
     /\ faults' = faults + 1
     /\ worker' = [w \in Workers |-> IF w \in dead THEN Idle ELSE worker[w]]
     /\ lock' = [lock EXCEPT ![p] = None]
     /\ attachLock' = IF attachLock \in dead THEN None ELSE attachLock
     /\ cut' = cut \cup {Msg(w) : w \in dead}
     /\ done' = done \ {Msg(w) : w \in dead}
     /\ UNCHANGED <<store, Shared, deliveries,
                    recorded, crowned, overlapped, orderLost, gmailWrote>>

\* Gmail hydration of the same message: the same read, merge and commit.
GmailPut(g) ==
  /\ gmail.msg = None
  /\ ~Known(g)
  /\ gmail' = [msg |-> g, base |-> canon]
  /\ UNCHANGED <<store, worker, lock, attachLock, procOf, lowNoise, Bounds, history>>

GmailCommit ==
  /\ gmail.msg # None
  /\ canon' = MergeManifest(gmail.base, GmailManifest(gmail.msg))
  /\ overlapped' = (overlapped \/ gmail.base # canon)
  /\ gmailWrote' = gmailWrote \cup {IF HasIdentity(gmail.base) THEN "over" ELSE "fresh"}
  /\ gmail' = [msg |-> None, base |-> NoManifest]
  /\ UNCHANGED <<record, stored, worker, lock, attachLock, procOf, lowNoise, Bounds,
                 done, cut, recorded, crowned, orderLost>>

Next ==
  \/ \E w \in Workers, m \in Archive : Begin(w, m)
  \/ \E w \in Workers : LockMessageID(w)
  \/ \E w \in Workers : Lookup(w)
  \/ \E w \in Workers : CanonicalBodyOrder(w)
  \/ \E w \in Workers : ShouldPromote(w)
  \/ \E w \in Workers : WriteVersionRecord(w)
  \/ \E w \in Workers : PutCompound(w)
  \/ \E w \in Workers : IngestInProgress(w)
  \/ \E w \in Workers : CommitCompound(w)
  \/ \E w \in Workers : WriteVariant(w)
  \/ \E w \in Workers : WriteMembership(w)
  \/ \E w \in Workers : AttachProvenance(w)
  \/ \E w \in Workers : CommitProvenance(w)
  \/ \E w \in Workers : Finish(w)
  \/ \E w \in Workers : Fail(w)
  \/ \E p \in Procs : Crash(p)
  \/ \E g \in GmailMail : GmailPut(g)
  \/ GmailCommit

Spec == Init /\ [][Next]_vars

-----------------------------------------------------------------------------
\* Properties

OneProcess == \A v, w \in Workers : procOf[v] = procOf[w]

\* lockMessageID does what its comment says: while all workers share one
\* process and Gmail stays away, no manifest write replaces a manifest that
\* its writer had not read.
LockSerialises ==
  (OneProcess /\ gmailWrote = {}) => ~overlapped

\* The mail facet, the version_set facet and the parts name one version: the
\* body in the canonical slot is the one the fingerprint and the canonical id
\* stand for, and so are the headers.  The exceptions are the writes the
\* history variables mark.
CanonicalCoherent ==
  (HasIdentity(canon) /\ ~overlapped /\ "over" \notin gmailWrote /\ ~orderLost) =>
     /\ canon.mail.canonicalId = <<canon.parts[HeaderSlot], canon.parts[BodySlot]>>
     /\ canon.mail.bodyLine = canon.parts[BodySlot]
     /\ canon.mail.subject = canon.parts[HeaderSlot]
     /\ canon.set = [canonicalId |-> canon.mail.canonicalId, count |-> canon.mail.count,
                     scale |-> canon.mail.scale]

RecordsIn(manifest) == {s \in DOMAIN manifest.parts : s[1] = "version_record"}

\* An import that returned without error left its mail in the version set: as
\* provenance of the compound or, with --low-noise, as a membership record.
\* Within one process the finished import of a further version has also stored
\* the variant compound with the patches.  The exception is an import that was
\* cut before it had, and whose body the compound shows when the mail is
\* delivered again, because this mail or another one was promoted or Gmail wrote
\* over it: the mail is then a duplicate of its own version.
ImportsLand ==
  ~overlapped =>
    /\ \A m \in done : Known(m) \/ "membership" \in stored[m]
    /\ OneProcess => \A m \in (done \cap recorded) \ {Msg(w) : w \in Workers} :
                       \/ record[m].full \/ "variant" \in stored[m]
                       \/ m \in cut /\ \E k \in crowned \cup {g \in GmailMail : Known(g)} :
                                         Content[k].body = Content[m].body

\* version_count is the number of version records in the compound, whatever
\* was cut and tried again, because each record takes a slot of its own.  And
\* within one process a stored record claims to be canonical exactly when its
\* mail was made canonical, unless an attempt was cut: the record of that
\* attempt is reused although the next one may decide otherwise.
RecordsTruthful ==
  ~overlapped =>
    /\ HasIdentity(canon) =>
         /\ canon.mail.count = Cardinality(RecordsIn(canon))
         /\ {canon.parts[s] : s \in RecordsIn(canon)} = recorded
    /\ OneProcess => \A m \in recorded \ cut : record[m].canonical <=> m \in crowned
=============================================================================
