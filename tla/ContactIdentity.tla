--------------------------- MODULE ContactIdentity ---------------------------
(***************************************************************************)
(* Contact import against the EMBEDDING service.  `contact import` resolves*)
(* every card of a file to an entity over gRPC (contactio/resolve_import.go*)
(* and embedding/resolve.go) and then writes what was new in each card to  *)
(* FILESTORE (cli/query.go).  The service keeps its ledger, memos and index*)
(* in memory, saves them when it is shut down (embedding/state.go) and     *)
(* loads them when it starts; `embedding repair` merges entities in the    *)
(* saved state (embedding/repair.go).                                      *)
(*                                                                         *)
(* Abstractions: a claim is its hash; a card is the function from its      *)
(* claims to their valid times, so it claims no value twice.  Scores are   *)
(* floating-point and depend on vectors: a candidate may have any score, so*)
(* a card joins any candidate or a new entity, and any edges between       *)
(* entities may be positive or vetoed.  The nearest-neighbour index (HNSW, *)
(* external) finds any of its entities, at most TopN.  A residual basis is *)
(* the size of the cache it was built from.  Document frequencies, which no*)
(* step reads, name vectors, which no step adds, and the state files of    *)
(* earlier versions are left out.                                          *)
(***************************************************************************)
EXTENDS Naturals, Sequences, SequencesExt, FiniteSetsExt, Functions, TLC

CONSTANTS Values,       \* the claims
          Identifiers,  \* those that are an email, phone, account or url
          Files,
          Cards,        \* [file -> sequence of its cards]
          Importers,    \* processes of `contact import`
          TopN,         \* blockingTopN
          MinSample,    \* residualMinSample
          MaxEntities,  \* bound: entities minted
          MaxImports,   \* bound: imports of a file
          MaxCuts,      \* bound: failed or interrupted imports
          MaxStops      \* bound: ends and resets of the service

VARIABLES up,       \* which process has the resolution state
          svc,      \* that process's Service
          saved,    \* the state file
          minted,   \* ULIDs handed out
          deltas,   \* FILESTORE: the delta records
          importer, \* importer[i]: [pc, file, pos, records]
          imports, cuts, stops,
          dropped   \* history: new claims of records that no one wrote

contactVars == <<up, svc, saved, minted, deltas, importer, imports, cuts, stops, dropped>>

-----------------------------------------------------------------------------
\* Valid times: [from, until], where 0 stands for a bound the source did not give.

Unbounded == [from |-> 0, until |-> 0]

earlierBound(a, b) == IF 0 \in {a, b} THEN 0 ELSE Min({a, b})

\* Mutated form of laterBound: an end that is not known counts as the earliest.
laterBoundKnown(a, b) == Max({a, b})

laterBound(a, b) == IF 0 \in {a, b} THEN 0 ELSE Max({a, b})

widened(x, y) == [from |-> earlierBound(x.from, y.from), until |-> laterBound(x.until, y.until)]

\* Two claim sets in one, with the union span of what both hold.
folded(a, b) ==
  [v \in DOMAIN a \cup DOMAIN b |->
     IF v \notin DOMAIN a THEN b[v] ELSE IF v \notin DOMAIN b THEN a[v] ELSE widened(a[v], b[v])]

-----------------------------------------------------------------------------
\* The Service: operators from one state s of it to the next

NewService ==
  [ledger |-> <<>>,                                 \* entity -> its claims
   ident |-> [v \in Identifiers |-> {}],            \* the entities to try for an identifier
   occurrences |-> [v \in Values |-> 0],
   observations |-> 0,
   seenObs |-> <<>>,                                \* card -> entity
   entityClaims |-> <<>>,                           \* entity -> what idDiff compares
   index |-> {},                                    \* the entities with a centroid
   cache |-> {},                                    \* the values with a vector
   residual |-> 0]

held(s, e) == IF e \in DOMAIN s.ledger THEN s.ledger[e] ELSE <<>>

\* The identifier index, computed from the claim sets.
rebuild(ledger) == [v \in Identifiers |-> {e \in DOMAIN ledger : v \in DOMAIN ledger[e]}]

add(s, e, claims) ==
  [s EXCEPT !.ledger = (e :> folded(held(s, e), claims)) @@ @,
            !.ident = [v \in Identifiers |->
                         IF v \in DOMAIN claims \ DOMAIN held(s, e) THEN @[v] \cup {e} ELSE @[v]]]

observe(s, card) ==
  [s EXCEPT !.observations = @ + 1,
            !.occurrences = [v \in Values |-> IF v \in DOMAIN card THEN @[v] + 1 ELSE @[v]]]

maybeRebuildResidual(s) ==
  LET n == Cardinality(s.cache)
  IN  IF n < MinSample \/ (s.residual # 0 /\ n < 2 * s.residual) THEN s
      ELSE [s EXCEPT !.residual = n, !.entityClaims = <<>>]

\* entityScoredClaims of each of es, which remembers what it computes.
scored(s, es) ==
  [s EXCEPT !.entityClaims =
     @ @@ [e \in es |-> [claims |-> held(s, e), residual |-> s.residual]]]

\* Mutated form of forget: the scored claims of a changed entity stay.
forgetNothing(s, es) == s

forget(s, es) == [s EXCEPT !.entityClaims = Restrict(@, DOMAIN @ \ es)]

identifierCandidates(s, card) == UNION {s.ident[v] : v \in DOMAIN card \cap Identifiers}

\* What Search may return.
found(s) == {es \in SUBSET s.index : Cardinality(es) <= TopN}

newClaims(s, card, e) == Restrict(card, DOMAIN card \ DOMAIN held(s, e))

\* Resolve up to the decision: the values are embedded and candidates scored.
blocked(s, card, es) == scored(maybeRebuildResidual([s EXCEPT !.cache = @ \cup DOMAIN card]), es)

\* Resolve from the decision for e: the memo, the diff against the ledger and
\* the centroid, which the index may refuse.
resolved(s, card, e, indexed) ==
  LET memoised == observe([s EXCEPT !.seenObs = (card :> e) @@ @], card)
      grown == forget(add(memoised, e, newClaims(s, card, e)), {e})
  IN  IF e \in DOMAIN s.ledger /\ newClaims(s, card, e) = <<>> THEN memoised
      ELSE IF indexed THEN [grown EXCEPT !.index = @ \cup {e}] ELSE grown

-----------------------------------------------------------------------------
\* Repair

pairs(s) == kSubset(2, DOMAIN s.ledger)

\* Mutated form of linked: only the ends of the edge itself are compared.
linkedByEnds(clusters, edge, cannot) ==
  LET met == {c \in clusters : c \cap edge # {}}
  IN  IF edge \in cannot THEN clusters ELSE (clusters \ met) \cup {UNION met}

\* Along an edge two clusters become one unless they have members that cannot
\* be linked.
linked(clusters, edge, cannot) ==
  LET met == {c \in clusters : c \cap edge # {}}
  IN  IF \E c, d \in met : c # d /\ \E x \in c, y \in d : {x, y} \in cannot THEN clusters
      ELSE (clusters \ met) \cup {UNION met}

\* The edges are taken strongest first.
clusterByConstrainedLinkage(entities, positive, cannot) ==
  FoldLeft(LAMBDA clusters, edge : linked(clusters, edge, cannot), {{e} : e \in entities}, positive)

\* repairRound: every member of a cluster goes to its smallest ULID.
assignments(clusters) ==
  [m \in UNION {c \ {Min(c)} : c \in clusters} |-> Min(CHOOSE c \in clusters : m \in c)]

\* Mutated form of repointed: the memo still names the merged entities.
repointedNever(seenObs, assign) == seenObs

repointed(seenObs, assign) ==
  [card \in DOMAIN seenObs |->
     IF seenObs[card] \in DOMAIN assign THEN assign[seenObs[card]] ELSE seenObs[card]]

applyAssignments(s, assign) ==
  LET members == DOMAIN assign
      canonicals == Range(assign)
      merged(e) == FoldSet(LAMBDA m, claims : folded(claims, s.ledger[m]), s.ledger[e],
                           {m \in members : assign[m] = e})
      ledger == [e \in DOMAIN s.ledger \ members |-> merged(e)]
  IN  [forget(s, members \cup canonicals) EXCEPT
         !.ledger = ledger, !.ident = rebuild(ledger), !.seenObs = repointed(@, assign),
         !.index = (@ \ members) \cup canonicals]

-----------------------------------------------------------------------------
\* The import command

NoImport == [pc |-> "idle", file |-> CHOOSE f \in Files : TRUE, pos |-> 0, records |-> <<>>]

ContactsInit ==
  /\ up = "serve" /\ svc = NewService
  /\ saved = NewService   \* no state file yet: loadEmbeddingState leaves the service as it is
  /\ minted = 0
  /\ deltas = {}
  /\ importer = [i \in Importers |-> NoImport]
  /\ imports = 0 /\ cuts = 0 /\ stops = 0
  /\ dropped = {}

contactBounds == <<imports, cuts, stops>>
serviceVars == <<up, svc, saved, minted>>

doing(i, pc) == importer[i].pc = pc
cardOf(i) == Cards[importer[i].file][importer[i].pos]
moreCards(i) == importer[i].pos <= Len(Cards[importer[i].file])

\* importContactPath: the file is read and parsed into cards.
importContactPath(i, f) ==
  /\ importer[i].pc \in {"idle", "failed", "done"}
  /\ imports < MaxImports
  /\ imports' = imports + 1
  /\ importer' = [importer EXCEPT ![i] = [pc |-> "resolve", file |-> f, pos |-> 1, records |-> <<>>]]
  /\ UNCHANGED <<serviceVars, deltas, cuts, stops, dropped>>

\* The record that ResolveImport makes of a card with new claims.  FILESTORE
\* knows it by the fingerprint of the card, in which valid times have no part.
deltaRecord(card, e, claims) ==
  [obsFingerprint |-> DOMAIN card, entity |-> e, claims |-> DOMAIN claims]

\* ResolveImport goes on to the next card.
resolvedCard(i, records) ==
  importer' = [importer EXCEPT ![i].pos = @ + 1, ![i].records = @ \o records]

\* A card with the claims of an earlier one: the memo answers.
resolveSeen(i) ==
  /\ up = "serve" /\ doing(i, "resolve") /\ moreCards(i)
  /\ cardOf(i) \in DOMAIN svc.seenObs
  /\ resolvedCard(i, <<>>)
  /\ UNCHANGED <<serviceVars, deltas, contactBounds, dropped>>

\* Resolve decides for e, one of the candidates or a new entity.
decide(i, e, indexed) ==
  /\ up = "serve" /\ doing(i, "resolve") /\ moreCards(i)
  /\ cardOf(i) \notin DOMAIN svc.seenObs
  /\ minted' = Max({minted, e})
  /\ \E es \in found(svc) :
       LET candidates == es \cup identifierCandidates(svc, cardOf(i))
       IN  /\ e \in candidates \cup {minted + 1}
           /\ svc' = resolved(blocked(svc, cardOf(i), candidates), cardOf(i), e, indexed)
  /\ UNCHANGED <<up, saved, deltas, imports, stops>>

Resolve(i) ==
  \E e \in 1 .. MaxEntities :
    /\ decide(i, e, TRUE)
    /\ LET new == newClaims(svc, cardOf(i), e)
       IN  resolvedCard(i, IF new = <<>> THEN <<>> ELSE <<deltaRecord(cardOf(i), e, new)>>)
    /\ UNCHANGED <<cuts, dropped>>

\* The import of the file ends with an error; the records not yet written, and
\* the claims in more, are nowhere but in the ledger.
abandon(i, more) ==
  /\ importer' = [importer EXCEPT ![i] = [NoImport EXCEPT !.pc = "failed"]]
  /\ dropped' = dropped \cup more \cup UNION {r.claims : r \in Range(importer[i].records)}

\* Pool or Upsert refuses the new centroid, after memo and ledger have changed.
resolveRefused(i) ==
  \E e \in 1 .. MaxEntities :
    /\ cuts < MaxCuts
    /\ decide(i, e, FALSE)
    /\ newClaims(svc, cardOf(i), e) # <<>>
    /\ abandon(i, DOMAIN newClaims(svc, cardOf(i), e))
    /\ cuts' = cuts + 1

\* No service answers.
resolveUnavailable(i) ==
  /\ up # "serve" /\ doing(i, "resolve") /\ moreCards(i)
  /\ abandon(i, {})
  /\ UNCHANGED <<serviceVars, deltas, contactBounds>>

\* A call of the embedder, of EMBEDDING or of FILESTORE fails, or its answer is
\* lost, or the command is interrupted.
cutShort(i) ==
  /\ cuts < MaxCuts
  /\ importer[i].pc \in {"resolve", "ingest", "put"}
  /\ abandon(i, {})
  /\ cuts' = cuts + 1
  /\ UNCHANGED <<serviceVars, deltas, imports, stops>>

\* Every card is resolved: importContactPath goes on to write the records.
ingestRecords(i) ==
  /\ doing(i, "resolve") /\ ~moreCards(i)
  /\ importer' = [importer EXCEPT ![i].pc = "ingest"]
  /\ UNCHANGED <<serviceVars, deltas, contactBounds, dropped>>

\* Mutated form of externalID: records are told apart by their entity.
externalIDOfEntity(r) == r.entity

externalID(r) == r.obsFingerprint

\* Ingest: the version of a record is the hash of its text, which has the time
\* of the import in it, so two imports never meet in one claim, and the lookup
\* finds by the alias of the external id what any import wrote for the card.
\* Records are not deleted, so the second lookup, under the claim, decides.
lookupSourceObject(i) ==
  /\ doing(i, "ingest") /\ importer[i].records # <<>>
  /\ importer' = [importer EXCEPT ![i] =
       IF \E r \in deltas : externalID(r) = externalID(Head(importer[i].records))
       THEN [@ EXCEPT !.records = Tail(@)] ELSE [@ EXCEPT !.pc = "put"]]
  /\ UNCHANGED <<serviceVars, deltas, contactBounds, dropped>>

putRecord(i) ==
  /\ doing(i, "put")
  /\ deltas' = deltas \cup {Head(importer[i].records)}
  /\ importer' = [importer EXCEPT ![i].pc = "ingest", ![i].records = Tail(@)]
  /\ UNCHANGED <<serviceVars, contactBounds, dropped>>

importDone(i) ==
  /\ doing(i, "ingest") /\ importer[i].records = <<>>
  /\ importer' = [importer EXCEPT ![i].pc = "done"]
  /\ UNCHANGED <<serviceVars, deltas, contactBounds, dropped>>

-----------------------------------------------------------------------------
\* The service and the repair command

\* The memo of scored claims and the residual basis are not part of the
\* artifact, and neither is the identifier index, which a load computes again.
SnapshotState(s) ==
  [s EXCEPT !.ident = [v \in Identifiers |-> {}], !.entityClaims = <<>>, !.residual = 0]
LoadState(state) == [state EXCEPT !.ident = rebuild(state.ledger)]

stopping ==
  /\ stops < MaxStops
  /\ stops' = stops + 1
  /\ UNCHANGED <<minted, deltas, importer, imports, cuts, dropped>>

\* `embedding serve` saves its state when it is told to stop, and not when it
\* is killed or cannot write the file; `embedding repair` not when it fails.
shutdown ==
  /\ up = "serve"
  /\ stopping
  /\ up' = "down" /\ svc' = NewService /\ saved' = SnapshotState(svc)

killed ==
  /\ up # "down"
  /\ stopping
  /\ up' = "down" /\ svc' = NewService /\ UNCHANGED saved

\* The vectors and the residual basis stay.
ResetEntities ==
  /\ up = "serve"
  /\ stopping
  /\ svc' = [NewService EXCEPT !.cache = svc.cache, !.residual = svc.residual]
  /\ UNCHANGED <<up, saved>>

\* Either command loads the state file; the operator runs repair only while the
\* service is stopped, which owns the file.
start(command) ==
  /\ up = "down"
  /\ up' = command /\ svc' = LoadState(saved)
  /\ UNCHANGED <<saved, minted, deltas, importer, contactBounds, dropped>>

\* One round of Repair: all edges are scored, and clusters merged.
repairRound(positive, cannot) ==
  LET assign == assignments(clusterByConstrainedLinkage(DOMAIN svc.ledger, positive, cannot))
  IN  /\ up = "repair"
      /\ assign # <<>>
      /\ svc' = applyAssignments(scored(svc, DOMAIN svc.ledger), assign)
      /\ UNCHANGED <<up, saved, minted, deltas, importer, contactBounds, dropped>>

\* A round that merges nothing is the last, and the command saves the state.
repairDone ==
  /\ up = "repair"
  /\ up' = "down" /\ svc' = NewService /\ saved' = SnapshotState(svc)
  /\ UNCHANGED <<minted, deltas, importer, contactBounds, dropped>>

edgeOrders(s) == UNION {SetToSeqs(edges) : edges \in SUBSET pairs(s)}

ContactsNext ==
  \/ \E i \in Importers, f \in Files : importContactPath(i, f)
  \/ \E i \in Importers : resolveSeen(i)
  \/ \E i \in Importers : Resolve(i)
  \/ \E i \in Importers : resolveRefused(i)
  \/ \E i \in Importers : resolveUnavailable(i)
  \/ \E i \in Importers : cutShort(i)
  \/ \E i \in Importers : ingestRecords(i)
  \/ \E i \in Importers : lookupSourceObject(i)
  \/ \E i \in Importers : putRecord(i)
  \/ \E i \in Importers : importDone(i)
  \/ shutdown \/ killed \/ ResetEntities
  \/ start("serve") \/ start("repair")
  \/ \E positive \in edgeOrders(svc), cannot \in SUBSET pairs(svc) : repairRound(positive, cannot)
  \/ repairDone

ContactsSpec == ContactsInit /\ [][ContactsNext]_contactVars

-----------------------------------------------------------------------------
\* Properties

\* What Resolve derives from the ledger agrees with it after failed calls,
\* restarts, resets and repairs: the entity a card was resolved to holds all
\* its claims, so that to call the card no news is right; the entities to try
\* for an identifier are those that hold it; and every distinct card counts
\* once for each of its claims, whatever entity it went to.
LedgerAgrees ==
  /\ \A c \in DOMAIN svc.seenObs :
       svc.seenObs[c] \in DOMAIN svc.ledger /\ DOMAIN c \subseteq DOMAIN svc.ledger[svc.seenObs[c]]
  /\ svc.ident = rebuild(svc.ledger)
  /\ svc.observations = Cardinality(DOMAIN svc.seenObs)
  /\ \A v \in Values :
       svc.occurrences[v] = Cardinality({c \in DOMAIN svc.seenObs : v \in DOMAIN c})

\* The memo of scored claims is never stale: what idDiff compares is what the
\* ledger holds, in the residual basis in force, through growth, merges,
\* rebuilds of the basis and refused centroids.
ScoredClaimsFresh ==
  \A e \in DOMAIN svc.entityClaims :
    svc.entityClaims[e] = [claims |-> held(svc, e), residual |-> svc.residual]

\* "never uniting two clusters that hold a cannot-link pair": whatever edges are
\* positive and in whatever order, no cluster of clusterByConstrainedLinkage has
\* two members that cannot be linked, and an edge whose ends stay apart has a
\* reason.
LinkageSound ==
  up = "repair" =>
    \A positive \in edgeOrders(svc), cannot \in SUBSET pairs(svc) :
      LET clusters == clusterByConstrainedLinkage(DOMAIN svc.ledger, positive, cannot)
      IN  /\ \A c \in clusters : kSubset(2, c) \cap cannot = {}
          /\ \A edge \in Range(positive) :
               \/ \E c \in clusters : edge \subseteq c
               \/ \E c, d \in clusters : /\ c \cap edge # {} /\ d \cap edge # {}
                                         /\ \E x \in c, y \in d : {x, y} \in cannot

\* Every time of y is a time of x.
covers(x, y) ==
  /\ x.from = 0 \/ x.from <= y.from
  /\ x.until = 0 \/ (y.until # 0 /\ x.until >= y.until)

\* A process never forgets that a value was held at some time: a merge moves it
\* to the canonical entity with a span that covers it.
SpansKept ==
  [][up' = up /\ stops' = stops =>
       \A e \in DOMAIN svc.ledger : \A v \in DOMAIN svc.ledger[e] :
         \E d \in DOMAIN svc'.ledger :
           v \in DOMAIN svc'.ledger[d] /\ covers(svc'.ledger[d][v], svc.ledger[e][v])]_contactVars

inFilestore == UNION {r.claims : r \in deltas}
onTheWay == UNION {r.claims : r \in UNION {Range(importer[i].records) : i \in Importers}}
claimed(f) == UNION {DOMAIN Cards[f][k] : k \in DOMAIN Cards[f]}

\* After an import without an error every claim of the file is in FILESTORE, or
\* about to be written there by another import, or was dropped by an import
\* that was cut short: no restart, reset, repair or concurrent import loses one.
ImportAccounted ==
  \A i \in Importers :
    doing(i, "done") => claimed(importer[i].file) \subseteq inFilestore \cup onTheWay \cup dropped

\* "Import correctness - completeness ... must be provable from FILESTORE
\* objects": the same without the exception, so that to repeat an import that
\* failed completes it.
ImportRecorded ==
  \A i \in Importers :
    doing(i, "done") => claimed(importer[i].file) \subseteq inFilestore \cup onTheWay
=============================================================================
