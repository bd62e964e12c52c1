------------------------------ MODULE PackCache ------------------------------
(***************************************************************************)
(* Readers of chunks, the cache of open pack files they share, and a       *)
(* repack that moves chunks and removes packs under them                   *)
(* (internal/filestore/packcache.go, readChunk in chunkstore.go, Repack in *)
(* repack.go).  A reader looks up the pack of its chunk, takes the cached  *)
(* handle or opens the file outside the lock, reads, and releases; when    *)
(* the file is gone it looks the chunk up once more.  Handles carry a      *)
(* reference count, so that eviction leaves closing them to the last       *)
(* reader.  ChunkMaintenance has the repack in full, and crashes.          *)
(***************************************************************************)
EXTENDS Integers, Sequences, FiniteSets, Functions

CONSTANTS
    Readers,
    PackChunks,     \* the chunks that are read
    CacheMax,       \* packCache.max
    LastPack        \* bound: packs are 1 .. LastPack

ASSUME PackCacheAssumption ==
    /\ IsFiniteSet(Readers)
    /\ CacheMax \in Nat \ {0}
    /\ LastPack \in Nat \ {0}

VARIABLES
    location,   \* the pack of each chunk in the index
    files,      \* the pack files
    newest,     \* the pack that is appended to
    handles,    \* open files and cache entries: [pack, refs, evicted, open]
    lru,        \* the entries of the cache, most recent first
    reader,     \* [at, chunk, pack, handle, again]
    repacking,  \* Repack: [at, pack]
    gone        \* history: packs removed while a reader reads

cacheVars == <<handles, lru>>
fileVars == <<location, files, newest, repacking>>
packCacheVars == <<location, files, newest, handles, lru, reader, repacking, gone>>

Handles == 1 .. CacheMax + Cardinality(Readers) + 1
shut == [pack |-> 0, refs |-> 0, evicted |-> FALSE, open |-> FALSE]
off == [at |-> "off", pack |-> 0]
away == [at |-> "rest", chunk |-> 0, pack |-> 0, handle |-> 0, again |-> FALSE]

PackCacheInit ==
    /\ location = [k \in PackChunks |-> 1]
    /\ files = {1, 2}
    /\ newest = 2
    /\ handles = [i \in Handles |-> shut]
    /\ lru = <<>>
    /\ reader = [r \in Readers |-> away]
    /\ repacking = off
    /\ gone = [r \in Readers |-> {}]

-----------------------------------------------------------------------------
(* The cache; each operator is what a critical section of its lock does *)

\* os.Open: which unused name the handle gets tells nothing.
free == CHOOSE i \in Handles : handles[i] = shut
opened(i, p) == [handles EXCEPT ![i] = [shut EXCEPT !.pack = p, !.open = TRUE]]

entry(p) == {i \in Range(lru) : handles[i].pack = p}

\* An entry leaves the list of the least recently used.
drop(i, s) == LET n == CHOOSE n \in DOMAIN s : s[n] = i
              IN  SubSeq(s, 1, n - 1) \o SubSeq(s, n + 1, Len(s))

\* A hit takes a reference and moves the entry to the front.
toFront(i, s) == <<i>> \o drop(i, s)
referenced(hs, i) == [hs EXCEPT ![i].refs = @ + 1]

\* Mutated form of letGo: an evicted handle is closed at once.
letGoClosed(hs, S) == [i \in Handles |->
    IF i \in S THEN [hs[i] EXCEPT !.evicted = TRUE, !.open = FALSE] ELSE hs[i]]

\* An entry leaves the cache; it is closed unless a reader still has it.
letGo(hs, S) == [i \in Handles |->
    IF i \notin S THEN hs[i]
    ELSE IF hs[i].refs = 0 THEN shut ELSE [hs[i] EXCEPT !.evicted = TRUE]]

\* The last reader of an entry that was let go closes it.
released(hs, i) == IF hs[i].refs = 1 /\ hs[i].evicted THEN shut ELSE [hs[i] EXCEPT !.refs = @ - 1]
releaser(hs, i) == [hs EXCEPT ![i] = released(hs, i)]

\* evictLocked, after one insertion.
evictLocked(hs, s) ==
    /\ handles' = IF Len(s) > CacheMax THEN letGo(hs, {s[Len(s)]}) ELSE hs
    /\ lru' = IF Len(s) > CacheMax THEN SubSeq(s, 1, Len(s) - 1) ELSE s

invalidate(p) ==
    \/ entry(p) = {} /\ UNCHANGED cacheVars
    \/ \E i \in entry(p) : handles' = letGo(handles, {i}) /\ lru' = drop(i, lru)

closeAllPacks ==
    /\ lru # <<>>
    /\ handles' = letGo(handles, Range(lru))
    /\ lru' = <<>>
    /\ UNCHANGED <<fileVars, reader, gone>>

-----------------------------------------------------------------------------
(* readChunk *)

is(r, place) == reader[r].at = place
goes(r, new) == reader' = [reader EXCEPT ![r] = new]

readChunk(r, k) ==
    /\ is(r, "rest")
    /\ goes(r, [away EXCEPT !.at = "lookup", !.chunk = k])
    /\ gone' = [gone EXCEPT ![r] = {}]
    /\ UNCHANGED <<fileVars, cacheVars>>

lookupChunk(r) ==
    /\ is(r, "lookup")
    /\ goes(r, [reader[r] EXCEPT !.at = "acquire", !.pack = location[reader[r].chunk]])
    /\ UNCHANGED <<fileVars, cacheVars, gone>>

\* acquire: the entry of the pack, or the file has to be opened.
acquirePack(r) ==
    /\ is(r, "acquire")
    /\ \/ /\ entry(reader[r].pack) = {}
          /\ goes(r, [reader[r] EXCEPT !.at = "open"])
          /\ UNCHANGED cacheVars
       \/ \E i \in entry(reader[r].pack) :
             /\ goes(r, [reader[r] EXCEPT !.at = "read", !.handle = i])
             /\ handles' = referenced(handles, i)
             /\ lru' = toFront(i, lru)
    /\ UNCHANGED <<fileVars, gone>>

openPack(r) ==
    /\ is(r, "open")
    /\ reader[r].pack \in files
    /\ handles' = opened(free, reader[r].pack)
    /\ goes(r, [reader[r] EXCEPT !.at = "insert", !.handle = free])
    /\ UNCHANGED <<fileVars, lru, gone>>

\* Back under the lock: another reader's entry is preferred to the own handle.
insertPack(r) ==
    /\ is(r, "insert")
    /\ LET own == reader[r].handle
           found == entry(reader[r].pack)
       IN  \/ /\ found = {}
              /\ goes(r, [reader[r] EXCEPT !.at = "read"])
              /\ evictLocked(referenced(handles, own), <<own>> \o lru)
           \/ \E i \in found :
                 /\ goes(r, [reader[r] EXCEPT !.at = "read", !.handle = i])
                 /\ handles' = [referenced(handles, i) EXCEPT ![own] = shut]
                 /\ lru' = toFront(i, lru)
    /\ UNCHANGED <<fileVars, gone>>

\* The read and the deferred release.
readChunkAt(r) ==
    /\ is(r, "read")
    /\ handles' = releaser(handles, reader[r].handle)
    /\ goes(r, away)
    /\ UNCHANGED <<fileVars, lru, gone>>

\* Mutated form of openFails: a file that is gone is an error at once.
openFailsAtOnce(r) ==
    /\ is(r, "open")
    /\ reader[r].pack \notin files
    /\ goes(r, [reader[r] EXCEPT !.at = "failed"])
    /\ UNCHANGED <<fileVars, cacheVars, gone>>

\* The file is gone: the entry is dropped and the chunk looked up again, once.
openFails(r) ==
    /\ is(r, "open")
    /\ reader[r].pack \notin files
    /\ IF reader[r].again
       THEN goes(r, [reader[r] EXCEPT !.at = "failed"]) /\ UNCHANGED cacheVars
       ELSE /\ invalidate(reader[r].pack)
            /\ goes(r, [reader[r] EXCEPT !.at = "lookup", !.again = TRUE])
    /\ UNCHANGED <<fileVars, gone>>

readFails(r) ==
    /\ is(r, "failed")
    /\ goes(r, away)
    /\ UNCHANGED <<fileVars, cacheVars, gone>>

-----------------------------------------------------------------------------
(* Repack, and the pack that appends roll over *)

appendToActivePack ==
    /\ newest < LastPack
    /\ newest' = newest + 1
    /\ files' = files \cup {newest + 1}
    /\ UNCHANGED <<location, cacheVars, reader, repacking, gone>>

Repack(p) ==
    /\ repacking = off
    /\ p \in files \ {newest}
    /\ repacking' = [at |-> "move", pack |-> p]
    /\ UNCHANGED <<location, files, newest, cacheVars, reader, gone>>

\* readPackBytes acquires and releases the pack; the index entry moves.
relocateLiveChunks(k) ==
    /\ repacking = [at |-> "move", pack |-> location[k]]
    /\ IF entry(location[k]) = {}
       THEN evictLocked(opened(free, location[k]), <<free>> \o lru)
       ELSE \E i \in entry(location[k]) : lru' = toFront(i, lru) /\ UNCHANGED handles
    /\ location' = [location EXCEPT ![k] = newest]
    /\ UNCHANGED <<files, newest, reader, repacking, gone>>

\* All its chunks have moved: the pack leaves the cache, ...
invalidatePack ==
    /\ repacking.at = "move"
    /\ repacking.pack \notin Range(location)
    /\ invalidate(repacking.pack)
    /\ repacking' = [repacking EXCEPT !.at = "remove"]
    /\ UNCHANGED <<location, files, newest, reader, gone>>

\* ... and then its file is removed; a reader may have cached it again.
removePack ==
    /\ repacking.at = "remove"
    /\ files' = files \ {repacking.pack}
    /\ repacking' = off
    /\ gone' = [r \in Readers |-> IF is(r, "rest") THEN {} ELSE gone[r] \cup {repacking.pack}]
    /\ UNCHANGED <<location, newest, cacheVars, reader>>

\* A move, or the removal, fails, and Repack returns the error.
repackFails ==
    /\ repacking # off
    /\ repacking' = off
    /\ UNCHANGED <<location, files, newest, cacheVars, reader, gone>>

-----------------------------------------------------------------------------

readStep(r) ==
    \/ lookupChunk(r) \/ acquirePack(r) \/ openPack(r) \/ insertPack(r) \/ readChunkAt(r)
    \/ openFails(r) \/ readFails(r)

PackCacheNext ==
    \/ \E r \in Readers : readStep(r) \/ \E k \in PackChunks : readChunk(r, k)
    \/ closeAllPacks
    \/ appendToActivePack
    \/ \E p \in files : Repack(p)
    \/ \E k \in PackChunks : relocateLiveChunks(k)
    \/ invalidatePack \/ removePack \/ repackFails

PackCacheSpec == PackCacheInit /\ [][PackCacheNext]_packCacheVars

-----------------------------------------------------------------------------
(* Properties *)

users(i) == {r \in Readers : is(r, "read") /\ reader[r].handle = i}

\* "a concurrent repack or LRU eviction can never close a descriptor mid-read",
\* and none is leaked: a handle's references are its readers; it is open while
\* it has one, while it is cached, and from its opening to its insertion, and
\* at no other time; the cache keeps within its bound, one entry per pack.
HandlesCounted ==
    /\ \A i \in Handles :
          /\ handles[i].refs = Cardinality(users(i))
          /\ handles[i].open <=>
                \/ i \in Range(lru) \/ users(i) # {}
                \/ \E r \in Readers : is(r, "insert") /\ reader[r].handle = i
    /\ Len(lru) <= CacheMax
    /\ \A i, j \in Range(lru) : handles[i].pack = handles[j].pack => i = j

\* A repack pass never fails a read: looking the chunk up again finds its new
\* pack, unless a second pass removed that one too before the file was opened.
ReadsSurviveRepack == \A r \in Readers : is(r, "failed") => \E p, q \in gone[r] : p # q
=============================================================================
