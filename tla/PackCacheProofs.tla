-------------------------- MODULE PackCacheProofs --------------------------
(***************************************************************************)
(* Proofs about PackCache, for any chunks, readers, packs and handles and  *)
(* any size of the cache: the reference counts of the open pack files, and *)
(* the readers that a repack moves chunks under.                           *)
(***************************************************************************)
EXTENDS PackCache, TLAPS, FiniteSetTheorems

ReaderPlaces == {"rest", "lookup", "acquire", "open", "insert", "read", "failed"}

HandleRecords == [pack : Nat, refs : Nat, evicted : BOOLEAN, open : BOOLEAN]
ReaderRecords == [at : ReaderPlaces, chunk : PackChunks \cup {0}, pack : Nat, handle : Handles \cup {0},
                  again : BOOLEAN]

Distinct(s) == \A m, n \in DOMAIN s : s[m] = s[n] => m = n
readersOf(rd, i) == {r \in Readers : rd[r].at = "read" /\ rd[r].handle = i}
openersOf(rd, i) == {r \in Readers : rd[r].at = "insert" /\ rd[r].handle = i}

\* Handle i agrees with the entries s and the readers rd: a cached handle is open
\* and not evicted; one that readers keep after it left the cache is marked, so
\* that the last of them closes it; one between its opening and its insertion is
\* its opener's alone; every other is closed.
HandleOK(hs, s, rd, i) ==
  /\ hs[i].refs = Cardinality(readersOf(rd, i))
  /\ i \in Range(s) => hs[i].open /\ ~hs[i].evicted
  /\ i \notin Range(s) /\ readersOf(rd, i) # {} => hs[i].open /\ hs[i].evicted
  /\ i \notin Range(s) /\ readersOf(rd, i) = {} /\ openersOf(rd, i) = {} => hs[i] = shut
  /\ \A r \in openersOf(rd, i) :
        /\ i \notin Range(s)
        /\ hs[i].pack = rd[r].pack /\ hs[i].refs = 0 /\ ~hs[i].evicted /\ hs[i].open
        /\ openersOf(rd, i) = {r}

CacheOK(hs, s, rd) ==
  /\ hs \in [Handles -> HandleRecords]
  /\ s \in Seq(Handles) /\ Distinct(s)
  /\ rd \in [Readers -> ReaderRecords]
  /\ \A r \in Readers : rd[r].at \in {"insert", "read"} => rd[r].handle \in Handles
  /\ \A i, j \in Range(s) : hs[i].pack = hs[j].pack => i = j
  /\ \A i \in Handles : HandleOK(hs, s, rd, i)

\* A reader that looks its chunk up, or may do so again, has one.
Looking(rd) == \A q \in Readers : rd[q].at \in {"lookup", "acquire", "open"} => rd[q].chunk \in PackChunks

CacheInv ==
  /\ CacheOK(handles, lru, reader)
  /\ Len(lru) <= CacheMax
  /\ newest \in Nat
  /\ location \in [PackChunks -> Nat]
  /\ Looking(reader)

\* What a reader q knows of its pack, G being the packs that were removed while it
\* reads and F the files.  A pack that is removed never comes back, and the index
\* names existing packs only, so the pack that is looked up after an open that
\* failed is not the one that was gone.
ReadOK(q, G, F) ==
  /\ G \cap F = {}
  /\ q.again => q.at # "rest" /\ G # {}
  /\ q.at \in {"acquire", "open"} => q.pack \in F \cup G
  /\ q.at \in {"acquire", "open"} /\ q.again /\ q.pack \notin F => \E p \in G : p # q.pack
  /\ q.at = "failed" => \E p, q2 \in G : p # q2

ReadsInv ==
  /\ files \subseteq 1 .. newest
  /\ newest \in files
  /\ \A k \in PackChunks : location[k] \in files
  /\ repacking \in [at : {"off", "move", "remove"}, pack : Nat]
  /\ repacking.at # "off" => repacking.pack \in files \ {newest}
  /\ repacking.at = "remove" => \A k \in PackChunks : location[k] # repacking.pack
  /\ gone \in [Readers -> SUBSET (1 .. newest)]
  /\ \A r \in Readers : ReadOK(reader[r], gone[r], files)

-----------------------------------------------------------------------------
(* Sequences without repetitions *)

\* Taking an entry out of the list of the least recently used leaves the others.
LEMMA DropFacts ==
  ASSUME NEW s \in Seq(Handles), Distinct(s), NEW i \in Range(s)
  PROVE  /\ drop(i, s) \in Seq(Handles) /\ Distinct(drop(i, s))
         /\ Len(drop(i, s)) = Len(s) - 1 /\ Range(drop(i, s)) = Range(s) \ {i}
<1> DEFINE n == CHOOSE n \in DOMAIN s : s[n] = i
           d == drop(i, s)
           u == SubSeq(s, 1, n - 1)
           v == SubSeq(s, n + 1, Len(s))
<1>1. n \in 1 .. Len(s) /\ s[n] = i /\ Len(s) \in Nat /\ DOMAIN s = 1 .. Len(s)
  BY DEF Range
<1>2. d = u \o v
  BY Zenon DEF drop
<1> HIDE DEF n, d
<1>3. u \in Seq(Handles) /\ Len(u) = n - 1 /\ \A m \in 1 .. n - 1 : u[m] = s[m]
  BY <1>1
<1>4. v \in Seq(Handles) /\ Len(v) = Len(s) - n /\ \A m \in 1 .. Len(s) - n : v[m] = s[m + n]
  <2> DEFINE k == Len(s) - n
  <2>1. k \in Nat /\ v = [m \in 1 .. k |-> s[m + n]]
    BY <1>1
  <2>2. \A m \in 1 .. k : m + n \in DOMAIN s
    BY <1>1
  <2>3. \A m \in 1 .. k : s[m + n] \in Handles
    BY <1>1, <2>2
  <2> HIDE DEF k, v
  <2>4. v \in Seq(Handles) /\ Len(v) = k /\ \A m \in 1 .. k : v[m] = s[m + n]
    BY <2>1, <2>3
  <2> QED
    BY Zenon, <2>4 DEF k
<1> HIDE DEF u, v
<1>5. d \in Seq(Handles) /\ Len(d) = Len(s) - 1 /\ DOMAIN d = 1 .. Len(s) - 1
  <2>1. u \o v \in Seq(Handles) /\ Len(u \o v) = Len(u) + Len(v)
    <3>1. u \in Seq(Handles) /\ v \in Seq(Handles)
      BY Zenon, <1>3, <1>4
    <3> QED
      BY <3>1
  <2>2. Len(u) + Len(v) = Len(s) - 1
    BY <1>1, <1>3, <1>4
  <2>3. d \in Seq(Handles) /\ Len(d) = Len(s) - 1
    BY Zenon, <1>2, <2>1, <2>2
  <2> QED
    BY <2>3
<1>6. \A m \in 1 .. Len(s) - 1 : d[m] = IF m < n THEN s[m] ELSE s[m + 1]
  <2> SUFFICES ASSUME NEW m \in 1 .. Len(s) - 1 PROVE d[m] = IF m < n THEN s[m] ELSE s[m + 1]
    BY Zenon
  <2>1. CASE m < n
    BY <1>1, <1>2, <1>3, <1>4, <2>1
  <2>2. CASE ~(m < n)
    <3>1. m - (n - 1) \in 1 .. Len(s) - n /\ d[m] = v[m - (n - 1)]
      BY <1>1, <1>2, <1>3, <1>4, <2>2
    <3>2. v[m - (n - 1)] = s[m + 1]
      BY <1>1, <1>4, <3>1
    <3> QED
      BY Zenon, <2>2, <3>1, <3>2
  <2> QED
    BY Zenon, <2>1, <2>2
<1>7. Distinct(d)
  <2> DEFINE old(m) == IF m < n THEN m ELSE m + 1
  <2>1. \A m \in DOMAIN d : old(m) \in DOMAIN s /\ d[m] = s[old(m)]
    BY <1>1, <1>5, <1>6
  <2>2. \A l, m \in DOMAIN d : old(l) = old(m) => l = m
    BY <1>1, <1>5
  <2> HIDE DEF old
  <2> QED
    BY Zenon, <2>1, <2>2 DEF Distinct
<1>8. ASSUME NEW m \in 1 .. Len(s), m # n PROVE s[m] \in Range(d)
  <2>1. CASE m < n
    <3>1. m \in DOMAIN d /\ d[m] = s[m]
      BY <2>1, <1>1, <1>5, <1>6
    <3> QED
      BY Zenon, <3>1 DEF Range
  <2>2. CASE m > n
    <3>1. m - 1 \in DOMAIN d /\ d[m - 1] = s[m]
      BY <2>2, <1>1, <1>5, <1>6
    <3> QED
      BY Zenon, <3>1 DEF Range
  <2> QED
    BY <1>1, <1>8, <2>1, <2>2
<1>9. ASSUME NEW m \in 1 .. Len(s) - 1 PROVE d[m] \in Range(s) \ {i}
  <2>1. PICK l \in DOMAIN s : d[m] = s[l] /\ l # n
    BY <1>1, <1>6
  <2> QED
    BY Zenon, <1>1, <2>1 DEF Range, Distinct
<1>10. Range(d) \subseteq Range(s) \ {i}
  BY Zenon, <1>5, <1>9 DEF Range
<1>11. Range(s) \ {i} \subseteq Range(d)
  <2> SUFFICES ASSUME NEW m \in 1 .. Len(s), s[m] # i PROVE s[m] \in Range(d)
    BY Zenon, <1>1 DEF Range
  <2> QED
    BY Zenon, <1>1, <1>8
<1> QED
  BY Zenon, <1>5, <1>7, <1>10, <1>11 DEF d

\* A handle that is not in the list becomes its front.
LEMMA PushFacts ==
  ASSUME NEW s \in Seq(Handles), Distinct(s), NEW i \in Handles, i \notin Range(s)
  PROVE  /\ <<i>> \o s \in Seq(Handles) /\ Distinct(<<i>> \o s)
         /\ Len(<<i>> \o s) = Len(s) + 1 /\ Range(<<i>> \o s) = Range(s) \cup {i}
<1> DEFINE p == <<i>> \o s
<1>1. /\ p \in Seq(Handles) /\ Len(p) = Len(s) + 1 /\ DOMAIN p = 1 .. Len(s) + 1 /\ Len(s) \in Nat
      /\ DOMAIN s = 1 .. Len(s) /\ p[1] = i
  OBVIOUS
<1>2. \A n \in 1 .. Len(s) : p[n + 1] = s[n]
  BY <1>1
<1> HIDE DEF p
<1>3. \A n \in 2 .. Len(s) + 1 : n - 1 \in DOMAIN s /\ p[n] = s[n - 1]
  BY <1>1, <1>2
<1>4. \A n \in 2 .. Len(s) + 1 : p[n] \in Range(s)
  BY Zenon, <1>3 DEF Range
<1>5. Distinct(p)
  <2> SUFFICES ASSUME NEW m \in 1 .. Len(s) + 1, NEW n \in 1 .. Len(s) + 1, p[m] = p[n] PROVE m = n
    BY Zenon, <1>1 DEF Distinct
  <2>1. CASE m = 1 \/ n = 1
    BY <1>1, <1>4, <2>1
  <2>2. CASE m # 1 /\ n # 1
    <3>1. m - 1 \in DOMAIN s /\ n - 1 \in DOMAIN s /\ s[m - 1] = s[n - 1]
      BY <1>1, <1>3, <2>2
    <3>2. m - 1 = n - 1
      BY Zenon, <3>1 DEF Distinct
    <3> QED
      BY <3>2
  <2> QED
    BY Zenon, <2>1, <2>2
<1>6. Range(p) \subseteq Range(s) \cup {i}
  <2>1. ASSUME NEW n \in 1 .. Len(s) + 1 PROVE p[n] \in Range(s) \cup {i}
    <3>1. n = 1 \/ n \in 2 .. Len(s) + 1
      BY <1>1
    <3> QED
      BY Zenon, <1>1, <1>4, <3>1
  <2> QED
    BY Zenon, <1>1, <2>1 DEF Range
<1>7. Range(s) \cup {i} \subseteq Range(p)
  <2>1. i \in Range(p)
    BY <1>1 DEF Range
  <2>2. ASSUME NEW n \in 1 .. Len(s) PROVE s[n] \in Range(p)
    <3>1. n + 1 \in DOMAIN p /\ p[n + 1] = s[n]
      BY <1>1, <1>2
    <3> QED
      BY Zenon, <3>1 DEF Range
  <2> QED
    BY Zenon, <1>1, <2>1, <2>2 DEF Range
<1> QED
  BY Zenon, <1>1, <1>5, <1>6, <1>7 DEF p

\* Moving an entry to the front neither loses nor repeats an entry.
LEMMA ToFrontFacts ==
  ASSUME NEW s \in Seq(Handles), Distinct(s), NEW i \in Range(s)
  PROVE  /\ toFront(i, s) \in Seq(Handles) /\ Distinct(toFront(i, s))
         /\ Len(toFront(i, s)) = Len(s) /\ Range(toFront(i, s)) = Range(s)
<1>1. i \in Handles /\ Len(s) \in Nat
  BY DEF Range
<1> DEFINE d == drop(i, s)
<1>2. d \in Seq(Handles) /\ Distinct(d) /\ Len(d) = Len(s) - 1 /\ Range(d) = Range(s) \ {i}
  BY Zenon, DropFacts
<1> HIDE DEF d
<1>3. i \notin Range(d)
  BY Zenon, <1>2
<1>4. /\ <<i>> \o d \in Seq(Handles) /\ Distinct(<<i>> \o d)
      /\ Len(<<i>> \o d) = Len(d) + 1 /\ Range(<<i>> \o d) = Range(d) \cup {i}
  BY Zenon, <1>1, <1>2, <1>3, PushFacts
<1>5. toFront(i, s) = <<i>> \o d
  BY Zenon DEF toFront, d
<1>6. Len(d) + 1 = Len(s)
  BY <1>1, <1>2
<1>7. Range(d) \cup {i} = Range(s)
  BY Zenon, <1>2
<1> QED
  BY Zenon, <1>4, <1>5, <1>6, <1>7

\* Without its last entry the list has every other, once.
LEMMA FrontFacts ==
  ASSUME NEW s \in Seq(Handles), Distinct(s), Len(s) > 0
  PROVE  LET f == SubSeq(s, 1, Len(s) - 1)
         IN  /\ f \in Seq(Handles) /\ Distinct(f) /\ s[Len(s)] \in Range(s)
             /\ Len(f) = Len(s) - 1 /\ Range(f) = Range(s) \ {s[Len(s)]}
<1> DEFINE f == SubSeq(s, 1, Len(s) - 1)
<1>1. Len(s) \in Nat /\ DOMAIN s = 1 .. Len(s) /\ Len(s) \in DOMAIN s
  OBVIOUS
<1>2. f \in Seq(Handles) /\ Len(f) = Len(s) - 1 /\ DOMAIN f = 1 .. Len(s) - 1
  BY <1>1
<1>3. \A n \in 1 .. Len(s) - 1 : f[n] = s[n]
  BY <1>1
<1> HIDE DEF f
<1>4. Distinct(f)
  BY <1>1, <1>2, <1>3 DEF Distinct
<1>5. \A n \in DOMAIN s : n = Len(s) \/ (n \in DOMAIN f /\ f[n] = s[n])
  BY <1>1, <1>2, <1>3
<1>6. \A n \in DOMAIN f : n \in DOMAIN s /\ n # Len(s) /\ f[n] = s[n]
  BY <1>1, <1>2, <1>3
<1>7. Range(f) = Range(s) \ {s[Len(s)]}
  BY <1>1, <1>5, <1>6 DEF Range, Distinct
<1> QED
  BY Zenon, <1>1, <1>2, <1>4, <1>7 DEF f, Range

-----------------------------------------------------------------------------
(* What the operations of the cache do to handles that agree with it *)

\* The readers of a handle can be counted.
LEMMA CountReaders ==
  ASSUME NEW rd, NEW i
  PROVE  /\ IsFiniteSet(readersOf(rd, i)) /\ Cardinality(readersOf(rd, i)) \in Nat
         /\ Cardinality(readersOf(rd, i)) = 0 <=> readersOf(rd, i) = {}
<1>1. IsFiniteSet(readersOf(rd, i))
  BY Zenon, FS_Subset, PackCacheAssumption DEF readersOf
<1> QED
  BY Zenon, <1>1, FS_CardinalityType, FS_EmptySet

\* A handle that a step does not concern.
LEMMA SameHandle ==
  ASSUME NEW hs, NEW s, NEW rd, NEW i, HandleOK(hs, s, rd, i),
         NEW new, NEW t, NEW to, new[i] = hs[i], i \in Range(t) <=> i \in Range(s),
         readersOf(to, i) = readersOf(rd, i), openersOf(to, i) = openersOf(rd, i),
         \A q \in openersOf(rd, i) : to[q].pack = rd[q].pack
  PROVE  HandleOK(new, t, to, i)
  BY Zenon DEF HandleOK

\* Entries that leave the cache.
LEMMA LetsGo ==
  ASSUME NEW hs, NEW s, NEW rd, CacheOK(hs, s, rd), NEW S \in SUBSET Range(s),
         NEW t \in Seq(Handles), Distinct(t), Range(t) = Range(s) \ S
  PROVE  CacheOK(letGo(hs, S), t, rd)
<1> DEFINE new == letGo(hs, S)
<1>1. \A i \in Handles : /\ i \notin S => new[i] = hs[i]
                         /\ i \in S /\ hs[i].refs = 0 => new[i] = shut
                         /\ i \in S /\ hs[i].refs # 0 => new[i] = [hs[i] EXCEPT !.evicted = TRUE]
  BY Zenon DEF letGo
<1>2. new \in [Handles -> HandleRecords]
  <2>1. ASSUME NEW i \in Handles PROVE new[i] \in HandleRecords
    <3>1. hs[i] \in HandleRecords /\ shut \in HandleRecords
      BY Zenon DEF CacheOK, HandleRecords, shut
    <3>2. [hs[i] EXCEPT !.evicted = TRUE] \in HandleRecords
      BY Zenon, <3>1 DEF HandleRecords
    <3>3. new[i] \in {hs[i], shut, [hs[i] EXCEPT !.evicted = TRUE]}
      BY Zenon, <1>1
    <3> QED
      BY Zenon, <3>1, <3>2, <3>3
  <2>2. new = [i \in Handles |-> new[i]]
    BY Zenon DEF letGo
  <2> QED
    BY Zenon, <2>1, <2>2
<1>3. Range(s) \subseteq Handles
  BY DEF CacheOK, Range
<1> HIDE DEF new
<1>4. \A i, j \in Range(t) : new[i].pack = new[j].pack => i = j
  BY Zenon, <1>1, <1>3 DEF CacheOK
<1>5. ASSUME NEW i \in Handles, i \notin S PROVE HandleOK(new, t, rd, i)
  BY Zenon, <1>1, <1>5, SameHandle DEF CacheOK
<1>6. ASSUME NEW i \in Handles, i \in S PROVE HandleOK(new, t, rd, i)
  <2>1. HandleOK(hs, s, rd, i) /\ hs[i] \in HandleRecords
    BY Zenon DEF CacheOK
  <2>2. i \in Range(s) /\ i \notin Range(t) /\ openersOf(rd, i) = {} /\ hs[i].open
    BY Zenon, <1>6, <2>1 DEF HandleOK
  <2>3. hs[i].refs = Cardinality(readersOf(rd, i)) /\ (hs[i].refs = 0 <=> readersOf(rd, i) = {})
    BY Zenon, <2>1, CountReaders DEF HandleOK
  <2>4. CASE hs[i].refs = 0
    <3>1. new[i] = shut /\ shut.refs = 0
      BY Zenon, <1>1, <1>6, <2>4 DEF shut
    <3> QED
      BY Zenon, <2>2, <2>3, <2>4, <3>1 DEF HandleOK
  <2>5. CASE hs[i].refs # 0
    <3>1. new[i].refs = hs[i].refs /\ new[i].open = hs[i].open /\ new[i].evicted = TRUE
      BY Zenon, <1>1, <1>6, <2>1, <2>5 DEF HandleRecords
    <3> QED
      BY Zenon, <2>2, <2>3, <2>5, <3>1 DEF HandleOK
  <2> QED
    BY Zenon, <2>4, <2>5
<1> QED
  BY Zenon, <1>2, <1>4, <1>5, <1>6 DEF CacheOK, new

\* An entry that moves to the front.
LEMMA Reorders ==
  ASSUME NEW hs, NEW s, NEW rd, CacheOK(hs, s, rd),
         NEW t \in Seq(Handles), Distinct(t), Range(t) = Range(s)
  PROVE  CacheOK(hs, t, rd)
  BY Zenon DEF CacheOK, HandleOK

\* A reader that moves and has no handle before or after.
LEMMA Moves ==
  ASSUME NEW hs, NEW s, NEW rd, CacheOK(hs, s, rd), NEW r \in Readers, NEW new \in ReaderRecords,
         rd[r].at \notin {"insert", "read"}, new.at \notin {"insert", "read"}
  PROVE  CacheOK(hs, s, [rd EXCEPT ![r] = new])
<1> DEFINE to == [rd EXCEPT ![r] = new]
<1>1. to \in [Readers -> ReaderRecords] /\ to[r] = new /\ \A q \in Readers \ {r} : to[q] = rd[q]
  BY Zenon DEF CacheOK
<1> HIDE DEF to
<1>2. \A q \in Readers : to[q].at \in {"insert", "read"} => to[q].handle \in Handles
  BY Zenon, <1>1 DEF CacheOK
<1>3. \A i : readersOf(to, i) = readersOf(rd, i) /\ openersOf(to, i) = openersOf(rd, i)
  BY Zenon, <1>1 DEF readersOf, openersOf
<1>4. \A i : \A q \in openersOf(rd, i) : to[q].pack = rd[q].pack
  BY Zenon, <1>1 DEF openersOf
<1>5. \A i \in Handles : HandleOK(hs, s, to, i)
  BY <1>3, <1>4, SameHandle DEF CacheOK
<1>6. CacheOK(hs, s, to)
  BY Zenon, <1>1, <1>2, <1>5 DEF CacheOK
<1> QED
  BY Zenon, <1>6 DEF to

\* A reader that takes a reference of a cached handle.
LEMMA Refers ==
  ASSUME NEW hs, NEW s, NEW rd, CacheOK(hs, s, rd), NEW r \in Readers, NEW i \in Range(s),
         NEW new \in ReaderRecords, rd[r].at \notin {"insert", "read"}, new.at = "read", new.handle = i
  PROVE  CacheOK(referenced(hs, i), s, [rd EXCEPT ![r] = new])
<1> DEFINE to == [rd EXCEPT ![r] = new]
           hn == referenced(hs, i)
<1>0. i \in Handles /\ hs[i] \in HandleRecords /\ HandleOK(hs, s, rd, i)
  BY DEF CacheOK, Range
<1>1. to \in [Readers -> ReaderRecords] /\ to[r] = new /\ \A q \in Readers \ {r} : to[q] = rd[q]
  BY Zenon DEF CacheOK
<1>2. /\ hn \in [Handles -> HandleRecords] /\ hn[i] = [hs[i] EXCEPT !.refs = @ + 1]
      /\ \A j \in Handles \ {i} : hn[j] = hs[j]
  <2>1. [hs[i] EXCEPT !.refs = @ + 1] \in HandleRecords
    BY <1>0 DEF HandleRecords
  <2>2. hn = [hs EXCEPT ![i] = [hs[i] EXCEPT !.refs = @ + 1]]
    BY Zenon, <1>0 DEF CacheOK, referenced
  <2> QED
    BY <1>0, <2>1, <2>2 DEF CacheOK
<1> HIDE DEF to, hn
<1>3. \A q \in Readers : to[q].at \in {"insert", "read"} => to[q].handle \in Handles
  BY Zenon, <1>0, <1>1 DEF CacheOK
<1>4. \A j : openersOf(to, j) = openersOf(rd, j)
  BY Zenon, <1>1 DEF openersOf
<1>5. readersOf(to, i) = readersOf(rd, i) \cup {r} /\ r \notin readersOf(rd, i)
  BY Zenon, <1>1 DEF readersOf
<1>6. \A j : j # i => readersOf(to, j) = readersOf(rd, j)
  BY Zenon, <1>1 DEF readersOf
<1>7. \A j : \A q \in openersOf(rd, j) : to[q].pack = rd[q].pack
  BY Zenon, <1>1 DEF openersOf
<1>8. \A j \in Handles \ {i} : HandleOK(hn, s, to, j)
  BY <1>2, <1>4, <1>6, <1>7, SameHandle DEF CacheOK
<1>9. HandleOK(hn, s, to, i)
  <2>1. Cardinality(readersOf(to, i)) = Cardinality(readersOf(rd, i)) + 1
    <3>1. IsFiniteSet(readersOf(rd, i))
      BY Zenon, CountReaders
    <3>2. Cardinality(readersOf(rd, i) \cup {r}) = Cardinality(readersOf(rd, i)) + 1
      BY Zenon, <1>5, <3>1, FS_AddElement
    <3> QED
      BY Zenon, <1>5, <3>2
  <2>2. hn[i].refs = hs[i].refs + 1 /\ hn[i].open = hs[i].open /\ hn[i].evicted = hs[i].evicted
    BY Zenon, <1>0, <1>2 DEF HandleRecords
  <2>3. openersOf(rd, i) = {}
    BY Zenon, <1>0 DEF HandleOK
  <2> QED
    BY <1>0, <1>4, <2>1, <2>2, <2>3 DEF HandleOK
<1>10. \A j, k \in Range(s) : hn[j].pack = hn[k].pack => j = k
  <2>1. hn[i].pack = hs[i].pack
    BY Zenon, <1>0, <1>2 DEF HandleRecords
  <2>2. \A j \in Range(s) : j \in Handles
    BY DEF CacheOK, Range
  <2>3. \A j \in Range(s) : hn[j].pack = hs[j].pack
    BY Zenon, <1>2, <2>1, <2>2
  <2> QED
    BY Zenon, <2>3 DEF CacheOK
<1>11. CacheOK(hn, s, to)
  BY Zenon, <1>1, <1>2, <1>3, <1>8, <1>9, <1>10 DEF CacheOK
<1> QED
  BY Zenon, <1>11 DEF to, hn

\* A shut handle is nobody's.
LEMMA ShutIsFree ==
  ASSUME NEW hs, NEW s, NEW rd, CacheOK(hs, s, rd), NEW i \in Handles, hs[i] = shut
  PROVE  i \notin Range(s) /\ readersOf(rd, i) = {} /\ openersOf(rd, i) = {}
<1>1. HandleOK(hs, s, rd, i) /\ hs[i].refs = 0 /\ hs[i].open = FALSE
  BY DEF CacheOK, shut
<1>2. readersOf(rd, i) = {}
  BY Zenon, <1>1, CountReaders DEF HandleOK
<1>3. openersOf(rd, i) = {}
  <2> SUFFICES ASSUME NEW r \in openersOf(rd, i) PROVE FALSE
    BY Zenon
  <2>1. hs[i].open
    BY Zenon, <1>1 DEF HandleOK
  <2> QED
    BY Zenon, <1>1, <2>1
<1> QED
  BY Zenon, <1>1, <1>2, <1>3 DEF HandleOK

\* A reader that opens a file outside the lock.
LEMMA Opens ==
  ASSUME NEW hs, NEW s, NEW rd, CacheOK(hs, s, rd), NEW r \in Readers, NEW i \in Handles, hs[i] = shut,
         NEW new \in ReaderRecords, rd[r].at \notin {"insert", "read"}, new.at = "insert", new.handle = i
  PROVE  CacheOK([hs EXCEPT ![i] = [shut EXCEPT !.pack = new.pack, !.open = TRUE]], s, [rd EXCEPT ![r] = new])
<1> DEFINE to == [rd EXCEPT ![r] = new]
           h == [shut EXCEPT !.pack = new.pack, !.open = TRUE]
           hn == [hs EXCEPT ![i] = h]
<1>0. h.pack = new.pack /\ h.refs = 0 /\ h.evicted = FALSE /\ h.open = TRUE /\ h \in HandleRecords
  <2>1. shut \in HandleRecords /\ shut.refs = 0 /\ shut.evicted = FALSE
    BY Zenon DEF shut, HandleRecords
  <2> QED
    BY Zenon, <2>1 DEF HandleRecords, ReaderRecords
<1>1. to \in [Readers -> ReaderRecords] /\ to[r] = new /\ \A q \in Readers \ {r} : to[q] = rd[q]
  BY Zenon DEF CacheOK
<1>2. hn \in [Handles -> HandleRecords] /\ hn[i] = h /\ \A j \in Handles \ {i} : hn[j] = hs[j]
  BY Zenon, <1>0 DEF CacheOK
<1> HIDE DEF to, hn, h
<1>3. \A q \in Readers : to[q].at \in {"insert", "read"} => to[q].handle \in Handles
  BY Zenon, <1>1 DEF CacheOK
<1>4. \A j : readersOf(to, j) = readersOf(rd, j)
  BY Zenon, <1>1 DEF readersOf
<1>5. i \notin Range(s) /\ readersOf(rd, i) = {} /\ openersOf(rd, i) = {}
  BY Zenon, ShutIsFree
<1>6. openersOf(to, i) = {r} /\ \A j : j # i => openersOf(to, j) = openersOf(rd, j)
  BY <1>1, <1>5 DEF openersOf
<1>7. \A j : \A q \in openersOf(rd, j) : to[q].pack = rd[q].pack
  BY Zenon, <1>1 DEF openersOf
<1>8. \A j \in Handles \ {i} : HandleOK(hn, s, to, j)
  BY <1>2, <1>4, <1>6, <1>7, SameHandle DEF CacheOK
<1>9. HandleOK(hn, s, to, i)
  BY <1>0, <1>1, <1>2, <1>4, <1>5, <1>6, CountReaders DEF HandleOK
<1>10. \A j, k \in Range(s) : hn[j].pack = hn[k].pack => j = k
  <2>1. \A j \in Range(s) : hn[j] = hs[j]
    BY <1>2, <1>5 DEF CacheOK, Range
  <2> QED
    BY Zenon, <2>1 DEF CacheOK
<1>11. CacheOK(hn, s, to)
  BY Zenon, <1>1, <1>2, <1>3, <1>8, <1>9, <1>10 DEF CacheOK
<1> QED
  BY Zenon, <1>11 DEF to, hn, h

\* A handle that is opened under the lock and cached at once.
LEMMA OpensCached ==
  ASSUME NEW hs, NEW s, NEW rd, CacheOK(hs, s, rd), NEW i \in Handles, hs[i] = shut,
         NEW p \in Nat, \A j \in Range(s) : hs[j].pack # p
  PROVE  CacheOK([hs EXCEPT ![i] = [shut EXCEPT !.pack = p, !.open = TRUE]], <<i>> \o s, rd)
<1> DEFINE h == [shut EXCEPT !.pack = p, !.open = TRUE]
           hn == [hs EXCEPT ![i] = h]
           t == <<i>> \o s
<1>0. h.pack = p /\ h.refs = 0 /\ h.evicted = FALSE /\ h.open = TRUE /\ h \in HandleRecords
  <2>1. shut \in HandleRecords /\ shut.refs = 0 /\ shut.evicted = FALSE
    BY Zenon DEF shut, HandleRecords
  <2> QED
    BY Zenon, <2>1 DEF HandleRecords
<1>1. hn \in [Handles -> HandleRecords] /\ hn[i] = h /\ \A j \in Handles \ {i} : hn[j] = hs[j]
  BY Zenon, <1>0 DEF CacheOK
<1>2. i \notin Range(s) /\ readersOf(rd, i) = {} /\ openersOf(rd, i) = {}
  BY Zenon, ShutIsFree
<1>3. t \in Seq(Handles) /\ Distinct(t) /\ Range(t) = Range(s) \cup {i}
  BY Zenon, <1>2, PushFacts DEF CacheOK
<1> HIDE DEF h, hn, t
<1>4. \A j \in Handles \ {i} : HandleOK(hn, t, rd, j)
  BY Zenon, <1>1, <1>3, SameHandle DEF CacheOK
<1>5. HandleOK(hn, t, rd, i)
  BY Zenon, <1>0, <1>1, <1>2, <1>3, CountReaders DEF HandleOK
<1>6. \A j, k \in Range(t) : hn[j].pack = hn[k].pack => j = k
  <2>1. \A j \in Range(s) : hn[j] = hs[j]
    BY <1>1, <1>2 DEF CacheOK, Range
  <2>2. hn[i].pack = p
    BY Zenon, <1>0, <1>1
  <2> QED
    BY Zenon, <1>3, <2>1, <2>2 DEF CacheOK
<1>7. CacheOK(hn, t, rd)
  BY <1>1, <1>3, <1>4, <1>5, <1>6 DEF CacheOK
<1> QED
  BY Zenon, <1>7 DEF h, hn, t

\* A reader that caches the handle it opened and reads from it.
LEMMA Inserts ==
  ASSUME NEW hs, NEW s, NEW rd, CacheOK(hs, s, rd), NEW r \in Readers, NEW i \in Handles,
         r \in openersOf(rd, i), \A j \in Range(s) : hs[j].pack # rd[r].pack,
         NEW new \in ReaderRecords, new.at = "read", new.handle = i
  PROVE  i \notin Range(s) /\ CacheOK(referenced(hs, i), <<i>> \o s, [rd EXCEPT ![r] = new])
<1> DEFINE to == [rd EXCEPT ![r] = new]
           hn == referenced(hs, i)
           t == <<i>> \o s
<1>0. /\ hs[i] \in HandleRecords /\ HandleOK(hs, s, rd, i) /\ i \notin Range(s) /\ openersOf(rd, i) = {r}
      /\ hs[i].pack = rd[r].pack /\ hs[i].refs = 0 /\ ~hs[i].evicted /\ hs[i].open
  BY Zenon DEF CacheOK, HandleOK
<1>a. readersOf(rd, i) = {}
  BY Zenon, <1>0, CountReaders DEF HandleOK
<1>1. to \in [Readers -> ReaderRecords] /\ to[r] = new /\ \A q \in Readers \ {r} : to[q] = rd[q]
  BY Zenon DEF CacheOK
<1>2. /\ hn \in [Handles -> HandleRecords]
      /\ hn[i].pack = rd[r].pack /\ hn[i].refs = 1 /\ hn[i].evicted = FALSE /\ hn[i].open
      /\ \A j \in Handles \ {i} : hn[j] = hs[j]
  <2>1. hs[i].evicted = FALSE
    BY Zenon, <1>0 DEF HandleRecords
  <2>2. [hs[i] EXCEPT !.refs = @ + 1] \in HandleRecords
    BY <1>0 DEF HandleRecords
  <2>3. hn = [hs EXCEPT ![i] = [hs[i] EXCEPT !.refs = @ + 1]]
    BY Zenon DEF CacheOK, referenced
  <2>4. hn \in [Handles -> HandleRecords] /\ hn[i] = [hs[i] EXCEPT !.refs = @ + 1]
        /\ \A j \in Handles \ {i} : hn[j] = hs[j]
    BY <2>2, <2>3 DEF CacheOK
  <2> QED
    BY <1>0, <2>1, <2>4 DEF HandleRecords
<1>3. t \in Seq(Handles) /\ Distinct(t) /\ Range(t) = Range(s) \cup {i}
  BY Zenon, <1>0, PushFacts DEF CacheOK
<1> HIDE DEF to, hn, t
<1>4. \A q \in Readers : to[q].at \in {"insert", "read"} => to[q].handle \in Handles
  BY Zenon, <1>1 DEF CacheOK
<1>5. openersOf(to, i) = {} /\ \A j : j # i => openersOf(to, j) = openersOf(rd, j)
  BY <1>0, <1>1 DEF openersOf
<1>6. readersOf(to, i) = {r} /\ \A j : j # i => readersOf(to, j) = readersOf(rd, j)
  BY <1>1, <1>a DEF readersOf, openersOf
<1>7. \A j : j # i => \A q \in openersOf(rd, j) : to[q].pack = rd[q].pack
  BY Zenon, <1>0, <1>1 DEF openersOf
<1>8. \A j \in Handles \ {i} : HandleOK(hn, t, to, j)
  BY SMTT(30), <1>2, <1>3, <1>5, <1>6, <1>7, SameHandle DEF CacheOK
<1>9. HandleOK(hn, t, to, i)
  <2>1. Cardinality({r}) = 1
    BY FS_Singleton, Zenon
  <2> QED
    BY Zenon, <1>2, <1>3, <1>5, <1>6, <2>1 DEF HandleOK
<1>10. \A j, k \in Range(t) : hn[j].pack = hn[k].pack => j = k
  <2>1. \A j \in Range(s) : hn[j] = hs[j]
    BY <1>0, <1>2 DEF CacheOK, Range
  <2>2. hn[i].pack = rd[r].pack
    BY Zenon, <1>2
  <2> QED
    BY <1>3, <2>1, <2>2 DEF CacheOK
<1>11. CacheOK(hn, t, to)
  BY Zenon, <1>1, <1>2, <1>3, <1>4, <1>8, <1>9, <1>10 DEF CacheOK
<1> QED
  BY Zenon, <1>0, <1>11 DEF to, hn, t

\* A reader that closes the handle it opened, as the pack is cached already.
LEMMA Discards ==
  ASSUME NEW hs, NEW s, NEW rd, CacheOK(hs, s, rd), NEW r \in Readers, NEW i \in Handles,
         r \in openersOf(rd, i), NEW new \in ReaderRecords, new.at \notin {"insert", "read"}
  PROVE  i \notin Range(s) /\ CacheOK([hs EXCEPT ![i] = shut], s, [rd EXCEPT ![r] = new])
<1> DEFINE to == [rd EXCEPT ![r] = new]
           hn == [hs EXCEPT ![i] = shut]
<1>0. i \notin Range(s) /\ openersOf(rd, i) = {r} /\ hs[i].refs = 0 /\ HandleOK(hs, s, rd, i)
  BY Zenon DEF CacheOK, HandleOK
<1>a. readersOf(rd, i) = {}
  BY Zenon, <1>0, CountReaders DEF HandleOK
<1>1. to \in [Readers -> ReaderRecords] /\ to[r] = new /\ \A q \in Readers \ {r} : to[q] = rd[q]
  BY Zenon DEF CacheOK
<1>b. shut \in HandleRecords /\ shut.refs = 0
  BY Zenon DEF shut, HandleRecords
<1>2. hn \in [Handles -> HandleRecords] /\ hn[i] = shut /\ \A j \in Handles \ {i} : hn[j] = hs[j]
  BY Zenon, <1>b DEF CacheOK
<1> HIDE DEF to, hn
<1>4. \A q \in Readers : to[q].at \in {"insert", "read"} => to[q].handle \in Handles
  BY Zenon, <1>1 DEF CacheOK
<1>5. openersOf(to, i) = {} /\ \A j : j # i => openersOf(to, j) = openersOf(rd, j)
  BY <1>0, <1>1 DEF openersOf
<1>6. \A j : readersOf(to, j) = readersOf(rd, j)
  BY Zenon, <1>1 DEF readersOf, openersOf
<1>7. \A j : j # i => \A q \in openersOf(rd, j) : to[q].pack = rd[q].pack
  BY Zenon, <1>0, <1>1 DEF openersOf
<1>8. \A j \in Handles \ {i} : HandleOK(hn, s, to, j)
  BY <1>2, <1>5, <1>6, <1>7, SameHandle DEF CacheOK
<1>9. HandleOK(hn, s, to, i)
  BY Zenon, <1>0, <1>a, <1>b, <1>2, <1>5, <1>6, CountReaders DEF HandleOK
<1>10. \A j, k \in Range(s) : hn[j].pack = hn[k].pack => j = k
  <2>1. \A j \in Range(s) : hn[j] = hs[j]
    BY <1>0, <1>2 DEF CacheOK, Range
  <2> QED
    BY Zenon, <2>1 DEF CacheOK
<1>11. CacheOK(hn, s, to)
  BY Zenon, <1>1, <1>2, <1>4, <1>8, <1>9, <1>10 DEF CacheOK
<1> QED
  BY Zenon, <1>0, <1>11 DEF to, hn

\* A reader that is done.
LEMMA Releases ==
  ASSUME NEW hs, NEW s, NEW rd, CacheOK(hs, s, rd), NEW r \in Readers, rd[r].at = "read",
         NEW i, i = rd[r].handle, NEW new \in ReaderRecords, new.at \notin {"insert", "read"}
  PROVE  CacheOK(releaser(hs, i), s, [rd EXCEPT ![r] = new])
<1> DEFINE to == [rd EXCEPT ![r] = new]
           h == IF hs[i].refs = 1 /\ hs[i].evicted THEN shut ELSE [hs[i] EXCEPT !.refs = @ - 1]
           hn == releaser(hs, i)
<1>0. i \in Handles /\ hs[i] \in HandleRecords /\ HandleOK(hs, s, rd, i) /\ r \in readersOf(rd, i)
  BY Zenon DEF CacheOK, readersOf
<1>1. to \in [Readers -> ReaderRecords] /\ to[r] = new /\ \A q \in Readers \ {r} : to[q] = rd[q]
  BY Zenon DEF CacheOK
<1>2. hs[i].refs = Cardinality(readersOf(rd, i)) /\ hs[i].refs # 0 /\ hs[i].refs \in Nat
  BY Zenon, <1>0, CountReaders DEF HandleOK
<1>3. h \in HandleRecords
  <2>1. shut \in HandleRecords
    BY Zenon DEF shut, HandleRecords
  <2>2. [hs[i] EXCEPT !.refs = @ - 1] \in HandleRecords
    BY <1>0, <1>2 DEF HandleRecords
  <2> QED
    BY Zenon, <2>1, <2>2
<1>4. hn \in [Handles -> HandleRecords] /\ hn[i] = h /\ \A j \in Handles \ {i} : hn[j] = hs[j]
  BY Zenon, <1>0, <1>3 DEF CacheOK, releaser, released
<1> HIDE DEF to, hn
<1>5. \A q \in Readers : to[q].at \in {"insert", "read"} => to[q].handle \in Handles
  BY Zenon, <1>1 DEF CacheOK
<1>6. \A j : openersOf(to, j) = openersOf(rd, j)
  BY Zenon, <1>1 DEF openersOf
<1>7. readersOf(to, i) = readersOf(rd, i) \ {r} /\ \A j : j # i => readersOf(to, j) = readersOf(rd, j)
  BY Zenon, <1>1 DEF readersOf
<1>8. \A j : \A q \in openersOf(rd, j) : to[q].pack = rd[q].pack
  BY Zenon, <1>1 DEF openersOf
<1>9. \A j \in Handles \ {i} : HandleOK(hn, s, to, j)
  BY <1>4, <1>6, <1>7, <1>8, SameHandle DEF CacheOK
<1>10. openersOf(to, i) = {}
  BY Zenon, <1>0, <1>2, <1>6 DEF HandleOK
<1>11. Cardinality(readersOf(to, i)) = hs[i].refs - 1
  <2>1. IsFiniteSet(readersOf(rd, i))
    BY Zenon, CountReaders
  <2>2. Cardinality(readersOf(rd, i) \ {r}) = Cardinality(readersOf(rd, i)) - 1
    BY Zenon, <1>0, <2>1, FS_RemoveElement
  <2> QED
    BY Zenon, <1>2, <1>7, <2>2
<1>12. HandleOK(hn, s, to, i)
  <2>1. CASE hs[i].refs = 1 /\ hs[i].evicted
    <3>1. hn[i] = shut /\ shut.refs = 0 /\ i \notin Range(s)
      BY Zenon, <1>0, <1>4, <2>1 DEF HandleOK, shut
    <3>2. readersOf(to, i) = {}
      BY <1>11, <2>1, CountReaders
    <3> QED
      BY <1>10, <1>11, <2>1, <3>1, <3>2 DEF HandleOK
  <2>2. CASE ~(hs[i].refs = 1 /\ hs[i].evicted)
    <3>1. hn[i].refs = hs[i].refs - 1 /\ hn[i].open = hs[i].open /\ hn[i].evicted = hs[i].evicted
      BY Zenon, <1>0, <1>4, <2>2 DEF HandleRecords
    <3>2. i \notin Range(s) => hs[i].open /\ hs[i].evicted
      BY Zenon, <1>0 DEF HandleOK
    <3>3. i \notin Range(s) => readersOf(to, i) # {}
      BY <1>2, <1>11, <2>2, <3>2, CountReaders
    <3> QED
      BY Zenon, <1>0, <1>10, <1>11, <3>1, <3>2, <3>3 DEF HandleOK
  <2> QED
    BY Zenon, <2>1, <2>2
<1>13. \A j, k \in Range(s) : hn[j].pack = hn[k].pack => j = k
  <2>1. i \in Range(s) => hn[i].pack = hs[i].pack
    BY Zenon, <1>0, <1>4 DEF HandleOK, HandleRecords
  <2>2. \A j \in Range(s) : j \in Handles
    BY DEF CacheOK, Range
  <2>3. \A j \in Range(s) : hn[j].pack = hs[j].pack
    BY Zenon, <1>4, <2>1, <2>2
  <2> QED
    BY Zenon, <2>3 DEF CacheOK
<1>14. CacheOK(hn, s, to)
  BY Zenon, <1>1, <1>4, <1>5, <1>9, <1>12, <1>13 DEF CacheOK
<1> QED
  BY Zenon, <1>14 DEF to, hn

\* There are more handles than cache entries and readers: one is free.
LEMMA FreeHandle ==
  ASSUME CacheInv
  PROVE  free \in Handles /\ handles[free] = shut
<1> SUFFICES ASSUME \A i \in Handles : handles[i] # shut PROVE FALSE
  BY Zenon DEF free
<1> DEFINE n == Cardinality(Readers)
           held == {reader[r].handle : r \in Readers}
           cached == Range(lru)
<1>1. n \in Nat /\ IsFiniteSet(Readers) /\ CacheMax \in Nat
  BY Zenon, PackCacheAssumption, FS_CardinalityType
<1>2. Handles \subseteq cached \cup held
  <2> SUFFICES ASSUME NEW i \in Handles, i \notin cached PROVE i \in held
    BY Zenon
  <2>1. readersOf(reader, i) # {} \/ openersOf(reader, i) # {}
    BY Zenon DEF CacheInv, CacheOK, HandleOK
  <2> QED
    BY Zenon, <2>1 DEF readersOf, openersOf
<1>3. IsFiniteSet(held) /\ Cardinality(held) <= n
  <2>1. [r \in Readers |-> reader[r].handle] \in Surjection(Readers, held)
    BY Zenon DEF Surjection
  <2> QED
    BY Zenon, <1>1, <2>1, FS_Surjection
<1>4. IsFiniteSet(cached) /\ Cardinality(cached) <= Len(lru)
  <2>1. lru \in Surjection(1 .. Len(lru), cached) /\ Len(lru) \in Nat
    BY DEF Surjection, Range, CacheInv, CacheOK
  <2>2. IsFiniteSet(1 .. Len(lru)) /\ Cardinality(1 .. Len(lru)) = Len(lru)
    BY SMTT(30), <2>1, FS_Interval
  <2> QED
    BY <2>1, <2>2, FS_Surjection
<1>5. Cardinality(cached \cup held) <= CacheMax + n /\ IsFiniteSet(cached \cup held)
  <2>1. Cardinality(cached) \in Nat /\ Cardinality(held) \in Nat /\ Cardinality(cached \cap held) \in Nat
    BY Zenon, <1>3, <1>4, FS_CardinalityType, FS_Intersection
  <2>2. Len(lru) \in Nat /\ Len(lru) <= CacheMax
    BY DEF CacheInv, CacheOK
  <2>3. /\ IsFiniteSet(cached \cup held)
        /\ Cardinality(cached \cup held) = Cardinality(cached) + Cardinality(held) - Cardinality(cached \cap held)
    BY Zenon, <1>3, <1>4, FS_Union
  <2> HIDE DEF n, cached, held
  <2> QED
    BY <1>1, <1>3, <1>4, <2>1, <2>2, <2>3
<1>6. Cardinality(Handles) = CacheMax + n + 1
  BY <1>1, FS_Interval DEF Handles
<1>7. Cardinality(Handles) <= Cardinality(cached \cup held) /\ Cardinality(cached \cup held) \in Nat
  BY Zenon, <1>2, <1>5, FS_Subset, FS_CardinalityType
<1> QED
  BY <1>1, <1>5, <1>6, <1>7

-----------------------------------------------------------------------------
(* The steps *)

\* evictLocked after one insertion keeps the cache within its bound.
LEMMA Evicts ==
  ASSUME NEW hs, NEW s, NEW rd, CacheOK(hs, s, rd), Len(s) <= CacheMax + 1, evictLocked(hs, s)
  PROVE  CacheOK(handles', lru', rd) /\ Len(lru') <= CacheMax
<1>1. s \in Seq(Handles) /\ Distinct(s) /\ Len(s) \in Nat /\ CacheMax \in Nat \ {0}
  BY PackCacheAssumption DEF CacheOK
<1>2. CASE Len(s) > CacheMax
  <2> DEFINE f == SubSeq(s, 1, Len(s) - 1)
             S == {s[Len(s)]}
  <2>1. f \in Seq(Handles) /\ Distinct(f) /\ S \in SUBSET Range(s) /\ Len(f) = Len(s) - 1 /\ Range(f) = Range(s) \ S
    <3>1. Len(s) > 0
      BY <1>1, <1>2
    <3> QED
      BY Zenon, <1>1, <3>1, FrontFacts
  <2>2. handles' = letGo(hs, S) /\ lru' = f
    BY Zenon, <1>2 DEF evictLocked
  <2> HIDE DEF f, S
  <2>3. CacheOK(letGo(hs, S), f, rd)
    BY Zenon, <2>1, LetsGo
  <2> QED
    BY <1>1, <2>1, <2>2, <2>3
<1>3. CASE ~(Len(s) > CacheMax)
  BY <1>1, <1>3 DEF evictLocked
<1> QED
  BY Zenon, <1>2, <1>3

\* An invalidation, of a pack that is cached or not.
LEMMA Invalidates ==
  ASSUME NEW p, NEW rd, CacheOK(handles, lru, rd), Len(lru) <= CacheMax, invalidate(p)
  PROVE  CacheOK(handles', lru', rd) /\ Len(lru') <= CacheMax
<1>1. CASE entry(p) = {} /\ UNCHANGED cacheVars
  BY Zenon, <1>1 DEF cacheVars
<1>2. ASSUME NEW i \in entry(p), handles' = letGo(handles, {i}), lru' = drop(i, lru)
      PROVE  CacheOK(handles', lru', rd) /\ Len(lru') <= CacheMax
  <2>1. i \in Range(lru) /\ lru \in Seq(Handles) /\ Distinct(lru) /\ Len(lru) \in Nat /\ CacheMax \in Nat
    BY <1>2, PackCacheAssumption DEF entry, CacheOK
  <2>2. /\ lru' \in Seq(Handles) /\ Distinct(lru') /\ Len(lru') = Len(lru) - 1 /\ Range(lru') = Range(lru) \ {i}
    BY Zenon, <1>2, <2>1, DropFacts
  <2>3. CacheOK(letGo(handles, {i}), lru', rd)
    BY Zenon, <2>1, <2>2, LetsGo
  <2> QED
    BY <1>2, <2>1, <2>2, <2>3
<1> QED
  BY Zenon, <1>1, <1>2 DEF invalidate

\* A hit of the cache takes a reference and moves the entry to the front.
LEMMA Hits ==
  ASSUME NEW hs, NEW rd, CacheOK(hs, lru, rd), Len(lru) <= CacheMax, NEW r \in Readers, NEW i \in Range(lru),
         NEW new \in ReaderRecords, rd[r].at \notin {"insert", "read"}, new.at = "read", new.handle = i
  PROVE  CacheOK(referenced(hs, i), toFront(i, lru), [rd EXCEPT ![r] = new]) /\ Len(toFront(i, lru)) <= CacheMax
<1>1. lru \in Seq(Handles) /\ Distinct(lru)
  BY Zenon DEF CacheOK
<1>2. /\ toFront(i, lru) \in Seq(Handles) /\ Distinct(toFront(i, lru))
      /\ Len(toFront(i, lru)) = Len(lru) /\ Range(toFront(i, lru)) = Range(lru)
  BY Zenon, <1>1, ToFrontFacts
<1>3. CacheOK(referenced(hs, i), lru, [rd EXCEPT ![r] = new])
  BY Refers
<1> QED
  BY Zenon, <1>2, <1>3, Reorders

\* Each step of a read keeps the cache.
LEMMA ReadKeepsCache ==
  ASSUME CacheInv, NEW r \in Readers, readStep(r) \/ \E k \in PackChunks : readChunk(r, k)
  PROVE  CacheOK(handles', lru', reader') /\ Len(lru') <= CacheMax /\ Looking(reader') /\ UNCHANGED <<newest, location>>
<1> DEFINE q == reader[r]
<1>1. /\ CacheOK(handles, lru, reader) /\ Len(lru) <= CacheMax /\ reader \in [Readers -> ReaderRecords]
      /\ lru \in Seq(Handles) /\ Len(lru) \in Nat /\ CacheMax \in Nat /\ q \in ReaderRecords /\ q.pack \in Nat
      /\ Looking(reader) /\ location \in [PackChunks -> Nat]
  BY PackCacheAssumption DEF CacheInv, CacheOK, ReaderRecords, Looking
<1>2. UNCHANGED <<newest, location>>
  BY Zenon DEF readStep, readChunk, lookupChunk, acquirePack, openPack, insertPack, readChunkAt, openFails, readFails, fileVars
<1>l. ASSUME NEW new \in ReaderRecords, goes(r, new),
             new.at \in {"lookup", "acquire", "open"} => new.chunk \in PackChunks
      PROVE  Looking(reader')
  BY Zenon, <1>1, <1>l DEF goes, Looking
<1> HIDE DEF q
<1>m. ASSUME NEW new \in ReaderRecords, goes(r, new), UNCHANGED cacheVars,
             q.at \notin {"insert", "read"}, new.at \notin {"insert", "read"}
      PROVE  CacheOK(handles', lru', reader') /\ Len(lru') <= CacheMax
  <2>1. CacheOK(handles, lru, [reader EXCEPT ![r] = new])
    BY Zenon, <1>1, <1>m, Moves DEF q
  <2> QED
    BY Zenon, <1>1, <1>m, <2>1 DEF cacheVars, goes
<1>3. ASSUME NEW k \in PackChunks, readChunk(r, k) PROVE CacheOK(handles', lru', reader') /\ Len(lru') <= CacheMax /\ Looking(reader')
  <2> DEFINE new == [away EXCEPT !.at = "lookup", !.chunk = k]
  <2>1. new \in ReaderRecords /\ new.at = "lookup" /\ new.chunk = k
    BY Zenon DEF ReaderRecords, ReaderPlaces, away
  <2>2. q.at = "rest" /\ goes(r, new) /\ UNCHANGED cacheVars
    BY Zenon, <1>3 DEF readChunk, is, q
  <2> HIDE DEF new
  <2> QED
    BY Zenon, <2>1, <2>2, <1>l, <1>m
<1>4. ASSUME lookupChunk(r) PROVE CacheOK(handles', lru', reader') /\ Len(lru') <= CacheMax /\ Looking(reader')
  <2> DEFINE new == [q EXCEPT !.at = "acquire", !.pack = location[q.chunk]]
  <2>1. q.at = "lookup" /\ goes(r, new) /\ UNCHANGED cacheVars
    BY Zenon, <1>4 DEF lookupChunk, is, q
  <2>2. q.chunk \in PackChunks /\ location[q.chunk] \in Nat
    BY Zenon, <1>1, <2>1 DEF Looking, q
  <2>3. new \in ReaderRecords /\ new.at = "acquire" /\ new.chunk = q.chunk
    BY Zenon, <1>1, <2>2 DEF ReaderRecords, ReaderPlaces
  <2> HIDE DEF new
  <2> QED
    BY Zenon, <2>1, <2>2, <2>3, <1>l, <1>m
<1>5. ASSUME acquirePack(r) PROVE CacheOK(handles', lru', reader') /\ Len(lru') <= CacheMax /\ Looking(reader')
  <2>0. q.at = "acquire" /\ q.chunk \in PackChunks
    BY Zenon, <1>1, <1>5 DEF acquirePack, is, q, Looking
  <2>1. CASE goes(r, [q EXCEPT !.at = "open"]) /\ UNCHANGED cacheVars
    <3> DEFINE new == [q EXCEPT !.at = "open"]
    <3>1. new \in ReaderRecords /\ new.at = "open" /\ new.chunk = q.chunk /\ goes(r, new)
      BY Zenon, <1>1, <2>1 DEF ReaderRecords, ReaderPlaces
    <3> HIDE DEF new
    <3> QED
      BY Zenon, <2>0, <2>1, <3>1, <1>l, <1>m
  <2>2. ASSUME NEW i \in entry(q.pack), goes(r, [q EXCEPT !.at = "read", !.handle = i]),
               handles' = referenced(handles, i), lru' = toFront(i, lru)
        PROVE  CacheOK(handles', lru', reader') /\ Len(lru') <= CacheMax /\ Looking(reader')
    <3> DEFINE new == [q EXCEPT !.at = "read", !.handle = i]
    <3>0. i \in Range(lru) /\ i \in Handles
      BY <1>1, <2>2 DEF entry, Range
    <3>1. new \in ReaderRecords /\ new.at = "read" /\ new.handle = i /\ goes(r, new)
      BY Zenon, <1>1, <2>2, <3>0 DEF ReaderRecords, ReaderPlaces
    <3> HIDE DEF new
    <3>2. CacheOK(referenced(handles, i), toFront(i, lru), [reader EXCEPT ![r] = new]) /\ Len(toFront(i, lru)) <= CacheMax
      BY Zenon, <1>1, <2>0, <3>0, <3>1, Hits DEF q
    <3> QED
      BY Zenon, <2>2, <3>1, <3>2, <1>l DEF goes
  <2> QED
    BY Zenon, <1>5, <2>1, <2>2 DEF acquirePack, q
<1>6. ASSUME openPack(r) PROVE CacheOK(handles', lru', reader') /\ Len(lru') <= CacheMax /\ Looking(reader')
  <2> DEFINE f == free
             new == [q EXCEPT !.at = "insert", !.handle = f]
  <2>1. f \in Handles /\ handles[f] = shut
    BY Zenon, FreeHandle
  <2>2. q.at = "open" /\ goes(r, new) /\ handles' = opened(f, q.pack) /\ lru' = lru
    BY Zenon, <1>6 DEF openPack, is, q
  <2> HIDE DEF f
  <2>3. new \in ReaderRecords /\ new.at = "insert" /\ new.handle = f /\ new.pack = q.pack
    BY Zenon, <1>1, <2>1 DEF ReaderRecords, ReaderPlaces
  <2> HIDE DEF new
  <2>4. CacheOK([handles EXCEPT ![f] = [shut EXCEPT !.pack = new.pack, !.open = TRUE]], lru, [reader EXCEPT ![r] = new])
    BY Zenon, <1>1, <2>1, <2>2, <2>3, Opens DEF q
  <2> QED
    BY Zenon, <1>1, <2>2, <2>3, <2>4, <1>l DEF goes, opened
<1>7. ASSUME insertPack(r) PROVE CacheOK(handles', lru', reader') /\ Len(lru') <= CacheMax /\ Looking(reader')
  <2> DEFINE own == q.handle
  <2>0. q.at = "insert" /\ own \in Handles /\ r \in openersOf(reader, own)
    BY Zenon, <1>1, <1>7 DEF insertPack, is, q, CacheOK, openersOf
  <2>1. CASE /\ entry(q.pack) = {} /\ goes(r, [q EXCEPT !.at = "read"])
             /\ evictLocked(referenced(handles, own), <<own>> \o lru)
    <3> DEFINE new == [q EXCEPT !.at = "read"]
    <3>1. new \in ReaderRecords /\ new.at = "read" /\ new.handle = own /\ goes(r, new)
      BY Zenon, <1>1, <2>1 DEF ReaderRecords, ReaderPlaces
    <3>2. \A j \in Range(lru) : handles[j].pack # q.pack
      BY Zenon, <2>1 DEF entry
    <3> HIDE DEF new
    <3>3. CacheOK(referenced(handles, own), <<own>> \o lru, [reader EXCEPT ![r] = new])
      BY Zenon, <1>1, <2>0, <3>1, <3>2, Inserts DEF q
    <3>4. Len(<<own>> \o lru) <= CacheMax + 1
      BY <1>1, <2>0
    <3>5. CacheOK(handles', lru', [reader EXCEPT ![r] = new]) /\ Len(lru') <= CacheMax
      BY Zenon, <2>1, <3>3, <3>4, Evicts
    <3> QED
      BY Zenon, <3>1, <3>5, <1>l DEF goes
  <2>2. ASSUME NEW i \in entry(q.pack), goes(r, [q EXCEPT !.at = "read", !.handle = i]),
               handles' = [referenced(handles, i) EXCEPT ![own] = shut], lru' = toFront(i, lru)
        PROVE  CacheOK(handles', lru', reader') /\ Len(lru') <= CacheMax /\ Looking(reader')
    <3> DEFINE new == [q EXCEPT !.at = "read", !.handle = i]
               left == [reader EXCEPT ![r] = away]
               rest == [handles EXCEPT ![own] = shut]
    <3>0. i \in Range(lru) /\ i \in Handles
      BY <1>1, <2>2 DEF entry, Range
    <3>1. new \in ReaderRecords /\ new.at = "read" /\ new.handle = i /\ goes(r, new)
      BY Zenon, <1>1, <2>2, <3>0 DEF ReaderRecords, ReaderPlaces
    <3>2. away \in ReaderRecords /\ away.at = "rest"
      BY Zenon DEF ReaderRecords, ReaderPlaces, away
    <3> HIDE DEF new
    <3>3. own \notin Range(lru) /\ CacheOK(rest, lru, left)
      BY Zenon, <1>1, <2>0, <3>2, Discards
    <3>4. left[r].at = "rest" /\ [left EXCEPT ![r] = new] = [reader EXCEPT ![r] = new]
      BY Zenon, <1>1, <3>2
    <3> HIDE DEF left
    <3>5. /\ CacheOK(referenced(rest, i), toFront(i, lru), [left EXCEPT ![r] = new])
          /\ Len(toFront(i, lru)) <= CacheMax
      <4> HIDE DEF rest
      <4> QED
        BY <1>1, <3>0, <3>1, <3>3, <3>4, Hits
    <3>6. referenced(rest, i) = [referenced(handles, i) EXCEPT ![own] = shut]
      <4>1. i # own /\ handles \in [Handles -> HandleRecords]
        BY Zenon, <1>1, <3>0, <3>3 DEF CacheOK
      <4> QED
        BY Zenon, <4>1, <3>0, <2>0 DEF referenced
    <3> QED
      BY Zenon, <2>2, <3>1, <3>4, <3>5, <3>6, <1>l DEF goes
  <2> QED
    BY Zenon, <1>7, <2>1, <2>2 DEF insertPack, q
<1>8. ASSUME readChunkAt(r) PROVE CacheOK(handles', lru', reader') /\ Len(lru') <= CacheMax /\ Looking(reader')
  <2>1. away \in ReaderRecords /\ away.at = "rest"
    BY Zenon DEF ReaderRecords, ReaderPlaces, away
  <2>2. q.at = "read" /\ goes(r, away) /\ handles' = releaser(handles, q.handle) /\ lru' = lru
    BY Zenon, <1>8 DEF readChunkAt, is, q
  <2>3. CacheOK(releaser(handles, q.handle), lru, [reader EXCEPT ![r] = away])
    BY Zenon, <1>1, <2>1, <2>2, Releases DEF q
  <2> QED
    BY Zenon, <1>1, <2>1, <2>2, <2>3, <1>l DEF goes
<1>9. ASSUME openFails(r) PROVE CacheOK(handles', lru', reader') /\ Len(lru') <= CacheMax /\ Looking(reader')
  <2>0. q.at = "open" /\ q.chunk \in PackChunks
    BY Zenon, <1>1, <1>9 DEF openFails, is, q, Looking
  <2>1. CASE q.again
    <3> DEFINE new == [q EXCEPT !.at = "failed"]
    <3>1. new \in ReaderRecords /\ new.at = "failed" /\ goes(r, new) /\ UNCHANGED cacheVars
      BY Zenon, <1>1, <1>9, <2>1 DEF ReaderRecords, ReaderPlaces, openFails, q
    <3> HIDE DEF new
    <3> QED
      BY <2>0, <3>1, <1>l, <1>m
  <2>2. CASE ~q.again
    <3> DEFINE new == [q EXCEPT !.at = "lookup", !.again = TRUE]
    <3>1. new \in ReaderRecords /\ new.at = "lookup" /\ new.chunk = q.chunk /\ goes(r, new) /\ invalidate(q.pack)
      BY Zenon, <1>1, <1>9, <2>2 DEF ReaderRecords, ReaderPlaces, openFails, q
    <3> HIDE DEF new
    <3>2. CacheOK(handles, lru, [reader EXCEPT ![r] = new])
      BY Zenon, <1>1, <2>0, <3>1, Moves DEF q
    <3>3. CacheOK(handles', lru', [reader EXCEPT ![r] = new]) /\ Len(lru') <= CacheMax
      BY Zenon, <1>1, <3>1, <3>2, Invalidates
    <3> QED
      BY Zenon, <2>0, <3>1, <3>3, <1>l DEF goes
  <2> QED
    BY Zenon, <2>1, <2>2
<1>10. ASSUME readFails(r) PROVE CacheOK(handles', lru', reader') /\ Len(lru') <= CacheMax /\ Looking(reader')
  <2>1. away \in ReaderRecords /\ away.at = "rest"
    BY Zenon DEF ReaderRecords, ReaderPlaces, away
  <2>2. q.at = "failed" /\ goes(r, away) /\ UNCHANGED cacheVars
    BY Zenon, <1>10 DEF readFails, is, q
  <2> QED
    BY Zenon, <2>1, <2>2, <1>l, <1>m
<1> QED
  BY <1>2, <1>3, <1>4, <1>5, <1>6, <1>7, <1>8, <1>9, <1>10 DEF readStep

\* Every step keeps the cache.
LEMMA CacheStep == CacheInv /\ [PackCacheNext]_packCacheVars => CacheInv'
<1> SUFFICES ASSUME CacheInv, [PackCacheNext]_packCacheVars PROVE CacheInv'
  BY Zenon
<1>1. /\ CacheOK(handles, lru, reader) /\ Len(lru) <= CacheMax /\ lru \in Seq(Handles) /\ Distinct(lru)
      /\ Len(lru) \in Nat /\ CacheMax \in Nat /\ newest \in Nat /\ location \in [PackChunks -> Nat] /\ Looking(reader)
      /\ handles \in [Handles -> HandleRecords]
  BY PackCacheAssumption DEF CacheInv, CacheOK
<1>2. ASSUME NEW r \in Readers, readStep(r) \/ \E k \in PackChunks : readChunk(r, k) PROVE CacheInv'
  BY Zenon, <1>1, <1>2, ReadKeepsCache DEF CacheInv
<1>3. ASSUME closeAllPacks PROVE CacheInv'
  <2>1. <<>> \in Seq(Handles) /\ Distinct(<<>>) /\ Range(<<>>) = Range(lru) \ Range(lru) /\ Len(<<>>) <= CacheMax
    BY <1>1 DEF Distinct, Range
  <2>2. CacheOK(letGo(handles, Range(lru)), <<>>, reader)
    BY Zenon, <1>1, <2>1, LetsGo
  <2> QED
    BY Zenon, <1>1, <1>3, <2>1, <2>2 DEF closeAllPacks, fileVars, CacheInv
<1>4. ASSUME appendToActivePack \/ (\E p \in files : Repack(p)) \/ removePack \/ repackFails PROVE CacheInv'
  BY <1>1, <1>4 DEF appendToActivePack, Repack, removePack, repackFails, cacheVars, CacheInv
<1>5. ASSUME NEW k \in PackChunks, relocateLiveChunks(k) PROVE CacheInv'
  <2> DEFINE p == location[k]
  <2>0. p \in Nat /\ location' \in [PackChunks -> Nat] /\ UNCHANGED <<newest, reader>>
    BY Zenon, <1>1, <1>5 DEF relocateLiveChunks
  <2>1. CASE entry(p) = {}
    <3> DEFINE f == free
    <3>1. f \in Handles /\ handles[f] = shut
      BY Zenon, FreeHandle
    <3>2. evictLocked(opened(f, p), <<f>> \o lru)
      BY Zenon, <1>5, <2>1 DEF relocateLiveChunks
    <3> HIDE DEF f, p
    <3>3. \A j \in Range(lru) : handles[j].pack # p
      BY Zenon, <2>1 DEF entry
    <3>4. CacheOK(opened(f, p), <<f>> \o lru, reader)
      BY Zenon, <1>1, <2>0, <3>1, <3>3, OpensCached DEF opened
    <3>5. Len(<<f>> \o lru) <= CacheMax + 1
      BY <1>1, <3>1
    <3>6. CacheOK(handles', lru', reader) /\ Len(lru') <= CacheMax
      BY Zenon, <3>2, <3>4, <3>5, Evicts
    <3> QED
      BY Zenon, <1>1, <2>0, <3>6 DEF CacheInv
  <2>2. CASE entry(p) # {}
    <3>1. PICK i \in entry(p) : lru' = toFront(i, lru) /\ handles' = handles
      BY Zenon, <1>5, <2>2 DEF relocateLiveChunks
    <3>2. i \in Range(lru)
      BY Zenon DEF entry
    <3>3. /\ lru' \in Seq(Handles) /\ Distinct(lru') /\ Len(lru') = Len(lru) /\ Range(lru') = Range(lru)
      BY <1>1, <3>1, <3>2, ToFrontFacts
    <3>4. CacheOK(handles, lru', reader)
      BY Zenon, <1>1, <3>3, Reorders
    <3> QED
      BY Zenon, <1>1, <2>0, <3>1, <3>3, <3>4 DEF CacheInv
  <2> QED
    BY Zenon, <2>1, <2>2
<1>6. ASSUME invalidatePack PROVE CacheInv'
  BY Zenon, <1>1, <1>6, Invalidates DEF invalidatePack, CacheInv
<1>7. ASSUME UNCHANGED packCacheVars PROVE CacheInv'
  BY Zenon, <1>1, <1>7 DEF packCacheVars, CacheInv
<1> QED
  BY <1>2, <1>3, <1>4, <1>5, <1>6, <1>7 DEF PackCacheNext

\* The empty cache of a store that opens agrees with its readers.
LEMMA CacheStarts == PackCacheInit => CacheInv
<1> SUFFICES ASSUME PackCacheInit PROVE CacheInv
  BY Zenon
<1>1. /\ handles = [i \in Handles |-> shut] /\ lru = <<>> /\ reader = [r \in Readers |-> away] /\ newest = 2
      /\ location = [k \in PackChunks |-> 1] /\ CacheMax \in Nat
  BY Zenon, PackCacheAssumption DEF PackCacheInit
<1>2. away \in ReaderRecords /\ away.at = "rest" /\ shut \in HandleRecords /\ shut.refs = 0
  BY Zenon DEF ReaderRecords, ReaderPlaces, away, shut, HandleRecords
<1>3. /\ lru \in Seq(Handles) /\ Distinct(lru) /\ Range(lru) = {} /\ Len(lru) = 0
      /\ handles \in [Handles -> HandleRecords] /\ reader \in [Readers -> ReaderRecords]
  BY <1>1, <1>2 DEF Distinct, Range
<1>4. \A i : readersOf(reader, i) = {} /\ openersOf(reader, i) = {}
  BY Zenon, <1>1, <1>2 DEF readersOf, openersOf
<1>5. \A i \in Handles : HandleOK(handles, lru, reader, i)
  BY Zenon, <1>1, <1>2, <1>3, <1>4, FS_EmptySet DEF HandleOK
<1>6. CacheOK(handles, lru, reader)
  BY Zenon, <1>1, <1>2, <1>3, <1>5 DEF CacheOK
<1> QED
  BY <1>1, <1>2, <1>3, <1>6 DEF CacheInv, Looking

\* The cache of open packs at every moment: a handle's references are the reads
\* in progress on it, no eviction, invalidation or closing takes the file from
\* under one of them, none is leaked, and the bound and the one entry per pack
\* hold (acquire, release, evictLocked, invalidate and closeAll).
THEOREM HandlesAlwaysCounted == PackCacheSpec => []HandlesCounted
<1>1. PackCacheSpec => []CacheInv
  BY CacheStarts, CacheStep, PTL DEF PackCacheSpec
<1>2. CacheInv => HandlesCounted
  <2> SUFFICES ASSUME CacheInv PROVE HandlesCounted
    BY Zenon
  <2>1. \A i : users(i) = readersOf(reader, i)
    BY Zenon DEF users, is, readersOf
  <2>2. ASSUME NEW i \in Handles
        PROVE  /\ handles[i].refs = Cardinality(users(i))
               /\ handles[i].open <=>
                     \/ i \in Range(lru) \/ users(i) # {}
                     \/ \E r \in Readers : is(r, "insert") /\ reader[r].handle = i
    <3>1. HandleOK(handles, lru, reader, i)
      BY Zenon DEF CacheInv, CacheOK
    <3>2. (\E r \in Readers : is(r, "insert") /\ reader[r].handle = i) <=> openersOf(reader, i) # {}
      BY Zenon DEF is, openersOf
    <3>3. shut.open = FALSE
      BY Zenon DEF shut
    <3> QED
      BY Zenon, <2>1, <3>1, <3>2, <3>3 DEF HandleOK
  <2> QED
    BY Zenon, <2>2 DEF HandlesCounted, CacheInv, CacheOK
<1> QED
  BY <1>1, <1>2, PTL

-----------------------------------------------------------------------------
(* Reads under a repack *)

\* A step of a reader changes what that reader knows, and nothing of the files.
LEMMA ReadKeepsReads ==
  ASSUME CacheInv, ReadsInv, NEW r \in Readers, readStep(r) \/ \E k \in PackChunks : readChunk(r, k)
  PROVE  ReadsInv'
<1> DEFINE q == reader[r]
<1>1. /\ reader \in [Readers -> ReaderRecords] /\ q \in ReaderRecords /\ Looking(reader)
      /\ gone \in [Readers -> SUBSET (1 .. newest)] /\ ReadOK(q, gone[r], files)
  BY Zenon DEF CacheInv, CacheOK, ReadsInv
<1>2. UNCHANGED fileVars
  BY Zenon DEF readStep, readChunk, lookupChunk, acquirePack, openPack, insertPack, readChunkAt, openFails, readFails
<1>k. ASSUME NEW new, goes(r, new), gone' \in [Readers -> SUBSET (1 .. newest)],
             \A o \in Readers \ {r} : gone'[o] = gone[o], ReadOK(new, gone'[r], files)
      PROVE  ReadsInv'
  <2>1. \A o \in Readers : ReadOK(reader'[o], gone'[o], files)
    BY Zenon, <1>1, <1>k DEF goes, ReadsInv
  <2> QED
    BY Zenon, <1>2, <1>k, <2>1 DEF ReadsInv, fileVars
<1> HIDE DEF q
<1>s. ASSUME NEW new, goes(r, new), gone' = gone, ReadOK(new, gone[r], files) PROVE ReadsInv'
  BY Zenon, <1>1, <1>k, <1>s
<1>a. away.at = "rest" /\ away.again = FALSE
  BY Zenon DEF away
<1>3. ASSUME NEW k \in PackChunks, readChunk(r, k) PROVE ReadsInv'
  <2> DEFINE new == [away EXCEPT !.at = "lookup", !.chunk = k]
  <2>1. new.at = "lookup" /\ new.again = FALSE /\ goes(r, new) /\ gone' = [gone EXCEPT ![r] = {}]
    BY Zenon, <1>3 DEF away, readChunk
  <2> HIDE DEF new
  <2>2. ReadOK(new, {}, files)
    BY Zenon, <2>1 DEF ReadOK
  <2>3. gone'[r] = {} /\ gone' \in [Readers -> SUBSET (1 .. newest)] /\ \A o \in Readers \ {r} : gone'[o] = gone[o]
    BY Zenon, <1>1, <2>1
  <2> QED
    BY Zenon, <1>k, <2>1, <2>2, <2>3
<1>4. ASSUME lookupChunk(r) PROVE ReadsInv'
  <2> DEFINE new == [q EXCEPT !.at = "acquire", !.pack = location[q.chunk]]
  <2>1. q.at = "lookup" /\ goes(r, new) /\ gone' = gone
    BY Zenon, <1>4 DEF lookupChunk, is, q
  <2>2. q.chunk \in PackChunks /\ location[q.chunk] \in files
    BY Zenon, <1>1, <2>1 DEF Looking, ReadsInv, q
  <2>3. new.at = "acquire" /\ new.again = q.again /\ new.pack = location[q.chunk]
    BY Zenon, <1>1 DEF ReaderRecords
  <2> HIDE DEF new
  <2>4. ReadOK(new, gone[r], files)
    BY Zenon, <1>1, <2>1, <2>2, <2>3 DEF ReadOK
  <2> QED
    BY Zenon, <1>s, <2>1, <2>4
<1>5. ASSUME NEW new \in ReaderRecords, goes(r, new), gone' = gone, new.again = q.again, new.pack = q.pack,
             \/ q.at = "acquire" /\ new.at \in {"open", "read"}
             \/ q.at \in {"open", "insert"} /\ new.at \in {"insert", "read"}
      PROVE  ReadsInv'
  <2>1. ReadOK(new, gone[r], files)
    BY Zenon, <1>1, <1>5 DEF ReadOK
  <2> QED
    BY Zenon, <1>s, <1>5, <2>1
<1>6. ASSUME acquirePack(r) \/ openPack(r) \/ insertPack(r) PROVE ReadsInv'
  <2>1. PICK new :
           /\ goes(r, new) /\ gone' = gone
           /\ \/ q.at = "acquire" /\ new = [q EXCEPT !.at = "open"]
              \/ /\ q.at \in {"acquire", "insert"}
                 /\ \E i \in Range(lru) : new = [q EXCEPT !.at = "read", !.handle = i]
              \/ q.at = "open" /\ new = [q EXCEPT !.at = "insert", !.handle = free]
              \/ q.at = "insert" /\ new = [q EXCEPT !.at = "read"]
    BY Zenon, <1>6 DEF acquirePack, openPack, insertPack, is, q, entry
  <2>2. free \in Handles /\ Range(lru) \subseteq Handles
    BY FreeHandle DEF CacheInv, CacheOK, Range
  <2>3. /\ new \in ReaderRecords /\ new.again = q.again /\ new.pack = q.pack
        /\ \/ q.at = "acquire" /\ new.at \in {"open", "read"}
           \/ q.at \in {"open", "insert"} /\ new.at \in {"insert", "read"}
    <3>1. CASE q.at = "acquire" /\ new = [q EXCEPT !.at = "open"]
      BY Zenon, <1>1, <3>1 DEF ReaderRecords, ReaderPlaces
    <3>2. ASSUME q.at \in {"acquire", "insert"}, NEW i \in Range(lru), new = [q EXCEPT !.at = "read", !.handle = i]
          PROVE  <2>3!1 /\ <2>3!2
      BY Zenon, <1>1, <2>2, <3>2 DEF ReaderRecords, ReaderPlaces
    <3>3. CASE q.at = "open" /\ new = [q EXCEPT !.at = "insert", !.handle = free]
      BY Zenon, <1>1, <2>2, <3>3 DEF ReaderRecords, ReaderPlaces
    <3>4. CASE q.at = "insert" /\ new = [q EXCEPT !.at = "read"]
      BY Zenon, <1>1, <3>4 DEF ReaderRecords, ReaderPlaces
    <3> QED
      BY Zenon, <2>1, <3>1, <3>2, <3>3, <3>4
  <2> QED
    BY Zenon, <1>5, <2>1, <2>3
<1>7. ASSUME readChunkAt(r) \/ readFails(r) PROVE ReadsInv'
  <2>1. goes(r, away) /\ gone' = gone
    BY Zenon, <1>7 DEF readChunkAt, readFails
  <2>2. ReadOK(away, gone[r], files)
    BY Zenon, <1>1, <1>a DEF ReadOK
  <2> QED
    BY Zenon, <1>s, <2>1, <2>2
<1>8. ASSUME openFails(r) PROVE ReadsInv'
  <2>0. q.at = "open" /\ q.pack \notin files /\ gone' = gone
    BY Zenon, <1>8 DEF openFails, is, q
  <2>1. CASE q.again
    <3> DEFINE new == [q EXCEPT !.at = "failed"]
    <3>1. goes(r, new) /\ new.at = "failed" /\ new.again = q.again
      BY Zenon, <1>1, <1>8, <2>1 DEF openFails, q, ReaderRecords
    <3> HIDE DEF new
    <3>2. ReadOK(new, gone[r], files)
      BY Zenon, <1>1, <2>0, <2>1, <3>1 DEF ReadOK
    <3> QED
      BY Zenon, <1>s, <2>0, <3>1, <3>2
  <2>2. CASE ~q.again
    <3> DEFINE new == [q EXCEPT !.at = "lookup", !.again = TRUE]
    <3>1. goes(r, new) /\ new.at = "lookup"
      BY Zenon, <1>1, <1>8, <2>2 DEF openFails, q, ReaderRecords
    <3> HIDE DEF new
    <3>2. ReadOK(new, gone[r], files)
      BY Zenon, <1>1, <2>0, <3>1 DEF ReadOK
    <3> QED
      BY <1>s, <2>0, <3>1, <3>2
  <2> QED
    BY Zenon, <2>1, <2>2
<1> QED
  BY Zenon, <1>3, <1>4, <1>6, <1>7, <1>8 DEF readStep

\* Every step keeps what the readers know.
LEMMA ReadsStep == CacheInv /\ ReadsInv /\ [PackCacheNext]_packCacheVars => ReadsInv'
<1> SUFFICES ASSUME CacheInv, ReadsInv, [PackCacheNext]_packCacheVars PROVE ReadsInv'
  BY Zenon
<1>1. newest \in Nat /\ location \in [PackChunks -> Nat]
  BY Zenon DEF CacheInv
<1>2. ASSUME NEW r \in Readers, readStep(r) \/ \E k \in PackChunks : readChunk(r, k) PROVE ReadsInv'
  BY Zenon, <1>2, ReadKeepsReads
<1>3. ASSUME closeAllPacks \/ UNCHANGED packCacheVars PROVE ReadsInv'
  BY Zenon, <1>3 DEF closeAllPacks, packCacheVars, fileVars, ReadsInv
<1>4. ASSUME appendToActivePack PROVE ReadsInv'
  <2>1. /\ newest' = newest + 1 /\ files' = files \cup {newest + 1} /\ UNCHANGED <<location, reader, repacking, gone>>
        /\ 1 .. newest \subseteq 1 .. newest' /\ newest + 1 \notin 1 .. newest
    BY <1>1, <1>4 DEF appendToActivePack
  <2>2. ASSUME NEW r \in Readers PROVE ReadOK(reader[r], gone[r], files')
    <3>1. newest + 1 \notin gone[r] /\ ReadOK(reader[r], gone[r], files)
      BY Zenon, <2>1 DEF ReadsInv
    <3> QED
      BY Zenon, <2>1, <3>1 DEF ReadOK
  <2>3. files' \subseteq 1 .. newest' /\ newest' \in files' /\ newest' \notin files
    BY <1>1, <2>1 DEF ReadsInv
  <2>4. gone \in [Readers -> SUBSET (1 .. newest')]
    BY Zenon, <2>1 DEF ReadsInv
  <2> QED
    BY Zenon, <2>1, <2>2, <2>3, <2>4 DEF ReadsInv
<1>5. ASSUME NEW p \in files, Repack(p) PROVE ReadsInv'
  <2>1. p \in Nat
    BY <1>1 DEF ReadsInv
  <2> QED
    BY Zenon, <1>5, <2>1 DEF Repack, ReadsInv
<1>6. ASSUME NEW k \in PackChunks, relocateLiveChunks(k) PROVE ReadsInv'
  BY Zenon, <1>1, <1>6 DEF relocateLiveChunks, ReadsInv
<1>7. ASSUME invalidatePack PROVE ReadsInv'
  BY Zenon, <1>1, <1>7 DEF invalidatePack, ReadsInv, Range
<1>8. ASSUME removePack PROVE ReadsInv'
  <2> DEFINE x == repacking.pack
  <2>1. /\ repacking.at = "remove" /\ files' = files \ {x} /\ repacking' = off /\ UNCHANGED <<location, newest, reader>>
        /\ x \in files /\ x # newest /\ x \in 1 .. newest
        /\ gone' = [r \in Readers |-> IF is(r, "rest") THEN {} ELSE gone[r] \cup {x}]
    BY Zenon, <1>8 DEF removePack, ReadsInv
  <2> HIDE DEF x
  <2>2. ASSUME NEW r \in Readers PROVE ReadOK(reader[r], gone'[r], files') /\ gone'[r] \in SUBSET (1 .. newest)
    <3>1. ReadOK(reader[r], gone[r], files) /\ gone[r] \in SUBSET (1 .. newest)
      BY Zenon DEF ReadsInv
    <3>2. CASE is(r, "rest")
      BY Zenon, <2>1, <3>1, <3>2 DEF ReadOK, is
    <3>3. CASE ~is(r, "rest")
      <4>1. gone'[r] = gone[r] \cup {x} /\ x \notin gone[r]
        BY Zenon, <2>1, <3>1, <3>3 DEF ReadOK
      <4> QED
        BY <2>1, <3>1, <4>1 DEF ReadOK
    <3> QED
      BY Zenon, <3>2, <3>3
  <2>3. \A k \in PackChunks : location[k] \in files'
    BY Zenon, <2>1 DEF ReadsInv, x
  <2>4. off \in [at : {"off", "move", "remove"}, pack : Nat] /\ off.at = "off"
    BY Zenon DEF off
  <2>5. gone' \in [Readers -> SUBSET (1 .. newest)] /\ \A r \in Readers : ReadOK(reader[r], gone'[r], files')
    BY Zenon, <2>1, <2>2
  <2> QED
    BY Zenon, <2>1, <2>3, <2>4, <2>5 DEF ReadsInv
<1>9. ASSUME repackFails PROVE ReadsInv'
  BY Zenon, <1>9 DEF repackFails, ReadsInv, off
<1> QED
  BY <1>2, <1>3, <1>4, <1>5, <1>6, <1>7, <1>8, <1>9 DEF PackCacheNext

\* One repack pass never fails a read: a read that fails has seen two packs
\* removed under it, since the pack looked up after the first failure existed
\* then (readChunk's one retry, the order of Repack: index first, file last).
THEOREM ReadsAlwaysSurvive == PackCacheSpec => []ReadsSurviveRepack
<1>1. PackCacheInit => ReadsInv
  <2> SUFFICES ASSUME PackCacheInit PROVE ReadsInv
    BY Zenon
  <2>1. \A r \in Readers : ReadOK(reader[r], gone[r], files)
    BY Zenon DEF PackCacheInit, ReadOK, away
  <2> QED
    BY <2>1 DEF PackCacheInit, ReadsInv, off
<1>2. PackCacheSpec => [](CacheInv /\ ReadsInv)
  BY <1>1, CacheStarts, CacheStep, ReadsStep, PTL DEF PackCacheSpec
<1>3. ReadsInv => ReadsSurviveRepack
  BY Zenon DEF ReadsInv, ReadsSurviveRepack, ReadOK, is
<1> QED
  BY <1>2, <1>3, PTL
=============================================================================
