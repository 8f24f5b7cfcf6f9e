-------------------------- MODULE StoreCacheProofs ---------------------------
(* Theorems about the store's read cache, for any tables, calls, writes and    *)
(* numbers of readers and writers: what it holds is current but for writes it  *)
(* has still to be told of, and it implements StoreReads.                      *)
EXTENDS StoreCache, TLAPS

\* A committed write has its versions, each its own.
WritesOK ==
  \A w \in Writer : writing[w].pc # "idle" =>
    \A c \in writing[w].what.cells :
      /\ writing[w].at[c] <= ver[c]
      /\ \A u \in Writer : u # w /\ writing[u].pc # "idle" /\ c \in writing[u].what.cells =>
           writing[u].at[c] # writing[w].at[c]

\* A settled version is a committed one, and the cache has heard of it.
SettledOK == \A c \in Cell : settled[c] <= ver[c] /\ ~Unheard(c, settled[c])

\* The index finds every entry by each of its tables.
Indexed == \A k \in Key : entries[k] # None => \A t \in TablesOf(k) : k \in byTable[t]

GenPast(x) == x.gen.all <= allGen /\ \A t \in TablesOf(x.key) : x.gen.of[t] <= gens[t]
Bounds(x) == \A c \in Reads[x.key] : x.floor[c] <= x.v[c] /\ x.v[c] <= ver[c]

\* What a call holds: a floor that has settled, a generation not of the future,
\* and rows that may be remembered if that generation still stands.
CallOK(x) ==
  /\ x.pc # "idle" => \A c \in Reads[x.key] : x.floor[c] <= settled[c]
  /\ x.pc \in {"load", "keep"} => GenPast(x)
  /\ x.pc \in {"keep", "done"} => Bounds(x)
  /\ x.pc = "keep" /\ x.gen = genLocked(TablesOf(x.key)) => Current(x.key, x.v)
CallsOK == \A r \in Reader : CallOK(call[r])

CacheInv ==
  /\ CacheTypeOK /\ WritesOK /\ SettledOK /\ Indexed /\ CacheCurrent /\ CallsOK
------------------------------------------------------------------------------
\* Every table a call reads is a table.
LEMMA TablesAreTables ==
  /\ \A k \in Key : TablesOf(k) \subseteq Table
  /\ \A x \in Write : x.tables = {AllTables} \/ (x.tables \subseteq Table /\ AllTables \notin x.tables)
  BY StoreAssumption, WriteAssumption DEF TablesOf, Table

LEMMA CommitTypes ==
  ASSUME CacheTypeOK, NEW w \in Writer, NEW x \in Write, Commit(w, x)
  PROVE  CacheTypeOK'
<1>. USE DEF Commit, CacheTypeOK, cache, Announcement
<1>1. (ver \in Versions /\ settled \in Versions)'
  BY WriteAssumption DEF Versions
<1>2. [c \in x.cells |-> ver[c] + 1] \in [x.cells -> Nat]
  BY WriteAssumption DEF Versions
<1>3. \A u \in Writer : WriteTypeOK(writing'[u])
  <2>. TAKE u \in Writer
  <2>1. CASE u = w
    BY <2>1, <1>2 DEF WriteTypeOK
  <2>2. CASE u # w
    BY <2>2
  <2>. QED  BY <2>1, <2>2
<1>4. \A r \in Reader : CallTypeOK(call'[r])
  OBVIOUS
<1>. QED  BY <1>1, <1>3, <1>4 DEF WriteTypeOK, CallTypeOK, Rows, Gen

\* What Remember does, the cache being full or not.
Remembered(k, v, full) ==
  /\ entries' = [x \in Key |-> IF x = k THEN v ELSE IF full THEN None ELSE entries[x]]
  /\ byTable' = [t \in Table |-> (IF full THEN {} ELSE byTable[t])
                                   \cup (IF t \in TablesOf(k) THEN {k} ELSE {})]

LEMMA RememberedEither ==
  ASSUME NEW k, NEW v, Remember(k, v)
  PROVE  \E full \in BOOLEAN : Remembered(k, v, full)
<1>. DEFINE full == Cardinality({x \in Key : entries[x] # None}) >= MaxEntries
<1>1. Remembered(k, v, full)
  BY DEF Remember, Remembered
<1>2. CASE full
  <2>. Remembered(k, v, TRUE)  BY <1>1, <1>2 DEF Remembered
  <2>. QED  OBVIOUS
<1>3. CASE ~full
  <2>. Remembered(k, v, FALSE)  BY <1>1, <1>3 DEF Remembered
  <2>. QED  OBVIOUS
<1>. QED  BY <1>2, <1>3

LEMMA InvalidateTypes ==
  ASSUME CacheTypeOK, NEW w \in Writer, Invalidate(w)
  PROVE  CacheTypeOK'
<1>. USE DEF Invalidate, CacheTypeOK, Announcement
<1>1. \A u \in Writer : WriteTypeOK(writing'[u])
  BY DEF WriteTypeOK
<1>2. gens' \in [Table -> Nat] /\ allGen' \in Nat
  OBVIOUS
<1>3. DOMAIN entries' = Key /\ \A k \in Key : entries'[k] = None \/ entries'[k] \in Rows(k)
  OBVIOUS
<1>4. byTable' \in [Table -> SUBSET Key]
  OBVIOUS
<1>. QED  BY <1>1, <1>2, <1>3, <1>4 DEF WriteTypeOK, CallTypeOK, Rows, Gen

LEMMA ReturnTypes ==
  ASSUME CacheTypeOK, NEW w \in Writer, Return(w)
  PROVE  CacheTypeOK'
<1>. USE DEF Return, CacheTypeOK, cache, Announcement
<1>1. settled' \in Versions
  BY DEF Versions, WriteTypeOK
<1>2. \A u \in Writer : WriteTypeOK(writing'[u])
  BY DEF WriteTypeOK, NoWrite
<1>. QED  BY <1>1, <1>2 DEF WriteTypeOK, CallTypeOK, Rows, Gen

LEMMA CallsTyped ==
  ASSUME CacheTypeOK, UNCHANGED <<db, cache>>, DOMAIN call' = Reader,
         \A q \in Reader : CallTypeOK(call'[q])
  PROVE  CacheTypeOK'
  BY DEF CacheTypeOK, db, cache, WriteTypeOK, CallTypeOK, Rows, Gen

\* A step of one call leaves the others', and the database, as they are.
LEMMA ReadTypes ==
  ASSUME CacheTypeOK, NEW r \in Reader, (\E k \in Key : Call(r, k)) \/ ReadStep(r) \/ Leave(r)
  PROVE  CacheTypeOK'
<1>. USE DEF CacheTypeOK, db, cache, Frame
<1>1. ASSUME NEW k \in Key, Call(r, k)
      PROVE  CacheTypeOK'
  <2>1. [c \in Reads[k] |-> settled[c]] \in Rows(k)
    BY StoreAssumption DEF Rows, Versions
  <2>2. \A q \in Reader : CallTypeOK(call'[q])
    BY <1>1, <2>1 DEF Call, CallTypeOK
  <2>. QED  BY <1>1, <2>2, CallsTyped DEF Call
<1>2. CASE Hit(r)
  <2>1. \A q \in Reader : CallTypeOK(call'[q])
    BY <1>2 DEF Hit, Give, CallTypeOK
  <2>. QED  BY <1>2, <2>1, CallsTyped DEF Hit, Give
<1>3. CASE Miss(r)
  <2>1. genLocked(TablesOf(call[r].key)) \in Gen(TablesOf(call[r].key))
    BY <1>3, TablesAreTables DEF Miss, genLocked, Gen, CallTypeOK
  <2>2. \A q \in Reader : CallTypeOK(call'[q])
    BY <1>3, <2>1 DEF Miss, CallTypeOK
  <2>. QED  BY <1>3, <2>2, CallsTyped DEF Miss
<1>4. CASE Load(r)
  <2>1. RowsOf(call[r].key) \in Rows(call[r].key)
    BY <1>4, StoreAssumption DEF Load, RowsOf, Rows, Versions, CallTypeOK
  <2>2. \A q \in Reader : CallTypeOK(call'[q])
    BY <1>4, <2>1 DEF Load, CallTypeOK
  <2>. QED  BY <1>4, <2>2, CallsTyped DEF Load
<1>5. CASE Keep(r)
  <2>0. UNCHANGED <<ver, settled, writing, gens, allGen>> /\ DOMAIN call' = Reader
    BY <1>5 DEF Keep, Give
  <2>1. \A q \in Reader : CallTypeOK(call'[q])
    BY <1>5 DEF Keep, Give, CallTypeOK
  <2>2. call[r].key \in Key /\ call[r].v \in Rows(call[r].key)
    BY <1>5 DEF Keep, CallTypeOK
  <2>3. CASE Remember(call[r].key, call[r].v)
    <3>1. PICK full \in BOOLEAN : Remembered(call[r].key, call[r].v, full)
      BY <2>3, RememberedEither
    <3>2. DOMAIN entries' = Key /\ \A k \in Key : entries'[k] = None \/ entries'[k] \in Rows(k)
      BY <2>2, <3>1 DEF Remembered
    <3>3. byTable' \in [Table -> SUBSET Key]
      BY <2>2, <3>1 DEF Remembered
    <3>. QED  BY <2>0, <2>1, <3>2, <3>3 DEF WriteTypeOK, CallTypeOK, Rows, Gen
  <2>4. CASE UNCHANGED <<entries, byTable>>
    BY <2>0, <2>1, <2>4 DEF WriteTypeOK, CallTypeOK, Rows, Gen
  <2>5. Remember(call[r].key, call[r].v) \/ UNCHANGED <<entries, byTable>>
    BY <1>5 DEF Keep
  <2>. QED  BY <2>3, <2>4, <2>5
<1>6. CASE Leave(r)
  <2>1. \A q \in Reader : CallTypeOK(call'[q])
    BY <1>6 DEF Leave, CallTypeOK, NoCall
  <2>. QED  BY <1>6, <2>1, CallsTyped DEF Leave
<1>. QED  BY <1>1, <1>2, <1>3, <1>4, <1>5, <1>6 DEF ReadStep

\* Every action preserves the types.
LEMMA CacheTypeStep ==
  ASSUME CacheTypeOK, [CacheNext]_cacheVars
  PROVE  CacheTypeOK'
<1>1. CASE UNCHANGED cacheVars
  BY <1>1 DEF cacheVars, db, cache, CacheTypeOK, WriteTypeOK, CallTypeOK, Rows, Gen
<1>. QED  BY <1>1, CommitTypes, InvalidateTypes, ReturnTypes, ReadTypes DEF CacheNext

\* Initially nothing is written, read or remembered.
LEMMA CacheInitTypes == CacheInit => CacheTypeOK
  BY DEF CacheInit, CacheTypeOK, NoVersion, Versions, NoWrite, NoCall, Announcement, Frame, WriteTypeOK, CallTypeOK

\* Every variable of the cache has its type, whatever is read and written; a
\* call's rows and generation are always those of the call it makes.
THEOREM CacheTypeCorrect == CacheSpec => []CacheTypeOK
  BY CacheInitTypes, CacheTypeStep, PTL DEF CacheSpec
------------------------------------------------------------------------------
\* The invariant, one action at a time.

LEMMA CommitKeeps ==
  ASSUME CacheInv, NEW w \in Writer, NEW x \in Write, Commit(w, x)
  PROVE  CacheInv'
<1>. USE DEF CacheInv, Commit, cache, Announcement
<1>0. CacheTypeOK'
  BY CommitTypes
<1>1. /\ writing'[w].pc = "untold" /\ writing'[w].what = x
      /\ writing'[w].at = [c \in x.cells |-> ver[c] + 1]
      /\ \A u \in Writer : u # w => writing'[u] = writing[u]
  BY DEF CacheTypeOK
<1>2. \A c \in Cell : ver[c] \in Nat /\ settled[c] \in Nat /\ ver'[c] \in Nat /\ ver[c] <= ver'[c]
  BY DEF CacheTypeOK, Versions
<1>3. \A c \in x.cells : c \in Cell /\ ver'[c] = ver[c] + 1
  BY WriteAssumption
<1>4. \A u \in Writer : writing[u].pc # "idle" =>
        /\ writing[u].what.cells \subseteq Cell
        /\ \A c \in writing[u].what.cells : writing[u].at[c] \in Nat
  BY WriteAssumption DEF CacheTypeOK, WriteTypeOK
<1>5. WritesOK'
  <2>1. ASSUME NEW u \in Writer, writing'[u].pc # "idle", NEW c \in writing'[u].what.cells
        PROVE  writing'[u].at[c] <= ver'[c]
    BY <2>1, <1>1, <1>2, <1>3, <1>4 DEF WritesOK
  <2>2. ASSUME NEW u \in Writer, writing'[u].pc # "idle", NEW c \in writing'[u].what.cells,
               NEW o \in Writer, o # u, writing'[o].pc # "idle", c \in writing'[o].what.cells
        PROVE  writing'[o].at[c] # writing'[u].at[c]
    <3>1. CASE u = w
      <4>1. writing[o].pc # "idle" /\ c \in writing[o].what.cells /\ writing'[o] = writing[o]
        BY <2>2, <3>1, <1>1
      <4>2. writing[o].at[c] \in Nat /\ writing[o].at[c] <= ver[c]
        BY <1>4, <4>1 DEF WritesOK
      <4>3. writing'[u].at[c] = ver[c] + 1 /\ c \in Cell
        BY <2>2, <3>1, <1>1, <1>3
      <4>. QED  BY <4>1, <4>2, <4>3, <1>2
    <3>2. CASE o = w
      BY <2>2, <3>2, <1>1, <1>2, <1>3, <1>4 DEF WritesOK
    <3>3. CASE u # w /\ o # w
      BY <2>2, <3>3, <1>1, <1>2, <1>3, <1>4 DEF WritesOK
    <3>. QED  BY <3>1, <3>2, <3>3
  <2>3. ASSUME NEW u \in Writer, writing'[u].pc # "idle", NEW c \in writing'[u].what.cells
        PROVE  \A o \in Writer : o # u /\ writing'[o].pc # "idle" /\ c \in writing'[o].what.cells =>
                 writing'[o].at[c] # writing'[u].at[c]
    BY <2>3, <2>2, Zenon
  <2>. QED  BY <2>1, <2>3, Zenon DEF WritesOK
<1>6. \A c \in Cell, n \in Nat : n <= ver[c] => (Unheard(c, n)' <=> Unheard(c, n))
  BY <1>1, <1>2, <1>3 DEF Unheard
<1>7. \A c \in x.cells : Unheard(c, ver[c])'
  BY <1>1, <1>3 DEF Unheard
<1>8. SettledOK'
  BY <1>2, <1>6 DEF SettledOK
<1>9. ASSUME NEW k \in Key, NEW v \in Rows(k), Current(k, v)
      PROVE  Current(k, v)'
  <2>. SUFFICES ASSUME NEW c \in Reads[k]
                PROVE  v[c] <= ver'[c] /\ \A n \in (v[c] + 1)..ver'[c] : Unheard(c, n)'
    BY DEF Current
  <2>1. c \in Cell /\ v[c] \in Nat
    BY StoreAssumption DEF Rows
  <2>2. v[c] <= ver[c] /\ \A n \in (v[c] + 1)..ver[c] : Unheard(c, n)
    BY <1>9 DEF Current
  <2>3. v[c] <= ver'[c]
    BY <1>2, <2>1, <2>2
  <2>4. ASSUME NEW n \in (v[c] + 1)..ver'[c]
        PROVE  Unheard(c, n)'
    <3>1. n \in Nat /\ ver'[c] \in Nat /\ ver[c] \in Nat /\ n <= ver'[c]
      BY <1>2, <2>1
    <3>2. CASE n <= ver[c]
      <4>1. n \in (v[c] + 1)..ver[c]
        BY <1>2, <2>1, <2>4, <3>1, <3>2
      <4>. QED  BY <1>6, <2>1, <2>2, <3>1, <3>2, <4>1
    <3>3. CASE n > ver[c]
      <4>1. c \in x.cells
        BY <3>1, <3>3, <2>1
      <4>2. n = ver'[c]
        BY <1>3, <3>1, <3>3, <4>1
      <4>. QED  BY <1>7, <4>1, <4>2
    <3>. QED  BY <3>1, <3>2, <3>3
  <2>. QED  BY <2>3, <2>4
<1>10. Indexed' /\ CacheCurrent'
  BY <1>9 DEF Indexed, CacheCurrent, CacheTypeOK
<1>11. CallsOK'
  <2>. SUFFICES ASSUME NEW r \in Reader
                PROVE  CallOK(call[r])'
    BY DEF CallsOK
  <2>1. CallOK(call[r]) /\ CallTypeOK(call[r])
    BY DEF CallsOK, CacheTypeOK
  <2>2. call[r].pc \in {"keep", "done"} => Bounds(call[r])'
    <3>. HAVE call[r].pc \in {"keep", "done"}
    <3>1. \A c \in Reads[call[r].key] : c \in Cell /\ call[r].v[c] \in Nat
      BY <2>1, StoreAssumption DEF CallTypeOK, Rows
    <3>. QED  BY <2>1, <3>1, <1>2 DEF CallOK, Bounds
  <2>3. call[r].pc = "keep" /\ call[r].gen = genLocked(TablesOf(call[r].key))
          => Current(call[r].key, call[r].v)'
    BY <2>1, <1>9 DEF CallOK, CallTypeOK
  <2>. QED  BY <2>1, <2>2, <2>3 DEF CallOK, GenPast, genLocked
<1>. QED  BY <1>0, <1>5, <1>8, <1>10, <1>11

LEMMA InvalidateKeeps ==
  ASSUME CacheInv, NEW w \in Writer, Invalidate(w)
  PROVE  CacheInv'
<1>. DEFINE tables == writing[w].what.tables
<1>. USE DEF CacheInv
<1>0. CacheTypeOK'
  BY InvalidateTypes
<1>1. /\ writing'[w].pc = "told" /\ writing[w].pc = "untold"
      /\ writing'[w].what = writing[w].what /\ writing'[w].at = writing[w].at
      /\ \A u \in Writer : u # w => writing'[u] = writing[u]
      /\ UNCHANGED <<ver, settled, call>>
  BY DEF CacheTypeOK, Invalidate, Announcement
<1>2. writing[w].what \in Write
  BY <1>1 DEF CacheTypeOK, WriteTypeOK
<1>3. WritesOK'
  BY <1>1 DEF WritesOK
<1>4. \A c \in Cell, n \in Nat : Unheard(c, n)' => Unheard(c, n)
  BY <1>1 DEF Unheard
<1>5. SettledOK'
  BY <1>1, <1>4 DEF SettledOK, CacheTypeOK, Versions
<1>6. ASSUME NEW k \in Key, NEW v \in Rows(k), Current(k, v),
             AllTables \notin tables, TablesOf(k) \cap tables = {}
      PROVE  Current(k, v)'
  <2>1. \A c \in Reads[k] : c \notin writing[w].what.cells
    <3>. SUFFICES ASSUME NEW c \in Reads[k], c \in writing[w].what.cells
                  PROVE  FALSE
      OBVIOUS
    <3>1. tables = {TableOf[d] : d \in writing[w].what.cells}
      BY <1>2, <1>6, WriteAssumption
    <3>2. TableOf[c] \in tables
      BY <3>1
    <3>3. TableOf[c] \in TablesOf(k)
      BY DEF TablesOf
    <3>. QED  BY <1>6, <3>2, <3>3
  <2>2. \A c \in Reads[k], n \in Nat : Unheard(c, n) => Unheard(c, n)'
    BY <1>1, <2>1 DEF Unheard
  <2>3. \A c \in Reads[k] : v[c] \in Nat /\ ver[c] \in Nat
    BY StoreAssumption DEF Rows, CacheTypeOK, Versions
  <2>4. \A c \in Reads[k] : \A n \in (v[c] + 1)..ver[c] : n \in Nat
    BY <2>3
  <2>. QED  BY <1>1, <1>6, <2>2, <2>4 DEF Current
<1>7. ASSUME NEW k \in Key, entries'[k] # None
      PROVE  /\ entries'[k] = entries[k] /\ AllTables \notin tables
             /\ \A t \in TablesOf(k) : t \notin tables /\ byTable'[t] = byTable[t]
  <2>1. \A t \in TablesOf(k) : t \in Table
    BY TablesAreTables
  <2>2. AllTables \notin tables /\ entries'[k] = entries[k]
    BY <1>7 DEF Invalidate
  <2>3. \A t \in Table : t \in tables => k \notin byTable[t]
    BY <1>7, <2>2 DEF Invalidate
  <2>4. \A t \in TablesOf(k) : t \notin tables
    BY <1>7, <2>1, <2>2, <2>3 DEF Indexed
  <2>. QED  BY <2>1, <2>2, <2>4 DEF Invalidate
<1>8. Indexed'
  BY <1>7 DEF Indexed
<1>9. CacheCurrent'
  <2>. SUFFICES ASSUME NEW k \in Key, entries'[k] # None
                PROVE  Current(k, entries[k])'
    BY DEF CacheCurrent
  <2>1. entries'[k] = entries[k] /\ AllTables \notin tables /\ TablesOf(k) \cap tables = {}
    BY <1>7
  <2>2. entries[k] \in Rows(k) /\ Current(k, entries[k])
    BY <2>1 DEF CacheCurrent, CacheTypeOK
  <2>3. \A v \in Rows(k) : Current(k, v) => Current(k, v)'
    BY <1>6, <2>1
  <2>. QED  BY <2>1, <2>2, <2>3
<1>10. CallsOK'
  <2>. SUFFICES ASSUME NEW r \in Reader
                PROVE  CallOK(call[r])'
    BY DEF CallsOK
  <2>1. CallOK(call[r]) /\ CallTypeOK(call[r]) /\ call'[r] = call[r]
    BY <1>1 DEF CallsOK, CacheTypeOK
  <2>2. /\ allGen \in Nat /\ allGen' \in Nat /\ allGen <= allGen'
        /\ \A t \in Table : gens[t] \in Nat /\ gens'[t] \in Nat /\ gens[t] <= gens'[t]
    BY DEF Invalidate, CacheTypeOK
  <2>3. call[r].pc \in {"load", "keep"} => GenPast(call[r])'
    <3>. HAVE call[r].pc \in {"load", "keep"}
    <3>1. call[r].key \in Key /\ call[r].gen \in Gen(TablesOf(call[r].key)) /\ GenPast(call[r])
      BY <2>1 DEF CallOK, CallTypeOK
    <3>. QED  BY <2>1, <2>2, <3>1, TablesAreTables DEF GenPast, Gen
  <2>4. ASSUME NEW k \in Key, k = call[r].key, call[r].pc = "keep",
               call[r].gen = genLocked(TablesOf(k))'
        PROVE  \A v \in Rows(k) : v = call[r].v => Current(k, v)'
    <3>1. call[r].gen \in Gen(TablesOf(k)) /\ call[r].v \in Rows(k) /\ GenPast(call[r])
      BY <2>1, <2>4 DEF CallOK, CallTypeOK
    <3>2. call[r].gen.all = allGen' /\ \A t \in TablesOf(k) : call[r].gen.of[t] = gens'[t]
      BY <2>1, <2>4 DEF genLocked, TablesOf
    <3>3. allGen' = allGen /\ \A t \in TablesOf(k) : gens'[t] = gens[t]
      BY <2>2, <2>4, <3>1, <3>2, TablesAreTables DEF GenPast, Gen
    <3>4. AllTables \notin tables
      BY <2>2, <3>3 DEF Invalidate
    <3>5. \A t \in TablesOf(k) : t \notin tables
      BY <2>2, <2>4, <3>3, <3>4, TablesAreTables DEF Invalidate
    <3>6. genLocked(TablesOf(k)) = call[r].gen
      BY <2>1, <2>4, <3>3 DEF genLocked, TablesOf
    <3>7. Current(k, call[r].v)
      BY <2>1, <2>4, <3>6 DEF CallOK
    <3>. QED  BY <1>6, <3>1, <3>4, <3>5, <3>7
  <2>5. Bounds(call[r])' <=> Bounds(call[r])
    BY <1>1, <2>1 DEF Bounds
  <2>6. call[r].pc = "keep" /\ call[r].gen = genLocked(TablesOf(call[r].key))'
          => Current(call[r].key, call[r].v)'
    BY <2>1, <2>4 DEF CallTypeOK
  <2>. QED  BY <1>1, <2>1, <2>3, <2>5, <2>6 DEF CallOK
<1>. QED  BY <1>0, <1>3, <1>5, <1>8, <1>9, <1>10

LEMMA ReturnKeeps ==
  ASSUME CacheInv, NEW w \in Writer, Return(w)
  PROVE  CacheInv'
<1>. DEFINE done == writing[w]
<1>. USE DEF CacheInv
<1>0. CacheTypeOK'
  BY ReturnTypes
<1>1. /\ writing[w].pc = "told" /\ writing'[w].pc = "idle"
      /\ \A u \in Writer : u # w => writing'[u] = writing[u]
      /\ UNCHANGED <<ver, gens, allGen, entries, byTable, call>>
  BY DEF CacheTypeOK, Return, NoWrite, Announcement, cache
<1>2. \A c \in Cell, n \in Nat : Unheard(c, n)' <=> Unheard(c, n)
  BY <1>1 DEF Unheard
<1>3. WritesOK'
  BY <1>1 DEF WritesOK
<1>4. \A c \in Cell : /\ ver[c] \in Nat /\ settled[c] \in Nat /\ settled'[c] \in Nat
                      /\ settled[c] <= settled'[c]
                      /\ \/ settled'[c] = settled[c]
                         \/ c \in done.what.cells /\ settled'[c] = done.at[c]
  <2>. TAKE c \in Cell
  <2>1. settled[c] \in Nat /\ settled'[c] \in Nat /\ ver[c] \in Nat
    BY <1>0 DEF CacheTypeOK, Versions
  <2>2. settled'[c] = IF c \in done.what.cells /\ done.at[c] > settled[c]
                        THEN done.at[c] ELSE settled[c]
    BY DEF Return
  <2>3. CASE c \in done.what.cells /\ done.at[c] > settled[c]
    <3>1. settled'[c] = done.at[c]
      BY <2>2, <2>3
    <3>. QED  BY <2>1, <2>3, <3>1
  <2>4. CASE ~(c \in done.what.cells /\ done.at[c] > settled[c])
    BY <2>1, <2>2, <2>4
  <2>. QED  BY <2>3, <2>4
<1>5. SettledOK'
  <2>. SUFFICES ASSUME NEW c \in Cell
                PROVE  settled'[c] <= ver[c] /\ ~Unheard(c, settled'[c])
    BY <1>1, <1>2, <1>4 DEF SettledOK
  <2>1. CASE settled'[c] = settled[c]
    BY <2>1 DEF SettledOK
  <2>2. CASE c \in done.what.cells /\ settled'[c] = done.at[c]
    <3>1. done.at[c] <= ver[c]
      BY <1>1, <2>2 DEF WritesOK
    <3>2. ASSUME NEW u \in Writer, writing[u].pc = "untold", c \in writing[u].what.cells
          PROVE  writing[u].at[c] # done.at[c]
      <4>1. u # w
        BY <1>1, <3>2
      <4>. QED  BY <1>1, <2>2, <3>2, <4>1 DEF WritesOK
    <3>. QED  BY <2>2, <3>1, <3>2 DEF Unheard
  <2>. QED  BY <1>4, <2>1, <2>2
<1>6. ASSUME NEW k \in Key, NEW v \in Rows(k), Current(k, v)
      PROVE  Current(k, v)'
  <2>1. \A c \in Reads[k] : c \in Cell /\ v[c] \in Nat /\ \A n \in (v[c] + 1)..ver[c] : n \in Nat
    BY <1>4, StoreAssumption DEF Rows
  <2>. QED  BY <1>1, <1>2, <1>6, <2>1 DEF Current
<1>7. Indexed' /\ CacheCurrent'
  BY <1>1, <1>6 DEF Indexed, CacheCurrent, CacheTypeOK
<1>8. CallsOK'
  <2>. SUFFICES ASSUME NEW r \in Reader
                PROVE  CallOK(call[r])'
    BY DEF CallsOK
  <2>1. CallOK(call[r]) /\ CallTypeOK(call[r]) /\ call'[r] = call[r]
    BY <1>1 DEF CallsOK, CacheTypeOK
  <2>2. call[r].pc # "idle" => \A c \in Reads[call[r].key] : call[r].floor[c] <= settled'[c]
    <3>. HAVE call[r].pc # "idle"
    <3>1. \A c \in Reads[call[r].key] : c \in Cell /\ call[r].floor[c] \in Nat
                                        /\ call[r].floor[c] <= settled[c]
      BY <2>1, StoreAssumption DEF CallOK, CallTypeOK, Rows
    <3>. QED  BY <1>4, <3>1
  <2>3. call[r].pc = "keep" /\ call[r].gen = genLocked(TablesOf(call[r].key))
          => Current(call[r].key, call[r].v)'
    BY <1>6, <2>1 DEF CallOK, CallTypeOK
  <2>4. /\ Bounds(call[r])' <=> Bounds(call[r])
        /\ GenPast(call[r])' <=> GenPast(call[r])
        /\ genLocked(TablesOf(call[r].key))' = genLocked(TablesOf(call[r].key))
    BY <1>1, <2>1 DEF Bounds, GenPast, genLocked
  <2>. QED  BY <2>1, <2>2, <2>3, <2>4 DEF CallOK
<1>. QED  BY <1>0, <1>3, <1>5, <1>7, <1>8

LEMMA StillCurrent ==
  ASSUME CacheInv, UNCHANGED db, NEW k \in Key, NEW v \in Rows(k)
  PROVE  Current(k, v)' <=> Current(k, v)
  BY DEF Current, Unheard, db

\* Rows the cache would keep are no older than what has settled: a settled
\* version is one it has heard of.
LEMMA CurrentSettled ==
  ASSUME CacheInv, NEW k \in Key, NEW v \in Rows(k), Current(k, v), NEW c \in Reads[k]
  PROVE  settled[c] <= v[c] /\ v[c] <= ver[c]
<1>1. c \in Cell /\ v[c] \in Nat
  BY StoreAssumption DEF Rows
<1>2. settled[c] \in Nat /\ ver[c] \in Nat /\ settled[c] <= ver[c] /\ ~Unheard(c, settled[c])
  BY <1>1 DEF CacheInv, SettledOK, CacheTypeOK, Versions
<1>3. v[c] <= ver[c] /\ \A n \in (v[c] + 1)..ver[c] : Unheard(c, n)
  BY DEF Current
<1>4. settled[c] \notin (v[c] + 1)..ver[c]
  BY <1>2, <1>3
<1>. QED  BY <1>1, <1>2, <1>3, <1>4

\* A step of one call keeps the invariant if what it leaves in the cache and in
\* the call does.
LEMMA ReadFrame ==
  ASSUME CacheInv, CacheTypeOK', UNCHANGED <<db, gens, allGen>>, NEW r \in Reader,
         \A q \in Reader : q # r => call'[q] = call[q],
         CallOK(call'[r]),
         Indexed', \A k \in Key : entries'[k] # None => Current(k, entries'[k])
  PROVE  CacheInv'
<1>. USE DEF CacheInv, db
<1>1. WritesOK' /\ SettledOK'
  BY DEF WritesOK, SettledOK, Unheard
<1>2. CacheCurrent'
  BY DEF CacheCurrent, Current, Unheard
<1>3. CallsOK'
  <2>. SUFFICES ASSUME NEW q \in Reader
                PROVE  CallOK(call[q])'
    BY DEF CallsOK
  <2>1. CallOK(call'[q])
    BY DEF CallsOK
  <2>. QED  BY <2>1 DEF CallOK, GenPast, Bounds, Current, Unheard, genLocked
<1>. QED  BY <1>1, <1>2, <1>3

LEMMA ReadKeeps ==
  ASSUME CacheInv, NEW r \in Reader, (\E k \in Key : Call(r, k)) \/ ReadStep(r) \/ Leave(r)
  PROVE  CacheInv'
<1>. USE DEF CacheInv
<1>0. CacheTypeOK'
  BY ReadTypes
<1>1. UNCHANGED <<db, gens, allGen>> /\ \A q \in Reader : q # r => call'[q] = call[q]
  BY DEF Call, ReadStep, Hit, Miss, Load, Keep, Leave, Give, db, cache, CacheTypeOK
<1>2. CallOK(call[r]) /\ CallTypeOK(call[r])
  BY DEF CallsOK, CacheTypeOK
<1>3. UNCHANGED <<entries, byTable>> =>
        /\ Indexed'
        /\ \A k \in Key : entries'[k] # None => Current(k, entries'[k])
  BY DEF Indexed, CacheCurrent
<1>4. call[r].pc # "idle" => /\ call[r].key \in Key
                             /\ \A c \in Reads[call[r].key] :
                                  /\ c \in Cell /\ call[r].floor[c] \in Nat
                                  /\ settled[c] \in Nat /\ ver[c] \in Nat
                                  /\ call[r].floor[c] <= settled[c] /\ settled[c] <= ver[c]
  BY <1>2, StoreAssumption DEF CallOK, CallTypeOK, Rows, CacheTypeOK, Versions, SettledOK
<1>5. ASSUME NEW k \in Key, Call(r, k)
      PROVE  CacheInv'
  <2>1. call'[r] = Frame("look", k, [c \in Reads[k] |-> settled[c]], None, None)
    BY <1>5 DEF Call, CacheTypeOK
  <2>2. CallOK(call'[r])
    BY <2>1, StoreAssumption DEF CallOK, Frame, CacheTypeOK, Versions
  <2>. QED  BY <1>0, <1>1, <1>3, <1>5, <2>2, ReadFrame DEF Call, cache
<1>6. CASE Hit(r)
  <2>. DEFINE k == call[r].key
  <2>1. call'[r] = Frame("done", k, call[r].floor, None, entries[k])
    BY <1>6 DEF Hit, Give, CacheTypeOK
  <2>2. k \in Key /\ entries[k] \in Rows(k) /\ Current(k, entries[k])
    BY <1>4, <1>6 DEF Hit, CacheTypeOK, CacheCurrent
  <2>3. \A c \in Reads[k] : settled[c] <= entries[k][c] /\ entries[k][c] <= ver[c]
                            /\ entries[k][c] \in Nat
    BY <2>2, CurrentSettled DEF Rows
  <2>4. Bounds(call'[r])
    BY <1>4, <1>6, <2>1, <2>3 DEF Hit, Bounds, Frame
  <2>5. CallOK(call'[r])
    BY <1>4, <1>6, <2>1, <2>4 DEF Hit, CallOK, Frame
  <2>. QED  BY <1>0, <1>1, <1>3, <1>6, <2>5, ReadFrame DEF Hit, cache
<1>7. CASE Miss(r)
  <2>. DEFINE k == call[r].key
  <2>1. call'[r] = Frame("load", k, call[r].floor, genLocked(TablesOf(k)), None)
    BY <1>7 DEF Miss, CacheTypeOK
  <2>2. k \in Key
    BY <1>4, <1>7 DEF Miss
  <2>3. GenPast(call'[r])
    BY <2>1, <2>2, TablesAreTables DEF GenPast, Frame, genLocked, CacheTypeOK
  <2>4. CallOK(call'[r])
    BY <1>4, <1>7, <2>1, <2>3 DEF Miss, CallOK, Frame
  <2>. QED  BY <1>0, <1>1, <1>3, <1>7, <2>4, ReadFrame DEF Miss, cache
<1>8. CASE Load(r)
  <2>. DEFINE k == call[r].key
  <2>1. call'[r] = Frame("keep", k, call[r].floor, call[r].gen, RowsOf(k))
    BY <1>8 DEF Load, CacheTypeOK
  <2>2. k \in Key /\ GenPast(call[r])
    BY <1>2, <1>4, <1>8 DEF Load, CallOK
  <2>3. GenPast(call'[r])
    BY <2>1, <2>2 DEF GenPast, Frame
  <2>4. Bounds(call'[r])
    BY <1>4, <1>8, <2>1 DEF Load, Bounds, Frame, RowsOf
  <2>5. Current(k, RowsOf(k))
    BY <1>4, <1>8 DEF Load, Current, RowsOf
  <2>6. CallOK(call'[r])
    BY <1>4, <1>8, <2>1, <2>3, <2>4, <2>5 DEF Load, CallOK, Frame
  <2>. QED  BY <1>0, <1>1, <1>3, <1>8, <2>6, ReadFrame DEF Load, cache
<1>9. CASE Keep(r)
  <2>. DEFINE k == call[r].key
              v == call[r].v
  <2>1. call'[r] = Frame("done", k, call[r].floor, None, v) /\ call[r].pc = "keep"
    BY <1>9 DEF Keep, Give, CacheTypeOK
  <2>2. k \in Key /\ v \in Rows(k) /\ Bounds(call[r])
    BY <1>2, <2>1 DEF CallOK, CallTypeOK
  <2>3. Bounds(call'[r])
    BY <2>1, <2>2 DEF Bounds, Frame
  <2>4. CallOK(call'[r])
    BY <1>4, <2>1, <2>3 DEF CallOK, Frame
  <2>5. CASE UNCHANGED <<entries, byTable>>
    BY <1>0, <1>1, <1>3, <2>4, <2>5, ReadFrame
  <2>6. CASE genLocked(TablesOf(k)) = call[r].gen /\ Remember(k, v)
    <3>1. Current(k, v)
      BY <1>2, <2>1, <2>6 DEF CallOK
    <3>2. PICK full \in BOOLEAN : Remembered(k, v, full)
      BY <2>6, RememberedEither
    <3>3. \A x \in Key : entries'[x] # None => Current(x, entries'[x])
      BY <3>1, <3>2 DEF Remembered, CacheCurrent
    <3>4. Indexed'
      BY <2>2, <3>2, TablesAreTables DEF Remembered, Indexed
    <3>. QED  BY <1>0, <1>1, <2>4, <3>3, <3>4, ReadFrame
  <2>. QED  BY <1>9, <2>5, <2>6 DEF Keep
<1>10. CASE Leave(r)
  <2>1. call'[r] = NoCall
    BY <1>10 DEF Leave, CacheTypeOK
  <2>2. CallOK(call'[r])
    BY <2>1 DEF CallOK, NoCall, Frame
  <2>. QED  BY <1>0, <1>1, <1>3, <1>10, <2>2, ReadFrame DEF Leave, cache
<1>. QED  BY <1>5, <1>6, <1>7, <1>8, <1>9, <1>10 DEF ReadStep

LEMMA CacheStep ==
  ASSUME CacheInv, [CacheNext]_cacheVars
  PROVE  CacheInv'
<1>1. CASE UNCHANGED cacheVars
  <2>. USE <1>1 DEF CacheInv, cacheVars, db, cache
  <2>1. CacheTypeOK'
    BY CacheTypeStep
  <2>2. WritesOK' /\ SettledOK' /\ Indexed'
    BY DEF WritesOK, SettledOK, Indexed, Unheard
  <2>3. CacheCurrent'
    BY DEF CacheCurrent, Current, Unheard
  <2>4. CallsOK'
    BY DEF CallsOK, CallOK, GenPast, Bounds, Current, Unheard, genLocked
  <2>. QED  BY <2>1, <2>2, <2>3, <2>4
<1>. QED  BY <1>1, CommitKeeps, InvalidateKeeps, ReturnKeeps, ReadKeeps DEF CacheNext

LEMMA CacheStart ==
  ASSUME CacheInit
  PROVE  CacheInv
<1>. USE DEF CacheInit, NoWrite, NoCall, Announcement, Frame, NoVersion
<1>1. CacheTypeOK
  BY CacheInitTypes
<1>2. WritesOK /\ SettledOK /\ Indexed
  BY DEF WritesOK, SettledOK, Unheard, Indexed
<1>3. CacheCurrent /\ CallsOK
  BY DEF CacheCurrent, CallsOK, CallOK
<1>. QED  BY <1>1, <1>2, <1>3 DEF CacheInv

\* Whatever the cache holds is what the database holds, but for committed writes
\* whose announcement is still to come (cachedRead, invalidate), for any calls,
\* tables, writes and numbers of readers and writers.
THEOREM CacheStaysCurrent == CacheSpec => []CacheCurrent
<1>1. CacheInv => CacheCurrent
  BY DEF CacheInv
<1>. QED  BY <1>1, CacheStart, CacheStep, PTL DEF CacheSpec
------------------------------------------------------------------------------
\* The refinement, one action at a time.

LEMMA CommitImplements ==
  ASSUME CacheInv, NEW w \in Writer, NEW x \in Write, Commit(w, x)
  PROVE  Promise!Next
<1>. DEFINE writes == [u \in Writer |-> VersionsOf(writing[u])]
<1>1. x.cells \in SUBSET Cell
  BY WriteAssumption
<1>2. writes[w] = Promise!NoWrite
  BY DEF Commit, VersionsOf, Promise!NoWrite
<1>3. writes' = [writes EXCEPT ![w] = [c \in x.cells |-> ver[c] + 1]]
  BY DEF Commit, VersionsOf, Announcement, CacheInv, CacheTypeOK
<1>4. Promise!Commit(w, x.cells)
  BY <1>2, <1>3 DEF Promise!Commit, Commit, cache
<1>. QED  BY <1>1, <1>2, <1>4 DEF Promise!Next

LEMMA InvalidateImplements ==
  ASSUME CacheInv, NEW w \in Writer, Invalidate(w)
  PROVE  UNCHANGED Promise!vars
<1>. DEFINE writes == [u \in Writer |-> VersionsOf(writing[u])]
<1>1. \A u \in Writer : VersionsOf(writing'[u]) = VersionsOf(writing[u])
  BY DEF Invalidate, VersionsOf, Announcement, CacheInv, CacheTypeOK
<1>2. writes' = writes
  BY <1>1
<1>. QED  BY <1>2 DEF Invalidate, Promise!vars

LEMMA ReturnImplements ==
  ASSUME CacheInv, NEW w \in Writer, Return(w)
  PROVE  Promise!Next
<1>. DEFINE writes == [u \in Writer |-> VersionsOf(writing[u])]
<1>1. /\ writes[w] = writing[w].at /\ DOMAIN writing[w].at = writing[w].what.cells
      /\ writing[w].what.cells # {}
  BY WriteAssumption DEF Return, VersionsOf, CacheInv, CacheTypeOK, WriteTypeOK
<1>2. writes[w] # Promise!NoWrite
  BY <1>1 DEF Promise!NoWrite
<1>3. writes' = [writes EXCEPT ![w] = Promise!NoWrite]
  BY DEF Return, VersionsOf, NoWrite, Announcement, Promise!NoWrite, CacheInv, CacheTypeOK
<1>4. settled' = [c \in Cell |->
        IF c \in DOMAIN writes[w] /\ writes[w][c] > settled[c] THEN writes[w][c] ELSE settled[c]]
  BY <1>1 DEF Return
<1>5. Promise!Settle(w)
  BY <1>2, <1>3, <1>4 DEF Promise!Settle, Return, cache
<1>. QED  BY <1>5 DEF Promise!Next

\* What every step of a call does to what its caller sees.
LEMMA ReadImplements ==
  ASSUME CacheInv, NEW r \in Reader, (\E k \in Key : Call(r, k)) \/ ReadStep(r) \/ Leave(r)
  PROVE  [Promise!Next]_(Promise!vars)
<1>. DEFINE reads == [q \in Reader |-> ReadOf(call[q])]
            writes == [u \in Writer |-> VersionsOf(writing[u])]
<1>. USE DEF CacheInv
<1>1. UNCHANGED <<ver, settled, writing, writes>>
  BY DEF Call, ReadStep, Hit, Miss, Load, Keep, Leave, db
<1>2. \A q \in Reader : q # r => call'[q] = call[q]
  BY DEF Call, ReadStep, Hit, Miss, Load, Keep, Leave, Give, CacheTypeOK
<1>3. reads' = [reads EXCEPT ![r] = ReadOf(call'[r])]
  BY <1>2
<1>4. CallTypeOK(call[r]) /\ CallOK(call[r])
  BY DEF CacheTypeOK, CallsOK
<1>5. ASSUME NEW k \in Key, Call(r, k)
      PROVE  Promise!Next
  <2>1. call[r].pc = "idle" /\ call'[r] = Frame("look", k, [c \in Reads[k] |-> settled[c]], None, None)
    BY <1>5 DEF Call, CacheTypeOK
  <2>2. Promise!Call(r, k)
    BY <1>1, <1>3, <2>1 DEF Promise!Call, ReadOf, Frame
  <2>. QED  BY <2>2 DEF Promise!Next
<1>6. CASE Miss(r) \/ Load(r)
  <2>1. /\ call[r].pc \in {"look", "load"} /\ call'[r].pc \in {"load", "keep"}
        /\ call'[r].key = call[r].key /\ call'[r].floor = call[r].floor
    BY <1>6 DEF Miss, Load, Frame, CacheTypeOK
  <2>2. ReadOf(call'[r]) = ReadOf(call[r])
    BY <2>1 DEF ReadOf
  <2>3. reads' = reads
    BY <1>3, <2>2
  <2>. QED  BY <1>1, <2>3 DEF Promise!vars
<1>7. ASSUME call[r].pc \in {"look", "keep"}, NEW v \in Rows(call[r].key),
             call'[r] = Frame("done", call[r].key, call[r].floor, None, v),
             \A c \in Reads[call[r].key] : call[r].floor[c] <= v[c] /\ v[c] <= ver[c]
      PROVE  Promise!Next
  <2>1. call[r].key \in Key
    BY <1>4, <1>7 DEF CallTypeOK
  <2>2. \A c \in Reads[call[r].key] : v[c] \in Promise!Committed
    BY <1>7, <2>1, StoreAssumption DEF Promise!Committed, Rows, CacheTypeOK, Versions
  <2>3. v \in [Reads[call[r].key] -> Promise!Committed]
    BY <2>2 DEF Rows
  <2>4. reads[r] = [pc |-> "asked", key |-> call[r].key, floor |-> call[r].floor, got |-> None]
    BY <1>7 DEF ReadOf
  <2>5. ReadOf(call'[r]) = [pc |-> "given", key |-> call[r].key, floor |-> call[r].floor, got |-> v]
    BY <1>7 DEF ReadOf, Frame
  <2>6. reads[r].pc = "asked" /\ reads[r].key = call[r].key /\ reads[r].floor = call[r].floor
    BY <2>4
  <2>7. reads' = [reads EXCEPT ![r] =
          [pc |-> "given", key |-> reads[r].key, floor |-> reads[r].floor, got |-> v]]
    BY <1>3, <2>5, <2>6
  <2>8. Promise!Answer(r, v)
    BY <1>1, <1>7, <2>6, <2>7 DEF Promise!Answer
  <2>. QED  BY <2>1, <2>3, <2>6, <2>8 DEF Promise!Next
<1>8. CASE Hit(r)
  <2>. DEFINE k == call[r].key
  <2>1. /\ k \in Key /\ entries[k] \in Rows(k) /\ Current(k, entries[k])
        /\ \A c \in Reads[k] : call[r].floor[c] <= settled[c]
    BY <1>4, <1>8 DEF Hit, CallTypeOK, CallOK, CacheTypeOK, CacheCurrent
  <2>2. \A c \in Reads[k] : settled[c] <= entries[k][c] /\ entries[k][c] <= ver[c]
    BY <2>1, CurrentSettled
  <2>3. \A c \in Reads[k] : call[r].floor[c] \in Nat /\ settled[c] \in Nat /\ entries[k][c] \in Nat
    BY <1>4, <1>8, <2>1, StoreAssumption DEF Hit, CallTypeOK, Rows, CacheTypeOK, Versions
  <2>4. call'[r] = Frame("done", k, call[r].floor, None, entries[k]) /\ call[r].pc = "look"
    BY <1>8 DEF Hit, Give, CacheTypeOK
  <2>. QED  BY <1>7, <2>1, <2>2, <2>3, <2>4
<1>9. CASE Keep(r)
  <2>1. /\ call[r].pc = "keep"
        /\ call'[r] = Frame("done", call[r].key, call[r].floor, None, call[r].v)
    BY <1>9 DEF Keep, Give, CacheTypeOK
  <2>2. call[r].v \in Rows(call[r].key) /\ Bounds(call[r])
    BY <1>4, <2>1 DEF CallTypeOK, CallOK
  <2>. QED  BY <1>7, <2>1, <2>2 DEF Bounds
<1>10. CASE Leave(r)
  <2>1. call[r].pc \in {"load", "done"} /\ call'[r] = NoCall
    BY <1>10 DEF Leave, CacheTypeOK
  <2>2. reads[r].pc # "idle" /\ ReadOf(call'[r]) = Promise!NoRead
    BY <2>1 DEF ReadOf, NoCall, Frame, Promise!NoRead
  <2>3. Promise!Leave(r)
    BY <1>1, <1>3, <2>2 DEF Promise!Leave
  <2>. QED  BY <2>3 DEF Promise!Next
<1>. QED  BY <1>5, <1>6, <1>8, <1>9, <1>10 DEF ReadStep

\* Every call of a cached method is answered as StoreReads promises: with rows no
\* older than the last write that had returned when it was called, and none that
\* was never committed, whether they come from the cache or the database.
THEOREM CacheImplementsReads == CacheSpec => PromiseSpec
<1>1. CacheInit => Promise!Init
  <2>. SUFFICES ASSUME CacheInit PROVE Promise!Init
    OBVIOUS
  <2>1. \A w \in Writer : VersionsOf(writing[w]) = Promise!NoWrite
    BY DEF CacheInit, NoWrite, Announcement, VersionsOf, Promise!NoWrite
  <2>2. \A r \in Reader : ReadOf(call[r]) = Promise!NoRead
    BY DEF CacheInit, NoCall, Frame, ReadOf, Promise!NoRead
  <2>. QED  BY <2>1, <2>2 DEF CacheInit, NoVersion, Promise!Init
<1>2. CacheInv /\ [CacheNext]_cacheVars => [Promise!Next]_(Promise!vars)
  <2>. SUFFICES ASSUME CacheInv, [CacheNext]_cacheVars
                PROVE  [Promise!Next]_(Promise!vars)
    OBVIOUS
  <2>1. CASE UNCHANGED cacheVars
    <3>1. ver' = ver /\ settled' = settled /\ writing' = writing /\ call' = call
      BY <2>1 DEF cacheVars, db
    <3>. QED  BY <3>1, Zenon DEF Promise!vars
  <2>2. CASE CacheNext
    BY <2>2, CommitImplements, InvalidateImplements, ReturnImplements, ReadImplements DEF CacheNext
  <2>. QED  BY <2>1, <2>2
<1>. QED  BY <1>1, <1>2, CacheStart, CacheStep, PTL DEF CacheSpec, PromiseSpec, Promise!Spec
==============================================================================
