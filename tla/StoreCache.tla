----------------------------- MODULE StoreCache ------------------------------
(* The store's read cache, src/backend/internal/store/cache.go, over the write *)
(* notifications of store/notify.go: a read remembers its result unless a      *)
(* write to one of its tables was announced while it ran; a write drops the    *)
(* results that depend on its tables after it has committed and before its     *)
(* method returns. Reads run on a pool, writes one at a time, but the one      *)
(* connection writes share is free again at the commit: any number of writes   *)
(* may be committed and not yet announced.                                     *)
EXTENDS Naturals, FiniteSets

CONSTANTS
  Cell,       \* what is written as one; a commit gives it a new version
  TableOf,    \* the table each is in
  Key,        \* cached calls: a method and its arguments (cacheKey)
  Reads,      \* the cells each of them reads, in one statement
  Write,      \* the writes there are: the cells each changes, the tables it reports,
              \* the book it names (BookScope, or None)
  AllTables,  \* what a write that cannot be classified reports (writtenTable)
  Writer, Reader,
  MaxEntries, \* maxCacheEntries
  None

Table == {TableOf[c] : c \in Cell}
TablesOf(k) == {TableOf[c] : c \in Reads[k]}

ASSUME StoreAssumption ==
  /\ \A k \in Key : Reads[k] \subseteq Cell
  /\ AllTables \notin Table

\* A write reports every table it changed, or that anything may have changed.
ASSUME WriteAssumption ==
  \A x \in Write :
    /\ x.cells \subseteq Cell /\ x.cells # {}
    /\ x.tables = {AllTables} \/ x.tables = {TableOf[c] : c \in x.cells}

VARIABLES
  ver,     \* writes committed to each cell
  settled, \* the newest of them whose write method has returned (history)
  writing, \* each writer's write: what it is, the versions it committed, and
           \* whether the cache still has to be told of it
  gens, allGen, entries, byTable, \* Cached's fields of these names
  call     \* each reader's call of cachedRead

db == <<ver, settled, writing>>
cache == <<gens, allGen, entries, byTable>>
cacheVars == <<db, cache, call>>

NoVersion == [c \in Cell |-> 0]
RowsOf(k) == [c \in Reads[k] |-> ver[c]]

\* genLocked: the code adds the counters up; as they only grow, two of its sums
\* are equal exactly when no counter changed.
genLocked(tables) == [all |-> allGen, of |-> [t \in tables |-> gens[t]]]

Announcement(pc, what, at) == [pc |-> pc, what |-> what, at |-> at]
Frame(pc, key, floor, gen, v) == [pc |-> pc, key |-> key, floor |-> floor, gen |-> gen, v |-> v]
NoWrite == Announcement("idle", None, None)
NoCall == Frame("idle", None, None, None, None)

Versions == [Cell -> Nat]
Rows(k) == [Reads[k] -> Nat]
Gen(tables) == [all : Nat, of : [tables -> Nat]]

WriteTypeOK(x) ==
  /\ x = Announcement(x.pc, x.what, x.at)
  /\ x.pc \in {"idle", "untold", "told"}
  /\ x.pc # "idle" => x.what \in Write /\ x.at \in [x.what.cells -> Nat]

CallTypeOK(x) ==
  /\ x = Frame(x.pc, x.key, x.floor, x.gen, x.v)
  /\ x.pc \in {"idle", "look", "load", "keep", "done"}
  /\ x.pc # "idle" => x.key \in Key /\ x.floor \in Rows(x.key)
  /\ x.pc \in {"load", "keep"} => x.gen \in Gen(TablesOf(x.key))
  /\ x.pc \in {"keep", "done"} => x.v \in Rows(x.key)

\* Every variable has its type; what a call holds is of the key it reads.
CacheTypeOK ==
  /\ ver \in Versions /\ settled \in Versions
  /\ DOMAIN writing = Writer /\ \A w \in Writer : WriteTypeOK(writing[w])
  /\ gens \in [Table -> Nat] /\ allGen \in Nat
  /\ DOMAIN entries = Key /\ \A k \in Key : entries[k] = None \/ entries[k] \in Rows(k)
  /\ byTable \in [Table -> SUBSET Key]
  /\ DOMAIN call = Reader /\ \A r \in Reader : CallTypeOK(call[r])

CacheInit ==
  /\ ver = NoVersion /\ settled = NoVersion
  /\ writing = [w \in Writer |-> NoWrite]
  /\ gens = [t \in Table |-> 0] /\ allGen = 0
  /\ entries = [k \in Key |-> None]
  /\ byTable = [t \in Table |-> {}]
  /\ call = [r \in Reader |-> NoCall]
------------------------------------------------------------------------------
\* A write.

\* notifyDB.Exec, execAs, execScoped, notifyTx.Commit: committed, and about to
\* run the listeners.
Commit(w, x) ==
  /\ writing[w].pc = "idle"
  /\ ver' = [c \in Cell |-> IF c \in x.cells THEN ver[c] + 1 ELSE ver[c]]
  /\ writing' = [writing EXCEPT ![w] = Announcement("untold", x, [c \in x.cells |-> ver[c] + 1])]
  /\ UNCHANGED <<settled, cache, call>>

\* (Mutant: what the cache holds is dropped, but a load under way not noticed.)
InvalidateHeld(w) ==
  LET tables == writing[w].what.tables
      whole == AllTables \in tables
      stale == UNION {byTable[t] : t \in tables \cap Table} IN
  /\ writing[w].pc = "untold"
  /\ writing' = [writing EXCEPT ![w] = Announcement("told", writing[w].what, writing[w].at)]
  /\ entries' = [k \in Key |-> IF whole \/ k \in stale THEN None ELSE entries[k]]
  /\ byTable' = [t \in Table |-> IF whole \/ t \in tables THEN {} ELSE byTable[t]]
  /\ UNCHANGED <<ver, settled, gens, allGen, call>>

\* invalidate, without what it does for ChapterNarration (StoreMemos).
Invalidate(w) ==
  LET tables == writing[w].what.tables
      stale == UNION {byTable[t] : t \in tables \cap Table} IN
  /\ writing[w].pc = "untold"
  /\ writing' = [writing EXCEPT ![w] = Announcement("told", writing[w].what, writing[w].at)]
  /\ \/ /\ AllTables \in tables
        /\ allGen' = allGen + 1
        /\ entries' = [k \in Key |-> None]
        /\ byTable' = [t \in Table |-> {}]
        /\ UNCHANGED gens
     \/ /\ AllTables \notin tables
        /\ gens' = [t \in Table |-> IF t \in tables THEN gens[t] + 1 ELSE gens[t]]
        /\ entries' = [k \in Key |-> IF k \in stale THEN None ELSE entries[k]]
        /\ byTable' = [t \in Table |-> IF t \in tables THEN {} ELSE byTable[t]]
        /\ UNCHANGED allGen
  /\ UNCHANGED <<ver, settled, call>>

\* Every listener has run: the write method returns.
Return(w) ==
  /\ writing[w].pc = "told"
  /\ settled' = [c \in Cell |->
       IF c \in writing[w].what.cells /\ writing[w].at[c] > settled[c]
         THEN writing[w].at[c] ELSE settled[c]]
  /\ writing' = [writing EXCEPT ![w] = NoWrite]
  /\ UNCHANGED <<ver, cache, call>>
------------------------------------------------------------------------------
\* cachedRead.

Call(r, k) ==
  /\ call[r].pc = "idle"
  /\ call' = [call EXCEPT ![r] = Frame("look", k, [c \in Reads[k] |-> settled[c]], None, None)]
  /\ UNCHANGED <<db, cache>>

Give(r, v) == call' = [call EXCEPT ![r] = Frame("done", call[r].key, call[r].floor, None, v)]

Hit(r) ==
  /\ call[r].pc = "look"
  /\ entries[call[r].key] # None
  /\ Give(r, entries[call[r].key])
  /\ UNCHANGED <<db, cache>>

Miss(r) ==
  /\ call[r].pc = "look"
  /\ entries[call[r].key] = None
  /\ call' = [call EXCEPT ![r] =
       Frame("load", call[r].key, call[r].floor, genLocked(TablesOf(call[r].key)), None)]
  /\ UNCHANGED <<db, cache>>

Load(r) ==
  /\ call[r].pc = "load"
  /\ call' = [call EXCEPT ![r] =
       Frame("keep", call[r].key, call[r].floor, call[r].gen, RowsOf(call[r].key))]
  /\ UNCHANGED <<db, cache>>

\* The caller has its answer; or load returned an error.
Leave(r) ==
  /\ call[r].pc \in {"load", "done"}
  /\ call' = [call EXCEPT ![r] = NoCall]
  /\ UNCHANGED <<db, cache>>

\* The result is remembered under every table it reads, unless a write to one
\* was announced since the call looked; a full cache is dropped whole first.
Remember(k, v) ==
  LET full == Cardinality({x \in Key : entries[x] # None}) >= MaxEntries IN
  /\ entries' = [x \in Key |-> IF x = k THEN v ELSE IF full THEN None ELSE entries[x]]
  /\ byTable' = [t \in Table |-> (IF full THEN {} ELSE byTable[t])
                                   \cup (IF t \in TablesOf(k) THEN {k} ELSE {})]

\* (Mutant: the generation is not looked at again.)
KeepAnyway(r) ==
  LET c == call[r] IN
  /\ c.pc = "keep"
  /\ Remember(c.key, c.v)
  /\ Give(r, c.v)
  /\ UNCHANGED <<db, gens, allGen>>

Keep(r) ==
  LET c == call[r] IN
  /\ c.pc = "keep"
  /\ \/ /\ genLocked(TablesOf(c.key)) = c.gen
        /\ Remember(c.key, c.v)
     \/ /\ genLocked(TablesOf(c.key)) # c.gen
        /\ UNCHANGED <<entries, byTable>>
  /\ Give(r, c.v)
  /\ UNCHANGED <<db, gens, allGen>>
------------------------------------------------------------------------------
ReadStep(r) == Hit(r) \/ Miss(r) \/ Load(r) \/ Keep(r)

CacheNext ==
  \/ \E w \in Writer : (\E x \in Write : Commit(w, x)) \/ Invalidate(w) \/ Return(w)
  \/ \E r \in Reader : (\E k \in Key : Call(r, k)) \/ ReadStep(r) \/ Leave(r)

CacheSpec == CacheInit /\ [][CacheNext]_cacheVars
------------------------------------------------------------------------------
\* Version n of a cell is committed and the cache has not heard of it.
Unheard(c, n) ==
  \E w \in Writer : /\ writing[w].pc = "untold"
                    /\ c \in writing[w].what.cells /\ writing[w].at[c] = n

\* v lags behind the database only by writes the cache has still to be told of.
Current(k, v) ==
  \A c \in Reads[k] : /\ v[c] <= ver[c]
                      /\ \A n \in (v[c] + 1)..ver[c] : Unheard(c, n)

\* Whatever the cache holds is what the database holds, but for writes that are
\* committed and whose invalidation is still to run: a load that overlapped a
\* write is never remembered past that write's announcement (cachedRead's
\* second look at the generation, and the index that finds what to drop).
CacheCurrent == \A k \in Key : entries[k] # None => Current(k, entries[k])

VersionsOf(x) == IF x.pc = "idle" THEN [c \in {} |-> 0] ELSE x.at
ReadOf(x) ==
  [pc |-> IF x.pc = "idle" THEN "idle" ELSE IF x.pc = "done" THEN "given" ELSE "asked",
   key |-> x.key, floor |-> x.floor, got |-> IF x.pc = "done" THEN x.v ELSE None]

\* A caller is never given less than what had been written, and announced, when
\* it called: what every handler that writes and then reads relies on.
Promise == INSTANCE StoreReads WITH
  writes <- [w \in Writer |-> VersionsOf(writing[w])],
  reads <- [r \in Reader |-> ReadOf(call[r])]
PromiseSpec == Promise!Spec
==============================================================================
