----------------------------- MODULE StoreMemos ------------------------------
(* What the server remembers on top of StoreCache, each under a generation of  *)
(* its own:                                                                    *)
(*  - Cached.ChapterNarration: what every chapter of a book has narrated, of   *)
(*    which only the chapters whose fingerprint changed are read again;        *)
(*  - jobs.readyChapters: the chapters a look ahead found nothing to generate  *)
(*    in;                                                                      *)
(*  - httpapi.characterVoiceOverrides: the voices of a book's characters.      *)
(* The last two answer from reads that are themselves cached, and hear of a    *)
(* write only after the cache has. Books without character stages, and with    *)
(* the chapters they have.                                                     *)
EXTENDS StoreCache, Sequences, Functions

CONSTANTS
  Book, BookOf,     \* the book each cell is a row of
  NarrationTables,  \* narrationTables, in the order ChapterFingerprints reads them
  VoiceKey,         \* voice and overrides a narration is asked for (its key)
  BookKey,          \* the cached call that reads a book's row (GetBook)
  MemoKey,          \* the cached call a memo's answer for a book is worked out from
  MemoTables,       \* voiceTables, readyChapterTables
  Later,            \* the listeners after the cache's, in the order they subscribed
  Asks,             \* what readers ask for: pairs of a kind and a book
  MaxWrites         \* bound: cells written in a run, counted once a write

Memo == {"voices", "ready"}

\* The chapters of a book; every one is a cell.
Chapters(b) == {c \in Cell : TableOf[c] \in Range(NarrationTables) /\ BookOf[c] = b}

\* A write that names a book changed rows of no other book that narration or
\* the look ahead reads (BookScope).
ASSUME ScopeAssumption ==
  \A x \in Write : x.scope # None => \A c \in x.cells : BookOf[c] = x.scope

\* A memo lists the tables its answer is read from, and hears of writes; what
\* the look ahead reads for a book is of that book.
ASSUME MemoAssumption ==
  /\ \A b \in Book : BookKey[b] \in Key
  /\ \A m \in Memo, b \in Book :
       MemoKey[m][b] \in Key /\ TablesOf(MemoKey[m][b]) \subseteq MemoTables[m]
  /\ \A b \in Book : \A c \in Reads[MemoKey["ready"][b]] : BookOf[c] = b
  /\ Later \in Seq(Range(Later)) /\ Memo \subseteq Range(Later)
  /\ NarrationTables \in Seq(Table)
  /\ Asks \subseteq (Memo \cup {"narration"}) \X Book

VARIABLES
  narration,     \* per book: key, chapters, prints and gen of bookNarration
  narrationAll, narrationBook,
  memo,          \* per memo and book: what it remembers, None for nothing
  memoGen,
  heard,         \* each writer: how many of Later its write's notify has run
  op             \* what each reader is doing

memos == <<narration, narrationAll, narrationBook, memo, memoGen>>
vars == <<cacheVars, memos, heard, op>>

\* What a reader is doing, about a memo or a narration.
MemoOp(m, b, pc, floor, gen, row, v) ==
  [kind |-> m, book |-> b, pc |-> pc, floor |-> floor, gen |-> gen, row |-> row, v |-> v]
NarrationOp(b, k, pc, floor, gen, prev, prints, v) ==
  [kind |-> "narration", book |-> b, key |-> k, pc |-> pc, floor |-> floor, gen |-> gen,
   prev |-> prev, prints |-> prints, v |-> v]
NoOp == MemoOp(None, None, "idle", None, None, None, None)

narrationGen(b) == [all |-> allGen, any |-> narrationAll, own |-> narrationBook[b]]

Init ==
  /\ CacheInit
  /\ narration = [b \in Book |-> None]
  /\ narrationAll = 0 /\ narrationBook = [b \in Book |-> 0]
  /\ memo = [m \in Memo |-> [b \in Book |-> None]]
  /\ memoGen = [m \in Memo |-> 0]
  /\ heard = [w \in Writer |-> 0]
  /\ op = [r \in Reader |-> NoOp]

\* Every variable has its type.
TypeOK ==
  /\ CacheTypeOK
  /\ \A b \in Book : narration[b] # None =>
       /\ narration[b].key \in VoiceKey
       /\ narration[b].chapters \in [Chapters(b) -> VoiceKey \X Nat]
       /\ narration[b].prints \in [Chapters(b) -> Nat]
  /\ \A m \in Memo, b \in Book : memo[m][b] # None => DOMAIN memo[m][b].rest = Reads[MemoKey[m][b]]
  /\ heard \in [Writer -> 0..Len(Later)]
  /\ \A w \in Writer : writing[w].pc = "idle" => heard[w] = 0
  /\ \A r \in Reader : op[r].pc \in {"idle", "book", "prints", "load", "resolve", "keep", "done"}
------------------------------------------------------------------------------
\* A write.

Begin(w, x) ==
  /\ FoldFunction(+, Cardinality(x.cells), ver) <= MaxWrites
  /\ Commit(w, x)
  /\ UNCHANGED <<memos, heard, op>>

\* invalidate, with what it does for ChapterNarration.
Tell(w) ==
  LET x == writing[w].what
      whole == AllTables \in x.tables
      counted == ~whole /\ x.tables \cap Range(NarrationTables) # {} IN
  /\ Invalidate(w)
  /\ narration' = IF whole THEN [b \in Book |-> None] ELSE narration
  /\ narrationAll' = IF counted /\ x.scope = None THEN narrationAll + 1 ELSE narrationAll
  /\ narrationBook' = [b \in Book |->
       IF counted /\ x.scope = b THEN narrationBook[b] + 1 ELSE narrationBook[b]]
  /\ UNCHANGED <<memo, memoGen, heard, op>>

Touches(x, m) == AllTables \in x.tables \/ x.tables \cap MemoTables[m] # {}

Dropped(x, m) == IF m = "ready" /\ x.scope # None THEN {x.scope} ELSE Book

\* (Mutant: the memos are told of a write before, or while, the cache is.)
HearFirst(w) ==
  LET x == writing[w].what
      m == Later[heard[w] + 1] IN
  /\ writing[w].pc # "idle" /\ heard[w] < Len(Later)
  /\ heard' = [heard EXCEPT ![w] = @ + 1]
  /\ \/ /\ m \in Memo /\ Touches(x, m)
        /\ memoGen' = [memoGen EXCEPT ![m] = @ + 1]
        /\ memo' = [memo EXCEPT ![m] = [b \in Book |-> IF b \in Dropped(x, m) THEN None ELSE @[b]]]
     \/ /\ ~(m \in Memo /\ Touches(x, m))
        /\ UNCHANGED <<memo, memoGen>>
  /\ UNCHANGED <<cacheVars, narration, narrationAll, narrationBook, op>>

\* readyChapters.changed, and the listener of characterVoiceOverrides, which
\* drops everything whatever the book. The live hub's may be among them: it
\* changes nothing here.
Hear(w) ==
  LET x == writing[w].what
      m == Later[heard[w] + 1] IN
  /\ writing[w].pc = "told" /\ heard[w] < Len(Later)
  /\ heard' = [heard EXCEPT ![w] = @ + 1]
  /\ \/ /\ m \in Memo /\ Touches(x, m)
        /\ memoGen' = [memoGen EXCEPT ![m] = @ + 1]
        /\ memo' = [memo EXCEPT ![m] = [b \in Book |-> IF b \in Dropped(x, m) THEN None ELSE @[b]]]
     \/ /\ ~(m \in Memo /\ Touches(x, m))
        /\ UNCHANGED <<memo, memoGen>>
  /\ UNCHANGED <<cacheVars, narration, narrationAll, narrationBook, op>>

End(w) ==
  /\ heard[w] = Len(Later)
  /\ Return(w)
  /\ heard' = [heard EXCEPT ![w] = 0]
  /\ UNCHANGED <<memos, op>>
------------------------------------------------------------------------------
\* A cached read, as a step of what follows.

ReadOn(r) == ReadStep(r) /\ UNCHANGED <<memos, heard, op>>

\* A read that fails ends what it was a step of.
Stop(r) ==
  /\ Leave(r) /\ call[r].pc = "load"
  /\ op' = [op EXCEPT ![r] = NoOp]
  /\ UNCHANGED <<memos, heard>>

ReadFor(r, k) ==
  /\ call[r].pc = "idle"
  /\ Call(r, k)
  /\ UNCHANGED <<memos, heard, op>>

\* The step takes the answer of the read it made.
Took(r) ==
  /\ call[r].pc = "done"
  /\ Leave(r)
------------------------------------------------------------------------------
\* characterVoiceOverrides, and the look ahead's use of readyChapters.

At(r, pc, kinds) == op[r].pc = pc /\ op[r].kind \in kinds

\* enqueueLookahead reads the book's row once, before it looks at any chapter.
ReadBook(r, b) ==
  /\ op[r].pc = "idle"
  /\ Call(r, BookKey[b])
  /\ op' = [op EXCEPT ![r] =
       MemoOp("ready", b, "book", [c \in Reads[MemoKey["ready"][b]] |-> settled[c]], None, None, None)]
  /\ UNCHANGED <<memos, heard>>

\* The memo under its lock: what it knows, or the generation it is at.
Look(r, m, b, floor, row) ==
  op' = [op EXCEPT ![r] =
    IF memo[m][b] # None
      THEN MemoOp(m, b, "done", floor, None, None, memo[m][b])
      ELSE MemoOp(m, b, "resolve", floor, memoGen[m], row, None)]

\* readyChapters.get.
LookReady(r) ==
  /\ At(r, "book", {"ready"})
  /\ Took(r)
  /\ Look(r, "ready", op[r].book, op[r].floor, call[r].v)
  /\ UNCHANGED <<memos, heard>>

LookVoices(r, b) ==
  /\ op[r].pc = "idle"
  /\ Look(r, "voices", b, [c \in Reads[MemoKey["voices"][b]] |-> settled[c]], None)
  /\ UNCHANGED <<cacheVars, memos, heard>>

\* paragraphsNeedingGeneration, resolveCharacterVoiceOverrides: the reads, cached.
Resolve(r) == At(r, "resolve", Memo) /\ ReadFor(r, MemoKey[op[r].kind][op[r].book])

\* The memo keeps the answer if nothing it hears of was written since Look; a
\* chapter that needs something generated is not kept (the second disjunct).
Put(r) ==
  LET m == op[r].kind
      v == [row |-> op[r].row, rest |-> call[r].v] IN
  /\ At(r, "resolve", Memo)
  /\ Took(r)
  /\ \/ memoGen[m] = op[r].gen /\ memo' = [memo EXCEPT ![m][op[r].book] = v]
     \/ (m = "ready" \/ memoGen[m] # op[r].gen) /\ UNCHANGED memo
  /\ op' = [op EXCEPT ![r] = MemoOp(m, op[r].book, "done", op[r].floor, None, None, v)]
  /\ UNCHANGED <<narration, narrationAll, narrationBook, memoGen, heard>>
------------------------------------------------------------------------------
\* ChapterNarration for a whole book.

\* (Mutant: the voices the last result was for are not compared.)
LookNarrationAnyVoice(r, b, k) ==
  LET prev == narration[b]
      floor == [c \in Chapters(b) |-> settled[c]] IN
  /\ op[r].pc = "idle"
  /\ op' = [op EXCEPT ![r] =
       IF prev # None /\ prev.gen = narrationGen(b)
         THEN NarrationOp(b, k, "done", floor, None, None, None, prev.chapters)
         ELSE NarrationOp(b, k, "prints", floor, narrationGen(b), prev, <<>>, None)]
  /\ UNCHANGED <<cacheVars, memos, heard>>

\* The last result stands if nothing that could change it was announced since
\* before its fingerprints were read.
LookNarration(r, b, k) ==
  LET prev == narration[b]
      floor == [c \in Chapters(b) |-> settled[c]] IN
  /\ op[r].pc = "idle"
  /\ op' = [op EXCEPT ![r] =
       IF prev # None /\ prev.key = k /\ prev.gen = narrationGen(b)
         THEN NarrationOp(b, k, "done", floor, None, None, None, prev.chapters)
         ELSE NarrationOp(b, k, "prints", floor, narrationGen(b), prev, <<>>, None)]
  /\ UNCHANGED <<cacheVars, memos, heard>>

\* ChapterFingerprints: one statement a table, in order, so a write may come
\* between two.
Prints(r, i) ==
  LET o == op[r]
      rows(t) == {c \in Chapters(o.book) : TableOf[c] = t}
      before == UNION {rows(NarrationTables[j]) : j \in 1..(i - 1)}
      read == before \cup rows(NarrationTables[i]) IN
  /\ At(r, "prints", {"narration"})
  /\ DOMAIN o.prints = before
  /\ op' = [op EXCEPT ![r] =
       NarrationOp(o.book, o.key, IF i = Len(NarrationTables) THEN "load" ELSE "prints", o.floor,
                   o.gen, o.prev, [c \in read |-> IF c \in before THEN o.prints[c] ELSE ver[c]], None)]
  /\ UNCHANGED <<cacheVars, memos, heard>>

\* The chapters to read: those with another fingerprint than the last result's,
\* all of them when that was for other voices. The result replaces the last one
\* unless everything was invalidated meanwhile.
LoadNarration(r) ==
  LET o == op[r]
      kept == IF o.prev # None /\ o.prev.key = o.key
                THEN {c \in Chapters(o.book) : o.prints[c] = o.prev.prints[c]} ELSE {}
      v == [c \in Chapters(o.book) |-> IF c \in kept THEN o.prev.chapters[c] ELSE <<o.key, ver[c]>>] IN
  /\ At(r, "load", {"narration"})
  /\ op' = [op EXCEPT ![r] = NarrationOp(o.book, o.key, "keep", o.floor, o.gen, o.prev, o.prints, v)]
  /\ UNCHANGED <<cacheVars, memos, heard>>

\* (Mutant: the generation is the one it is kept under.)
KeepNarrationNow(r) ==
  LET o == op[r] IN
  /\ At(r, "keep", {"narration"})
  /\ narration' = IF allGen # o.gen.all THEN narration ELSE [narration EXCEPT ![o.book] =
       [key |-> o.key, chapters |-> o.v, prints |-> o.prints, gen |-> narrationGen(o.book)]]
  /\ op' = [op EXCEPT ![r] = NarrationOp(o.book, o.key, "done", o.floor, None, None, None, o.v)]
  /\ UNCHANGED <<cacheVars, narrationAll, narrationBook, memo, memoGen, heard>>

\* (Mutant: the fingerprints of the chapters that were not read are not kept.)
KeepNarrationRead(r) ==
  LET o == op[r] IN
  /\ At(r, "keep", {"narration"})
  /\ narration' = IF allGen # o.gen.all THEN narration ELSE [narration EXCEPT ![o.book] =
       [key |-> o.key, chapters |-> o.v, gen |-> o.gen,
        prints |-> [c \in {x \in DOMAIN o.prints : o.v[x][2] = ver[x]} |-> o.prints[c]]]]
  /\ op' = [op EXCEPT ![r] = NarrationOp(o.book, o.key, "done", o.floor, None, None, None, o.v)]
  /\ UNCHANGED <<cacheVars, narrationAll, narrationBook, memo, memoGen, heard>>

KeepNarration(r) ==
  LET o == op[r] IN
  /\ At(r, "keep", {"narration"})
  /\ narration' = IF allGen # o.gen.all THEN narration ELSE [narration EXCEPT ![o.book] =
       [key |-> o.key, chapters |-> o.v, prints |-> o.prints, gen |-> o.gen]]
  /\ op' = [op EXCEPT ![r] = NarrationOp(o.book, o.key, "done", o.floor, None, None, None, o.v)]
  /\ UNCHANGED <<cacheVars, narrationAll, narrationBook, memo, memoGen, heard>>

\* A statement that fails ends the listing, and what was remembered stays.
Fail(r) ==
  /\ At(r, "prints", {"narration"}) \/ At(r, "load", {"narration"})
  /\ op' = [op EXCEPT ![r] = NoOp]
  /\ UNCHANGED <<cacheVars, memos, heard>>
------------------------------------------------------------------------------
Finish(r) ==
  /\ op[r].pc = "done"
  /\ op' = [op EXCEPT ![r] = NoOp]
  /\ UNCHANGED <<cacheVars, memos, heard>>
------------------------------------------------------------------------------
Next ==
  \/ \E w \in Writer :
       \/ \E x \in Write : Begin(w, x)
       \/ Tell(w) \/ Hear(w) \/ End(w)
  \/ \E r \in Reader :
       \/ ReadOn(r) \/ Stop(r)
       \/ \E a \in Asks :
            \/ a[1] = "ready" /\ ReadBook(r, a[2])
            \/ a[1] = "voices" /\ LookVoices(r, a[2])
            \/ a[1] = "narration" /\ \E k \in VoiceKey : LookNarration(r, a[2], k)
       \/ LookReady(r) \/ Resolve(r) \/ Put(r)
       \/ (\E i \in DOMAIN NarrationTables : Prints(r, i))
       \/ LoadNarration(r) \/ KeepNarration(r) \/ Fail(r)
       \/ Finish(r)

Spec == Init /\ [][Next]_vars
------------------------------------------------------------------------------
\* A narration that is served without reading the fingerprints again lags only
\* by writes the cache has still to hear of, whatever overlapped its own reads
\* and whichever of two listings stored it: ChapterNarration counts the writes
\* from before it reads the fingerprints, and reads those before the chapters.
NarrationCurrent ==
  \A b \in Book : narration[b] # None /\ narration[b].gen = narrationGen(b) =>
    \A c \in Chapters(b) : \A n \in (narration[b].chapters[c][2] + 1)..ver[c] : Unheard(c, n)

\* What a memo remembers lags only by writes it has still to hear of itself. It
\* is worked out from reads the cache may answer, so this holds only because
\* the cache hears of every write first: told first, a memo could remember a
\* stale read under its new generation, for good.
MemoCurrent ==
  \A m \in Memo, b \in Book : memo[m][b] # None =>
    \A c \in DOMAIN memo[m][b].rest : \A n \in (memo[m][b].rest[c] + 1)..ver[c] :
      \E w \in Writer :
        /\ writing[w].pc # "idle" /\ c \in writing[w].what.cells /\ writing[w].at[c] = n
        /\ m \in {Later[i] : i \in (heard[w] + 1)..Len(Later)}

\* Whoever asks for a book's narration, its voices, or whether a chapter has
\* anything to generate, is answered for the voices asked for and with every
\* write that had returned when the question was put.
AnswersFresh ==
  \A r \in Reader : op[r].pc = "done" =>
    IF op[r].kind = "narration"
      THEN \A c \in Chapters(op[r].book) : /\ op[r].v[c][1] = op[r].key
                                            /\ op[r].floor[c] <= op[r].v[c][2]
      ELSE \A c \in DOMAIN op[r].v.rest : op[r].floor[c] <= op[r].v.rest[c]
==============================================================================
