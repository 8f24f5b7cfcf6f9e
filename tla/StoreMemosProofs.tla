------------------------- MODULE StoreMemosProofs ---------------------------
(* Theorems about what the server remembers on top of the store's cache,       *)
(* StoreMemos, for any books, tables, writes, listeners, readers and writers:  *)
(* it stays current but for writes it has still to hear of, and its answers    *)
(* are fresh.                                                                  *)
EXTENDS StoreMemos, StoreCacheProofs

NarrationGen == [all : Nat, any : Nat, own : Nat]

\* A generation noted for a book is not of the future.
GenNoted(b, g) ==
  /\ g \in NarrationGen
  /\ g.all <= allGen /\ g.any <= narrationAll /\ g.own <= narrationBook[b]

\* What was read of a book's chapters when the generation was g lags, if that
\* still stands, only by writes the cache has still to hear of.
ReadAt(b, g, p) ==
  g = narrationGen(b) =>
    \A c \in DOMAIN p : \A n \in (p[c] + 1) .. ver[c] : Unheard(c, n)

\* A result of ChapterNarration: for the voices it was asked for, each chapter
\* read no earlier than its fingerprint.
KeptOK(b, x) ==
  /\ x = [key |-> x.key, chapters |-> x.chapters, prints |-> x.prints, gen |-> x.gen]
  /\ x.key \in VoiceKey /\ x.gen \in NarrationGen
  /\ x.chapters \in [Chapters(b) -> VoiceKey \X Nat]
  /\ x.prints \in [Chapters(b) -> Nat]
  /\ \A c \in Chapters(b) : x.chapters[c][1] = x.key /\ x.prints[c] <= x.chapters[c][2]

\* Version n of a cell is committed, and m has still to hear of it.
Awaited(m, c, n) ==
  \E w \in Writer :
    /\ writing[w].pc # "idle" /\ c \in writing[w].what.cells /\ writing[w].at[c] = n
    /\ m \in {Later[i] : i \in (heard[w] + 1) .. Len(Later)}

MemoFresh(m, v) == \A c \in DOMAIN v : \A n \in (v[c] + 1) .. ver[c] : Awaited(m, c, n)

MemoRow(m, b, x) ==
  x = [row |-> x.row, rest |-> x.rest] /\ x.rest \in Rows(MemoKey[m][b])

\* A reader at a memo, with the cached read it is in.
MemoOpOK(x, c) ==
  /\ x = MemoOp(x.kind, x.book, x.pc, x.floor, x.gen, x.row, x.v)
  /\ x.kind \in Memo /\ x.book \in Book /\ x.pc \in {"book", "resolve", "done"}
  /\ x.floor \in Rows(MemoKey[x.kind][x.book])
  /\ x.pc = "book" => x.kind = "ready"
  /\ x.pc # "done" => \A a \in DOMAIN x.floor : x.floor[a] <= settled[a]
  /\ x.pc = "resolve" =>
       /\ x.gen \in Nat /\ x.gen <= memoGen[x.kind]
       /\ c.pc # "idle" => /\ c.key = MemoKey[x.kind][x.book]
                           /\ \A a \in DOMAIN x.floor : x.floor[a] <= c.floor[a]
       /\ c.pc \in {"keep", "done"} /\ x.gen = memoGen[x.kind] => MemoFresh(x.kind, c.v)
  /\ x.pc = "done" =>
       /\ c.pc = "idle"
       /\ MemoRow(x.kind, x.book, x.v)
       /\ \A a \in DOMAIN x.floor : x.floor[a] <= x.v.rest[a]

\* A reader at a narration.
NarrationOpOK(x, c) ==
  /\ x = NarrationOp(x.book, x.key, x.pc, x.floor, x.gen, x.prev, x.prints, x.v)
  /\ x.book \in Book /\ x.key \in VoiceKey /\ x.pc \in {"prints", "load", "keep", "done"}
  /\ x.floor \in [Chapters(x.book) -> Nat]
  /\ c.pc = "idle"
  /\ x.pc # "done" =>
       /\ GenNoted(x.book, x.gen)
       /\ x.prev # None => KeptOK(x.book, x.prev)
       /\ DOMAIN x.prints \subseteq Chapters(x.book) /\ x.prints \in [DOMAIN x.prints -> Nat]
       /\ x.pc # "prints" => DOMAIN x.prints = Chapters(x.book)
       /\ \A a \in Chapters(x.book) : x.floor[a] <= ver[a]
       /\ \A a \in DOMAIN x.prints : x.floor[a] <= x.prints[a] /\ x.prints[a] <= ver[a]
       /\ ReadAt(x.book, x.gen, x.prints)
  /\ x.pc \in {"keep", "done"} =>
       /\ x.v \in [Chapters(x.book) -> VoiceKey \X Nat]
       /\ \A a \in Chapters(x.book) : x.v[a][1] = x.key
  /\ x.pc = "keep" => \A a \in Chapters(x.book) : x.prints[a] <= x.v[a][2]
  /\ x.pc = "done" => \A a \in Chapters(x.book) : x.floor[a] <= x.v[a][2]

OpOK(x, c) ==
  IF x.pc = "idle" THEN x = NoOp /\ c.pc = "idle"
  ELSE IF x.kind = "narration" THEN NarrationOpOK(x, c) ELSE MemoOpOK(x, c)

\* What has settled is no write under way.
SettledDone ==
  \A w \in Writer : writing[w].pc # "idle" =>
    \A c \in writing[w].what.cells : writing[w].at[c] # settled[c]

NotifyOK ==
  /\ heard \in [Writer -> 0 .. Len(Later)]
  /\ \A w \in Writer : writing[w].pc \in {"idle", "untold"} => heard[w] = 0
  /\ SettledDone

NarrationOK(b, x) ==
  x # None => KeptOK(b, x) /\ GenNoted(b, x.gen) /\ ReadAt(b, x.gen, x.prints)

NarrationsOK ==
  /\ narrationAll \in Nat /\ narrationBook \in [Book -> Nat]
  /\ DOMAIN narration = Book
  /\ \A b \in Book : \A x \in {narration[b]} : NarrationOK(b, x)

MemoOK(m, b, x) == x # None => MemoRow(m, b, x) /\ MemoFresh(m, x.rest)

MemosOK ==
  /\ memoGen \in [Memo -> Nat]
  /\ DOMAIN memo = Memo /\ \A m \in Memo : DOMAIN memo[m] = Book
  /\ \A m \in Memo, b \in Book : \A x \in {memo[m][b]} : MemoOK(m, b, x)

OpsOK ==
  /\ DOMAIN op = Reader
  /\ \A r \in Reader : \A x \in {op[r]}, c \in {call[r]} : OpOK(x, c)

MemosInv == CacheInv /\ NotifyOK /\ NarrationsOK /\ MemosOK /\ OpsOK
------------------------------------------------------------------------------
LEMMA MemoStarts ==
  ASSUME Init
  PROVE  MemosInv
<1>1. CacheInv
  BY CacheStart DEF Init
<1>2. NotifyOK
  <2>1. Len(Later) \in Nat
    BY MemoAssumption
  <2> QED  BY <2>1 DEF Init, CacheInit, NotifyOK, SettledDone, NoWrite, Announcement
<1>3. NarrationsOK /\ MemosOK
  BY DEF Init, NarrationsOK, MemosOK, NarrationOK, MemoOK
<1>4. OpsOK
  BY DEF Init, CacheInit, OpsOK, OpOK, NoCall, Frame, NoOp, MemoOp
<1> QED  BY <1>1, <1>2, <1>3, <1>4 DEF MemosInv
------------------------------------------------------------------------------
(* Versions and who has heard of them.                                         *)

LEMMA WriteTypes ==
  ASSUME CacheTypeOK, NEW w \in Writer, writing[w].pc # "idle"
  PROVE  /\ writing[w].what \in Write /\ writing[w].what.cells \subseteq Cell
         /\ \A c \in writing[w].what.cells : writing[w].at[c] \in Nat
BY WriteAssumption DEF CacheTypeOK, WriteTypeOK

LEMMA VersionTypes ==
  ASSUME CacheTypeOK
  PROVE  \A c \in Cell : ver[c] \in Nat /\ settled[c] \in Nat
BY DEF CacheTypeOK, Versions

LEMMA ChaptersAreCells == \A b \in Book : Chapters(b) \subseteq Cell
BY DEF Chapters

LEMMA MemoCells ==
  ASSUME NEW m \in Memo, NEW b \in Book
  PROVE  MemoKey[m][b] \in Key /\ Reads[MemoKey[m][b]] \subseteq Cell
BY MemoAssumption, StoreAssumption

\* A memo hears of a write after the cache.
LEMMA UnheardAwaited ==
  ASSUME CacheTypeOK, NotifyOK, NEW m \in Memo, NEW c, NEW n, Unheard(c, n)
  PROVE  Awaited(m, c, n)
<1>1. PICK w \in Writer : writing[w].pc = "untold" /\ c \in writing[w].what.cells /\ writing[w].at[c] = n
  BY DEF Unheard
<1>2. heard[w] = 0
  BY <1>1 DEF NotifyOK
<1>3. PICK i \in DOMAIN Later : Later[i] = m
  BY MemoAssumption DEF Range
<1>4. Len(Later) \in Nat /\ i \in (0 + 1) .. Len(Later)
  BY <1>3, MemoAssumption
<1> QED  BY <1>1, <1>2, <1>3, <1>4 DEF Awaited

\* What a memo remembers is no older than what has settled.
LEMMA MemoFreshSettled ==
  ASSUME CacheInv, NotifyOK, NEW m \in Memo, NEW b \in Book, NEW v \in Rows(MemoKey[m][b]),
         MemoFresh(m, v), NEW c \in Reads[MemoKey[m][b]]
  PROVE  settled[c] <= v[c]
<1>1. c \in Cell /\ v[c] \in Nat /\ c \in DOMAIN v
  BY MemoCells DEF Rows
<1>2. settled[c] \in Nat /\ ver[c] \in Nat /\ settled[c] <= ver[c]
  BY <1>1, VersionTypes DEF CacheInv, SettledOK
<1>3. ~Awaited(m, c, settled[c])
  BY DEF Awaited, NotifyOK, SettledDone
<1>4. settled[c] \notin (v[c] + 1) .. ver[c]
  BY <1>1, <1>3 DEF MemoFresh
<1> QED  BY <1>1, <1>2, <1>4
------------------------------------------------------------------------------
(* The steps of writers, which leave what readers are doing alone.             *)

\* What was read of chapters still lags only by what the cache will hear of.
ReadsStay ==
  \A b \in Book : \A g, p :
    GenNoted(b, g) /\ DOMAIN p \subseteq Chapters(b) /\ p \in [DOMAIN p -> Nat] /\ ReadAt(b, g, p)
      => GenNoted(b, g)' /\ ReadAt(b, g, p)'

\* The same of what a memo may come to remember.
MemosStay ==
  \A m \in Memo, b \in Book : \A v \in Rows(MemoKey[m][b]) :
    memoGen'[m] = memoGen[m] /\ MemoFresh(m, v) => MemoFresh(m, v)'

Grows ==
  /\ \A c \in Cell : ver[c] <= ver'[c] /\ settled[c] <= settled'[c]
  /\ \A m \in Memo : memoGen[m] <= memoGen'[m]

LEMMA OpsStay ==
  ASSUME MemosInv, CacheTypeOK', memoGen' \in [Memo -> Nat], UNCHANGED <<op, call>>,
         ReadsStay, MemosStay, Grows
  PROVE  OpsOK'
<1>1. SUFFICES ASSUME NEW r \in Reader, NEW x \in {op[r]}, NEW c \in {call[r]}
               PROVE  OpOK(x, c)'
  BY DEF OpsOK, MemosInv
<1>2. OpOK(x, c) /\ CallTypeOK(c)
  BY DEF MemosInv, OpsOK, CacheInv, CacheTypeOK
<1>3. \A a \in Cell : /\ ver[a] \in Nat /\ settled[a] \in Nat /\ ver'[a] \in Nat /\ settled'[a] \in Nat
                      /\ ver[a] <= ver'[a] /\ settled[a] <= settled'[a]
  BY VersionTypes DEF MemosInv, CacheInv, CacheTypeOK, Versions, Grows
<1>4. ASSUME x.pc # "idle", x.kind = "narration"
      PROVE  NarrationOpOK(x, c)'
  <2>1. NarrationOpOK(x, c)
    BY <1>2, <1>4 DEF OpOK
  <2>2. SUFFICES ASSUME x.pc # "done"
                 PROVE  /\ GenNoted(x.book, x.gen)' /\ ReadAt(x.book, x.gen, x.prints)'
                        /\ \A a \in Chapters(x.book) : x.floor[a] <= ver'[a]
                        /\ \A a \in DOMAIN x.prints : x.prints[a] <= ver'[a]
    BY <2>1 DEF NarrationOpOK
  <2>3. GenNoted(x.book, x.gen)' /\ ReadAt(x.book, x.gen, x.prints)'
    BY <2>1, <2>2 DEF NarrationOpOK, ReadsStay
  <2>4. \A a \in Chapters(x.book) : a \in Cell /\ x.floor[a] \in Nat /\ x.floor[a] <= ver[a]
    BY <2>1, <2>2, ChaptersAreCells DEF NarrationOpOK
  <2>5. \A a \in DOMAIN x.prints : a \in Cell /\ x.prints[a] \in Nat /\ x.prints[a] <= ver[a]
    BY <2>1, <2>2, ChaptersAreCells DEF NarrationOpOK
  <2> QED  BY <1>3, <2>3, <2>4, <2>5
<1>5. ASSUME x.pc # "idle", x.kind # "narration"
      PROVE  MemoOpOK(x, c)'
  <2>1. MemoOpOK(x, c)
    BY <1>2, <1>5 DEF OpOK
  <2>2. x.kind \in Memo /\ x.book \in Book /\ x.floor \in Rows(MemoKey[x.kind][x.book])
    BY <2>1 DEF MemoOpOK
  <2>3. x.pc # "done" => \A a \in DOMAIN x.floor : x.floor[a] <= settled'[a]
    <3>1. \A a \in DOMAIN x.floor : a \in Cell /\ x.floor[a] \in Nat
      BY <2>2, MemoCells DEF Rows
    <3> QED  BY <1>3, <2>1, <3>1 DEF MemoOpOK
  <2>4. ASSUME x.pc = "resolve"
        PROVE  /\ x.gen <= memoGen'[x.kind]
               /\ c.pc \in {"keep", "done"} /\ x.gen = memoGen'[x.kind] => MemoFresh(x.kind, c.v)'
    <3>1. /\ x.gen \in Nat /\ x.gen <= memoGen[x.kind]
          /\ memoGen[x.kind] \in Nat /\ memoGen'[x.kind] \in Nat /\ memoGen[x.kind] <= memoGen'[x.kind]
      BY <2>1, <2>2, <2>4 DEF MemoOpOK, Grows, MemosInv, MemosOK
    <3>2. ASSUME c.pc \in {"keep", "done"}, x.gen = memoGen'[x.kind]
          PROVE  MemoFresh(x.kind, c.v)'
      <4>1. memoGen'[x.kind] = memoGen[x.kind] /\ x.gen = memoGen[x.kind]
        BY <3>1, <3>2
      <4>2. MemoFresh(x.kind, c.v) /\ c.v \in Rows(MemoKey[x.kind][x.book])
        BY <1>2, <2>1, <2>4, <3>2, <4>1 DEF MemoOpOK, CallTypeOK
      <4> QED  BY <2>2, <4>1, <4>2 DEF MemosStay
    <3> QED  BY <3>1, <3>2
  <2> QED  BY <2>1, <2>3, <2>4 DEF MemoOpOK
<1> QED  BY <1>2, <1>4, <1>5 DEF OpOK

\* What is remembered of narrations and memos stays, if it is left alone.
LEMMA NarrationsStay ==
  ASSUME MemosInv, UNCHANGED narration, ReadsStay,
         narrationAll' \in Nat, narrationBook' \in [Book -> Nat]
  PROVE  NarrationsOK'
<1>1. SUFFICES ASSUME NEW b \in Book, NEW x \in {narration[b]}
               PROVE  NarrationOK(b, x)'
  BY DEF MemosInv, NarrationsOK
<1>2. NarrationOK(b, x)
  BY DEF MemosInv, NarrationsOK
<1>3. ASSUME x # None
      PROVE  GenNoted(b, x.gen)' /\ ReadAt(b, x.gen, x.prints)'
  BY <1>2, <1>3 DEF NarrationOK, KeptOK, ReadsStay
<1> QED  BY <1>2, <1>3 DEF NarrationOK

LEMMA RememberedStays ==
  ASSUME MemosInv, UNCHANGED <<memo, memoGen>>, MemosStay
  PROVE  MemosOK'
<1>1. SUFFICES ASSUME NEW m \in Memo, NEW b \in Book, NEW x \in {memo[m][b]}
               PROVE  MemoOK(m, b, x)'
  BY DEF MemosInv, MemosOK
<1>2. MemoOK(m, b, x)
  BY DEF MemosInv, MemosOK
<1>3. ASSUME x # None
      PROVE  MemoFresh(m, x.rest)'
  BY <1>2, <1>3 DEF MemoOK, MemoRow, MemosStay
<1> QED  BY <1>2, <1>3 DEF MemoOK

LEMMA BeginStep ==
  ASSUME MemosInv, NEW w \in Writer, NEW x \in Write, Begin(w, x)
  PROVE  MemosInv'
<1>0. CacheInv'
  BY CommitKeeps DEF Begin, MemosInv
<1>1. /\ writing[w].pc = "idle" /\ writing'[w] = Announcement("untold", x, [c \in x.cells |-> ver[c] + 1])
      /\ \A u \in Writer : u # w => writing'[u] = writing[u]
      /\ \A c \in Cell : ver'[c] = IF c \in x.cells THEN ver[c] + 1 ELSE ver[c]
      /\ UNCHANGED <<settled, gens, allGen, call, memos, heard, op>>
  BY DEF Begin, Commit, MemosInv, CacheInv, CacheTypeOK, cache
<1>2. writing'[w].pc = "untold" /\ writing'[w].what = x /\ \A c \in x.cells : writing'[w].at[c] = ver[c] + 1
  BY <1>1 DEF Announcement
<1>3. \A c \in Cell : ver[c] \in Nat /\ settled[c] \in Nat /\ settled[c] <= ver[c] /\ ver[c] <= ver'[c]
  BY <1>1, VersionTypes DEF MemosInv, CacheInv, SettledOK
<1>4. \A c \in x.cells : c \in Cell /\ ver'[c] = ver[c] + 1
  BY <1>1, WriteAssumption
<1>5. heard[w] = 0
  BY <1>1 DEF MemosInv, NotifyOK
<1>6. NotifyOK'
  <2>1. SettledDone'
    <3>1. SUFFICES ASSUME NEW u \in Writer, writing'[u].pc # "idle", NEW c \in writing'[u].what.cells
                   PROVE  writing'[u].at[c] # settled[c]
      BY <1>1 DEF SettledDone
    <3>2. CASE u = w
      BY <1>2, <1>3, <1>4, <3>2
    <3>3. CASE u # w
      BY <1>1, <3>1, <3>3 DEF MemosInv, NotifyOK, SettledDone
    <3> QED  BY <3>2, <3>3
  <2>2. \A u \in Writer : writing'[u].pc \in {"idle", "untold"} => heard'[u] = 0
    BY <1>1, <1>5 DEF MemosInv, NotifyOK
  <2> QED  BY <1>1, <2>1, <2>2 DEF MemosInv, NotifyOK
<1>7. \A c \in Cell, n \in Nat : Unheard(c, n) => Unheard(c, n)'
  BY <1>1 DEF Unheard
<1>8. \A m \in Memo, c \in Cell, n \in Nat : Awaited(m, c, n) => Awaited(m, c, n)'
  BY <1>1 DEF Awaited
<1>9. \A c \in Cell : \A n \in {ver'[c]} : ver'[c] # ver[c] => Unheard(c, n)'
  BY <1>1, <1>2, <1>4 DEF Unheard
<1>10. \A m \in Memo, c \in Cell : \A n \in {ver'[c]} : ver'[c] # ver[c] => Awaited(m, c, n)'
  <2> TAKE m \in Memo, c \in Cell
  <2>1. PICK i \in DOMAIN Later : Later[i] = m
    BY MemoAssumption DEF Range
  <2>2. Len(Later) \in Nat /\ i \in (0 + 1) .. Len(Later)
    BY <2>1, MemoAssumption
  <2> QED  BY <1>1, <1>2, <1>4, <1>5, <2>1, <2>2 DEF Awaited
<1>11. ASSUME NEW c \in Cell, NEW v \in Nat, NEW n \in (v + 1) .. ver'[c]
       PROVE  n \in Nat /\ (n \in (v + 1) .. ver[c] \/ (n = ver'[c] /\ ver'[c] # ver[c]))
  <2>1. ver'[c] = ver[c] \/ ver'[c] = ver[c] + 1
    BY <1>1
  <2> QED  BY <1>3, <1>11, <2>1
<1>12. ReadsStay
  <2>1. SUFFICES ASSUME NEW b \in Book, NEW g, NEW p, DOMAIN p \subseteq Chapters(b),
                        p \in [DOMAIN p -> Nat], ReadAt(b, g, p)
                 PROVE  ReadAt(b, g, p)'
    BY <1>1 DEF ReadsStay, GenNoted, memos
  <2>2. SUFFICES ASSUME g = narrationGen(b), NEW c \in DOMAIN p, NEW n \in (p[c] + 1) .. ver'[c]
                 PROVE  Unheard(c, n)'
    BY <1>1 DEF ReadAt, narrationGen, memos
  <2>3. c \in Cell /\ p[c] \in Nat
    BY <2>1, ChaptersAreCells
  <2>4. \A k \in (p[c] + 1) .. ver[c] : Unheard(c, k)
    BY <2>1, <2>2 DEF ReadAt
  <2> QED  BY <1>7, <1>9, <1>11, <2>3, <2>4
<1>13. MemosStay
  <2>1. SUFFICES ASSUME NEW m \in Memo, NEW b \in Book, NEW v \in Rows(MemoKey[m][b]), MemoFresh(m, v),
                        NEW c \in DOMAIN v, NEW n \in (v[c] + 1) .. ver'[c]
                 PROVE  Awaited(m, c, n)'
    BY DEF MemosStay, MemoFresh
  <2>2. c \in Cell /\ v[c] \in Nat
    BY MemoCells DEF Rows
  <2>3. \A k \in (v[c] + 1) .. ver[c] : Awaited(m, c, k)
    BY <2>1 DEF MemoFresh
  <2> QED  BY <1>8, <1>10, <1>11, <2>2, <2>3
<1>14. Grows
  BY <1>1, <1>3 DEF Grows, memos, MemosInv, MemosOK
<1>15. CacheTypeOK' /\ UNCHANGED <<op, call, narration, narrationAll, narrationBook, memo, memoGen>>
  BY <1>0, <1>1 DEF CacheInv, memos
<1>16. memoGen' \in [Memo -> Nat] /\ narrationAll' \in Nat /\ narrationBook' \in [Book -> Nat]
  BY <1>15 DEF MemosInv, MemosOK, NarrationsOK
<1>17. OpsOK' /\ NarrationsOK' /\ MemosOK'
  BY <1>12, <1>13, <1>14, <1>15, <1>16, OpsStay, NarrationsStay, RememberedStays
<1> QED  BY <1>0, <1>6, <1>17 DEF MemosInv
\* A write that changed a cell of a chapter, or one a memo reads, is one that
\* counts for it.
LEMMA TouchesRead ==
  ASSUME NEW x \in Write, NEW m \in Memo, NEW b \in Book, NEW c \in Reads[MemoKey[m][b]], c \in x.cells
  PROVE  Touches(x, m)
<1>1. TableOf[c] \in MemoTables[m]
  BY MemoAssumption DEF TablesOf
<1> QED  BY <1>1, WriteAssumption DEF Touches

LEMMA TellStep ==
  ASSUME MemosInv, NEW w \in Writer, Tell(w)
  PROVE  MemosInv'
<1>0. CacheInv'
  BY InvalidateKeeps DEF Tell, MemosInv
<1> DEFINE x == writing[w].what
           whole == AllTables \in x.tables
           counted == ~whole /\ x.tables \cap Range(NarrationTables) # {}
<1>1. /\ writing[w].pc = "untold" /\ writing'[w].pc = "told"
      /\ writing'[w].what = writing[w].what /\ writing'[w].at = writing[w].at
      /\ \A u \in Writer : u # w => writing'[u] = writing[u]
      /\ UNCHANGED <<ver, settled, call, memo, memoGen, heard, op>>
  BY DEF Tell, Invalidate, Announcement, MemosInv, CacheInv, CacheTypeOK
<1>2. x \in Write
  BY <1>1, WriteTypes DEF MemosInv, CacheInv
<1>3. /\ allGen' = IF whole THEN allGen + 1 ELSE allGen
      /\ narration' = IF whole THEN [b \in Book |-> None] ELSE narration
      /\ narrationAll' = IF counted /\ x.scope = None THEN narrationAll + 1 ELSE narrationAll
      /\ narrationBook' = [b \in Book |->
           IF counted /\ x.scope = b THEN narrationBook[b] + 1 ELSE narrationBook[b]]
  BY DEF Tell, Invalidate
<1>4. allGen \in Nat /\ narrationAll \in Nat /\ \A b \in Book : narrationBook[b] \in Nat
  BY DEF MemosInv, CacheInv, CacheTypeOK, NarrationsOK
<1> HIDE DEF whole, counted
<1>5. /\ narrationAll' \in Nat /\ narrationBook' \in [Book -> Nat]
      /\ allGen <= allGen' /\ narrationAll <= narrationAll'
      /\ \A b \in Book : narrationBook[b] <= narrationBook'[b]
  BY <1>3, <1>4
<1>6. NotifyOK'
  <2>1. \A u \in Writer : writing'[u].pc \in {"idle", "untold"} => heard[u] = 0
    BY <1>1 DEF MemosInv, NotifyOK
  <2>2. SettledDone'
    BY <1>1 DEF MemosInv, NotifyOK, SettledDone
  <2> QED  BY <1>1, <2>1, <2>2 DEF MemosInv, NotifyOK
<1>7. \A m, c, n : Awaited(m, c, n) => Awaited(m, c, n)'
  BY <1>1 DEF Awaited
<1>8. MemosStay
  BY <1>1, <1>7 DEF MemosStay, MemoFresh
<1>9. ReadsStay
  <2>1. SUFFICES ASSUME NEW b \in Book, NEW g, NEW p, GenNoted(b, g), DOMAIN p \subseteq Chapters(b),
                        p \in [DOMAIN p -> Nat], ReadAt(b, g, p)
                 PROVE  GenNoted(b, g)' /\ ReadAt(b, g, p)'
    BY DEF ReadsStay
  <2>2. g.all \in Nat /\ g.any \in Nat /\ g.own \in Nat
    BY <2>1 DEF GenNoted, NarrationGen
  <2>3. GenNoted(b, g)'
    <3>1. allGen' \in Nat /\ narrationAll' \in Nat /\ narrationBook'[b] \in Nat
      BY <1>3, <1>4
    <3> QED  BY <1>4, <1>5, <2>1, <2>2, <3>1 DEF GenNoted
  <2>4. SUFFICES ASSUME g.all = allGen', g.any = narrationAll', g.own = narrationBook'[b],
                        g = narrationGen(b)', NEW c \in DOMAIN p, NEW n \in (p[c] + 1) .. ver[c]
                 PROVE  Unheard(c, n)'
    BY <1>1, <2>3 DEF ReadAt, narrationGen
  <2>5. allGen' = allGen /\ narrationAll' = narrationAll /\ narrationBook'[b] = narrationBook[b]
    BY <1>3, <1>4, <2>1, <2>2, <2>4 DEF GenNoted
  <2>6. g = narrationGen(b)
    BY <2>4, <2>5 DEF narrationGen
  <2>7. Unheard(c, n)
    BY <2>1, <2>6 DEF ReadAt
  <2>8. ~whole /\ (counted => x.scope # None /\ x.scope # b)
    BY <1>3, <1>4, <2>5
  <2>9. c \notin x.cells
    <3>1. SUFFICES ASSUME c \in x.cells PROVE FALSE
      OBVIOUS
    <3>2. TableOf[c] \in x.tables
      BY <1>2, <2>8, <3>1, WriteAssumption DEF whole
    <3>3. TableOf[c] \in Range(NarrationTables) /\ BookOf[c] = b
      BY <2>1 DEF Chapters
    <3>4. counted
      BY <2>8, <3>2, <3>3 DEF counted
    <3> QED  BY <1>2, <2>8, <3>1, <3>3, <3>4, ScopeAssumption
  <2> QED  BY <1>1, <2>7, <2>9 DEF Unheard
<1>10. Grows /\ memoGen' \in [Memo -> Nat]
  BY <1>1, VersionTypes DEF Grows, MemosInv, MemosOK, CacheInv
<1>11. NarrationsOK'
  <2>1. CASE whole
    BY <1>3, <1>5, <2>1 DEF NarrationsOK, NarrationOK
  <2>2. CASE ~whole
    BY <1>3, <1>5, <1>9, <2>2, NarrationsStay
  <2> QED  BY <2>1, <2>2
<1>12. OpsOK' /\ MemosOK'
  BY <1>0, <1>1, <1>8, <1>9, <1>10, OpsStay, RememberedStays DEF CacheInv
<1> QED  BY <1>0, <1>6, <1>11, <1>12 DEF MemosInv

LEMMA HearStep ==
  ASSUME MemosInv, NEW w \in Writer, Hear(w)
  PROVE  MemosInv'
<1>0. UNCHANGED <<cacheVars, narration, narrationAll, narrationBook, op>>
  BY DEF Hear
<1>1. UNCHANGED <<ver, settled, writing, gens, allGen, entries, byTable, call>>
  BY <1>0 DEF cacheVars, db, cache
<1>2. CacheInv'
  BY <1>0, CacheStep DEF MemosInv
<1> DEFINE x == writing[w].what
           i0 == heard[w] + 1
           m0 == Later[i0]
<1>3. /\ writing[w].pc = "told" /\ heard[w] \in Nat /\ Len(Later) \in Nat /\ heard[w] < Len(Later)
      /\ heard' = [heard EXCEPT ![w] = i0]
  BY MemoAssumption DEF Hear, MemosInv, NotifyOK
<1>4. x \in Write
  BY <1>3, WriteTypes DEF MemosInv, CacheInv
<1>5. /\ heard'[w] = i0 /\ i0 \in 0 .. Len(Later) /\ heard' \in [Writer -> 0 .. Len(Later)]
      /\ \A u \in Writer : u # w => heard'[u] = heard[u]
  BY <1>3 DEF MemosInv, NotifyOK
<1>6. \/ /\ m0 \in Memo /\ Touches(x, m0)
         /\ memoGen' = [memoGen EXCEPT ![m0] = @ + 1]
         /\ memo' = [memo EXCEPT ![m0] = [b \in Book |-> IF b \in Dropped(x, m0) THEN None ELSE @[b]]]
      \/ ~(m0 \in Memo /\ Touches(x, m0)) /\ UNCHANGED <<memo, memoGen>>
  BY DEF Hear
<1> HIDE DEF x, i0, m0
<1>7. NotifyOK'
  BY <1>1, <1>3, <1>5 DEF MemosInv, NotifyOK, SettledDone
<1>8. ReadsStay
  BY <1>0, <1>1 DEF ReadsStay, GenNoted, ReadAt, narrationGen, Unheard
<1>9. ASSUME NEW m, NEW c, NEW n, Awaited(m, c, n), m # m0 \/ c \notin x.cells
      PROVE  Awaited(m, c, n)'
  <2>1. PICK u \in Writer : /\ writing[u].pc # "idle" /\ c \in writing[u].what.cells /\ writing[u].at[c] = n
                            /\ m \in {Later[i] : i \in (heard[u] + 1) .. Len(Later)}
    BY <1>9 DEF Awaited
  <2>2. CASE u # w
    BY <1>1, <1>5, <2>1, <2>2 DEF Awaited
  <2>3. CASE u = w
    <3>1. m # m0
      BY <1>9, <2>1, <2>3 DEF x
    <3>2. PICK i \in i0 .. Len(Later) : m = Later[i]
      BY <2>1, <2>3 DEF i0
    <3>3. i \in (i0 + 1) .. Len(Later)
      BY <1>3, <3>1, <3>2 DEF i0, m0
    <3> QED  BY <1>1, <1>5, <2>1, <2>3, <3>2, <3>3 DEF Awaited
  <2> QED  BY <2>2, <2>3
<1>10. ASSUME NEW m \in Memo, NEW b \in Book, NEW v \in Rows(MemoKey[m][b]), MemoFresh(m, v),
              m # m0 \/ ~Touches(x, m) \/ b \notin Dropped(x, m)
       PROVE  MemoFresh(m, v)'
  <2>1. SUFFICES ASSUME NEW c \in Reads[MemoKey[m][b]], m = m0
                 PROVE  c \notin x.cells
    <3>1. DOMAIN v = Reads[MemoKey[m][b]]
      BY DEF Rows
    <3> QED  BY <1>1, <1>9, <1>10, <3>1 DEF MemoFresh
  <2>2. SUFFICES ASSUME c \in x.cells PROVE FALSE
    OBVIOUS
  <2>3. Touches(x, m)
    BY <1>4, <2>2, TouchesRead
  <2>4. m = "ready" /\ x.scope # None /\ b # x.scope
    BY <1>10, <2>1, <2>3 DEF Dropped
  <2>5. BookOf[c] = b
    BY <2>4, MemoAssumption
  <2> QED  BY <1>4, <2>2, <2>4, <2>5, ScopeAssumption
<1>11. memoGen \in [Memo -> Nat] /\ DOMAIN memo = Memo /\ \A m \in Memo : DOMAIN memo[m] = Book
  BY DEF MemosInv, MemosOK
<1>12. memoGen' \in [Memo -> Nat] /\ \A m \in Memo : memoGen[m] <= memoGen'[m]
  BY <1>6, <1>11
<1>13. MemosStay
  <2>1. \A m \in Memo : memoGen'[m] = memoGen[m] => m # m0 \/ ~Touches(x, m)
    BY <1>6, <1>11
  <2> QED  BY <1>10, <2>1 DEF MemosStay
<1>14. Grows
  BY <1>1, <1>12, VersionTypes DEF Grows, MemosInv, CacheInv
<1>15. MemosOK'
  <2>1. DOMAIN memo' = Memo /\ \A m \in Memo : DOMAIN memo'[m] = Book
    BY <1>6, <1>11
  <2>2. ASSUME NEW m \in Memo, NEW b \in Book, NEW y \in {memo'[m][b]}, y # None
        PROVE  y = memo[m][b] /\ (m # m0 \/ ~Touches(x, m) \/ b \notin Dropped(x, m))
    BY <1>6, <1>11, <2>2
  <2>3. ASSUME NEW m \in Memo, NEW b \in Book, NEW y \in {memo'[m][b]}
        PROVE  MemoOK(m, b, y)'
    <3>1. SUFFICES ASSUME y # None
                   PROVE  MemoRow(m, b, y) /\ MemoFresh(m, y.rest)'
      BY DEF MemoOK, MemoRow
    <3>2. MemoRow(m, b, y) /\ MemoFresh(m, y.rest)
      BY <2>2, <3>1 DEF MemosInv, MemosOK, MemoOK
    <3> QED  BY <1>10, <2>2, <3>1, <3>2 DEF MemoRow
  <2> QED  BY <1>12, <2>1, <2>3 DEF MemosOK
<1>16. NarrationsOK'
  BY <1>0, <1>8, NarrationsStay DEF MemosInv, NarrationsOK
<1>17. OpsOK'
  BY <1>0, <1>1, <1>2, <1>8, <1>12, <1>13, <1>14, OpsStay DEF CacheInv
<1> QED  BY <1>2, <1>7, <1>15, <1>16, <1>17 DEF MemosInv

LEMMA EndStep ==
  ASSUME MemosInv, NEW w \in Writer, End(w)
  PROVE  MemosInv'
<1>0. CacheInv'
  BY ReturnKeeps DEF End, MemosInv
<1>1. /\ writing[w].pc = "told" /\ writing'[w].pc = "idle"
      /\ \A u \in Writer : u # w => writing'[u] = writing[u]
      /\ UNCHANGED <<ver, gens, allGen, call, memos, op>>
      /\ heard[w] = Len(Later) /\ heard' = [heard EXCEPT ![w] = 0]
      /\ settled' = [c \in Cell |->
           IF c \in writing[w].what.cells /\ writing[w].at[c] > settled[c]
             THEN writing[w].at[c] ELSE settled[c]]
  BY DEF End, Return, NoWrite, Announcement, cache, MemosInv, CacheInv, CacheTypeOK
<1>2. Len(Later) \in Nat
  BY MemoAssumption
<1>3. /\ heard' \in [Writer -> 0 .. Len(Later)] /\ heard'[w] = 0
      /\ \A u \in Writer : u # w => heard'[u] = heard[u]
  BY <1>1, <1>2 DEF MemosInv, NotifyOK
<1>4. \A c \in Cell : /\ settled'[c] = settled[c]
                           \/ (c \in writing[w].what.cells /\ settled'[c] = writing[w].at[c])
                      /\ settled[c] <= settled'[c]
  <2> TAKE c \in Cell
  <2>1. c \in writing[w].what.cells => writing[w].at[c] \in Nat
    BY <1>1, WriteTypes DEF MemosInv, CacheInv
  <2>2. settled[c] \in Nat
    BY VersionTypes DEF MemosInv, CacheInv
  <2> QED  BY <1>1, <2>1, <2>2
<1>5. SettledDone'
  <2>1. SUFFICES ASSUME NEW u \in Writer, writing'[u].pc # "idle", NEW c \in writing'[u].what.cells
                 PROVE  writing'[u].at[c] # settled'[c]
    BY DEF SettledDone
  <2>2. u # w /\ writing'[u] = writing[u] /\ c \in Cell
    <3>1. u # w /\ writing'[u] = writing[u]
      BY <1>1, <2>1
    <3> QED  BY <2>1, <3>1, WriteTypes DEF MemosInv, CacheInv
  <2>3. writing[u].at[c] # settled[c]
    BY <2>1, <2>2 DEF MemosInv, NotifyOK, SettledDone
  <2>4. c \in writing[w].what.cells => writing[u].at[c] # writing[w].at[c]
    BY <1>1, <2>1, <2>2 DEF MemosInv, CacheInv, WritesOK
  <2> QED  BY <1>4, <2>2, <2>3, <2>4
<1>6. NotifyOK'
  <2>1. \A u \in Writer : writing'[u].pc \in {"idle", "untold"} => heard'[u] = 0
    BY <1>1, <1>3 DEF MemosInv, NotifyOK
  <2> QED  BY <1>3, <1>5, <2>1 DEF NotifyOK
<1>7. \A c, n : Unheard(c, n) => Unheard(c, n)'
  BY <1>1 DEF Unheard
<1>8. ASSUME NEW m, NEW c, NEW n, Awaited(m, c, n)
      PROVE  Awaited(m, c, n)'
  <2>1. PICK u \in Writer : /\ writing[u].pc # "idle" /\ c \in writing[u].what.cells /\ writing[u].at[c] = n
                            /\ m \in {Later[i] : i \in (heard[u] + 1) .. Len(Later)}
    BY <1>8 DEF Awaited
  <2>2. u # w
    BY <1>1, <1>2, <2>1
  <2> QED  BY <1>1, <1>3, <2>1, <2>2 DEF Awaited
<1>9. UNCHANGED <<narration, narrationAll, narrationBook, memo, memoGen>>
  BY <1>1 DEF memos
<1>10. ReadsStay
  BY <1>1, <1>7, <1>9 DEF ReadsStay, GenNoted, ReadAt, narrationGen
<1>11. MemosStay
  BY <1>1, <1>8 DEF MemosStay, MemoFresh
<1>12. Grows /\ memoGen' \in [Memo -> Nat]
  BY <1>1, <1>4, <1>9, VersionTypes DEF Grows, MemosInv, CacheInv, MemosOK
<1>13. OpsOK' /\ NarrationsOK' /\ MemosOK'
  BY <1>0, <1>1, <1>9, <1>10, <1>11, <1>12, OpsStay, NarrationsStay, RememberedStays
     DEF CacheInv, MemosInv, NarrationsOK
<1> QED  BY <1>0, <1>6, <1>13 DEF MemosInv
------------------------------------------------------------------------------
(* The steps of readers.                                                       *)

Counters == <<db, allGen, narrationAll, narrationBook, memoGen, heard>>

LEMMA SameCounters ==
  ASSUME UNCHANGED Counters
  PROVE  /\ \A x, c : OpOK(x, c) => OpOK(x, c)'
         /\ \A b, x : NarrationOK(b, x) => NarrationOK(b, x)'
         /\ \A m, b, x : MemoOK(m, b, x) => MemoOK(m, b, x)'
<1>1. UNCHANGED <<ver, settled, writing, allGen, narrationAll, narrationBook, memoGen, heard>>
  BY DEF Counters, db
<1>2. \A m, v : MemoFresh(m, v) <=> MemoFresh(m, v)'
  BY <1>1 DEF MemoFresh, Awaited
<1>3. \A b, g, p : ReadAt(b, g, p) <=> ReadAt(b, g, p)'
  BY <1>1 DEF ReadAt, narrationGen, Unheard
<1>4. \A b, g : GenNoted(b, g) <=> GenNoted(b, g)'
  BY <1>1 DEF GenNoted
<1>5. \A x, c : NarrationOpOK(x, c) => NarrationOpOK(x, c)'
  BY <1>1, <1>3, <1>4 DEF NarrationOpOK
<1>6. \A x, c : MemoOpOK(x, c) => MemoOpOK(x, c)'
  BY <1>1, <1>2 DEF MemoOpOK
<1> QED  BY <1>2, <1>3, <1>4, <1>5, <1>6 DEF OpOK, NarrationOK, MemoOK

\* One reader's step, by what it leaves it doing and remembers.
LEMMA ReaderStep ==
  ASSUME MemosInv, CacheInv', UNCHANGED Counters, NEW r \in Reader,
         DOMAIN op' = Reader, \A q \in Reader : q # r => op'[q] = op[q] /\ call'[q] = call[q],
         OpOK(op'[r], call'[r]),
         DOMAIN narration' = Book, \A b \in Book : NarrationOK(b, narration'[b]),
         DOMAIN memo' = Memo, \A m \in Memo : DOMAIN memo'[m] = Book,
         \A m \in Memo, b \in Book : MemoOK(m, b, memo'[m][b])
  PROVE  MemosInv'
<1>1. UNCHANGED <<ver, settled, writing, allGen, narrationAll, narrationBook, memoGen, heard>>
  BY DEF Counters, db
<1>2. NotifyOK'
  BY <1>1 DEF MemosInv, NotifyOK, SettledDone
<1>3. NarrationsOK'
  BY <1>1, SameCounters DEF MemosInv, NarrationsOK
<1>4. MemosOK'
  BY <1>1, SameCounters DEF MemosInv, MemosOK
<1>5. OpsOK'
  <2>1. SUFFICES ASSUME NEW q \in Reader, NEW x \in {op'[q]}, NEW c \in {call'[q]}
                 PROVE  OpOK(x, c)'
    BY DEF OpsOK
  <2>2. OpOK(x, c)
    BY DEF MemosInv, OpsOK
  <2> QED  BY <2>2, SameCounters
<1> QED  BY <1>2, <1>3, <1>4, <1>5 DEF MemosInv

\* The same of a step that remembers nothing.
LEMMA QuietStep ==
  ASSUME MemosInv, CacheInv', UNCHANGED <<db, allGen, memos, heard>>, NEW r \in Reader,
         DOMAIN op' = Reader, \A q \in Reader : q # r => op'[q] = op[q] /\ call'[q] = call[q],
         OpOK(op'[r], call'[r])
  PROVE  MemosInv'
<1>1. UNCHANGED <<Counters, narration, memo>>
  BY DEF Counters, memos
<1>2. /\ DOMAIN narration' = Book /\ \A b \in Book : NarrationOK(b, narration'[b])
      /\ DOMAIN memo' = Memo /\ \A m \in Memo : DOMAIN memo'[m] = Book
      /\ \A m \in Memo, b \in Book : MemoOK(m, b, memo'[m][b])
  BY <1>1 DEF MemosInv, NarrationsOK, MemosOK
<1> QED  BY <1>1, <1>2, ReaderStep

\* What a cached read does to its caller's frame.
LEMMA CallSteps ==
  ASSUME MemosInv, NEW r \in Reader, (\E k \in Key : Call(r, k)) \/ ReadStep(r) \/ Leave(r)
  PROVE  /\ CacheInv' /\ UNCHANGED <<db, allGen>>
         /\ \A q \in Reader : q # r => call'[q] = call[q]
         /\ CallTypeOK(call[r]) /\ CallOK(call[r]) /\ DOMAIN call = Reader
BY ReadKeeps DEF MemosInv, CacheInv, CallsOK, CacheTypeOK, Call, ReadStep, Leave, Hit, Miss, Load, Keep, Give,
   db, cache

LEMMA ReadOnStep ==
  ASSUME MemosInv, NEW r \in Reader, ReadOn(r)
  PROVE  MemosInv'
<1>0. ReadStep(r) /\ UNCHANGED <<memos, heard, op>>
  BY DEF ReadOn
<1>1. /\ CacheInv' /\ UNCHANGED <<db, allGen>> /\ DOMAIN call = Reader
      /\ \A q \in Reader : q # r => call'[q] = call[q]
      /\ CallTypeOK(call[r])
  BY <1>0, CallSteps
<1>2. OpOK(op[r], call[r]) /\ DOMAIN op = Reader
  BY DEF MemosInv, OpsOK
<1>3. call[r].pc \in {"look", "load", "keep"}
  BY <1>0 DEF ReadStep, Hit, Miss, Load, Keep
<1> DEFINE x == op[r]
           k == call[r].key
<1>4. x.pc # "idle" /\ x.kind # "narration" /\ MemoOpOK(x, call[r]) /\ x.pc \in {"book", "resolve"}
  BY <1>2, <1>3 DEF OpOK, NarrationOpOK, MemoOpOK
<1>5. k \in Key /\ call[r].floor \in Rows(k)
  BY <1>1, <1>3 DEF CallTypeOK
<1>6. /\ call'[r].pc # "idle" /\ call'[r].key = k /\ call'[r].floor = call[r].floor
      /\ \/ call'[r].pc \notin {"keep", "done"}
         \/ call'[r].v = RowsOf(k)
         \/ entries[k] # None /\ call'[r].v = entries[k]
         \/ call[r].pc = "keep" /\ call'[r].v = call[r].v
  BY <1>0, <1>1 DEF ReadStep, Hit, Miss, Load, Keep, Give, Frame
<1>7. ASSUME x.pc = "resolve", x.gen = memoGen[x.kind], call'[r].pc \in {"keep", "done"}
      PROVE  MemoFresh(x.kind, call'[r].v)
  <2>1. x.kind \in Memo /\ x.book \in Book /\ k = MemoKey[x.kind][x.book]
    BY <1>3, <1>4, <1>7 DEF MemoOpOK
  <2>2. CASE call'[r].v = RowsOf(k)
    <3>1. \A c \in Reads[k] : c \in Cell /\ ver[c] \in Nat /\ (ver[c] + 1) .. ver[c] = {}
      BY <2>1, MemoCells, VersionTypes DEF MemosInv, CacheInv
    <3> QED  BY <2>2, <3>1 DEF MemoFresh, RowsOf
  <2>3. CASE entries[k] # None /\ call'[r].v = entries[k]
    <3>1. entries[k] \in Rows(k) /\ Current(k, entries[k])
      BY <1>5, <2>3 DEF MemosInv, CacheInv, CacheCurrent, CacheTypeOK
    <3>2. \A c \in DOMAIN entries[k] : \A n \in (entries[k][c] + 1) .. ver[c] : Unheard(c, n)
      BY <3>1 DEF Current, Rows
    <3> QED  BY <2>1, <2>3, <3>2, UnheardAwaited DEF MemoFresh, MemosInv, CacheInv
  <2>4. CASE call[r].pc = "keep" /\ call'[r].v = call[r].v
    BY <1>4, <1>7, <2>4 DEF MemoOpOK
  <2> QED  BY <1>6, <1>7, <2>2, <2>3, <2>4
<1>8. MemoOpOK(x, call'[r])
  BY <1>3, <1>4, <1>6, <1>7 DEF MemoOpOK
<1>9. op'[r] = x /\ DOMAIN op' = Reader /\ \A q \in Reader : q # r => op'[q] = op[q]
  BY <1>0, <1>2
<1>10. OpOK(op'[r], call'[r])
  BY <1>4, <1>8, <1>9 DEF OpOK
<1> QED  BY <1>0, <1>1, <1>9, <1>10, QuietStep

LEMMA StopStep ==
  ASSUME MemosInv, NEW r \in Reader, Stop(r)
  PROVE  MemosInv'
<1>1. Leave(r) /\ op' = [op EXCEPT ![r] = NoOp] /\ UNCHANGED <<memos, heard>>
  BY DEF Stop
<1>2. /\ CacheInv' /\ UNCHANGED <<db, allGen>> /\ DOMAIN call = Reader
      /\ \A q \in Reader : q # r => call'[q] = call[q]
  BY <1>1, CallSteps
<1>3. call'[r] = NoCall /\ op'[r] = NoOp /\ DOMAIN op' = Reader
      /\ \A q \in Reader : q # r => op'[q] = op[q]
  BY <1>1, <1>2 DEF Leave, MemosInv, OpsOK
<1>4. OpOK(op'[r], call'[r])
  BY <1>3 DEF OpOK, NoOp, MemoOp, NoCall, Frame
<1> QED  BY <1>1, <1>2, <1>3, <1>4, QuietStep

LEMMA ReadBookStep ==
  ASSUME MemosInv, NEW r \in Reader, NEW b \in Book, ReadBook(r, b)
  PROVE  MemosInv'
<1> DEFINE floor == [c \in Reads[MemoKey["ready"][b]] |-> settled[c]]
<1>1. /\ Call(r, BookKey[b]) /\ BookKey[b] \in Key /\ UNCHANGED <<memos, heard>>
      /\ op' = [op EXCEPT ![r] = MemoOp("ready", b, "book", floor, None, None, None)]
  BY MemoAssumption DEF ReadBook
<1>2. /\ CacheInv' /\ UNCHANGED <<db, allGen>>
      /\ \A q \in Reader : q # r => call'[q] = call[q]
  BY <1>1, CallSteps
<1>3. "ready" \in Memo /\ floor \in Rows(MemoKey["ready"][b])
      /\ \A a \in DOMAIN floor : settled[a] \in Nat /\ floor[a] <= settled[a]
  <2>1. "ready" \in Memo
    BY DEF Memo
  <2>2. \A a \in Reads[MemoKey["ready"][b]] : settled[a] \in Nat
    BY <2>1, MemoCells, VersionTypes DEF MemosInv, CacheInv
  <2> QED  BY <2>1, <2>2 DEF Rows
<1> HIDE DEF floor
<1>4. op'[r] = MemoOp("ready", b, "book", floor, None, None, None) /\ DOMAIN op' = Reader
      /\ \A q \in Reader : q # r => op'[q] = op[q]
  BY <1>1 DEF MemosInv, OpsOK
<1>5. OpOK(op'[r], call'[r])
  BY <1>3, <1>4 DEF OpOK, MemoOpOK, MemoOp
<1> QED  BY <1>1, <1>2, <1>4, <1>5, QuietStep

\* A look at a memo finds what it knows, or the generation it is at.
Looked(m, b, floor, row) ==
  IF memo[m][b] # None
    THEN MemoOp(m, b, "done", floor, None, None, memo[m][b])
    ELSE MemoOp(m, b, "resolve", floor, memoGen[m], row, None)

LEMMA LookedOK ==
  ASSUME MemosInv, NEW m \in Memo, NEW b \in Book, NEW floor \in Rows(MemoKey[m][b]),
         \A a \in DOMAIN floor : floor[a] <= settled[a], NEW row, NEW c, c.pc = "idle"
  PROVE  OpOK(Looked(m, b, floor, row), c)
<1>1. m # "narration"
  BY DEF Memo
<1>2. DOMAIN floor = Reads[MemoKey[m][b]] /\ \A a \in DOMAIN floor : floor[a] \in Nat /\ a \in Cell /\ settled[a] \in Nat
  BY MemoCells, VersionTypes DEF Rows, MemosInv, CacheInv
<1>3. CASE memo[m][b] # None
  <2> DEFINE y == memo[m][b]
             x == MemoOp(m, b, "done", floor, None, None, y)
  <2>1. MemoRow(m, b, y) /\ MemoFresh(m, y.rest) /\ y.rest \in Rows(MemoKey[m][b])
    BY <1>3 DEF MemosInv, MemosOK, MemoOK, MemoRow
  <2>2. \A a \in DOMAIN floor : settled[a] <= y.rest[a] /\ y.rest[a] \in Nat
    BY <1>2, <2>1, MemoFreshSettled DEF MemosInv, Rows
  <2>3. \A a \in DOMAIN floor : floor[a] <= y.rest[a]
    BY <1>2, <2>2
  <2>4. Looked(m, b, floor, row) = x
    BY <1>3 DEF Looked
  <2>5. /\ x.kind = m /\ x.book = b /\ x.pc = "done" /\ x.floor = floor /\ x.v = y
        /\ x = MemoOp(x.kind, x.book, x.pc, x.floor, x.gen, x.row, x.v)
    BY DEF MemoOp
  <2> HIDE DEF x, y
  <2>6. MemoOpOK(x, c)
    BY <1>2, <2>1, <2>3, <2>5 DEF MemoOpOK
  <2> QED  BY <1>1, <2>4, <2>5, <2>6 DEF OpOK
<1>4. CASE memo[m][b] = None
  <2> DEFINE x == MemoOp(m, b, "resolve", floor, memoGen[m], row, None)
  <2>1. Looked(m, b, floor, row) = x
    BY <1>4 DEF Looked
  <2>2. /\ x.kind = m /\ x.book = b /\ x.pc = "resolve" /\ x.floor = floor /\ x.gen = memoGen[m]
        /\ x = MemoOp(x.kind, x.book, x.pc, x.floor, x.gen, x.row, x.v)
    BY DEF MemoOp
  <2>3. memoGen[m] \in Nat /\ memoGen[m] <= memoGen[m]
    BY DEF MemosInv, MemosOK
  <2> HIDE DEF x
  <2>4. MemoOpOK(x, c)
    BY <1>2, <2>2, <2>3 DEF MemoOpOK
  <2> QED  BY <1>1, <2>1, <2>2, <2>4 DEF OpOK
<1> QED  BY <1>3, <1>4

LEMMA LookReadyStep ==
  ASSUME MemosInv, NEW r \in Reader, LookReady(r)
  PROVE  MemosInv'
<1>1. /\ op[r].pc = "book" /\ op[r].kind = "ready" /\ Leave(r) /\ UNCHANGED <<memos, heard>>
      /\ op' = [op EXCEPT ![r] = Looked("ready", op[r].book, op[r].floor, call[r].v)]
  BY DEF LookReady, Look, Looked, At, Took
<1>2. /\ CacheInv' /\ UNCHANGED <<db, allGen>> /\ DOMAIN call = Reader
      /\ \A q \in Reader : q # r => call'[q] = call[q]
  BY <1>1, CallSteps
<1>3. MemoOpOK(op[r], call[r]) /\ DOMAIN op = Reader
  BY <1>1 DEF MemosInv, OpsOK, OpOK
<1>4. OpOK(Looked("ready", op[r].book, op[r].floor, call[r].v), NoCall)
  <2>1. /\ "ready" \in Memo /\ op[r].book \in Book /\ op[r].floor \in Rows(MemoKey["ready"][op[r].book])
        /\ \A a \in DOMAIN op[r].floor : op[r].floor[a] <= settled[a]
    BY <1>1, <1>3 DEF MemoOpOK
  <2>2. NoCall.pc = "idle"
    BY DEF NoCall, Frame
  <2> QED  BY <2>1, <2>2, LookedOK
<1>5. call'[r] = NoCall /\ DOMAIN op' = Reader /\ (\A q \in Reader : q # r => op'[q] = op[q])
      /\ op'[r] = Looked("ready", op[r].book, op[r].floor, call[r].v)
  BY <1>1, <1>2, <1>3 DEF Leave
<1>6. OpOK(op'[r], call'[r])
  BY <1>4, <1>5
<1> QED  BY <1>1, <1>2, <1>5, <1>6, QuietStep

LEMMA LookVoicesStep ==
  ASSUME MemosInv, NEW r \in Reader, NEW b \in Book, LookVoices(r, b)
  PROVE  MemosInv'
<1> DEFINE floor == [c \in Reads[MemoKey["voices"][b]] |-> settled[c]]
<1>1. /\ op[r].pc = "idle" /\ UNCHANGED <<cacheVars, memos, heard>>
      /\ op' = [op EXCEPT ![r] = Looked("voices", b, floor, None)]
  BY DEF LookVoices, Look, Looked
<1>2. CacheInv' /\ UNCHANGED <<db, allGen, call>>
  BY <1>1, CacheStep DEF MemosInv, cacheVars, cache
<1>3. call[r].pc = "idle" /\ DOMAIN op = Reader
  BY <1>1 DEF MemosInv, OpsOK, OpOK
<1>4. "voices" \in Memo /\ floor \in Rows(MemoKey["voices"][b])
      /\ \A a \in DOMAIN floor : settled[a] \in Nat /\ floor[a] <= settled[a]
  <2>1. "voices" \in Memo
    BY DEF Memo
  <2>2. \A a \in Reads[MemoKey["voices"][b]] : settled[a] \in Nat
    BY <2>1, MemoCells, VersionTypes DEF MemosInv, CacheInv
  <2> QED  BY <2>1, <2>2 DEF Rows
<1> HIDE DEF floor
<1>5. OpOK(Looked("voices", b, floor, None), call[r])
  BY <1>3, <1>4, LookedOK
<1>6. DOMAIN op' = Reader /\ (\A q \in Reader : q # r => op'[q] = op[q])
      /\ op'[r] = Looked("voices", b, floor, None)
  BY <1>1, <1>3
<1> QED  BY <1>1, <1>2, <1>5, <1>6, QuietStep

LEMMA ResolveStep ==
  ASSUME MemosInv, NEW r \in Reader, Resolve(r)
  PROVE  MemosInv'
<1> DEFINE x == op[r]
           k == MemoKey[x.kind][x.book]
<1>1. /\ x.pc = "resolve" /\ x.kind \in Memo /\ Call(r, k) /\ UNCHANGED <<memos, heard, op>>
  BY DEF Resolve, At, ReadFor
<1>2. x.kind # "narration" /\ MemoOpOK(x, call[r]) /\ DOMAIN op = Reader
  BY <1>1 DEF MemosInv, OpsOK, OpOK, Memo
<1>3. k \in Key /\ x.book \in Book
  BY <1>1, <1>2, MemoAssumption DEF MemoOpOK
<1>4. /\ CacheInv' /\ UNCHANGED <<db, allGen>> /\ DOMAIN call = Reader
      /\ \A q \in Reader : q # r => call'[q] = call[q]
  BY <1>1, <1>3, CallSteps
<1>5. call'[r] = Frame("look", k, [c \in Reads[k] |-> settled[c]], None, None)
  BY <1>1, <1>4 DEF Call
<1>6. call'[r].pc = "look" /\ call'[r].key = k /\ \A a \in DOMAIN x.floor : x.floor[a] <= call'[r].floor[a]
  <2>1. DOMAIN x.floor = Reads[k] /\ \A a \in DOMAIN x.floor : x.floor[a] <= settled[a]
    BY <1>1, <1>2 DEF MemoOpOK, Rows
  <2>2. call'[r].pc = "look" /\ call'[r].key = k /\ call'[r].floor = [c \in Reads[k] |-> settled[c]]
    BY <1>5 DEF Frame
  <2>3. \A a \in Reads[k] : call'[r].floor[a] = settled[a]
    BY <2>2
  <2> HIDE DEF x, k
  <2> QED  BY <2>1, <2>2, <2>3
<1>7. MemoOpOK(x, call'[r])
  BY <1>1, <1>2, <1>6 DEF MemoOpOK
<1>8. op'[r] = x /\ DOMAIN op' = Reader /\ \A q \in Reader : q # r => op'[q] = op[q]
  BY <1>1, <1>2
<1>9. OpOK(op'[r], call'[r])
  BY <1>1, <1>2, <1>7, <1>8 DEF OpOK
<1> QED  BY <1>1, <1>4, <1>8, <1>9, QuietStep

LEMMA PutStep ==
  ASSUME MemosInv, NEW r \in Reader, Put(r)
  PROVE  MemosInv'
<1> DEFINE x == op[r]
           m == x.kind
           b == x.book
           v == [row |-> x.row, rest |-> call[r].v]
           y == MemoOp(m, b, "done", x.floor, None, None, v)
<1>1. /\ x.pc = "resolve" /\ m \in Memo /\ call[r].pc = "done" /\ Leave(r)
      /\ \/ memoGen[m] = x.gen /\ memo' = [memo EXCEPT ![m][b] = v]
         \/ UNCHANGED memo
      /\ op' = [op EXCEPT ![r] = y]
      /\ UNCHANGED <<narration, narrationAll, narrationBook, memoGen, heard>>
  BY DEF Put, At, Took
<1>2. m # "narration" /\ MemoOpOK(x, call[r]) /\ DOMAIN op = Reader
  BY <1>1 DEF MemosInv, OpsOK, OpOK, Memo
<1>3. /\ CacheInv' /\ UNCHANGED <<db, allGen>> /\ DOMAIN call = Reader
      /\ \A q \in Reader : q # r => call'[q] = call[q]
      /\ CallTypeOK(call[r]) /\ CallOK(call[r])
  BY <1>1, CallSteps
<1>4. call'[r] = NoCall
  BY <1>1, <1>3 DEF Leave
<1>5. b \in Book /\ x.floor \in Rows(MemoKey[m][b]) /\ call[r].key = MemoKey[m][b]
      /\ \A a \in DOMAIN x.floor : x.floor[a] <= call[r].floor[a]
  BY <1>1, <1>2 DEF MemoOpOK
<1>6. /\ call[r].v \in Rows(MemoKey[m][b]) /\ call[r].floor \in Rows(MemoKey[m][b])
      /\ \A a \in Reads[MemoKey[m][b]] : call[r].floor[a] <= call[r].v[a]
  BY <1>1, <1>3, <1>5 DEF CallTypeOK, CallOK, Bounds
<1>7. \A a \in DOMAIN x.floor : x.floor[a] <= call[r].v[a]
  <2>1. \A a \in Reads[MemoKey[m][b]] :
          x.floor[a] \in Nat /\ call[r].floor[a] \in Nat /\ call[r].v[a] \in Nat
    BY <1>5, <1>6 DEF Rows
  <2>2. DOMAIN x.floor = Reads[MemoKey[m][b]]
    BY <1>5 DEF Rows
  <2>3. \A a \in Reads[MemoKey[m][b]] :
          x.floor[a] <= call[r].floor[a] /\ call[r].floor[a] <= call[r].v[a]
    BY <1>5, <1>6, <2>2
  <2>4. ASSUME NEW a \in Reads[MemoKey[m][b]]
        PROVE  x.floor[a] <= call[r].v[a]
    <3> DEFINE f == x.floor[a]
               g == call[r].floor[a]
               h == call[r].v[a]
    <3>1. f \in Nat /\ g \in Nat /\ h \in Nat /\ f <= g /\ g <= h
      BY <2>1, <2>3
    <3> HIDE DEF f, g, h
    <3>2. f <= h
      BY <3>1
    <3> QED  BY <3>2 DEF f, h
  <2> QED  BY <2>2, <2>4
<1>8. /\ v.rest = call[r].v /\ MemoRow(m, b, v)
      /\ y.kind = m /\ y.book = b /\ y.pc = "done" /\ y.floor = x.floor /\ y.v = v
      /\ y = MemoOp(y.kind, y.book, y.pc, y.floor, y.gen, y.row, y.v)
  BY <1>6 DEF MemoRow, MemoOp
<1>9. memoGen[m] = x.gen => MemoOK(m, b, v)
  BY <1>1, <1>2, <1>8 DEF MemoOpOK, MemoOK
<1> HIDE DEF v, y
<1>10. MemoOpOK(y, NoCall)
  BY <1>1, <1>5, <1>7, <1>8 DEF MemoOpOK, NoCall, Frame
<1>11. OpOK(y, NoCall)
  BY <1>2, <1>8, <1>10 DEF OpOK
<1>12. op'[r] = y /\ DOMAIN op' = Reader /\ (\A q \in Reader : q # r => op'[q] = op[q])
       /\ OpOK(op'[r], call'[r])
  BY <1>1, <1>2, <1>4, <1>11
<1>13. /\ DOMAIN memo' = Memo /\ \A n \in Memo : DOMAIN memo'[n] = Book
       /\ \A n \in Memo, a \in Book : MemoOK(n, a, memo'[n][a])
  <2>1. /\ DOMAIN memo = Memo /\ \A n \in Memo : DOMAIN memo[n] = Book
        /\ \A n \in Memo, a \in Book : MemoOK(n, a, memo[n][a])
    BY DEF MemosInv, MemosOK
  <2>2. CASE UNCHANGED memo
    BY <2>1, <2>2
  <2>3. CASE memoGen[m] = x.gen /\ memo' = [memo EXCEPT ![m][b] = v]
    <3>1. /\ DOMAIN memo' = Memo /\ \A n \in Memo : DOMAIN memo'[n] = Book
          /\ \A n \in Memo, a \in Book : memo'[n][a] = IF n = m /\ a = b THEN v ELSE memo[n][a]
      BY <1>1, <1>5, <2>1, <2>3
    <3> HIDE DEF m, b
    <3> QED  BY <1>9, <2>1, <2>3, <3>1
  <2> QED  BY <1>1, <2>2, <2>3
<1>14. UNCHANGED Counters
  BY <1>1, <1>3 DEF Counters
<1>15. DOMAIN narration' = Book /\ \A a \in Book : NarrationOK(a, narration'[a])
  BY <1>1 DEF MemosInv, NarrationsOK
<1> QED  BY <1>3, <1>12, <1>13, <1>14, <1>15, ReaderStep

LEMMA FinishStep ==
  ASSUME MemosInv, NEW r \in Reader, Finish(r)
  PROVE  MemosInv'
<1>1. op[r].pc = "done" /\ op' = [op EXCEPT ![r] = NoOp] /\ UNCHANGED <<cacheVars, memos, heard>>
  BY DEF Finish
<1>2. CacheInv' /\ UNCHANGED <<db, allGen, call>>
  BY <1>1, CacheStep DEF MemosInv, cacheVars, cache
<1>3. call[r].pc = "idle" /\ DOMAIN op = Reader
  BY <1>1 DEF MemosInv, OpsOK, OpOK, MemoOpOK, NarrationOpOK
<1>4. op'[r] = NoOp /\ DOMAIN op' = Reader /\ \A q \in Reader : q # r => op'[q] = op[q]
  BY <1>1, <1>3
<1>5. OpOK(op'[r], call'[r])
  BY <1>2, <1>3, <1>4 DEF OpOK, NoOp, MemoOp
<1> QED  BY <1>1, <1>2, <1>4, <1>5, QuietStep

(* The steps of ChapterNarration.                                              *)

\* What was read while a generation stands is no older than what has settled.
LEMMA ReadAtSettled ==
  ASSUME CacheInv, NEW b \in Book, NEW p, DOMAIN p \subseteq Chapters(b), p \in [DOMAIN p -> Nat],
         ReadAt(b, narrationGen(b), p), NEW c \in DOMAIN p
  PROVE  settled[c] <= p[c]
<1>1. c \in Cell /\ p[c] \in Nat
  BY ChaptersAreCells
<1>2. /\ settled[c] \in Nat /\ ver[c] \in Nat /\ settled[c] <= ver[c]
      /\ ~Unheard(c, settled[c])
  BY <1>1, VersionTypes DEF CacheInv, SettledOK
<1>3. settled[c] \notin (p[c] + 1) .. ver[c]
  BY <1>2 DEF ReadAt
<1> QED  BY <1>1, <1>2, <1>3

\* The generation of a book is one that has been.
LEMMA GenNow ==
  ASSUME MemosInv, NEW b \in Book
  PROVE  GenNoted(b, narrationGen(b))
BY DEF MemosInv, CacheInv, CacheTypeOK, NarrationsOK, GenNoted, NarrationGen, narrationGen

LEMMA LookNarrationStep ==
  ASSUME MemosInv, NEW r \in Reader, NEW b \in Book, NEW k \in VoiceKey, LookNarration(r, b, k)
  PROVE  MemosInv'
<1> DEFINE prev == narration[b]
           floor == [c \in Chapters(b) |-> settled[c]]
           found == NarrationOp(b, k, "done", floor, None, None, None, prev.chapters)
           missed == NarrationOp(b, k, "prints", floor, narrationGen(b), prev, <<>>, None)
           kept == prev # None /\ prev.key = k /\ prev.gen = narrationGen(b)
<1>1. /\ op[r].pc = "idle" /\ UNCHANGED <<cacheVars, memos, heard>>
      /\ op' = [op EXCEPT ![r] = IF kept THEN found ELSE missed]
  BY DEF LookNarration
<1>2. CacheInv' /\ UNCHANGED <<db, allGen, call>>
  BY <1>1, CacheStep DEF MemosInv, cacheVars, cache
<1>3. call[r].pc = "idle" /\ DOMAIN op = Reader
  BY <1>1 DEF MemosInv, OpsOK, OpOK
<1>4. /\ floor \in [Chapters(b) -> Nat]
      /\ \A a \in Chapters(b) : floor[a] = settled[a] /\ floor[a] <= ver[a]
  <2>1. \A a \in Chapters(b) : settled[a] \in Nat /\ settled[a] <= ver[a]
    BY ChaptersAreCells, VersionTypes DEF MemosInv, CacheInv, SettledOK
  <2> QED  BY <2>1
<1>5. NarrationOK(b, prev)
  BY DEF MemosInv, NarrationsOK
<1>6. /\ found.kind = "narration" /\ found.book = b /\ found.key = k /\ found.pc = "done"
      /\ found.floor = floor /\ found.v = prev.chapters
      /\ found = NarrationOp(found.book, found.key, found.pc, found.floor, found.gen, found.prev, found.prints,
                             found.v)
  BY DEF NarrationOp
<1>7. /\ missed.kind = "narration" /\ missed.book = b /\ missed.key = k /\ missed.pc = "prints"
      /\ missed.floor = floor /\ missed.gen = narrationGen(b) /\ missed.prev = prev /\ missed.prints = <<>>
      /\ missed = NarrationOp(missed.book, missed.key, missed.pc, missed.floor, missed.gen, missed.prev,
                              missed.prints, missed.v)
  BY DEF NarrationOp
<1> HIDE DEF floor, found, missed
<1>8. ASSUME kept
      PROVE  OpOK(found, call[r])
  <2>1. /\ KeptOK(b, prev) /\ prev.key = k /\ ReadAt(b, narrationGen(b), prev.prints)
    BY <1>5, <1>8 DEF NarrationOK
  <2> HIDE DEF prev
  <2>2. \A a \in Chapters(b) : settled[a] <= prev.prints[a]
    BY <2>1, ReadAtSettled DEF KeptOK, MemosInv
  <2>3. \A a \in Chapters(b) : /\ settled[a] \in Nat /\ prev.prints[a] \in Nat /\ prev.chapters[a][2] \in Nat
                               /\ prev.chapters[a][1] = k /\ prev.prints[a] <= prev.chapters[a][2]
    BY <2>1, ChaptersAreCells, VersionTypes DEF KeptOK, MemosInv, CacheInv
  <2>4. \A a \in Chapters(b) : floor[a] <= prev.chapters[a][2]
    BY <1>4, <2>2, <2>3
  <2>5. prev.chapters \in [Chapters(b) -> VoiceKey \X Nat]
    BY <2>1 DEF KeptOK
  <2>6. NarrationOpOK(found, call[r])
    BY <1>3, <1>4, <1>6, <2>3, <2>4, <2>5 DEF NarrationOpOK
  <2> QED  BY <1>6, <2>6 DEF OpOK
<1>9. OpOK(missed, call[r])
  <2>1. GenNoted(b, narrationGen(b))
    BY GenNow
  <2>2. prev # None => KeptOK(b, prev)
    BY <1>5 DEF NarrationOK
  <2> HIDE DEF prev
  <2>3. /\ DOMAIN missed.prints = {} /\ missed.prints \in [DOMAIN missed.prints -> Nat]
    BY <1>7
  <2>4. ReadAt(b, narrationGen(b), missed.prints)
    BY <2>3 DEF ReadAt
  <2>5. NarrationOpOK(missed, call[r])
    BY <1>3, <1>4, <1>7, <2>1, <2>2, <2>3, <2>4 DEF NarrationOpOK
  <2> QED  BY <1>7, <2>5 DEF OpOK
<1> HIDE DEF kept
<1>10. DOMAIN op' = Reader /\ (\A q \in Reader : q # r => op'[q] = op[q])
       /\ op'[r] = IF kept THEN found ELSE missed
  BY <1>1, <1>3
<1>11. OpOK(op'[r], call'[r])
  BY <1>2, <1>8, <1>9, <1>10
<1> QED  BY <1>1, <1>2, <1>10, <1>11, QuietStep

LEMMA PrintsStep ==
  ASSUME MemosInv, NEW r \in Reader, NEW i \in DOMAIN NarrationTables, Prints(r, i)
  PROVE  MemosInv'
<1> DEFINE o == op[r]
           b == o.book
           rows(t) == {c \in Chapters(b) : TableOf[c] = t}
           before == UNION {rows(NarrationTables[j]) : j \in 1..(i - 1)}
           read == before \cup rows(NarrationTables[i])
           p == [c \in read |-> IF c \in before THEN o.prints[c] ELSE ver[c]]
           pc == IF i = Len(NarrationTables) THEN "load" ELSE "prints"
           y == NarrationOp(b, o.key, pc, o.floor, o.gen, o.prev, p, None)
<1>1. /\ o.pc = "prints" /\ o.kind = "narration" /\ DOMAIN o.prints = before
      /\ UNCHANGED <<cacheVars, memos, heard>> /\ op' = [op EXCEPT ![r] = y]
  BY DEF Prints, At
<1>2. CacheInv' /\ UNCHANGED <<db, allGen, call>>
  BY <1>1, CacheStep DEF MemosInv, cacheVars, cache
<1>3. NarrationOpOK(o, call[r]) /\ DOMAIN op = Reader
  BY <1>1 DEF MemosInv, OpsOK, OpOK
<1>4. read \subseteq Chapters(b) /\ before \subseteq read
  OBVIOUS
<1>5. i = Len(NarrationTables) => read = Chapters(b)
  <2>1. SUFFICES ASSUME i = Len(NarrationTables), NEW c \in Chapters(b)
                 PROVE  c \in read
    BY <1>4
  <2>2. PICK j \in DOMAIN NarrationTables : NarrationTables[j] = TableOf[c]
    BY DEF Chapters, Range
  <2>3. Len(NarrationTables) \in Nat /\ DOMAIN NarrationTables = 1 .. Len(NarrationTables)
    BY MemoAssumption
  <2>4. j = i \/ j \in 1 .. (i - 1)
    BY <2>1, <2>3
  <2> QED  BY <2>2, <2>4
<1>6. /\ b \in Book /\ o.key \in VoiceKey /\ o.floor \in [Chapters(b) -> Nat] /\ call[r].pc = "idle"
      /\ GenNoted(b, o.gen) /\ (o.prev # None => KeptOK(b, o.prev))
      /\ o.prints \in [before -> Nat] /\ ReadAt(b, o.gen, o.prints)
      /\ \A a \in Chapters(b) : o.floor[a] <= ver[a]
      /\ \A a \in before : o.floor[a] <= o.prints[a] /\ o.prints[a] <= ver[a]
  BY <1>1, <1>3 DEF NarrationOpOK
<1>7. \A a \in read : /\ a \in before => p[a] = o.prints[a]
                      /\ a \notin before => p[a] = ver[a]
  OBVIOUS
<1>8. DOMAIN p = read
  OBVIOUS
<1>9. /\ y.kind = "narration" /\ y.book = b /\ y.key = o.key /\ y.pc = pc /\ y.floor = o.floor
      /\ y.gen = o.gen /\ y.prev = o.prev /\ y.prints = p
      /\ y = NarrationOp(y.book, y.key, y.pc, y.floor, y.gen, y.prev, y.prints, y.v)
  BY DEF NarrationOp
<1>10. pc \in {"load", "prints"} /\ (pc # "prints" => i = Len(NarrationTables))
  OBVIOUS
<1>11. p = [a \in read |-> p[a]]
  OBVIOUS
<1> HIDE DEF before, read, p, pc, y
<1>12. \A a \in read : ver[a] \in Nat /\ p[a] \in Nat /\ o.floor[a] <= p[a] /\ p[a] <= ver[a]
  <2> TAKE a \in read
  <2>1. ver[a] \in Nat /\ o.floor[a] <= ver[a]
    BY <1>4, <1>6, ChaptersAreCells, VersionTypes DEF MemosInv, CacheInv
  <2>2. CASE a \in before
    <3>1. o.prints[a] \in Nat /\ o.floor[a] <= o.prints[a] /\ o.prints[a] <= ver[a] /\ p[a] = o.prints[a]
      BY <1>6, <1>7, <2>2
    <3> HIDE DEF o
    <3> QED  BY <2>1, <3>1
  <2>3. CASE a \notin before
    <3>1. p[a] = ver[a]
      BY <1>7, <2>3
    <3> HIDE DEF o
    <3> QED  BY <2>1, <3>1
  <2> QED  BY <2>2, <2>3
<1>13. p \in [read -> Nat]
  BY <1>11, <1>12
<1>14. ReadAt(b, o.gen, p)
  <2>1. SUFFICES ASSUME o.gen = narrationGen(b), NEW a \in read, NEW n \in (p[a] + 1) .. ver[a]
                 PROVE  Unheard(a, n)
    BY <1>8 DEF ReadAt
  <2>2. a \in before
    BY <1>7, <1>12
  <2> QED  BY <1>1, <1>6, <1>7, <2>1, <2>2 DEF ReadAt
<1>15. NarrationOpOK(y, call[r])
  BY <1>4, <1>5, <1>6, <1>8, <1>9, <1>10, <1>12, <1>13, <1>14 DEF NarrationOpOK
<1>16. OpOK(y, call[r])
  BY <1>9, <1>10, <1>15 DEF OpOK
<1>17. op'[r] = y /\ DOMAIN op' = Reader /\ (\A q \in Reader : q # r => op'[q] = op[q])
       /\ OpOK(op'[r], call'[r])
  BY <1>1, <1>2, <1>3, <1>16
<1> QED  BY <1>1, <1>2, <1>17, QuietStep

LEMMA LoadNarrationStep ==
  ASSUME MemosInv, NEW r \in Reader, LoadNarration(r)
  PROVE  MemosInv'
<1> DEFINE o == op[r]
           b == o.book
           kept == IF o.prev # None /\ o.prev.key = o.key
                     THEN {c \in Chapters(b) : o.prints[c] = o.prev.prints[c]} ELSE {}
           v == [c \in Chapters(b) |-> IF c \in kept THEN o.prev.chapters[c] ELSE <<o.key, ver[c]>>]
           y == NarrationOp(b, o.key, "keep", o.floor, o.gen, o.prev, o.prints, v)
<1>1. /\ o.pc = "load" /\ o.kind = "narration"
      /\ UNCHANGED <<cacheVars, memos, heard>> /\ op' = [op EXCEPT ![r] = y]
  BY DEF LoadNarration, At
<1>2. CacheInv' /\ UNCHANGED <<db, allGen, call>>
  BY <1>1, CacheStep DEF MemosInv, cacheVars, cache
<1>3. NarrationOpOK(o, call[r]) /\ DOMAIN op = Reader
  BY <1>1 DEF MemosInv, OpsOK, OpOK
<1>4. /\ b \in Book /\ o.key \in VoiceKey /\ o.prints \in [Chapters(b) -> Nat]
      /\ o.prev # None => KeptOK(b, o.prev)
      /\ \A a \in Chapters(b) : o.prints[a] <= ver[a]
  BY <1>1, <1>3 DEF NarrationOpOK
<1>5. ASSUME NEW a \in Chapters(b)
      PROVE  v[a] \in VoiceKey \X Nat /\ v[a][1] = o.key /\ o.prints[a] <= v[a][2]
  <2>1. CASE a \in kept
    <3>1. /\ o.prev # None /\ o.prev.key = o.key /\ o.prints[a] = o.prev.prints[a]
          /\ v[a] = o.prev.chapters[a]
      BY <2>1
    <3> HIDE DEF v
    <3> QED  BY <1>4, <1>5, <3>1 DEF KeptOK
  <2>2. CASE a \notin kept
    <3>1. v[a] = <<o.key, ver[a]>>
      BY <1>5, <2>2
    <3>2. ver[a] \in Nat
      BY <1>4, <1>5, ChaptersAreCells, VersionTypes DEF MemosInv, CacheInv
    <3> HIDE DEF v
    <3> QED  BY <1>4, <1>5, <3>1, <3>2
  <2> QED  BY <2>1, <2>2
<1>6. v = [c \in Chapters(b) |-> v[c]]
  OBVIOUS
<1>7. /\ y.kind = "narration" /\ y.book = b /\ y.key = o.key /\ y.pc = "keep" /\ y.floor = o.floor
      /\ y.gen = o.gen /\ y.prev = o.prev /\ y.prints = o.prints /\ y.v = v
      /\ y = NarrationOp(y.book, y.key, y.pc, y.floor, y.gen, y.prev, y.prints, y.v)
  BY DEF NarrationOp
<1> HIDE DEF kept, v, y
<1>8. v \in [Chapters(b) -> VoiceKey \X Nat]
  BY <1>5, <1>6
<1>9. NarrationOpOK(y, call[r])
  BY <1>1, <1>3, <1>5, <1>7, <1>8 DEF NarrationOpOK
<1>10. OpOK(y, call[r])
  BY <1>7, <1>9 DEF OpOK
<1>11. op'[r] = y /\ DOMAIN op' = Reader /\ (\A q \in Reader : q # r => op'[q] = op[q])
       /\ OpOK(op'[r], call'[r])
  BY <1>1, <1>2, <1>3, <1>10
<1> QED  BY <1>1, <1>2, <1>11, QuietStep

LEMMA KeepNarrationStep ==
  ASSUME MemosInv, NEW r \in Reader, KeepNarration(r)
  PROVE  MemosInv'
<1> DEFINE o == op[r]
           b == o.book
           x == [key |-> o.key, chapters |-> o.v, prints |-> o.prints, gen |-> o.gen]
           y == NarrationOp(b, o.key, "done", o.floor, None, None, None, o.v)
<1>1. /\ o.pc = "keep" /\ o.kind = "narration"
      /\ narration' = IF allGen # o.gen.all THEN narration ELSE [narration EXCEPT ![b] = x]
      /\ op' = [op EXCEPT ![r] = y]
      /\ UNCHANGED <<cacheVars, narrationAll, narrationBook, memo, memoGen, heard>>
  BY DEF KeepNarration, At
<1>2. CacheInv' /\ UNCHANGED <<db, allGen, call>> /\ UNCHANGED Counters
  BY <1>1, CacheStep DEF MemosInv, cacheVars, cache, Counters
<1>3. NarrationOpOK(o, call[r]) /\ DOMAIN op = Reader
  BY <1>1 DEF MemosInv, OpsOK, OpOK
<1>4. /\ b \in Book /\ o.key \in VoiceKey /\ o.floor \in [Chapters(b) -> Nat] /\ call[r].pc = "idle"
      /\ o.v \in [Chapters(b) -> VoiceKey \X Nat] /\ o.prints \in [Chapters(b) -> Nat]
      /\ GenNoted(b, o.gen) /\ ReadAt(b, o.gen, o.prints)
      /\ \A a \in Chapters(b) : o.v[a][1] = o.key /\ o.prints[a] <= o.v[a][2] /\ o.floor[a] <= o.prints[a]
  BY <1>1, <1>3 DEF NarrationOpOK
<1>5. \A a \in Chapters(b) : o.floor[a] <= o.v[a][2]
  <2> TAKE a \in Chapters(b)
  <2> DEFINE f == o.floor[a]
             g == o.prints[a]
             h == o.v[a][2]
  <2>1. f \in Nat /\ g \in Nat /\ h \in Nat /\ f <= g /\ g <= h
    BY <1>4
  <2> HIDE DEF f, g, h
  <2>2. f <= h
    BY <2>1
  <2> QED  BY <2>2 DEF f, h
<1>6. NarrationOK(b, x)
  <2>1. /\ x.key = o.key /\ x.chapters = o.v /\ x.prints = o.prints /\ x.gen = o.gen
        /\ x = [key |-> x.key, chapters |-> x.chapters, prints |-> x.prints, gen |-> x.gen]
    OBVIOUS
  <2> HIDE DEF x
  <2>2. KeptOK(b, x)
    BY <1>4, <2>1 DEF KeptOK, GenNoted
  <2> QED  BY <1>4, <2>1, <2>2 DEF NarrationOK
<1>7. /\ y.kind = "narration" /\ y.book = b /\ y.key = o.key /\ y.pc = "done" /\ y.floor = o.floor /\ y.v = o.v
      /\ y = NarrationOp(y.book, y.key, y.pc, y.floor, y.gen, y.prev, y.prints, y.v)
  BY DEF NarrationOp
<1> HIDE DEF x, y
<1>8. NarrationOpOK(y, call[r])
  BY <1>4, <1>5, <1>7 DEF NarrationOpOK
<1>9. OpOK(y, call[r])
  BY <1>7, <1>8 DEF OpOK
<1>10. op'[r] = y /\ DOMAIN op' = Reader /\ (\A q \in Reader : q # r => op'[q] = op[q] /\ call'[q] = call[q])
       /\ OpOK(op'[r], call'[r])
  BY <1>1, <1>2, <1>3, <1>9
<1>11. DOMAIN narration = Book /\ \A a \in Book : NarrationOK(a, narration[a])
  BY DEF MemosInv, NarrationsOK
<1>12. DOMAIN narration' = Book /\ \A a \in Book : NarrationOK(a, narration'[a])
  <2>1. CASE narration' = narration
    BY <1>11, <2>1
  <2>2. CASE narration' = [narration EXCEPT ![b] = x]
    <3>1. \A a \in Book : narration'[a] = IF a = b THEN x ELSE narration[a]
      BY <1>4, <1>11, <2>2
    <3> HIDE DEF b
    <3> QED  BY <1>6, <1>11, <2>2, <3>1
  <2> QED  BY <1>1, <2>1, <2>2
<1>13. /\ DOMAIN memo' = Memo /\ \A m \in Memo : DOMAIN memo'[m] = Book
       /\ \A m \in Memo, a \in Book : MemoOK(m, a, memo'[m][a])
  BY <1>1 DEF MemosInv, MemosOK
<1> QED  BY <1>2, <1>10, <1>12, <1>13, ReaderStep
LEMMA FailStep ==
  ASSUME MemosInv, NEW r \in Reader, Fail(r)
  PROVE  MemosInv'
<1>1. /\ op[r].pc \in {"prints", "load"} /\ op[r].kind = "narration"
      /\ op' = [op EXCEPT ![r] = NoOp] /\ UNCHANGED <<cacheVars, memos, heard>>
  BY DEF Fail, At
<1>2. CacheInv' /\ UNCHANGED <<db, allGen, call>>
  BY <1>1, CacheStep DEF MemosInv, cacheVars, cache
<1>3. call[r].pc = "idle" /\ DOMAIN op = Reader
  BY <1>1 DEF MemosInv, OpsOK, OpOK, NarrationOpOK
<1>4. op'[r] = NoOp /\ DOMAIN op' = Reader /\ \A q \in Reader : q # r => op'[q] = op[q]
  BY <1>1, <1>3
<1>5. OpOK(op'[r], call'[r])
  BY <1>2, <1>3, <1>4 DEF OpOK, NoOp, MemoOp
<1> QED  BY <1>1, <1>2, <1>4, <1>5, QuietStep
------------------------------------------------------------------------------
LEMMA MemosStep ==
  ASSUME MemosInv, [Next]_vars
  PROVE  MemosInv'
<1>1. CASE UNCHANGED vars
  <2>1. UNCHANGED <<cacheVars, db, call, Counters, narration, memo, op>>
    BY <1>1 DEF vars, memos, cacheVars, cache, db, Counters
  <2>2. CacheInv'
    BY <2>1, CacheStep DEF MemosInv
  <2>3. /\ narrationAll' \in Nat /\ narrationBook' \in [Book -> Nat] /\ memoGen' \in [Memo -> Nat]
        /\ UNCHANGED <<ver, settled, writing, heard>>
    BY <2>1 DEF Counters, db, MemosInv, NarrationsOK, MemosOK
  <2>4. NotifyOK'
    BY <2>3 DEF MemosInv, NotifyOK, SettledDone
  <2>5. NarrationsOK' /\ MemosOK' /\ OpsOK'
    BY <2>1, <2>3, SameCounters DEF MemosInv, NarrationsOK, MemosOK, OpsOK
  <2> QED  BY <2>2, <2>4, <2>5 DEF MemosInv
<1>2. ASSUME NEW w \in Writer, (\E x \in Write : Begin(w, x)) \/ Tell(w) \/ Hear(w) \/ End(w)
      PROVE  MemosInv'
  BY <1>2, BeginStep, TellStep, HearStep, EndStep
<1>3. ASSUME NEW r \in Reader, NEW a \in Asks,
             \/ a[1] = "ready" /\ ReadBook(r, a[2])
             \/ a[1] = "voices" /\ LookVoices(r, a[2])
             \/ a[1] = "narration" /\ \E k \in VoiceKey : LookNarration(r, a[2], k)
      PROVE  MemosInv'
  <2>1. a[2] \in Book
    BY MemoAssumption
  <2> QED  BY <1>3, <2>1, ReadBookStep, LookVoicesStep, LookNarrationStep
<1>4. ASSUME NEW r \in Reader,
             \/ ReadOn(r) \/ Stop(r) \/ LookReady(r) \/ Resolve(r) \/ Put(r)
             \/ \E i \in DOMAIN NarrationTables : Prints(r, i)
             \/ LoadNarration(r) \/ KeepNarration(r) \/ Fail(r) \/ Finish(r)
      PROVE  MemosInv'
  BY <1>4, ReadOnStep, StopStep, LookReadyStep, ResolveStep, PutStep, PrintsStep, LoadNarrationStep,
     KeepNarrationStep, FailStep, FinishStep
<1> QED  BY <1>1, <1>2, <1>3, <1>4 DEF Next

\* The invariant the other theorems follow from: what is remembered, and what
\* each reader holds half way, is current but for writes still to be heard of.
THEOREM MemosInvariant == Spec => []MemosInv
  BY MemoStarts, MemosStep, PTL DEF Spec

\* Every variable has its type, the cache's among them; a writer that writes
\* nothing has told nobody of anything.
THEOREM MemosTypeCorrect == Spec => []TypeOK
<1>1. MemosInv => TypeOK
  <2> SUFFICES ASSUME MemosInv PROVE TypeOK
    OBVIOUS
  <2>1. \A b \in Book : narration[b] # None => KeptOK(b, narration[b])
    BY DEF MemosInv, NarrationsOK, NarrationOK
  <2>2. \A m \in Memo, b \in Book : memo[m][b] # None => DOMAIN memo[m][b].rest = Reads[MemoKey[m][b]]
    BY DEF MemosInv, MemosOK, MemoOK, MemoRow, Rows
  <2>3. \A r \in Reader : op[r].pc \in {"idle", "book", "prints", "load", "resolve", "keep", "done"}
    BY DEF MemosInv, OpsOK, OpOK, NarrationOpOK, MemoOpOK
  <2> QED  BY <2>1, <2>2, <2>3 DEF TypeOK, MemosInv, CacheInv, NotifyOK, KeptOK
<1> QED  BY <1>1, MemosInvariant, PTL

\* A narration that may be served as it is, because nothing that changes it was
\* announced since before its fingerprints were read, lags only by writes the
\* cache has still to hear of (ChapterNarration's narrationGen).
THEOREM NarrationStaysCurrent == Spec => []NarrationCurrent
<1>1. MemosInv => NarrationCurrent
  <2> SUFFICES ASSUME MemosInv, NEW b \in Book, narration[b] # None, narration[b].gen = narrationGen(b),
                      NEW c \in Chapters(b), NEW n \in (narration[b].chapters[c][2] + 1) .. ver[c]
               PROVE  Unheard(c, n)
    BY DEF NarrationCurrent
  <2>1. KeptOK(b, narration[b]) /\ ReadAt(b, narration[b].gen, narration[b].prints)
    BY DEF MemosInv, NarrationsOK, NarrationOK
  <2> DEFINE f == narration[b].prints[c]
             g == narration[b].chapters[c][2]
  <2>2. f \in Nat /\ g \in Nat /\ f <= g /\ ver[c] \in Nat
    BY <2>1, ChaptersAreCells, VersionTypes DEF KeptOK, MemosInv, CacheInv
  <2>3. n \in (g + 1) .. ver[c]
    OBVIOUS
  <2> HIDE DEF f, g
  <2>4. n \in (f + 1) .. ver[c]
    BY <2>2, <2>3
  <2>5. c \in DOMAIN narration[b].prints
    BY <2>1 DEF KeptOK
  <2> QED  BY <2>1, <2>4, <2>5 DEF ReadAt, f
<1> QED  BY <1>1, MemosInvariant, PTL

\* What the look ahead and the voices remember lags only by writes they have
\* still to hear of, although they work it out from reads the cache answers
\* (readyChapters, characterVoiceOverrides; their listeners run after the
\* cache's).
THEOREM MemosStayCurrent == Spec => []MemoCurrent
<1>1. MemosInv => MemoCurrent
  <2> SUFFICES ASSUME MemosInv, NEW m \in Memo, NEW b \in Book, memo[m][b] # None
               PROVE  MemoFresh(m, memo[m][b].rest)
    BY DEF MemoCurrent, MemoFresh, Awaited
  <2> QED  BY DEF MemosInv, MemosOK, MemoOK
<1> QED  BY <1>1, MemosInvariant, PTL

\* Every answer, remembered or worked out, has every write that had returned
\* when the question was put, and a narration is for the voices asked for.
THEOREM AnswersAreFresh == Spec => []AnswersFresh
<1>1. MemosInv => AnswersFresh
  <2> SUFFICES ASSUME MemosInv, NEW r \in Reader, op[r].pc = "done"
               PROVE  IF op[r].kind = "narration"
                        THEN \A c \in Chapters(op[r].book) : /\ op[r].v[c][1] = op[r].key
                                                              /\ op[r].floor[c] <= op[r].v[c][2]
                        ELSE \A c \in DOMAIN op[r].v.rest : op[r].floor[c] <= op[r].v.rest[c]
    BY DEF AnswersFresh
  <2>1. OpOK(op[r], call[r])
    BY DEF MemosInv, OpsOK
  <2>2. CASE op[r].kind = "narration"
    BY <2>1, <2>2 DEF OpOK, NarrationOpOK
  <2>3. CASE op[r].kind # "narration"
    BY <2>1, <2>3 DEF OpOK, MemoOpOK, MemoRow, Rows
  <2> QED  BY <2>2, <2>3
<1> QED  BY <1>1, MemosInvariant, PTL

\* The memos and narrations use the cache as StoreCache has it, whose theorems
\* are then theirs: each of their steps is a step of the cache or leaves the
\* cache and the database alone.
THEOREM MemosUseCache == Spec => CacheSpec /\ PromiseSpec
<1>1. Init => CacheInit
  BY DEF Init
<1>2. MemosInv /\ [Next]_vars => [CacheNext]_cacheVars
  <2> SUFFICES ASSUME MemosInv, [Next]_vars PROVE [CacheNext]_cacheVars
    OBVIOUS
  <2>1. CASE UNCHANGED vars
    BY <2>1 DEF vars
  <2>2. ASSUME NEW w \in Writer, (\E x \in Write : Begin(w, x)) \/ Tell(w) \/ Hear(w) \/ End(w)
        PROVE  [CacheNext]_cacheVars
    BY <2>2 DEF Begin, Tell, Hear, End, CacheNext
  <2>3. ASSUME NEW r \in Reader, NEW a \in Asks,
               \/ a[1] = "ready" /\ ReadBook(r, a[2])
               \/ a[1] = "voices" /\ LookVoices(r, a[2])
               \/ a[1] = "narration" /\ \E k \in VoiceKey : LookNarration(r, a[2], k)
        PROVE  [CacheNext]_cacheVars
    <3>1. BookKey[a[2]] \in Key
      BY MemoAssumption
    <3> QED  BY <2>3, <3>1 DEF ReadBook, LookVoices, LookNarration, CacheNext
  <2>4. ASSUME NEW r \in Reader, Resolve(r)
        PROVE  CacheNext
    <3>1. /\ op[r].pc = "resolve" /\ op[r].kind \in Memo
          /\ Call(r, MemoKey[op[r].kind][op[r].book])
      BY <2>4 DEF Resolve, At, ReadFor
    <3>2. op[r].book \in Book
      BY <3>1 DEF MemosInv, OpsOK, OpOK, MemoOpOK, Memo
    <3> QED  BY <3>1, <3>2, MemoAssumption DEF CacheNext
  <2>5. ASSUME NEW r \in Reader,
               \/ ReadOn(r) \/ Stop(r) \/ LookReady(r) \/ Put(r)
               \/ \E i \in DOMAIN NarrationTables : Prints(r, i)
               \/ LoadNarration(r) \/ KeepNarration(r) \/ Fail(r) \/ Finish(r)
        PROVE  [CacheNext]_cacheVars
    BY <2>5 DEF ReadOn, Stop, LookReady, Put, Took, Prints, LoadNarration, KeepNarration, Fail, Finish, CacheNext
  <2> QED  BY <2>1, <2>2, <2>3, <2>4, <2>5 DEF Next
<1>3. Spec => CacheSpec
  BY <1>1, <1>2, MemosInvariant, PTL DEF Spec, CacheSpec
<1> QED  BY <1>3, CacheImplementsReads
==============================================================================
