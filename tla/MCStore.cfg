CONSTANTS
  row = row
  ch1 = ch1
  ch2 = ch2
  kBook = kBook
  kText = kText
  b1 = b1
  r1 = r1
  r2 = r2
  w1 = w1
  w2 = w2
  v1 = v1
  v2 = v2
  Cell = {row, ch1, ch2}
  TableOf <- TableOfV
  Key = {kBook, kText}
  Reads <- ReadsV
  Write <- WriteV
  AllTables = "*"
  Writer = {w1, w2}
  Reader = {r1, r2}
  MaxEntries = 2
  MaxWrites = 2
  None = None
  Book = {b1}
  BookOf <- BookOfV
  NarrationTables <- NarrationTablesV
  VoiceKey = {v1, v2}
  BookKey <- BookKeyV
  MemoKey <- MemoKeyV
  MemoTables <- MemoTablesV
  Later <- LaterV
  Asks <- AsksV
SPECIFICATION Spec
INVARIANT TypeOK
INVARIANT CacheCurrent
INVARIANT NarrationCurrent
INVARIANT MemoCurrent
INVARIANT AnswersFresh
PROPERTY PromiseSpec
SYMMETRY Swaps
CONSTRAINT Apart
CHECK_DEADLOCK FALSE
