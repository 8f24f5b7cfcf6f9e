-------------------------------- MODULE Clips --------------------------------
(* The life of a narration clip: a paragraph's render task from its push to    *)
(* its end (src/backend/internal/jobs/schedtask.go Run, runAgain and Merge,    *)
(* generation.go startGenerationTask, finishResult, handleResult and           *)
(* refreshStaleGeneration), the store of clips shared by every paragraph that  *)
(* reads alike (jobs/sharedclips.go), the rows that name them                  *)
(* (store/audio.go, store/clips.go and the triggers of migration 11), and what *)
(* runs beside them: an edit invalidating audio (httpapi/chapter_passes.go),   *)
(* or overriding its emotion (httpapi/chapters.go), "Clear generation"         *)
(* (httpapi/books.go), the sweep of unused clips (audiomaint) and the word     *)
(* alignments a save leaves running. One voice, and clips of one paragraph.    *)
EXTENDS Naturals, FiniteSets

CONSTANTS
  Para,        \* paragraphs
  Text,        \* generation texts: the words, as they are to be spoken
  Reading,     \* what else a clip depends on: the reference clip it is cloned from
  MaxAttempts, \* maxTaskAttempts
  MaxUpsets,   \* bound: edits, clears, regenerations, failures, sweeps together
  MaxAligning, \* bound: word alignments under way at once
  None

\* Content keys (clipkey).
Key == [text : Text, reading : Reading]

ASSUME ClipsAssumption ==
  /\ IsFiniteSet(Para) /\ IsFiniteSet(Key)
  /\ None \notin Para \cup Key
  /\ MaxAttempts \in Nat \ {0}
  /\ MaxUpsets \in Nat /\ MaxAligning \in Nat

VARIABLES
  says,      \* the key of what each paragraph says now
  untold,    \* paragraphs edited whose audio is still to be invalidated
  row,       \* paragraph_audio: status, clip_key, the render its duration is of,
             \* and the one its word timings are of, 0 while there are none
  file,      \* the render in the file of each key, 0 for no file
  orphan,    \* clip_orphans: the renders described, and how old the record is
  task,      \* each paragraph's render task
  rendering, \* sharedClips.rendering: the task that claimed each key
  spread,    \* a fresh render being given to the clip's other users, under mu
  listed,    \* what an enqueue read each paragraph as, until it pushes it
  regen,     \* the same of a "regenerate this paragraph"
  clearing,  \* "Clear generation" deleted its rows and has still to discard
  aligning,  \* word alignments of saved renders, detached from their tasks
  sweep,     \* the key the sweep found unused, and how far it is with it
  left,      \* how many of those may still come
  late,      \* paragraphs changed too late for a check to notice, and not
             \* started on anew since (history)
  swept      \* files the sweep removed though written since it looked (history)

store == <<says, untold, row, file, orphan>>
asks == <<listed, regen, left>>
upkeep == <<clearing, sweep, swept>>
vars == <<store, task, rendering, spread, asks, upkeep, aligning, late>>

\* A row without a clip has no timings either: none that could be seen.
Row(st) == [st |-> st, key |-> None, clip |-> 0, words |-> 0]
On(key, part) == [st |-> "ready", key |-> key, clip |-> part.clip, words |-> part.words]
NoRow == Row("none")
NoOrphan == [clip |-> 0, words |-> 0, age |-> "kept"]
NoTask == [pc |-> "none", key |-> None, fresh |-> FALSE, clip |-> 0, attempt |-> 0, again |-> None]
NoSpread == [by |-> None, key |-> None, clip |-> 0, words |-> 0, todo |-> {}]
Push(key, fresh) == [key |-> key, fresh |-> fresh]
NoSweep == [key |-> None, gone |-> FALSE, written |-> FALSE]

\* Renders are numbered; a number nothing refers to any more is used again.
Clip == 0..(3 * Cardinality(Key) + 3 * Cardinality(Para) + MaxAligning + 2)

\* Every variable has its type; only a ready row names a clip.
TypeOK ==
  /\ says \in [Para -> Key] /\ untold \subseteq Para
  /\ row \in [Para -> {Row(st) : st \in {"none", "pending", "generating", "error"}}
                      \cup [st : {"ready"}, key : Key, clip : Clip \ {0}, words : Clip]]
  /\ file \in [Key -> Clip]
  /\ orphan \in [Key -> [clip : Clip, words : Clip, age : {"recent", "kept", "old"}]]
  /\ task \in [Para -> [pc : {"none", "queued", "read", "look", "claim", "wait", "render",
                              "use", "save", "spread", "again", "ending"},
                        key : Key \cup {None}, fresh : BOOLEAN, clip : Clip,
                        attempt : 0..(MaxAttempts - 1),
                        again : [key : Key, fresh : BOOLEAN] \cup {None}]]
  /\ rendering \in [Key -> Para \cup {None}]
  /\ spread \in [by : Para \cup {None}, key : Key \cup {None}, clip : Clip, words : Clip, todo : SUBSET Para]
  /\ listed \in [Para -> Key \cup {None}] /\ regen \in [Para -> Key \cup {None}]
  /\ clearing \in BOOLEAN /\ sweep \in [key : Key \cup {None}, gone : BOOLEAN, written : BOOLEAN]
  /\ aligning \subseteq [by : Para, clip : Clip, pc : {"own", "key"}, key : {None}]
                       \cup [by : Para, clip : Clip, pc : {"others"}, key : Key]
  /\ left \in 0..MaxUpsets
  /\ late \subseteq Para /\ swept \subseteq Key

Init ==
  /\ says \in [Para -> Key] /\ untold = {}
  /\ row = [p \in Para |-> NoRow]
  /\ file = [k \in Key |-> 0]
  /\ orphan = [k \in Key |-> NoOrphan]
  /\ task = [p \in Para |-> NoTask]
  /\ rendering = [k \in Key |-> None]
  /\ spread = NoSpread
  /\ listed = [p \in Para |-> None] /\ regen = [p \in Para |-> None]
  /\ clearing = FALSE /\ sweep = NoSweep
  /\ aligning = {} /\ left = MaxUpsets
  /\ late = {} /\ swept = {}
------------------------------------------------------------------------------
\* The rows and the clips they name.

Users(k) == {p \in Para : row[p].key = k}

\* A key whose last row leaves it is recorded with what that row knew.
SetRows(new) ==
  LET gone == {k \in Key : Users(k) # {} /\ \A p \in Para : new[p].key # k} IN
  /\ row' = new
  /\ \E last \in [gone -> Para] :
       /\ \A k \in gone : last[k] \in Users(k)
       /\ orphan' = [k \in Key |->
            IF k \in gone
              THEN [clip |-> row[last[k]].clip, words |-> row[last[k]].words,
                    age |-> IF clearing' THEN "recent" ELSE "kept"]
              ELSE orphan[k]]

SetRow(p, r) == clearing' = clearing /\ SetRows([row EXCEPT ![p] = r])

AlreadyOn(k, p) == row[p].st = "ready" /\ row[p].key = k

\* clipPart: what a row takes over of a clip.
Part(r) == [clip |-> r.clip, words |-> r.words]

\* (Mutant: an orphan is taken up however long it has been kept.)
OfferAnyAge(k, p) ==
  IF file[k] = 0 THEN {}
  ELSE {Part(row[q]) : q \in Users(k) \ {p}}
       \cup {o \in {Part(orphan[k])} : Users(k) = {} /\ orphan[k] # NoOrphan}

\* sharedClip: the part key k's clip can be described with for p, from another
\* row on it or, when there is none, from its orphan, if that is not too old.
\* Finding it and putting p on it is one step: mu keeps every other task out,
\* and the hour between this age and the sweep's keeps the sweep out.
Offer(k, p) ==
  IF file[k] = 0 THEN {}
  ELSE {Part(row[q]) : q \in Users(k) \ {p}}
       \cup {o \in {Part(orphan[k])} :
               Users(k) = {} /\ orphan[k] # NoOrphan /\ orphan[k].age # "old"}

MuFree == spread = NoSpread
------------------------------------------------------------------------------
\* What asks for renders.

Running(p) == task[p].pc \notin {"none", "queued"}

\* pushTask, and Merge when the paragraph has its task already.
Join(p, k, fresh) ==
  task' = [task EXCEPT ![p] =
    IF @.pc = "none" THEN [NoTask EXCEPT !.pc = "queued", !.key = k, !.fresh = fresh]
    ELSE IF Running(p) THEN [@ EXCEPT !.again = Push(k, fresh)]
    ELSE [@ EXCEPT !.fresh = task[p].fresh \/ fresh]]

\* paragraphsNeedingGeneration reads the paragraph: it is not ready.
List(p) ==
  /\ listed[p] = None
  /\ row[p].st # "ready"
  /\ listed' = [listed EXCEPT ![p] = says[p]]
  /\ UNCHANGED <<store, task, rendering, spread, regen, left, upkeep, aligning, late>>

\* resolveAtEnqueue: the clip exists, and the paragraph goes on it at once.
\* Its emotion is read again for that, and may change once more before the lookup.
Resolve(p) ==
  /\ listed[p] # None /\ MuFree
  /\ \E r \in {listed[p].reading, says[p].reading} :
       LET k == [listed[p] EXCEPT !.reading = r] IN
       \/ AlreadyOn(k, p) /\ UNCHANGED <<row, orphan, clearing>>
       \/ ~AlreadyOn(k, p) /\ \E part \in Offer(k, p) : SetRow(p, On(k, part))
  /\ listed' = [listed EXCEPT ![p] = None]
  /\ UNCHANGED <<says, untold, file, task, rendering, spread, regen, left, sweep, swept, aligning, late>>

\* There is none, or the paragraph waits on something else: it is queued.
Enqueue(p) ==
  /\ listed[p] # None
  /\ Join(p, listed[p], FALSE)
  /\ listed' = [listed EXCEPT ![p] = None]
  /\ UNCHANGED <<store, rendering, spread, regen, left, upkeep, aligning, late>>

\* enqueueParagraphRegenerate: the row is reset, then the render pushed.
Regenerate(p) ==
  /\ regen[p] = None /\ left > 0
  /\ left' = left - 1
  /\ regen' = [regen EXCEPT ![p] = says[p]]
  /\ SetRow(p, Row("pending"))
  /\ UNCHANGED <<says, untold, file, task, rendering, spread, listed, sweep, swept, aligning, late>>

PushRegenerate(p) ==
  /\ regen[p] # None
  /\ Join(p, regen[p], TRUE)
  /\ regen' = [regen EXCEPT ![p] = None]
  /\ UNCHANGED <<store, rendering, spread, listed, left, upkeep, aligning, late>>
------------------------------------------------------------------------------
\* A render task.

Woken(q) == IF task[q].fresh THEN "claim" ELSE "look"

\* (Mutant: the claim is kept while the task waits for another attempt.)
ReleaseOnlyEnding(p, new) ==
  LET done == {k \in Key : rendering[k] = p /\ new.pc # "queued"} IN
  /\ rendering' = [k \in Key |-> IF k \in done THEN None ELSE rendering[k]]
  /\ task' = [q \in Para |->
       IF q = p THEN new
       ELSE IF task[q].pc = "wait" /\ task[q].key \in done
         THEN [task[q] EXCEPT !.pc = Woken(q)]
       ELSE task[q]]

\* handleResult, its last part: p's claim is released, which wakes every task
\* waiting on it, and p's task becomes new.
Release(p, new) ==
  LET done == {k \in Key : rendering[k] = p} IN
  /\ rendering' = [k \in Key |-> IF k \in done THEN None ELSE rendering[k]]
  /\ task' = [q \in Para |->
       IF q = p THEN new
       ELSE IF task[q].pc = "wait" /\ task[q].key \in done
         THEN [task[q] EXCEPT !.pc = Woken(q)]
       ELSE task[q]]

Go(p, pc) == task' = [task EXCEPT ![p].pc = pc]

\* ErrYield: to the queue again, no failure counted.
Yielded(p) == [task[p] EXCEPT !.pc = "queued"]

\* (Mutant: the result is kept whatever the paragraph says by now.)
FinishAnyway(p, new) == task' = [task EXCEPT ![p] = new] /\ UNCHANGED rendering

\* refreshStaleGeneration, the first thing done with what generate returned: a
\* paragraph whose generation text is another by now is rendered again. Whether
\* its reading is, is not asked.
Finish(p, new) ==
  IF says[p].text = task[p].key.text
    THEN task' = [task EXCEPT ![p] = new] /\ UNCHANGED rendering
    ELSE Release(p, [Yielded(p) EXCEPT !.key = says[p]])

\* The scheduler starts it: startGenerationTask marks its paragraph.
Start(p) ==
  /\ task[p].pc = "queued"
  /\ Go(p, "read")
  /\ SetRow(p, Row("generating"))
  /\ late' = IF listed[p] = None /\ p \notin spread.todo THEN late \ {p} ELSE late
  /\ UNCHANGED <<says, untold, file, rendering, spread, asks, sweep, swept, aligning>>

\* emotionVariant: the text is the one the task was pushed with, what else it is
\* read by is looked up as it starts to be generated.
Read(p) ==
  /\ task[p].pc = "read"
  /\ task' = [task EXCEPT ![p].pc = Woken(p), ![p].key.reading = says[p].reading]
  /\ UNCHANGED <<store, rendering, spread, asks, upkeep, aligning, late>>

\* claimSharedClip: there is such a clip already, or there is not.
Look(p) ==
  LET k == task[p].key IN
  /\ task[p].pc = "look" /\ MuFree
  /\ IF AlreadyOn(k, p) \/ Offer(k, p) # {}
       THEN Finish(p, [task[p] EXCEPT !.pc = "use"])
       ELSE Go(p, "claim") /\ UNCHANGED rendering
  /\ UNCHANGED <<store, spread, asks, upkeep, aligning, late>>

\* claimSharedClip: become the task rendering it, or wait for the one that is.
Claim(p) ==
  LET k == task[p].key IN
  /\ task[p].pc = "claim"
  /\ IF rendering[k] = None
       THEN rendering' = [rendering EXCEPT ![k] = p] /\ Go(p, "render")
       ELSE Go(p, "wait") /\ UNCHANGED rendering
  /\ UNCHANGED <<store, spread, asks, upkeep, aligning, late>>

\* The clips that something refers to. A new render gets the first other number.
Referred ==
  {file[k] : k \in Key} \cup {orphan[k].clip : k \in Key} \cup {spread.clip}
    \cup {row[p].clip : p \in Para} \cup {task[p].clip : p \in Para}
    \cup {orphan[k].words : k \in Key} \cup {row[p].words : p \in Para}
    \cup {a.clip : a \in aligning}

Rendered(p) ==
  /\ task[p].pc = "render"
  /\ \E c \in Clip \ {0} :
       /\ c \notin Referred /\ 1..(c - 1) \subseteq Referred
       /\ Finish(p, [task[p] EXCEPT !.pc = "save", !.clip = c])
  /\ UNCHANGED <<store, spread, asks, upkeep, aligning, late>>

\* (Mutant: the attempts are counted one off.)
FailOnceMore(p) ==
  /\ left > 0 /\ left' = left - 1
  /\ task[p].pc = "render"
  /\ task[p].attempt < MaxAttempts
  /\ Release(p, [Yielded(p) EXCEPT !.attempt = @ + 1])
  /\ UNCHANGED <<store, spread, listed, regen, upkeep, aligning, late>>

\* The render fails and will be tried again through the queue.
FailForNow(p) ==
  /\ left > 0 /\ left' = left - 1
  /\ task[p].pc = "render"
  /\ task[p].attempt + 1 < MaxAttempts
  /\ Release(p, [Yielded(p) EXCEPT !.attempt = @ + 1])
  /\ UNCHANGED <<store, spread, listed, regen, upkeep, aligning, late>>

\* failParagraph: the last attempt failed, or the task was cancelled while it
\* rendered or waited. It runs no more, whatever was pushed.
FailForGood(p) ==
  /\ left > 0 /\ left' = left - 1
  /\ task[p].pc \in {"render", "wait"}
  /\ SetRow(p, Row("error"))
  /\ Release(p, [task[p] EXCEPT !.pc = "ending"])
  /\ UNCHANGED <<says, untold, file, spread, listed, regen, sweep, swept, aligning, late>>

\* useSharedClip: go on the clip that was found, if it is still there.
Use(p) ==
  /\ task[p].pc = "use" /\ MuFree
  /\ LET k == task[p].key IN
     \/ AlreadyOn(k, p) /\ Go(p, "again") /\ UNCHANGED <<row, orphan, clearing>>
     \/ ~AlreadyOn(k, p) /\ Go(p, "again")
        /\ \E part \in Offer(k, p) : SetRow(p, On(k, part))
     \/ ~AlreadyOn(k, p) /\ Offer(k, p) = {}
        /\ task' = [task EXCEPT ![p] = Yielded(p)] /\ UNCHANGED <<row, orphan, clearing>>
  /\ UNCHANGED <<says, untold, file, rendering, spread, asks, sweep, swept, aligning, late>>

Done(p) == [task[p] EXCEPT !.pc = "again", !.clip = 0]

\* saveSharedClip, the same reading having been stored meanwhile: go on that.
Reuse(p) ==
  /\ task[p].pc = "save" /\ MuFree /\ ~task[p].fresh
  /\ \E part \in Offer(task[p].key, p) : SetRow(p, On(task[p].key, part))
  /\ Release(p, Done(p))
  /\ UNCHANGED <<says, untold, file, spread, asks, sweep, swept, aligning, late>>

\* The detached alignment of render c, saved for p.
Alignment(p, c) == [by |-> p, clip |-> c, pc |-> "own", key |-> None]

\* generateCloneChecked aligns what it rendered, so that its words come with it; a
\* designed voice's do not, nor those of a failed check, and then an alignment is
\* started once the save is through.
WordsOf(c) == {c} \cup {w \in {0} : Cardinality(aligning) < MaxAligning}
Align(p, c, w) == aligning' = IF w = 0 THEN aligning \cup {Alignment(p, c)} ELSE aligning

\* (Mutant: a regeneration gives only its own paragraph the new render.)
SaveAlone(p) ==
  LET k == task[p].key
      c == task[p].clip
  IN
  /\ task[p].pc = "save" /\ MuFree
  /\ task[p].fresh \/ Offer(k, p) = {}
  /\ file' = [file EXCEPT ![k] = c]
  /\ \E w \in WordsOf(c) : SetRow(p, On(k, [clip |-> c, words |-> w])) /\ Align(p, c, w)
  /\ Release(p, Done(p)) /\ UNCHANGED <<spread, late>>
  /\ sweep' = [sweep EXCEPT !.written = @ \/ sweep.key = k]
  /\ UNCHANGED <<says, untold, asks, swept>>

\* saveSharedClip: the file is written and the paragraph goes on it; a fresh
\* render is then given to every other row on the clip, mu still held.
Save(p) ==
  LET k == task[p].key
      c == task[p].clip
      others == Users(k) \ {p}
  IN
  /\ task[p].pc = "save" /\ MuFree
  /\ task[p].fresh \/ Offer(k, p) = {}
  /\ file' = [file EXCEPT ![k] = c]
  /\ \E w \in WordsOf(c) :
       /\ SetRow(p, On(k, [clip |-> c, words |-> w]))
       /\ IF task[p].fresh /\ others # {}
            THEN /\ spread' = [by |-> p, key |-> k, clip |-> c, words |-> w, todo |-> others]
                 /\ late' = late \cup (others \cap untold)
                 /\ task' = [task EXCEPT ![p].pc = "spread", ![p].clip = 0]
                 /\ UNCHANGED <<rendering, aligning>>
            ELSE Release(p, Done(p)) /\ Align(p, c, w) /\ UNCHANGED <<spread, late>>
  /\ sweep' = [sweep EXCEPT !.written = @ \/ sweep.key = k]
  /\ UNCHANGED <<says, untold, asks, swept>>

SpreadTo(q) ==
  /\ q \in spread.todo
  /\ SetRow(q, On(spread.key, Part(spread)))
  /\ IF spread.todo = {q}
       THEN /\ spread' = NoSpread
            /\ Release(spread.by, Done(spread.by))
            /\ Align(spread.by, spread.clip, spread.words)
       ELSE spread' = [spread EXCEPT !.todo = @ \ {q}] /\ UNCHANGED <<task, rendering, aligning>>
  /\ UNCHANGED <<says, untold, file, asks, sweep, swept, late>>

\* runAgain: what was pushed while it ran is done now if it is a regeneration,
\* or the paragraph is not ready after all.
RunAgain(p) ==
  /\ task[p].pc = "again"
  /\ LET n == task[p].again IN
     task' = [task EXCEPT ![p] =
       IF n # None /\ (n.fresh \/ row[p].st # "ready")
         THEN [NoTask EXCEPT !.pc = "queued", !.key = n.key, !.fresh = n.fresh,
                             !.attempt = task[p].attempt]
         ELSE [@ EXCEPT !.pc = "ending", !.again = None]]
  /\ UNCHANGED <<store, rendering, spread, asks, upkeep, aligning, late>>

\* The scheduler takes it out; a push merged since runAgain looked goes with it.
End(p) ==
  /\ task[p].pc = "ending"
  /\ task' = [task EXCEPT ![p] = NoTask]
  /\ UNCHANGED <<store, rendering, spread, asks, upkeep, aligning, late>>
------------------------------------------------------------------------------
\* A word alignment, on its own since its render was saved.

\* It fails, which is logged and no more.
AlignFails(a) ==
  /\ a.pc = "own"
  /\ aligning' = aligning \ {a}
  /\ UNCHANGED <<store, task, rendering, spread, asks, upkeep, late>>

\* SetParagraphWordTimings, three statements: the timings go to the paragraph's
\* row, whatever that row is by now,
AlignOwn(a) ==
  /\ a.pc = "own"
  /\ row' = IF row[a.by].st = "ready" THEN [row EXCEPT ![a.by].words = a.clip] ELSE row
  /\ aligning' = (aligning \ {a}) \cup {[a EXCEPT !.pc = "key"]}
  /\ UNCHANGED <<says, untold, file, orphan, task, rendering, spread, asks, upkeep, late>>

\* the clip that row is on is looked up,
AlignKey(a) ==
  /\ a.pc = "key"
  /\ aligning' = (aligning \ {a})
       \cup {[a EXCEPT !.pc = "others", !.key = k] : k \in {row[a.by].key} \ {None}}
  /\ UNCHANGED <<store, task, rendering, spread, asks, upkeep, late>>

\* and the other rows on it get them too.
AlignOthers(a) ==
  /\ a.pc = "others"
  /\ row' = [q \in Para |->
       IF q \in Users(a.key) \ {a.by} THEN [row[q] EXCEPT !.words = a.clip] ELSE row[q]]
  /\ aligning' = aligning \ {a}
  /\ UNCHANGED <<says, untold, file, orphan, task, rendering, spread, asks, upkeep, late>>
------------------------------------------------------------------------------
\* What clears audio, beside the tasks.

\* Nothing will notice any more that p is now to be k: not a task past its check,
\* nor, if it is to be read otherwise, one that has looked up how; not an enqueue
\* that has read p, nor a regeneration being given to p's row.
Unnoticed(p, k) ==
  \/ task[p].pc \in {"use", "save"}
  \/ task[p].pc \in {"look", "claim", "wait", "render"} /\ k.reading # task[p].key.reading
  \/ listed[p] # None
  \/ p \in spread.todo

\* What p says, or how it is read, becomes k; its audio is still to be invalidated.
Change(p, k) ==
  /\ left > 0 /\ says[p] # k
  /\ left' = left - 1
  /\ says' = [says EXCEPT ![p] = k]
  /\ untold' = untold \cup {p}
  /\ late' = IF Unnoticed(p, k) THEN late \cup {p} ELSE late
  /\ UNCHANGED <<row, file, orphan, task, rendering, spread, listed, regen, upkeep, aligning>>

\* A pass changes what p says: its text, speech direction or pronunciation.
Edit(p, t) == Change(p, [says[p] EXCEPT !.text = t])

\* The reader gives p another emotion (and invalidates and regenerates it), or has
\* its reference clip, or the labels of the emotion pass, made anew.
Override(p, r) == Change(p, [says[p] EXCEPT !.reading = r])

\* DeleteParagraphAudioForIdxs: its audio is invalidated.
Invalidate(p) ==
  /\ p \in untold
  /\ untold' = untold \ {p}
  /\ SetRow(p, NoRow)
  /\ UNCHANGED <<says, file, task, rendering, spread, asks, sweep, swept, aligning, late>>

\* DeleteBookAudio or DeleteChapterAudio, the first half of "Clear generation".
ClearRows(ps) ==
  /\ ~clearing /\ left > 0
  /\ left' = left - 1
  /\ clearing' = TRUE
  /\ SetRows([p \in Para |-> IF p \in ps THEN NoRow ELSE row[p]])
  /\ UNCHANGED <<says, untold, file, task, rendering, spread, listed, regen, sweep, swept, aligning, late>>

\* DiscardOrphanedClips, the other half: what lost its last row since the
\* clear began is removed, unless a paragraph has gone on it meanwhile.
Discard ==
  LET keys == {k \in Key : orphan[k].age = "recent"} IN
  /\ clearing /\ MuFree
  /\ clearing' = FALSE
  /\ file' = [k \in Key |-> IF k \in keys /\ Users(k) = {} THEN 0 ELSE file[k]]
  /\ orphan' = [k \in Key |-> IF k \in keys THEN NoOrphan ELSE orphan[k]]
  /\ UNCHANGED <<says, untold, row, task, rendering, spread, asks, sweep, swept, aligning, late>>

\* SweepSharedClips: a file no row names, left long enough ago. Time passes here:
\* whatever lost its last row before may be past OrphanRetention by now. A clip
\* being spread has only just been written.
SweepLook(k) ==
  /\ sweep.key = None /\ left > 0
  /\ left' = left - 1
  /\ file[k] # 0 /\ Users(k) = {} /\ orphan[k].age # "recent" /\ k # spread.key
  /\ orphan' = IF orphan[k] = NoOrphan THEN orphan ELSE [orphan EXCEPT ![k].age = "old"]
  /\ sweep' = [NoSweep EXCEPT !.key = k]
  /\ UNCHANGED <<says, untold, row, file, task, rendering, spread, listed, regen, clearing, swept, aligning, late>>

\* It is removed, without asking again.
SweepRemove ==
  /\ sweep.key # None /\ ~sweep.gone
  /\ file' = [file EXCEPT ![sweep.key] = 0]
  /\ sweep' = [sweep EXCEPT !.gone = TRUE]
  /\ swept' = IF sweep.written THEN swept \cup {sweep.key} ELSE swept
  /\ UNCHANGED <<says, untold, row, orphan, task, rendering, spread, asks, clearing, aligning, late>>

\* Run, after the sweep: what was removed is forgotten.
SweepForget ==
  /\ sweep.gone
  /\ orphan' = [orphan EXCEPT ![sweep.key] = NoOrphan]
  /\ sweep' = NoSweep
  /\ UNCHANGED <<says, untold, row, file, task, rendering, spread, asks, clearing, swept, aligning, late>>
------------------------------------------------------------------------------
TaskStep(p) ==
  \/ Start(p) \/ Read(p) \/ Look(p) \/ Claim(p) \/ Rendered(p) \/ FailForNow(p)
  \/ Use(p) \/ Reuse(p) \/ Save(p) \/ RunAgain(p) \/ End(p)

Next ==
  \/ \E p \in Para :
       \/ List(p) \/ Resolve(p) \/ Enqueue(p) \/ Regenerate(p) \/ PushRegenerate(p)
       \/ TaskStep(p) \/ FailForGood(p) \/ SpreadTo(p)
       \/ Invalidate(p) \/ \E t \in Text : Edit(p, t)
       \/ \E r \in Reading : Override(p, r)
  \/ \E ps \in {Para} \cup {{p} : p \in Para} : ClearRows(ps)
  \/ \E a \in aligning : AlignFails(a) \/ AlignOwn(a) \/ AlignKey(a) \/ AlignOthers(a)
  \/ Discard \/ SweepRemove \/ SweepForget
  \/ \E k \in Key : SweepLook(k)

Spec == Init /\ [][Next]_vars
------------------------------------------------------------------------------
\* Properties.

\* A paragraph that is ready has its file, however its clip was come by, other
\* than one the sweep removed after it was written anew (useSharedClip,
\* DiscardOrphanedClips, SweepSharedClips, the hour in sharedClip).
ReadyPlays ==
  \A p \in Para : row[p].st = "ready" => file[row[p].key] # 0 \/ row[p].key \in swept

\* A row's duration, and the one an orphan keeps for the next paragraph, are of the
\* render the file holds, but while a new one is being given to the rows it
\* replaced (saveSharedClip), and with the same exception.
PartsMatch ==
  /\ \A p \in Para :
       row[p].st = "ready" /\ p \notin spread.todo /\ row[p].key \notin swept
         => row[p].clip = file[row[p].key]
  /\ \A k \in Key :
       file[k] # 0 /\ Users(k) = {} /\ orphan[k] # NoOrphan /\ k \notin swept \cup {spread.key}
         => orphan[k].clip = file[k]

\* One task renders a clip at a time, and a claim is only ever held by the task
\* doing so: a task never waits, in its slot of the pool, for one that is back
\* in the queue and may want that very slot (claim, handleResult).
ClaimsHeldByRenders ==
  \A p \in Para :
    /\ \A k \in Key :
         rendering[k] = p <=> task[p].key = k /\ task[p].pc \in {"render", "save", "spread"}
    /\ task[p].pc = "wait" => rendering[task[p].key] \notin {None, p}

\* Timings describe the clip (the comment on SetParagraphWordTimings): those a
\* ready row has are of the render its duration is of, but while a new one is being
\* given to the rows on the old.
WordsMatch ==
  \A p \in Para :
    row[p].st = "ready" /\ p \notin spread.todo => row[p].words \in {0, row[p].clip}

\* Invalidating a paragraph's audio is not undone by a render or a clip of what
\* it used to say, or of how it used to be read, unless the change came in one of
\* the windows that nothing guards: for the text, after the check of a finished
\* render (refreshStaleGeneration), for the reading, all through the render; and
\* then until the paragraph is next rendered.
NotUndone ==
  \A p \in Para :
    row[p].st = "ready" /\ row[p].key # says[p] => p \in untold \cup late

\* A "regenerate this paragraph" that arrives while the paragraph's task runs is
\* always done, unless the task fails: it stays pushed until the task takes it
\* on (runAgain's comment).
RegenerateHeard ==
  [][\A p \in Para :
       task[p].again \in [key : Key, fresh : {TRUE}] /\ row[p].st # "error" =>
         \/ task'[p].again \in [key : Key, fresh : {TRUE}]
         \/ task'[p].pc = "queued" /\ task'[p].fresh]_vars
==============================================================================
