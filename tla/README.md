# Lectable: a TLA+ development

Lectable is a self-hosted narrator of e-books: a Go backend (`src/backend`) imports books, has
language models annotate them (who speaks, in which mood) and has speech models render every
paragraph, for a web reader and an Android player. One machine with one GPU does all of it, so
nearly everything that is hard in the program is a matter of *which work runs when*, *who is told
how it went*, and *what happens when it is cancelled, pauses, fails or hangs*. This directory
models that core in TLA+, checks it with TLC on small instances and proves part of it with TLAPS.

## The system

Paths are under `src/backend/internal` unless they say otherwise. The table lists what each part
keeps, what it does, and what makes it correct.

| Part | State | Operations | Correct when |
| --- | --- | --- | --- |
| `sched` (one file, one mutex) | task graph, who wants what, resident context, dwell timer, gate | Request, Adopt, Join, Replace, Retain, Withdraw, Cancel, CancelWhere, Raise, SetGate, Close; admission; Finish; ShouldYield | nothing runs that nobody wants, nothing wanted is lost, waiting is for something and not in circles, one model at a time, no run overlaps another of its key, every task ends |
| `jobs`: life of a task (`schedtask.go`, `control.go`, `llmtasks.go`, `task.go`, parts of `enqueue.go` and `generation.go`) | waiters of each task, `settled`, `resuming`, `chapterPending` | pushTask, task.Run / Merge / Ended, handleResult, resumeInto, Cancel, CancelChapter | each caller is answered, once; a chapter is "generating" exactly while it has work; after CancelChapter nothing writes any more |
| `jobs`: kinds, pipeline, reader's window | dependencies per kind, phases, lookahead per client | needs, EnqueuePipeline, EnqueueLookahead | prerequisites first; one pipeline per book; the last window wins |
| `jobs`: paragraph audio, shared clips (with `store/audio.go`, `store/clips.go`, `audiomaint`) | `again`, stale text, clips being rendered, alignments under way, rows, files, orphans | Run, Merge, runAgain, refreshStaleGeneration, claim/release, save and use, alignParagraph, clear, sweep | audio marked ready exists, is described by its row and is of the current text, read as it is to be read now; one render per clip; a regeneration is done |
| `jobs`: pause | paused, drained | Pause, Resume, unloadAllOnceIdle, onSwitch | no model unloaded under a call |
| `ttsworker` | the worker process, `restartGate`, `mu`, calls in flight | calls, Restart, watchdog, hardRestart, Stop | no restart mid-request, locks never wait for each other, one worker |
| worker process (`audioworker`, `llmworker`) | resident models, who has reserved them, residency gate, the LLM's `loadGate` | getCloneModel, getDesignModel, getAux, their releases, LLMGenerate, LLMDecide, load, Unload, UnloadAll, idle unload | one audio model resident, none closed under a call, none beside an LLM that needs the VRAM, nobody overtaken or waiting in a circle |
| `store` (and what `jobs` and `httpapi` remember on top) | SQLite, read cache with generations, change notifications, memos | reads, writes, invalidate, ChapterNarration, readyChapters, characterVoiceOverrides | a read never returns what a finished write replaced; nothing stale is remembered for good |
| `live` | topics, subscribers, dirty names | subscribe, invalidate, refresh, rebuild | every client's copy is what was last built, and becomes current |
| `bookexport` | requested and built artifacts, files | Request, Build, Delete | an artifact matches its sidecar; deleted stays deleted |
| `httpapi`, `speakerattr`, importers, audio processing, `semantic`, `cron`, `dbbackup`, bindings, clients | | | sequential code, I/O or programs of their own; see `PROJECT.json` |

How they interact: `httpapi` handlers push tasks through `jobs`, which wraps each in a
`sched.Task` (a key, a context which is its worker pool, `Prepare` naming what it needs, `Run`,
`Merge`, `Ended`). `sched` calls `Prepare` and `Merge` under its mutex, `Run` on a goroutine and
`Ended` after the mutex is released. `Run` calls the worker process through `ttsworker` and asks
`ShouldYield` between batches. Writes to the `store` invalidate its cache, `jobs`' ready
chapters and the `live` topics.

What is hard is listed line by line under "hazards" in `PROJECT.json`.

## Modules

| Module | Models |
| --- | --- |
| `Sched` | `sched/sched.go` |
| `SchedTask` | what the scheduler promises for one task key (abstract): `Sched` keeps it, `JobsTask` relies on it |
| `JobsTask` | one task key of `jobs`, over what `SchedTask` promises for a key |
| `Clips` | narration clips: a paragraph's render task, the clips paragraphs share, the rows and files, and what clears them |
| `TTSWorker` | `ttsworker/manager.go` and the processes it spawns |
| `WorkerModels` | the models inside the worker process: `audioworker/residency.go`, the loading and unloading of `audioworker/worker.go` and of `llmworker/worker.go`, as `cmd/ttsworker/main.go` connects them |
| `StoreReads` | what a read of the store promises its caller (abstract) |
| `StoreCache` | `store/cache.go`'s read cache over `store/notify.go`; implements `StoreReads` |
| `StoreMemos` | extends `StoreCache` with the three things remembered on top of it |
| `LiveDiff` | the patches of `live/diff.go` and of the frontend's `applyOps` |
| `Live` | `live/hub.go`, `live/client.go` and the page, `src/frontend/src/api/live.ts` |
| `SchedProofs`, `JobsTaskProofs`, `ClipsProofs`, `TTSWorkerProofs`, `WorkerModelsProofs`, `StoreCacheProofs`, `StoreMemosProofs`, `LiveProofs` | theorems about `Sched`, `JobsTask`, `Clips`, `TTSWorker`, `WorkerModels`, `StoreCache`, `StoreMemos` and `Live` |
| `MC*` | instances for TLC |

### Sched

Every exported call of the scheduler is `Scheduler.do`: it takes the mutex, changes the graph,
admits what may run, and releases. Within it `end`, `dropIfUnwanted` and `prepare` call each other
recursively while ranging over Go maps. The model keeps that call stack explicitly (`stack`), one
frame per call or loop under way, and a micro-step performs one iteration of the innermost loop;
choosing an element of a frame's `todo` is Go's arbitrary map order. A call is taken only with the
mutex free; then the cascade runs to its end; then `Start` admits tasks one at a time in the
scheduler's order; then `Unlock`. No recursion is left in the module, so it can be proved about.

| Model | Code |
| --- | --- |
| `state`, `requests`, `needs`, `members`, `adopted`, `ended`, `attempt`, `canceled`, `doomed` | fields of `node`; `needs` and `members` are `node.needs` by its Member flag, `wantedBy` is derived from them |
| `cur`, `switchPrio`, `dwelling`, `timer` | `Scheduler.cur`, `switchPrio`, whether `Dwell` since `since` has passed, the dwell timer |
| `gate`, `closed` | `Scheduler.gate` (as the set of keys it accepts), `closed` |
| `Request`, `Replace`, `Adopt`, `Cancel`, `CancelWhere`, `SetGate`, `Raise`, `Close`, ... | the exported calls |
| `Prepare...`, `Link...`, `End...`, `Drop...`, `Tell...` steps | one call or loop iteration of `prepare`, `end`, `dropIfUnwanted`, `Replace` |
| `Candidates`, `Before`, `Start`, `Unlock` | `evaluate`, `sortNodes`, `pop`, `admit` |
| `Finish(k, result)` | `Run` returned; `finish` |

Abstractions, with why they are sound for the properties:

- A task's `Prepare` may name any subset of `Deps[k]` and `Members[k]`, anew each time; it may fail
  for `k` in `Faulty`. This is more than any kind of task does.
- `Less` and arrival order only break ties between tasks of equal urgency; any choice is allowed.
- `end` cuts all its links at once where the code deletes them one by one under the same lock;
  nothing reads the graph in between but the cascade itself, which looks only at the links not
  yet visited.
- The clock is one bit, `dwelling`, and one event, `DwellEnds`.
- `Kick` re-runs admission only: it appears as `TimerFires`, and as `SetGate` to the same gate.
- A `Prepare` nested inside an unfinished prepare of the same task (its failure loops back to it)
  gives the same answer as the outer one: both run under one lock.
- `Prio` is the least priority over everything that wants a task, directly or not. The code's
  memoized depth-first walk computes the same as long as wanting has no cycle; the code's comment
  on `priority` assumes it, and in the configurations no task adopts what needs it.
- The manual mode (`SetManual`, `Pop`, `Finish`), which only tests use, is left out.

### JobsTask

One task key of a blocking LLM pass, with the scheduler reduced to its promises for a key
(`SchedTask`, next section): absent, queued or running; a second push is merged; a running task ends
only when its `Run` returns; `Ended` is called once, after the lock is released; and a queued task
starts in the end (`Sched!EveryTaskEnds`). Each step is one critical section of the code, so pushes,
merges, results, `settled`, cancellation and `Ended` interleave as they can in Go. A push is made
of up to three steps (`Push` counts, `Ask` reaches the scheduler, `Uncount` when it was merged), a
run of up to seven (`Begin`, `Requeue`, `Resumed`, `Work`, `Deliver`, `Settle`, `Return`).

A remainder pushed by the task itself after another push was taken for it counts and uncounts
within the running task; that transient is left out. Callers and needs occur once each, which
bounds the state; a caller may give up at any time (its context ends).

### SchedTask

The seam between the two. `Sched` is the whole graph and knows nothing of what a task does;
`JobsTask` is the whole life of one task and knows nothing of the graph. `SchedTask` is all that either
says to the other: the state of one key, its attempt, whether it was asked to stop, and the outcomes
not yet handed over to `Ended`.

- `Sched!KeepsContract`: every step of `Sched`, seen through any one key (`Sched!Task(k)`), is a step of
  `SchedTask` or leaves it alone. A task is gone from the call of `end` on (`Leaving`), and one whose
  `Run` returned without ending it is queued from the call of `prepare` on (`Requeued`): the code sets
  both before anything else can look.
- `JobsTask!KeepsToScheduler`: every step of `JobsTask` is one of `SchedTask` or leaves it alone, so
  nothing is said of a pass that rests on what the scheduler would not do. The outcomes still to be
  told are those of the tasks whose `Ended` is under way (`EndingWith`).

The second direction alone would let `JobsTask` leave out what the scheduler may do. It leaves out one
step: `Drop("error")`, a `Prepare` that fails, which no kind of task in `jobs` has
(`jobs/schedtask.go:78`, `jobs/pipeline.go:216`). It has every other one, with no guard of its own but
for where its `Run` is.

### TTSWorker

The manager's two locks (`restartGate`, a reader-writer lock whose pending writer blocks new
readers, and `mu`), the calls in flight, the watchdog, other goroutines that restart, and the
operating system as far as the code depends on it: one process holds the port, a worker that finds
it taken exits, a call fails when its worker dies. `restart` is `gate -> drain -> kill -> spawn ->
wait`; `hardRestart` is `hard -> gate -> drain -> spawn -> wait`, having killed first. Process ids
are reused once dead. Whether the worker came up healthy or the wait was given up makes no
difference to either lock, so both are `Waited`. A killed process is taken to die at once: the code
waits for it, up to ten seconds in `hardRestart`.

### WorkerModels

A call is at one place of its way through the worker (`at`), for one model (`wants`); each step is
one critical section. An audio call goes

    wait -> look -> (unload -> drain -> evict -> load) -> run -> leave

and an LLM call `ask -> (lock -> open -> free) -> enter -> answer`; the parts in brackets are a load.

| Model | Code |
| --- | --- |
| `active`, `count`, `queue`; `Acquire`, `Admit`, `LeaveGate` | `residencyGate`; `acquire`, `admitLocked`, `release` |
| `Kind`, `Guard` | residency kinds and the lock each is loaded under: `cloneMu`, `designMu`, or `mu` for the aux engines |
| `resident`, `inFlight` | the maps of loaded engines (and `llmworker`'s model); their `inFlight` counts |
| `Look`, `StartLoad`, `Loaded`, `LoadFails`, `Ends` | `getCloneModel`, `getDesignModel`, `getAux`, which have one shape, and their releases |
| `TakeLlm`, `FreeLlm`, `Evict` | `beforeLoad` (the LLM's `Unload`), then `UnloadCloneModels`, `UnloadDesignModels`, `unloadAux` of what is not in flight |
| `llmWriter`, `llmReaders` | `loadGate`, a reader-writer lock, whose waiting writer holds new readers off |
| `Ask`, `IsLoaded`, `LockLlm`, `OpenLlm`, `LlmLoads`, `Enter`, `Answer` | `LLMGenerate`, `LLMDecide`, `load` |
| `UnloadIdle`, `UnloadLlm` | `UnloadAll` and the idle loops |

`UnloadAll` takes lock after lock; it keeps nothing from one to the next, so what it may do under
each is a step that may be taken at any time. The lock of a model that loads is held until it has
loaded (`Unlocked`); sections that only look are single steps. `todo` is what an eviction has still
to go through, in whatever order, where the code has a fixed one.

The comment in `cmd/ttsworker/main.go` says that with an LLM too big to share VRAM "one never loads
on top of the other". An eviction skips a model that is in flight, so this holds as long as audio
calls and LLM calls do not overlap, which is what the job manager's contexts are for. They may overlap
when a client has given up and the worker still finishes its call; `mixed` remembers whether any two
did, and `OneResident` claims the LLM's part only when not.

Left out: the session pools behind a loaded model, the embedders, an LLM that shares VRAM, and the
aligner and the transcriber. The latter two are not in flight as the others are: `UnloadAll` closes
their sessions under locks of their own though an Align may have one in use. It is listed as a hazard
and not asserted.

### StoreReads, StoreCache and StoreMemos

The database is a set of *cells* (rows that are read as one), each with the number of writes
committed to it; what a read returns is the versions it saw. A write is three steps, because three
things happen to it at different times and other goroutines run in between: `Commit` (SQLite has
it, and the one write connection is free for the next), `Invalidate` (the cache, which subscribed
first, is told) and `Return` (the write method returns to its caller). A cached read is
`cachedRead`'s steps: look (`Hit`, or `Miss`, which notes the generation), `Load`, and `Keep`, which
looks at the generation again. The generation is kept per table as in the code, whose *sum* is
compared there: counters only grow, so sums are equal when no counter changed.

`StoreReads` is the promise: a read is given rows no older than the newest write that had *returned*
when the read was called, and none that was never committed. It is a regular register, not an
atomic one: of two reads that overlap a write the first may see it and the second not, and a caller
who sees a committed write before its method has returned is promised nothing about the next read.
`StoreCache!PromiseSpec` instantiates it with a refinement mapping that forgets the cache.

`StoreMemos` adds what the server remembers on top, each under a generation of its own:
`Cached.ChapterNarration` (fingerprints read one table at a time, then only the chapters whose
fingerprint changed), `jobs.readyChapters` and `httpapi.characterVoiceOverrides`. The last two are
worked out from reads the cache may answer and hear of writes through listeners after the cache's
(`Hear`; `Later` is their order). Abstracted or left out:

- The memo of `readyChapters` is a chapter's; there is one to a book here. The book's row is read
  before the memo's generation (`enqueueLookahead` reads `book` once, then asks chapter by chapter),
  so `MemoCurrent` and `AnswersFresh` speak of the rest of what the answer is worked out from and
  not of that row: it can be older, and be remembered so.
- Fingerprints are the versions of the chapter's rows. The code's are times and counts, so that two
  different contents might have the same one; that is not modelled.
- A listener is subscribed before the first write. In the code the voices' memo subscribes when it
  is first used, possibly after a notify under way took its list of listeners.
- Books without character stages, and with the chapters they have.
- The write's tables and its book (`BookScope`) are what the code reports; that they cover every
  cell it changed is `WriteAssumption` and `ScopeAssumption`, on which the whole design rests.

### Clips

One paragraph's render task from its push to its end, for several paragraphs that may come to say
the same thing, and hence share a clip under one content key. `row` is `paragraph_audio`, `file` the
clips directory, `orphan` the `clip_orphans` kept by the triggers, `rendering` the claims of
`sharedClips`. A render is numbered, so that a row, an orphan and a file can be seen to speak of
the same one; numbers nothing refers to are used again, which bounds the state without bounding
the renders. A row has two such numbers, as two things describe a clip and come by different ways:
its duration (`clip`), written with the row, and its word timings (`words`, 0 while there are none),
which may come later.

A content key has two parts, because the code treats them differently. The *text* is what is sent
to be spoken; the task carries it from its push on, and `refreshStaleGeneration` compares it. The
*reading* is what else the clip depends on and is no part of that text: the reference clip it is
cloned from, which is chosen by the paragraph's emotion, for the clone models that do not take it in
the text. The task looks it up as it starts to generate (`Read`, `emotionVariant`), and nothing
compares it afterwards.

| Model | Code |
| --- | --- |
| `List`, `Resolve`, `Enqueue`, `Regenerate`, `PushRegenerate`, `Join` | `paragraphsNeedingGeneration`, `resolveAtEnqueue`, `pushTask`, `enqueueParagraphRegenerate`, `Merge` |
| `Start`, `Read`, `Look`, `Claim`, `Rendered`, `FailForNow`, `FailForGood` | `startGenerationTask`, `emotionVariant`, `claimSharedClip`, generate's return, `handleResult`, `failParagraph` |
| `Finish` | `refreshStaleGeneration`, the first thing done with what generate returned, and in the model the same step; it compares texts only |
| `Use`, `Reuse`, `Save`, `SpreadTo`, `Offer` | `useSharedClip`, `saveSharedClip`, `sharedClip` |
| `WordsOf`, `Align` | `generateCloneChecked`, which may return no timings; `saveParagraphAudio`'s last line, which then starts an alignment |
| `AlignFails`, `AlignOwn`, `AlignKey`, `AlignOthers` | `alignParagraph`, and the three statements of `SetParagraphWordTimings` |
| `RunAgain`, `End` | `runAgain`; the scheduler takes the task out |
| `Edit`, `Override`, `Invalidate` | the passes that change a text; `handleSetParagraphEmotion`, and a reset of the emotion pass or of a variant; `DeleteParagraphAudioForIdxs` or `ResetParagraphAudio` (the row is gone or pending, which nothing here tells apart) |
| `ClearRows`, `Discard`, `SweepLook`, `SweepRemove`, `SweepForget` | "Clear generation" and `DiscardOrphanedClips`; `SweepSharedClips` |

`Offer` and the `SetRow` that uses it are one step: `mu` keeps the tasks out, and the hour between
the age up to which an orphan is used and the age from which it is swept keeps the sweep out. That
hour is in the model as the ages "recent", "kept", "old".

`NotUndone` and `ReadyPlays` have exceptions, because the code does. They are history variables, set
only in the windows the code leaves open, and each window is a real one:

- `late`: a paragraph changed when nothing will notice (`Unnoticed`). Its audio is invalidated and then
  comes back, and stays until the paragraph is next rendered. A text goes unnoticed between the task's
  last check and the save; between being listed and `resolveAtEnqueue`; and while a regenerated clip
  is being spread to the paragraph's row. A reading goes unnoticed there too, and from the moment the
  render looked it up: the reader gives the line another emotion during its render, the row is reset,
  and the render is saved ready, in the old emotion. The handler then pushes a regeneration
  (`Regenerate`), which heals it unless that push is lost (below); the other two `Override`s stand for, a
  reset of the emotion pass (`bulk.go:695`) and a variant made anew (`character_voices.go:1699`), push
  none.
- `swept`: a file written anew after the sweep looked at it and before it removed it.

Also seen while modelling, and not stated as properties: "Clear generation" is undone for a
paragraph when a look ahead takes up the orphan between `DeleteChapterAudio` and
`DiscardOrphanedClips`; a regeneration that arrives while the last attempt is failing, or after
`runAgain` has looked, is dropped with the task; a push merged into a queued task gives it its voice but not its paragraph's
text, which the check after the render then finds. What a late alignment does is a property, and a
violated one (`clips_words`); `PartsMatch` speaks of durations only.

Left out: groups of paragraphs rendered at once and their split, several voices (the text stands for
text and voice both), the fallback to a paragraph's own path and the adoption of clips from there,
cancellation of queued tasks, a crash in the middle of a save.

### Live

The hub's loop (`Woken`, `Refresh`, `Rebuild`, `Publish`, `RestLoop`), the two goroutines of a
connection (reader: `Read` ... `Attach`; writer and `closeAll`: `Deliver`, `Close` ... `Over`), the
store's listener (`Mark`, `Wake`, the two halves of `Invalidate`) and the page (`Want`, `Unwant`,
`Connect`, `Disconnect`, `Handle`). A topic's lock is `mu`: held over a build, which is split into
reading the database and publishing, so that writes come between. A message carries what a page
would get: a snapshot, or a patch computed by `LiveDiff` and applied by it.

Abstractions: a subscription's id is the topic it names; a build reads once (a build of several
reads that overlaps a write is followed by a rebuild for that write); a connection is used again
once the server has finished with it. `Resync`, which marks everything dirty every so often, may
happen and need not: `CatchesUp` holds without it. The page's answer to a patch that does not apply (it subscribes
anew) is left out: `CopyFollows` says that never happens. A subscription that the reader makes
after `closeAll` has listed what to drop keeps its topic for ever, against `hub.go:17-19` ("topics
nobody subscribes to cost nothing"); the model counts these in `leaked`, and `RefsExact` says that there are no
others. Left out, too, are error paths that change no copy: a value that cannot be marshalled or decoded
(the rebuild is logged and given up, `hub.go:253-264`; at a first subscription it is an error like
any other), a patch that cannot be marshalled, a message of an unknown type and a topic nobody defined,
which are answered with an error and subscribe to nothing.

## Runs

| Run | Instance | Shows |
| --- | --- | --- |
| `sched_graph` | a group with a member, three tasks that may need each other in a circle, two of them created by a need and one of those able to fail its prepare, the third adopted by the group; yields at will | `NothingUnwanted`, `WaitsForSomething`, `NoNeedCycle`, `PickedEndsCanceled`, and that each task's share of it is `SchedTask` (`KeepsContract`), through every order of the cascade |
| `sched_dispatch` | two tasks of one context, which exclude each other, one of them needing the task of another context, which may be created by that, be tried again, and adopt the first; two priorities, the dwell time and its exemption, gates, Close | `TypeOK`, `SingleContext`, `NoForgottenStart`, `WorkConserving`; `EveryTaskEnds` under fairness |
| `sched_wind_down` | a task and one it needs, two sources | a violation, see below |
| `jobs_task` | two blocking callers, one dependent, two attempts | `AnsweredOnce`, `CountsExactly`, `ClearMeansDone`, `KeepsToScheduler`; `QueuedCallerAnswered`, `CancelChapterEnds` under fairness |
| `jobs_lost_waiter` | the same | a violation, see below |
| `ttsworker` | outside: two calls, one restarting caller, the watchdog, three process ids; within: three calls for two clone models under one lock, an aux engine under another, and the LLM | outside: `TypeOK`, `NeverMidRequest`, `EveryRestartEnds`, `EveryCallReturns`; within: `OneResident`, `NotClosedInUse`, `NotOvertaken`, `NobodyStuck` |
| `ttsworker_orphan` | the same | a violation, see below |
| `store_cache` | two readers, two writers; a book's row and two chapters in tables of their own, five shapes of write (one table or two, with and without a book, unclassified) | `CacheCurrent`, `NarrationCurrent`, `MemoCurrent`, `AnswersFresh`, and that `StoreCache` implements `StoreReads` (`PromiseSpec`) |
| `clips` | two paragraphs, two texts, two readings, two attempts, two upsets, one alignment at a time | `ReadyPlays`, `PartsMatch`, `ClaimsHeldByRenders`, `NotUndone` |
| `clips_regenerate` | one paragraph, one text | a violation, see below |
| `clips_words` | one paragraph, one text, one upset, one alignment | a violation, see below |
| `live` | one page, one throttled topic, two connections with a queue of one; three upsets in all: writes, lost connections, mounts and resyncs | `CopyFollows`, `NothingForgotten`, `RefsExact`, `CatchesUp` under fairness; and, as an ASSUME over every pair of small documents, that a patch turns one into the other |

Why the bounds are enough. The cascade of `Sched` looks at a task, what wants it and what it needs:
chains of three with a shared need, a cycle through a third task and a failing fresh need already
exercise each pair of nested frames; the graph and the dispatch rules are checked apart, since
admission reads the graph only through readiness and priority. A context switch needs two contexts,
the exclusion rule two tasks of one of them, the dwell exemption two priorities; starvation is checked on
the same instance, where a task may be told to yield both to another of its context and to the
other context. For `JobsTask` a merge needs
two callers, a lazily created task a dependent, a retry two attempts. For `TTSWorker` the races are
between two restarts and a call; three process ids are an orphan, the known worker and the next.

The run `ttsworker` has two sides. The manager sees the worker process as something that holds a
port and answers or does not; the models see no restarts, since they die with their process.
`TTSWorker` and `WorkerModels` share no state, so `MCTTSWorker` lets a behaviour be of either, chosen
at the start (`side`). Within, overtaking and a batch of one kind need two calls that could follow
each other past a third; an eviction differs by whether the other model is under the same lock or
another, hence two clone models and an aux engine; the LLM's gate matters between two LLM calls and
between one and an audio load, which the three calls' `MayWant` allow. Each call is made again and
again, and every load may fail.

`store_cache`: a stale entry needs one read and one write that overlap; a memo's adds a second read,
which fills the cache the first one's memo is worked out from, or a second write, which moves one
generation and not the other. Two of each, with two writes in all (`MaxWrites`), reach both. The
constraint `Apart` keeps the narrations and the memos in separate behaviours, since they share only
the database and the generations, has one memo asked for at a time, a narration asked for with two
voices among one write only, and a book's row written once; and it lets two readers overlap one write
or one reader two.
`clips`: a clip shared, waited for, replaced or lost is between two paragraphs; an edit needs two
texts, an override two readings. `MaxUpsets` counts edits, overrides, clears, regenerations, failures and
sweeps together: two of them may meet one render at any of its steps. The constraint `Apart` has three
parts; none of them is in the proofs.
- `OneAtATime`: one half-done enqueue, regeneration, pending push, clear or sweep at a time, and none but
  of the same paragraph while a change has yet to invalidate its audio; while both tasks run, none but
  before the second upset and while both paragraphs are to say the same, which is when two tasks have
  to do with one another. The tasks themselves are not constrained.
- `OneDifference`: what is said, or has a file, differs in its text or in its reading, not in both. While it
  is in the reading, which only an override makes it, nothing is cleared or swept, and nothing is half
  done while both tasks run: clears and sweeps look at keys as wholes, and two texts have them all.
- `AlignedEarly`: an alignment is under way, or has failed, only while all say the same, nothing is half
  done and there was no upset yet, which is few states. The properties of this run do not look at word
  timings, and nothing but a row's timings depends on an alignment; what alignments do wrong is for
  `clips_words`, which has no constraint.

`live`: the old connection is
wound up while the new one serves (two connections), the queue overflows on the second message
(`Buffer` of one), and a write falls in a throttled interval. `MaxUpsets` counts a page's mounts with
what goes wrong: after one mount, two writes (a patch made from a value that was itself a patch), a
write and a lost connection in either order, or a write and a topic that goes and comes back. Topics
share nothing but the loop, its marks and the queue; one topic's messages already fill that. With
more topics than the queue has room for, `CatchesUp` would be false: a page that connects is sent a
snapshot of each, and is given up when they do not fit. The code's default is 256
(`hub.go:99-100`).

Deadlock is checked in the scheduler's and the worker's runs (within the worker, by `NobodyStuck`,
which says more: idle unloads could always go on). In `JobsTask` each caller calls once,
the upsets, the writes and the mounts of the other runs are bounded, so those systems may stop.

### What the violations show

- `sched_wind_down`: a running task that lost its last request is asked to stop; a source that
  requests it again before its `Run` returns joins a task that still ends canceled, and its
  request is lost with it. The comment on `ErrCanceled` and `docs/scheduler-design.md` say a task
  that is wanted does not end this way.
- `jobs_lost_waiter`: a caller merged into a running task after its waiters were read for the
  answer is never answered, though the comment on `llmWaiters` promises it is not dropped.
- `ttsworker_orphan`: a restart that takes the gate between a hard restart's kill and its spawn
  leaves a worker the manager no longer knows, which keeps the port from the one it does know.
- `clips_regenerate`: a regeneration pushed while the paragraph's task runs is kept in `t.again`; an
  ordinary push that follows it (a look ahead that listed the paragraph, whose row the regeneration
  had reset) overwrites it there, and `runAgain` then finds nothing to do. Its comment says a
  regeneration is always done.
- `clips_words`: a render is saved without word timings (its check could not align it), and an alignment
  of it is left running. The paragraph is regenerated, and the new render saved with timings of its own;
  then the old alignment ends and `SetParagraphWordTimings`, which goes by paragraph and voice, writes
  its timings to the new render's row. They stay until the next render. The comments there and on
  `ResetParagraphAudio` say that timings describe the clip and that old ones must not linger.

One disagreement is not a run: `ShouldYield` compares a task with whatever is blocked in its context,
where its comment speaks of a task *blocked by it*; a run can be told to yield to a task that another
run excludes. Nothing else goes wrong by it.

## Fairness

`Sched`: weak for the cascade, admission and unlocking (a goroutine that holds the mutex runs on);
strong for `Finish` (every run returns in the end, and Go's mutex starves no waiter), for the dwell
time passing and for the timer. Requests, cancellations and adoptions are never assumed to happen.
`EveryTaskEnds` is of behaviours in which callers ask for nothing more from some time on, and the gate
stays open and the scheduler is not closed: a task behind a closed gate waits, as it should.
`JobsTask`: weak for each goroutine's next step; strong for a pass that does not pause, since a pass
has finitely many batches and each run does at least one. `TTSWorker`: weak for a call's return when
it is not stuck, for the watchdog's tick and for a new worker's bind; strong for taking locks
(Go's locks starve nobody) and for the client's timeout. `WorkerModels` assumes none: that a call in
the worker ends follows neither from `NobodyStuck` (some call can go on) nor from `NotOvertaken`
(the gate's queue moves in order) alone, but those two are where it could go wrong; with every step
fair the run would no longer end in reasonable time. Crashes, stuck calls and restarts are not
assumed to happen or to stop. `Live`: weak for `Progress`, which is everything that goes on of itself:
goroutines that have begun something, time passing, the page reconnecting. Writes, mounts and lost
connections are not in it. One weak fairness over all of it is enough in this instance, since each of
these steps moves something towards rest. `StoreMemos` and `Clips` state safety only.

## Proofs

`SchedProofs` proves ten theorems of `Spec`, for every finite set of keys, and any sources, contexts,
dependencies, capacities, priorities and exclusions that satisfy `SchedAssumption`:

- `TypeCorrect`: `Spec => []TypeOK`. One lemma per action. The stack is a sequence of frames, so the
  lemmas on `Loop` and on replacing the top frame carry most of the argument; that the effective
  priority is a priority needs the well-foundedness of the naturals (a least element of a
  non-empty set exists).
- `OneContext`: `Spec => []SingleContext`. The inductive fact is that every running task with a
  context has the resident one; a start outside it requires that nothing with a context runs,
  and it makes its own context resident in the same step.
- `NoRunAbandoned`: `Spec => RunningUntilReturn`. The invariant (`QuietStack`): a frame that may take
  a running task out of that state is alone on the stack and is the one `Finish` pushed; every call
  a cascade makes for a task is for one that does not run. The property alone is not inductive,
  since it says nothing of frames further down the stack.
- `NoStartForgotten` and `AlwaysWorkConserving`: `Spec => []NoForgottenStart`, `Spec => []WorkConserving`,
  both from what `Unlock` has seen to (`Dispatched`): nothing that may start is left, or the timer is
  armed. Besides `Unlock` only the dwell's end changes what may start without the lock, and a switch
  that the dwell refused has armed the timer. `Dispatched` also says so of a refused switch, without
  which the step at which the dwell ends would not keep it.
- `NothingUnwantedStays`: `Spec => []NothingUnwanted`. The property speaks of the time between two
  calls; the invariant (`WantedInv`) of every moment of a cascade: a task that nothing wants is
  running and asked to stop, or a frame somewhere on the stack will drop it or end it (`Abandoned`).
  A prepare might make such a frame obsolete, so the invariant adds that one is only ever the call
  under way, for a task that is there and not asked to stop, and that a prepare that goes on
  (`link`) is for a task still there.
- `WaitsExactlyForNeeds`: `Spec => []WaitsForSomething`. The invariant (`WaitsInv`): what needs
  something waits; a waiting task that needs nothing has a frame on the stack that will look at it
  (`Attends`); and for a prepare below other calls (`Sound`, over `Levels`: each frame with those
  above it), a need it is done with has ended, is outstanding, or is about to be told of by a
  frame above. A prepare nested in another of the same task is the hard case: when it has made the
  task ready, the outer one must not link it to anything again, which holds because both got the
  same answer from `Prepare` (`SameAnswer`) and everything in it is past.
- `NothingNeedsItself`: `Spec => []NoNeedCycle`. The invariant (`Acyclic`): for each key there is a
  set that has all the key needs, all that those need, and not the key. A new link keeps it because
  the code looked first (`reaches`) and what it found is such a set. That the search has looked
  everywhere after as many rounds as there are keys (`ReachedShut`) is a matter of cardinalities: each
  round that finds something new makes the set found larger. It is where the keys must be finite.
- `TasksKeepContract`: `Spec => KeepsContract`, and `Spec => Task(k)!Spec` for every key `k`: the
  scheduler implements `SchedTask` for each of its tasks at once. The mapping has a task gone, or
  queued again, from the call of `end` or `prepare` on; for that to be one step of the contract the call
  must be carried out next. The invariant (`CallsCurrent`) says that it is: such a frame is only ever
  the top of the stack. From `QuietStack` comes that a running task's call is `finish`'s own, from
  `WantedInv` that what is prepared is there. It covers retries, of which the instance has none.
- `PickedAreCanceled`: `Spec => PickedEndsCanceled`, if `GroupsPrepare` (see the end). The hazard is in
  the time between being picked and being cancelled, when the cascades of those picked before come
  by. The invariant (`PickedInv`): a picked task has been asked to stop or some frame will see to it; as
  long as the bulk cancel goes on no frame passes a success on, so what reaches a picked task is the
  failure of something it needs, which `notify` reports as canceled because the task is doomed; and a
  picked task without members that has nothing outstanding is about to be told of such a failure
  (`Fails`), so it is never prepared again, which might end it with an error of its own. One with
  members may be; that it does not end then is what `GroupsPrepare` is for. The code looks for a cycle
  along what is needed now, the assumption speaks of all that may be: the set that `ReachedShut` says
  is closed under the second is closed under the first (`GroupNotReached`).

`TTSWorkerProofs` proves two of `TTSWorker`, for every set of calls, restarting goroutines and
process ids that satisfies `TTSWorkerAssumption`:

- `WorkerTypeCorrect`: `Spec => []TypeOK`.
- `RestartsBetweenCalls`: `Spec => NeverMidRequest`. The inductive invariant `Gate` says that whoever
  is past the gate holds it (`HoldsGate`, so a new call cannot begin and nobody else gets past it)
  and that no call is in flight once it is drained (`GateDrained`). The property follows from the
  second, which is not inductive without the first.

`WorkerModelsProofs` proves five of `WorkerModels`, for every finite set of calls, any models under any
locks (`ModelsAssumption`):

- `ModelsTypeCorrect`: `ModelsSpec => []ModelsTypeOK`.
- `OneModelResident`: `ModelsSpec => []OneResident`. That one model is loaded is not inductive: a call that
  is about to load has unloaded under some locks and not yet under others, and each unload spares
  what is reserved. The invariant (`ModelsInv`) adds that all who hold the gate want the active kind
  and are counted (`Counted`, `Queued`), that a model is reserved by as many calls as run with it
  (`Reserved`), hence that what an eviction spares is of the active kind, and that what is left
  loaded while a call evicts is under the locks it has still to take (`Evicted`); for the LLM, the
  same on each side as long as the sides have not met (`Apart`).
- `NothingClosedInUse`: `ModelsSpec => NotClosedInUse`, from `Reserved`, and from who is in the LLM's gate
  (`LlmInv`).
- `NobodyOvertaken`: `ModelsSpec => NotOvertaken`. `Admitting` is the lemma about `admitLocked`: it
  admits a prefix of the queue, so whoever is admitted was ahead of whoever is not, and the count
  grows by as many as were admitted.
- `NoCircleOfWaits`: `ModelsSpec => []SomebodyMayGoOn`, the part of `NobodyStuck` that says it with the
  guards of the actions (`MayGoOn`); that these are when the actions are enabled is left to TLC. It
  needs that who waits is in the queue, and that the queue is empty while nobody has the gate
  (`Awaited`): then follow what each waits for, to a load, a use or a call of the LLM, which end.

`JobsTaskProofs` proves five of `JobsTask`, for every finite set of callers, any of them blocking or
dependents, and every number of attempts (`JobsTaskAssumption`):

- `TaskTypeCorrect`: `Spec => []TypeOK`, and `NobodyAnsweredTwice`: `Spec => []AnsweredOnce`. That a
  caller is answered once is not inductive: whoever answers reads the list of waiters and `settled`
  at a time of its own. The invariant (`TaskInv`) adds that a caller waits for one task
  (`JoinedOnce`); that a task settles its outcome last, when it will not be run again
  (`SettledLast`, `ToldFinal`); that the task told it ended is no longer the one under the key
  (`EndedOnce`); and that whoever has been answered waits for a task that will answer nobody any
  more (`Answered`).
- `ChapterCountsExactly`: `Spec => []CountsExactly`, by the cardinalities of the two sets the count is
  made of, each of which an action changes by at most the one caller it is about.
- `ClearIsClear`: `Spec => ClearMeansDone`, from the count: it is zero only when no task is there.
- `PassKeepsToScheduler`: `Spec => KeepsToScheduler`, the other side of `TasksKeepContract`. It needs that
  a pass comes back canceled only when it was asked to stop (`CanceledAsked`), and counts the tasks whose
  `Ended` is under way by outcome: a task that ends adds one to its outcome, one that was told leaves it.

`ClipsProofs` proves all the invariants of `Clips`, for every finite set of paragraphs and keys and every
number of attempts and upsets (`ClipsAssumption`), and without the constraint `Apart` under which
`MCClips` is checked: any number of enqueues, regenerations, edits, clears and sweeps may overlap.

- `ClipsTypeCorrect`: `Spec => []TypeOK`, with what a task and a spread have in hand (`Base`).
- `OneRenderPerClip`: `Spec => []ClaimsHeldByRenders`. Inductive given the types; `Releasing` and
  `ClaimsReleased` say what the end of one render does to every task waiting on it.
- `ClearedStaysCleared`: `Spec => []NotUndone`. A row is what an enqueue, a task past its check or a
  spread had in hand, so the invariant (`Guarded`) says the same of those. Of a task still to be checked
  it says so for the reading it has looked up, which the check will not compare: the text is made sure
  of by `Finish`, the reading only by the change having been noted in `late`.
- `ReadyHasItsFile` and `PartsOfTheFile`: `Spec => []ReadyPlays`, `Spec => []PartsMatch`, the second of
  durations, since word timings may be overwritten (`clips_words`). They are proved together: a row's
  new clip may come from another row or from an orphan, an orphan's from the last row to leave the key. What makes them inductive (`Kept`) is that what the sweep is about
  to remove has no row, is not being spread and is not offered to anybody (its orphan is too old, the
  hour of `sharedClip`) until it is written anew; and that the rows still to be given a new render
  stay on its key or become unready until then.

`StoreCacheProofs` proves three of `StoreCache`, for every set of cells, tables, calls, kinds of write,
readers and writers that satisfies `StoreAssumption` and `WriteAssumption`:

- `CacheTypeCorrect`: `CacheSpec => []CacheTypeOK`.
- `CacheStaysCurrent`: `CacheSpec => []CacheCurrent`: what the cache holds lags behind the database only
  by writes it has still to be told of. The property is about entries; what makes it inductive is
  `CallsOK` (rows loaded by a call may be remembered *if* the generation it noted still stands),
  `Indexed` (an entry is found by every table it reads, so an invalidation that leaves it was of
  other tables), `WritesOK` (two unannounced writes never hold the same version of a cell) and
  `SettledOK` (a version whose write has returned is one the cache has heard of).
- `CacheImplementsReads`: `CacheSpec => PromiseSpec`, the refinement. Each action maps to one of
  `StoreReads` or to a stutter; a hit is an `Answer` because what the cache holds is no older than
  what has settled, by the invariant above.

`StoreMemosProofs` proves five of `StoreMemos`, for every set of books, cells, tables, calls, writes and
voices, and any listeners, readers and writers, that satisfy also `ScopeAssumption` and
`MemoAssumption`: what `BookScope` and the memos' lists of tables promise of the writes, and that the
memos are among the listeners. They are proved without the constraint `Apart` and with any number of writes.

- `NarrationStaysCurrent`: `Spec => []NarrationCurrent`. A narration is made of reads at several times, by
  readers that overtake one another, so the invariant (`MemosInv`) says of each reader half way, and
  of what is kept, that *if* the generation it noted still stands (`ReadAt`), then its fingerprints
  lag only by writes the cache has still to hear of; that a chapter is never older than its
  fingerprint (`KeptOK`); and that a generation noted is not of the future (`GenNoted`), without
  which a later one could come to equal it.
- `MemosStayCurrent`: `Spec => []MemoCurrent`. The cache is told first, so a read that it answers lags only
  by writes the memo has not heard of either (`UnheardAwaited`); `MemoOpOK` says so of the read a reader
  has under way for as long as the memo's generation is the one it noted.
- `AnswersAreFresh`: `Spec => []AnswersFresh`. From the two, since a write that has returned is one that
  every listener has heard of (`SettledDone`, `MemoFreshSettled`, `ReadAtSettled`).
- `MemosUseCache`: `Spec => CacheSpec /\ PromiseSpec`. Each step is one of the cache's, or leaves it alone.
- `MemosTypeCorrect`: `Spec => []TypeOK`.

`LiveProofs` proves four of `Live`, for every finite set of topics and connections, every queue size
and any patches (`Ops` and `ApplyOps` stay unknown), from `LiveAssumption` and, for `PagesFollow`,
`DiffAssumption`: the patch made of two values turns the one into the other. `MCLive` has `LiveDiff`'s
`diff` and `applyOps` for them, and TLC checks the assumption of those.

- `ReferencesExact`: `Spec => []RefsExact`. The count is a sum of three cardinalities; the lemmas
  turn them into one number per connection (`Counts`), so that a step of one connection changes a
  topic's references by what it changes of its own (`OneMoves`) and a quiet step changes neither.
- `NoChangeForgotten`: `Spec => []NothingForgotten`. The property says that a difference between the
  database and what was last sent is marked, and that what is marked will wake the loop. It needs
  the references: the last `Release` throws the topic and its marks away, which is right only when
  nobody else refers to it. The invariant (`LiveInv`) adds that nothing is left of a topic without
  references (`Absent`), and that a subscriber that builds holds `mu` and refers to the topic
  meanwhile (`Building`).
- `PagesFollow`: `Spec => []CopyFollows`. The property is of a page whose subscription is settled; made
  inductive, it says of every open page that its queue is a trail of values (`Trail`), each patch made
  from the value before it, from what the page shows, if it shows something, to what the topic
  showed when it last wrote to this connection (`Copied`, `Copies`). To have the end of the trail be
  the topic's value again, the invariant (`PageInv`) says when a page that shows a topic has been
  subscribed: the last it asked about the topic is a subscription, and once that was answered a
  snapshot is in the queue or has arrived (`AnswersOK`); that a connection nobody has is subscribed to
  nothing (`FreeOut`), and that a topic shows something before it has subscribers (`BuildsOK`).
  `AfterIs` ties the recursive function of the property to the trail.
- `LiveTypeCorrect`: `Spec => []TypeOK`, from the two invariants.

The other properties are model-checked only: that `MayGoOn` is when a call's actions are enabled, in
`NobodyStuck` of `WorkerModels`; `CatchesUp` of `Live`; `EveryCallReturns` and `EveryRestartEnds` of
`TTSWorker`; `QueuedCallerAnswered` and `CancelChapterEnds` of `JobsTask`; and `EveryTaskEnds` of `Sched`. The first
is about ENABLED and all others are liveness under fairness: both are out of the prover's reach and
stay with TLC. So does what the recursive definitions of `LiveDiff` compute (the assumption above),
which would take an induction over documents.

## What is not modelled

- `jobs`: pause and drain beyond the scheduler's gate (`unloadAllOnceIdle`, `onSwitch`), the reader's
  window, the pipeline's phases, previews and provisioning. The first two are small loops under one
  mutex around calls the models have; the rest decides what to push.
- Of the worker process: its session pools, the aligner and the transcriber, the embedders, an LLM that
  shares VRAM, and what a model computes.
- `bookexport`: one request handler, one build task, and renames whose crash windows are listed as
  hazards.
- The slot scheduler of `src/llamacpp-go`, a library of its own with its own tests.
- Text processing, prompts and parsing (`speakerattr`, importers), signal processing, the native
  bindings, the HTTP handlers' own content, the web and Android clients beyond `live.ts`: sequential
  code, pure I/O, numeric work, or programs of their own. By far most of the repository's lines are
  of this kind, so the share of them the modules cover is small.

What would come next: the session pools of the worker, then the window and the pipeline of `jobs`.

The property `PickedEndsCanceled` holds of graphs as `jobs` builds them, not of every graph: a task with
members, picked by a bulk cancel and prepared again by the cascade before its turn, would end with
its own error if its `Prepare` failed or found that what it needs leads back to it. `GroupsPrepare` says
that neither happens: no `Prepare` in `jobs` fails (`schedtask.go:78`, `pipeline.go:216`), the only need
that is a member is a book's setting (`dependencies.go:280`), whose task needs nothing, and the
passes that have it need each other in a fixed order of kinds and of chapters (`needs` in
`enqueue.go`). It is a hypothesis of the theorem, and TLC evaluates it of the instance `sched_graph`
runs, where tasks without members do need each other in a circle and may fail to prepare.
