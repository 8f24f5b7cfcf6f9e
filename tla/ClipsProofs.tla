------------------------------ MODULE ClipsProofs ------------------------------
(* What Clips promises, for any number of paragraphs, keys, attempts and upsets.  *)
EXTENDS Clips, FiniteSetTheorems, TLAPS

Pcs == {"none", "queued", "read", "look", "claim", "wait", "render", "use", "save", "spread",
        "again", "ending"}
Rows == {Row(st) : st \in {"none", "pending", "generating", "error"}}
        \cup [st : {"ready"}, key : Key, clip : Clip \ {0}, words : Clip]
Parts == [clip : Clip \ {0}, words : Clip]
Pushes == [key : Key, fresh : BOOLEAN] \cup {None}
Tasks == [pc : Pcs, key : Key \cup {None}, fresh : BOOLEAN, clip : Clip,
          attempt : 0..(MaxAttempts - 1), again : Pushes]
Orphans == [clip : Clip, words : Clip, age : {"recent", "kept", "old"}]
Spreads == [by : Para \cup {None}, key : Key \cup {None}, clip : Clip, words : Clip, todo : SUBSET Para]
Aligns == [by : Para, clip : Clip, pc : {"own", "key"}, key : {None}]
          \cup [by : Para, clip : Clip, pc : {"others"}, key : Key]
Sweeps == [key : Key \cup {None}, gone : BOOLEAN, written : BOOLEAN]

\* TypeOK, with names for its sets.
Typed ==
  /\ says \in [Para -> Key] /\ untold \subseteq Para
  /\ row \in [Para -> Rows]
  /\ file \in [Key -> Clip]
  /\ orphan \in [Key -> Orphans]
  /\ task \in [Para -> Tasks]
  /\ rendering \in [Key -> Para \cup {None}]
  /\ spread \in Spreads
  /\ listed \in [Para -> Key \cup {None}] /\ regen \in [Para -> Key \cup {None}]
  /\ clearing \in BOOLEAN /\ sweep \in Sweeps
  /\ aligning \subseteq Aligns
  /\ left \in 0..MaxUpsets
  /\ late \subseteq Para /\ swept \subseteq Key

LEMMA TypedIsTypeOK == Typed <=> TypeOK
BY DEF Typed, TypeOK, Pcs, Rows, Pushes, Tasks, Orphans, Spreads, Sweeps, Aligns

\* A task that holds its key's claim.
Claims == {"render", "save", "spread"}

\* A task whose render or find is still to be checked.
Unchecked == {"look", "claim", "wait", "render"}

\* A task has a key, and a clip in hand exactly until it is saved.
TasksOK ==
  \A p \in Para :
    /\ task[p].pc # "none" => task[p].key \in Key
    /\ task[p].pc = "save" => task[p].clip # 0

\* An orphan that is recorded describes a render.
OrphansOK == \A k \in Key : orphan[k].clip = 0 => orphan[k] = NoOrphan

\* A spread is its task's, which waits for it.
Spreading ==
  /\ \A p \in Para : task[p].pc = "spread" <=> spread.by = p
  /\ spread = NoSpread <=> spread.by = None
  /\ spread # NoSpread =>
       spread.todo # {} /\ spread.clip # 0 /\ spread.key \in Key /\ spread.key = task[spread.by].key

\* What an enqueue, a task past its check and a spread hold may be what their
\* paragraph used to say only when it changed too late; and so may what a task that
\* is still to be checked has looked up to read it by.
Guarded ==
  /\ \A p \in Para : listed[p] \notin {None, says[p]} => p \in late
  /\ \A p \in Para : task[p].pc \in {"use", "save"} /\ task[p].key # says[p] => p \in late
  /\ \A p \in Para : task[p].pc \in Unchecked /\ task[p].key.reading # says[p].reading => p \in late
  /\ \A p \in spread.todo : spread.key # says[p] => p \in late

\* What the sweep is about to remove nobody uses and nobody is offered; what a
\* spread gives to rows is in the file, and they are on that clip or on none.
Kept ==
  /\ sweep.key # None /\ ~sweep.gone /\ ~sweep.written =>
       /\ Users(sweep.key) = {} /\ spread.key # sweep.key
       /\ orphan[sweep.key] = NoOrphan \/ orphan[sweep.key].age = "old"
  /\ spread # NoSpread => spread.key \in swept \/ file[spread.key] = spread.clip
  /\ \A p \in spread.todo : row[p].st = "ready" => row[p].key = spread.key

ClipsInv ==
  /\ Typed /\ TasksOK /\ OrphansOK /\ Spreading
  /\ ClaimsHeldByRenders
  /\ NotUndone /\ Guarded
  /\ ReadyPlays /\ PartsMatch /\ Kept
--------------------------------------------------------------------------------
(* Values.                                                                      *)

LEMMA ZeroIsClip == ASSUME ClipsAssumption PROVE 0 \in Clip
<1>1. Cardinality(Key) \in Nat /\ Cardinality(Para) \in Nat
  BY FS_CardinalityType DEF ClipsAssumption
<1> QED
  BY <1>1 DEF Clip

\* A key is its text and its reading.
LEMMA Keys ==
  ASSUME NEW k \in Key, NEW l \in Key
  PROVE  /\ k.text \in Text /\ k.reading \in Reading
         /\ k.text = l.text /\ k.reading = l.reading => k = l
         /\ \A r \in Reading : LET m == [k EXCEPT !.reading = r] IN
              m \in Key /\ m.reading = r /\ m.text = k.text
         /\ \A t \in Text : LET m == [k EXCEPT !.text = t] IN
              m \in Key /\ m.text = t /\ m.reading = k.reading
BY DEF Key

\* A row is ready exactly when it names a key, and then a clip.
LEMMA RowFields ==
  ASSUME ClipsAssumption, NEW r \in Rows
  PROVE  /\ r.key \in Key \cup {None} /\ r.clip \in Clip /\ r.words \in Clip
         /\ r.st = "ready" <=> r.key # None
         /\ r.st = "ready" <=> r.clip # 0
BY ZeroIsClip DEF Rows, Row, ClipsAssumption

LEMMA ReadyRow ==
  ASSUME NEW k \in Key, NEW c \in Parts
  PROVE  /\ On(k, c) \in Rows /\ On(k, c).st = "ready"
         /\ On(k, c).key = k /\ On(k, c).clip = c.clip
BY DEF On, Rows, Parts

LEMMA ClearedRow ==
  ASSUME NEW st \in {"none", "pending", "generating", "error"}
  PROVE  /\ Row(st) \in Rows /\ Row(st).st # "ready"
         /\ Row(st).key = None
BY DEF Row, Rows

LEMMA TaskHas ==
  ASSUME NEW t \in Tasks
  PROVE  /\ t.pc \in Pcs /\ t.key \in Key \cup {None} /\ t.fresh \in BOOLEAN
         /\ t.clip \in Clip /\ t.attempt \in 0..(MaxAttempts - 1) /\ t.again \in Pushes
BY DEF Tasks

\* What a step of p's task does to the others: it may wake those that wait.
Others(p) ==
  \A q \in Para \ {p} :
    /\ task'[q].key = task[q].key /\ task'[q].clip = task[q].clip
    /\ \/ task'[q].pc = task[q].pc
       \/ task[q].pc = "wait" /\ task'[q].pc \in {"claim", "look"}

\* Release.
LEMMA Releasing ==
  ASSUME ClipsAssumption, Typed, NEW p \in Para, NEW new \in Tasks, Release(p, new)
  PROVE  /\ task' \in [Para -> Tasks] /\ rendering' \in [Key -> Para \cup {None}]
         /\ task'[p] = new /\ Others(p)
         /\ \A k \in Key : rendering'[k] = IF rendering[k] = p THEN None ELSE rendering[k]
         /\ \A q \in Para \ {p} :
              task'[q].pc = "wait" => ~(task[q].key \in Key /\ rendering[task[q].key] = p)
<1> DEFINE done == {k \in Key : rendering[k] = p}
<1>1. \A q \in Para : task[q] \in Tasks /\ Woken(q) \in {"claim", "look"}
  BY DEF Typed, Woken
<1>2. rendering' = [k \in Key |-> IF k \in done THEN None ELSE rendering[k]]
  BY DEF Release
<1>3. task' = [q \in Para |->
         IF q = p THEN new
         ELSE IF task[q].pc = "wait" /\ task[q].key \in done
           THEN [task[q] EXCEPT !.pc = Woken(q)]
         ELSE task[q]]
  BY DEF Release
<1>4. \A q \in Para : LET t == [task[q] EXCEPT !.pc = Woken(q)] IN
        /\ t \in Tasks /\ t.pc = Woken(q)
        /\ t.key = task[q].key /\ t.clip = task[q].clip
  BY <1>1 DEF Tasks, Pcs
<1>5. rendering' \in [Key -> Para \cup {None}]
  BY <1>2 DEF Typed
<1> HIDE DEF done
<1>6. task' \in [Para -> Tasks]
  BY <1>1, <1>3, <1>4
<1>7. task'[p] = new
  BY <1>3
<1>8. Others(p)
  BY <1>1, <1>3, <1>4 DEF Others
<1>9. \A k \in Key : rendering'[k] = IF rendering[k] = p THEN None ELSE rendering[k]
  BY <1>2 DEF done
<1>10. \A q \in Para \ {p} :
         task'[q].pc = "wait" => ~(task[q].key \in Key /\ rendering[task[q].key] = p)
  BY <1>1, <1>3, <1>4 DEF done
<1> QED
  BY <1>5, <1>6, <1>7, <1>8, <1>9, <1>10

\* SetRows: a key is recorded as an orphan, with what one of its rows knew, when
\* it loses all of them.
LEMMA SettingRows ==
  ASSUME ClipsAssumption, Typed, NEW new \in [Para -> Rows], SetRows(new)
  PROVE  /\ row' = new /\ orphan' \in [Key -> Orphans]
         /\ \A k \in Key :
              \/ orphan'[k] = orphan[k] /\ (Users(k) = {} \/ \E p \in Para : new[p].key = k)
              \/ /\ \A p \in Para : new[p].key # k
                 /\ orphan'[k].clip # 0
                 /\ \E q \in Users(k) : orphan'[k].clip = row[q].clip
<1>1. row' = new
  BY DEF SetRows
<1>2. ASSUME NEW k \in Key
      PROVE  /\ orphan'[k] \in Orphans
             /\ \/ orphan'[k] = orphan[k] /\ (Users(k) = {} \/ \E p \in Para : new[p].key = k)
                \/ /\ \A p \in Para : new[p].key # k
                   /\ orphan'[k].clip # 0
                   /\ \E q \in Users(k) : orphan'[k].clip = row[q].clip
  <2>1. CASE Users(k) # {} /\ \A p \in Para : new[p].key # k
    <3>1. PICK q \in Users(k) :
            orphan'[k] = [clip |-> row[q].clip, words |-> row[q].words,
                          age |-> IF clearing' THEN "recent" ELSE "kept"]
      BY <2>1 DEF SetRows
    <3>2. row[q].clip \in Clip /\ row[q].clip # 0 /\ row[q].words \in Clip
      BY <3>1, RowFields DEF Typed, Users, ClipsAssumption
    <3> QED
      BY <2>1, <3>1, <3>2 DEF Orphans
  <2>2. CASE ~(Users(k) # {} /\ \A p \in Para : new[p].key # k)
    <3>1. orphan'[k] = orphan[k]
      BY <2>2 DEF SetRows
    <3> QED
      BY <2>2, <3>1 DEF Typed
  <2> QED
    BY <2>1, <2>2
<1>3. orphan' = [k \in Key |-> orphan'[k]]
  BY DEF SetRows
<1> QED
  BY <1>1, <1>2, <1>3

\* SetRow: the same for one paragraph.
LEMMA SettingRow ==
  ASSUME ClipsAssumption, Typed, NEW p \in Para, NEW r \in Rows, SetRow(p, r)
  PROVE  /\ row' = [row EXCEPT ![p] = r] /\ row' \in [Para -> Rows]
         /\ orphan' \in [Key -> Orphans] /\ clearing' = clearing
         /\ \A k \in Key :
              \/ orphan'[k] = orphan[k] /\ (Users(k) = {} \/ Users(k)' # {})
              \/ /\ Users(k)' = {} /\ orphan'[k].clip # 0
                 /\ \E q \in Users(k) : orphan'[k].clip = row[q].clip
<1> DEFINE new == [row EXCEPT ![p] = r]
<1>1. new \in [Para -> Rows]
  BY DEF Typed
<1>2. SetRows(new) /\ clearing' = clearing
  BY DEF SetRow
<1> HIDE DEF new
<1>3. /\ row' = new /\ orphan' \in [Key -> Orphans]
      /\ \A k \in Key :
           \/ orphan'[k] = orphan[k] /\ (Users(k) = {} \/ \E q \in Para : new[q].key = k)
           \/ /\ \A q \in Para : new[q].key # k
              /\ orphan'[k].clip # 0
              /\ \E q \in Users(k) : orphan'[k].clip = row[q].clip
  BY <1>1, <1>2, SettingRows
<1>4. \A k : Users(k)' = {q \in Para : new[q].key = k}
  BY <1>3 DEF Users
<1> QED
  BY <1>1, <1>2, <1>3, <1>4 DEF new

\* What Offer offers is the clip of a ready row, or of an orphan.
LEMMA Offered ==
  ASSUME ClipsAssumption, Typed, OrphansOK, NEW k \in Key, NEW p \in Para, NEW c \in Offer(k, p)
  PROVE  /\ file[k] # 0 /\ c \in Parts
         /\ \/ \E q \in Users(k) \ {p} : c = Part(row[q]) /\ row[q].st = "ready"
            \/ /\ Users(k) = {} /\ c = Part(orphan[k])
               /\ orphan[k] # NoOrphan /\ orphan[k].age # "old"
<1>1. file[k] # 0
  BY DEF Offer
<1>2. CASE \E q \in Users(k) \ {p} : c = Part(row[q])
  <2>1. PICK q \in Users(k) \ {p} : c = Part(row[q])
    BY <1>2
  <2>2. row[q] \in Rows /\ row[q].key = k /\ k # None
    BY DEF Typed, Users, ClipsAssumption
  <2> QED
    BY <1>1, <2>1, <2>2, RowFields DEF Part, Parts
<1>3. CASE /\ Users(k) = {} /\ c = Part(orphan[k])
           /\ orphan[k] # NoOrphan /\ orphan[k].age # "old"
  <2>1. orphan[k] \in Orphans
    BY DEF Typed
  <2> QED
    BY <1>1, <1>3, <2>1 DEF Orphans, OrphansOK, Part, Parts
<1> QED
  BY <1>1, <1>2, <1>3 DEF Offer

LEMMA OrphansKept ==
  ASSUME ClipsAssumption, Typed, OrphansOK, NEW p \in Para, NEW r \in Rows, SetRow(p, r)
  PROVE  OrphansOK'
BY SettingRow DEF OrphansOK

LEMMA SpreadingKept ==
  ASSUME ClipsAssumption, Typed, Spreading, UNCHANGED spread,
         \A p \in Para : task'[p].pc = "spread" <=> task[p].pc = "spread",
         \A p \in Para : task[p].pc = "spread" => task'[p].key = task[p].key
  PROVE  Spreading'
BY DEF Spreading, Typed, Spreads

\* A task moves on, alone: to another pc, or to what is pushed.
LEMMA TaskSet ==
  ASSUME Typed, NEW p \in Para, NEW t \in Tasks, task' = [task EXCEPT ![p] = t]
  PROVE  task' \in [Para -> Tasks] /\ task'[p] = t /\ \A q \in Para \ {p} : task'[q] = task[q]
BY DEF Typed

LEMMA Going ==
  ASSUME ClipsAssumption, Typed, NEW p \in Para, NEW pc \in Pcs, Go(p, pc)
  PROVE  /\ task' \in [Para -> Tasks]
         /\ task'[p].pc = pc /\ task'[p].key = task[p].key /\ task'[p].clip = task[p].clip
         /\ \A q \in Para \ {p} : task'[q] = task[q]
<1> DEFINE t == [task[p] EXCEPT !.pc = pc]
<1>1. task[p] \in Tasks
  BY DEF Typed
<1>2. t \in Tasks /\ t.pc = pc /\ t.key = task[p].key /\ t.clip = task[p].clip
  BY <1>1 DEF Tasks
<1>3. task' = [task EXCEPT ![p] = t]
  BY DEF Go
<1> HIDE DEF t
<1> QED
  BY <1>2, <1>3, TaskSet

LEMMA LookingUp ==
  ASSUME ClipsAssumption, Typed, NEW p \in Para, task[p].key \in Key, Read(p)
  PROVE  /\ task' \in [Para -> Tasks]
         /\ task'[p].pc = Woken(p) /\ task'[p].key \in Key
         /\ task'[p].key.reading = says[p].reading
         /\ \A q \in Para \ {p} : task'[q] = task[q]
<1> DEFINE k == [task[p].key EXCEPT !.reading = says[p].reading]
           t == [[task[p] EXCEPT !.pc = Woken(p)] EXCEPT !.key = k]
<1>1. task[p] \in Tasks /\ says[p] \in Key /\ Woken(p) \in Pcs
  BY DEF Typed, Woken, Pcs
<1>2. k \in Key /\ k.reading = says[p].reading
  BY <1>1, Keys
<1>3. task' = [task EXCEPT ![p] = t]
  BY <1>1 DEF Read, Typed, Tasks
<1> HIDE DEF k
<1>4. t \in Tasks /\ t.pc = Woken(p) /\ t.key = k
  BY <1>1, <1>2 DEF Tasks
<1> HIDE DEF t
<1> QED
  BY <1>2, <1>3, <1>4, TaskSet

LEMMA Joining ==
  ASSUME ClipsAssumption, Typed, NEW p \in Para, NEW k \in Key, NEW f \in BOOLEAN, Join(p, k, f)
  PROVE  /\ task' \in [Para -> Tasks]
         /\ \A q \in Para \ {p} : task'[q] = task[q]
         /\ \/ task[p].pc = "none" /\ task'[p].pc = "queued" /\ task'[p].key = k
            \/ /\ task[p].pc # "none" /\ task'[p].pc = task[p].pc
               /\ task'[p].key = task[p].key /\ task'[p].clip = task[p].clip
<1>1. task[p] \in Tasks /\ Push(k, f) \in Pushes /\ "queued" \in Pcs
  BY DEF Typed, Push, Pushes, Pcs
<1>2. CASE task[p].pc = "none"
  <2> DEFINE t == [NoTask EXCEPT !.pc = "queued", !.key = k, !.fresh = f]
  <2>1. 0 \in Clip /\ 0 \in 0..(MaxAttempts - 1)
    BY ZeroIsClip DEF ClipsAssumption
  <2>2. t \in Tasks
    BY <1>1, <2>1 DEF NoTask, Tasks, Pushes
  <2>3. t.pc = "queued" /\ t.key = k
    BY DEF NoTask
  <2>4. task' = [task EXCEPT ![p] = t]
    BY <1>2 DEF Join
  <2> HIDE DEF t
  <2> QED
    BY <1>2, <2>2, <2>3, <2>4, TaskSet
<1>3. CASE task[p].pc # "none" /\ Running(p)
  <2> DEFINE t == [task[p] EXCEPT !.again = Push(k, f)]
  <2>1. t \in Tasks /\ t.pc = task[p].pc /\ t.key = task[p].key /\ t.clip = task[p].clip
    BY <1>1 DEF Tasks
  <2>2. task' = [task EXCEPT ![p] = t]
    BY <1>3 DEF Join
  <2> HIDE DEF t
  <2> QED
    BY <1>3, <2>1, <2>2, TaskSet
<1>4. CASE task[p].pc # "none" /\ ~Running(p)
  <2> DEFINE t == [task[p] EXCEPT !.fresh = task[p].fresh \/ f]
  <2>1. t \in Tasks /\ t.pc = task[p].pc /\ t.key = task[p].key /\ t.clip = task[p].clip
    BY <1>1 DEF Tasks
  <2>2. task' = [task EXCEPT ![p] = t]
    BY <1>4 DEF Join
  <2> HIDE DEF t
  <2> QED
    BY <1>4, <2>1, <2>2, TaskSet
<1> QED
  BY <1>2, <1>3, <1>4

LEMMA Finishing ==
  ASSUME ClipsAssumption, Typed, NEW p \in Para, NEW new \in Tasks, Finish(p, new)
  PROVE  /\ task' \in [Para -> Tasks] /\ rendering' \in [Key -> Para \cup {None}]
         /\ Others(p)
         /\ \/ /\ says[p].text = task[p].key.text /\ task'[p] = new /\ UNCHANGED rendering
               /\ \A q \in Para \ {p} : task'[q] = task[q]
            \/ /\ task'[p].pc = "queued" /\ task'[p].key = says[p]
               /\ Release(p, [Yielded(p) EXCEPT !.key = says[p]])
<1>1. task[p] \in Tasks /\ says[p] \in Key
  BY DEF Typed
<1>2. CASE says[p].text = task[p].key.text
  <2>1. task' = [task EXCEPT ![p] = new] /\ UNCHANGED rendering
    BY <1>2 DEF Finish
  <2> QED
    BY <1>2, <2>1, TaskSet DEF Others, Typed
<1>3. CASE says[p].text # task[p].key.text
  <2> DEFINE t == [Yielded(p) EXCEPT !.key = says[p]]
  <2>1. t \in Tasks /\ t.pc = "queued" /\ t.key = says[p]
    BY <1>1 DEF Yielded, Tasks, Pcs
  <2>2. Release(p, t)
    BY <1>3 DEF Finish
  <2> HIDE DEF t
  <2>3. /\ task' \in [Para -> Tasks] /\ rendering' \in [Key -> Para \cup {None}]
        /\ task'[p] = t /\ Others(p)
    BY <2>1, <2>2, Releasing
  <2> QED
    BY <2>1, <2>2, <2>3 DEF t
<1> QED
  BY <1>2, <1>3
--------------------------------------------------------------------------------
(* Types, and what a task and its spread have in hand.                          *)

Base == Typed /\ TasksOK /\ OrphansOK /\ Spreading

\* What the tasks' step has to show for Base.
TasksMove ==
  /\ task' \in [Para -> Tasks]
  /\ \A q \in Para : task'[q].pc # "none" => task'[q].key \in Key
  /\ \A q \in Para : task'[q].pc = "save" => task'[q].clip # 0
  /\ \A q \in Para : task'[q].pc = "spread" <=> task[q].pc = "spread"
  /\ \A q \in Para : task[q].pc = "spread" => task'[q].key = task[q].key

\* And one that changes p's task alone, or wakes others.
LEMMA OneMoves ==
  ASSUME Base, NEW p \in Para, Others(p), task' \in [Para -> Tasks],
         task'[p].pc # "none" => task'[p].key \in Key,
         task'[p].pc = "save" => task'[p].clip # 0,
         task'[p].pc # "spread", task[p].pc # "spread"
  PROVE  TasksMove
BY DEF TasksMove, Others, Base, TasksOK

LEMMA BaseKept ==
  ASSUME ClipsAssumption, Base, TasksMove, UNCHANGED spread, OrphansOK', Typed'
  PROVE  Base'
BY SpreadingKept DEF Base, TasksMove, TasksOK

LEMMA StillOthers ==
  ASSUME NEW p \in Para, \A q \in Para \ {p} : task'[q] = task[q]
  PROVE  Others(p)
BY DEF Others

\* Resolve asks for the clip of a key.
LEMMA ResolvedKey ==
  ASSUME Typed, NEW p \in Para, listed[p] # None, NEW r \in {listed[p].reading, says[p].reading}
  PROVE  [listed[p] EXCEPT !.reading = r] \in Key
<1>1. listed[p] \in Key /\ says[p] \in Key
  BY DEF Typed
<1> QED
  BY <1>1, Keys

\* What asks for renders.
LEMMA AsksBase ==
  ASSUME ClipsAssumption, Base, NEW p \in Para,
         List(p) \/ Resolve(p) \/ Enqueue(p) \/ Regenerate(p) \/ PushRegenerate(p)
  PROVE  Base'
<1> USE DEF store, asks, upkeep
<1>1. CASE List(p)
  BY <1>1 DEF List, Base, Typed, TasksOK, OrphansOK, Spreading
<1>2. CASE Resolve(p)
  <2>1. CASE UNCHANGED <<row, orphan, clearing>>
    BY <1>2, <2>1 DEF Resolve, Base, Typed, TasksOK, OrphansOK, Spreading
  <2>2. ASSUME NEW k \in Key, NEW c \in Offer(k, p), SetRow(p, On(k, c))
        PROVE  Base'
    <3>1. On(k, c) \in Rows
      BY <2>2, Offered, ReadyRow DEF Base
    <3>2. row' \in [Para -> Rows] /\ orphan' \in [Key -> Orphans] /\ clearing' = clearing
      BY <2>2, <3>1, SettingRow DEF Base
    <3>3. OrphansOK'
      BY <2>2, <3>1, OrphansKept DEF Base
    <3> QED
      BY <1>2, <3>2, <3>3 DEF Resolve, Base, Typed, TasksOK, Spreading
  <2> QED
    BY <1>2, <2>1, <2>2, ResolvedKey DEF Resolve, Base
<1>3. CASE Enqueue(p)
  <2>1. listed[p] \in Key
    BY <1>3 DEF Enqueue, Base, Typed
  <2>2. /\ task' \in [Para -> Tasks] /\ Others(p)
        /\ \/ task[p].pc = "none" /\ task'[p].pc = "queued" /\ task'[p].key = listed[p]
           \/ /\ task[p].pc # "none" /\ task'[p].pc = task[p].pc
              /\ task'[p].key = task[p].key /\ task'[p].clip = task[p].clip
    BY <1>3, <2>1, Joining, StillOthers DEF Enqueue, Base
  <2>3. TasksMove
    BY <2>1, <2>2 DEF TasksMove, Others, Base, TasksOK
  <2>4. Typed' /\ OrphansOK' /\ UNCHANGED spread
    BY <1>3, <2>2 DEF Enqueue, Base, Typed, OrphansOK
  <2> QED
    BY <2>3, <2>4, BaseKept
<1>4. CASE Regenerate(p)
  <2>1. Row("pending") \in Rows /\ says[p] \in Key
    BY ClearedRow DEF Base, Typed
  <2>2. row' \in [Para -> Rows] /\ orphan' \in [Key -> Orphans] /\ clearing' = clearing
    BY <1>4, <2>1, SettingRow DEF Regenerate, Base
  <2>3. OrphansOK'
    BY <1>4, <2>1, OrphansKept DEF Regenerate, Base
  <2>4. left' \in 0..MaxUpsets
    BY <1>4 DEF Regenerate, Base, Typed
  <2> QED
    BY <1>4, <2>1, <2>2, <2>3, <2>4 DEF Regenerate, Base, Typed, TasksOK, Spreading
<1>5. CASE PushRegenerate(p)
  <2>1. regen[p] \in Key
    BY <1>5 DEF PushRegenerate, Base, Typed
  <2>2. /\ task' \in [Para -> Tasks] /\ Others(p)
        /\ \/ task[p].pc = "none" /\ task'[p].pc = "queued" /\ task'[p].key = regen[p]
           \/ /\ task[p].pc # "none" /\ task'[p].pc = task[p].pc
              /\ task'[p].key = task[p].key /\ task'[p].clip = task[p].clip
    BY <1>5, <2>1, Joining, StillOthers DEF PushRegenerate, Base
  <2>3. TasksMove
    BY <2>1, <2>2 DEF TasksMove, Others, Base, TasksOK
  <2>4. Typed' /\ OrphansOK' /\ UNCHANGED spread
    BY <1>5, <2>2 DEF PushRegenerate, Base, Typed, OrphansOK
  <2> QED
    BY <2>3, <2>4, BaseKept
<1> QED
  BY <1>1, <1>2, <1>3, <1>4, <1>5

\* What clears audio.
LEMMA ClearsBase ==
  ASSUME ClipsAssumption, Base,
         \/ \E p \in Para : Invalidate(p) \/ \E k \in Key : Change(p, k)
         \/ \E ps \in SUBSET Para : ClearRows(ps)
         \/ Discard \/ SweepRemove \/ SweepForget \/ \E k \in Key : SweepLook(k)
  PROVE  Base'
<1> USE DEF store, asks, upkeep
<1>1. ASSUME NEW p \in Para, Invalidate(p) PROVE Base'
  <2>1. NoRow \in Rows
    BY ClearedRow DEF NoRow
  <2>2. row' \in [Para -> Rows] /\ orphan' \in [Key -> Orphans] /\ clearing' = clearing
    BY <1>1, <2>1, SettingRow DEF Invalidate, Base
  <2>3. OrphansOK'
    BY <1>1, <2>1, OrphansKept DEF Invalidate, Base
  <2> QED
    BY <1>1, <2>2, <2>3 DEF Invalidate, Base, Typed, TasksOK, Spreading
<1>2. ASSUME NEW p \in Para, NEW k \in Key, Change(p, k) PROVE Base'
  <2>1. left' \in 0..MaxUpsets /\ late' \subseteq Para /\ says' \in [Para -> Key]
    BY <1>2 DEF Change, Base, Typed
  <2> QED
    BY <1>2, <2>1 DEF Change, Base, Typed, TasksOK, OrphansOK, Spreading
<1>3. ASSUME NEW ps \in SUBSET Para, ClearRows(ps) PROVE Base'
  <2> DEFINE new == [p \in Para |-> IF p \in ps THEN NoRow ELSE row[p]]
  <2>1. new \in [Para -> Rows]
    BY ClearedRow DEF NoRow, Base, Typed
  <2>2. SetRows(new)
    BY <1>3 DEF ClearRows
  <2> HIDE DEF new
  <2>3. row' \in [Para -> Rows] /\ orphan' \in [Key -> Orphans] /\ OrphansOK'
    BY <2>1, <2>2, SettingRows DEF Base, OrphansOK
  <2>4. left' \in 0..MaxUpsets
    BY <1>3 DEF ClearRows, Base, Typed
  <2> QED
    BY <1>3, <2>3, <2>4 DEF ClearRows, Base, Typed, TasksOK, Spreading
<1>4. CASE Discard
  <2>1. NoOrphan \in Orphans /\ 0 \in Clip
    BY ZeroIsClip DEF NoOrphan, Orphans
  <2>2. file' \in [Key -> Clip] /\ orphan' \in [Key -> Orphans] /\ OrphansOK'
    BY <1>4, <2>1 DEF Discard, Base, Typed, OrphansOK
  <2> QED
    BY <1>4, <2>2 DEF Discard, Base, Typed, TasksOK, Spreading
<1>5. CASE SweepRemove
  <2>1. file' \in [Key -> Clip] /\ sweep' \in Sweeps /\ swept' \subseteq Key
    BY <1>5, ZeroIsClip DEF SweepRemove, Base, Typed, Sweeps
  <2> QED
    BY <1>5, <2>1 DEF SweepRemove, Base, Typed, TasksOK, OrphansOK, Spreading
<1>6. CASE SweepForget
  <2>1. NoOrphan \in Orphans /\ NoSweep \in Sweeps
    BY ZeroIsClip DEF NoOrphan, Orphans, NoSweep, Sweeps
  <2>2. orphan' \in [Key -> Orphans] /\ OrphansOK'
    BY <1>6, <2>1 DEF SweepForget, Base, Typed, OrphansOK
  <2> QED
    BY <1>6, <2>1, <2>2 DEF SweepForget, Base, Typed, TasksOK, Spreading
<1>7. ASSUME NEW k \in Key, SweepLook(k) PROVE Base'
  <2>1. [NoSweep EXCEPT !.key = k] \in Sweeps
    BY DEF NoSweep, Sweeps
  <2>2. orphan[k] # NoOrphan =>
          [orphan[k] EXCEPT !.age = "old"] \in Orphans
          /\ [orphan[k] EXCEPT !.age = "old"].clip = orphan[k].clip
    BY DEF Base, Typed, Orphans
  <2>3. orphan' = IF orphan[k] = NoOrphan THEN orphan
                  ELSE [orphan EXCEPT ![k] = [orphan[k] EXCEPT !.age = "old"]]
    BY <1>7 DEF SweepLook
  <2>4. orphan' \in [Key -> Orphans] /\ OrphansOK'
    BY <2>2, <2>3 DEF Base, Typed, OrphansOK
  <2>5. left' \in 0..MaxUpsets
    BY <1>7 DEF SweepLook, Base, Typed
  <2> QED
    BY <1>7, <2>1, <2>4, <2>5 DEF SweepLook, Base, Typed, TasksOK, Spreading
<1> QED
  BY <1>1, <1>2, <1>3, <1>4, <1>5, <1>6, <1>7

\* A render task's own steps.
LEMMA TaskBase ==
  ASSUME ClipsAssumption, Base, NEW p \in Para,
         \/ Start(p) \/ Read(p) \/ Look(p) \/ Claim(p) \/ Rendered(p) \/ FailForNow(p)
         \/ FailForGood(p) \/ Use(p) \/ Reuse(p) \/ RunAgain(p) \/ End(p)
  PROVE  Base'
<1> USE DEF store, asks, upkeep
<1>1. /\ task[p] \in Tasks /\ Woken(p) \in {"claim", "look"} /\ says[p] \in Key
      /\ task[p].pc # "none" => task[p].key \in Key
      /\ 0 \in Clip /\ {"read", "claim", "look", "queued", "ending", "use", "again", "save", "render",
                        "wait"} \subseteq Pcs
  BY ZeroIsClip DEF Base, Typed, Woken, TasksOK, Pcs
<1>2. CASE Start(p)
  <2>1. Row("generating") \in Rows
    BY ClearedRow
  <2>2. row' \in [Para -> Rows] /\ orphan' \in [Key -> Orphans] /\ clearing' = clearing
    BY <1>2, <2>1, SettingRow DEF Start, Base
  <2>3. OrphansOK'
    BY <1>2, <2>1, OrphansKept DEF Start, Base
  <2>4. /\ task' \in [Para -> Tasks] /\ task'[p].pc = "read" /\ task'[p].key = task[p].key
        /\ Others(p)
    BY <1>1, <1>2, Going, StillOthers DEF Start, Base
  <2>5. TasksMove
    BY <1>1, <1>2, <2>4, OneMoves DEF Start
  <2>6. Typed' /\ UNCHANGED spread
    BY <1>2, <2>2, <2>4 DEF Start, Base, Typed
  <2> QED
    BY <2>3, <2>5, <2>6, BaseKept
<1>2a. CASE Read(p)
  <2>1. task' \in [Para -> Tasks] /\ task'[p].pc = Woken(p) /\ task'[p].key \in Key /\ Others(p)
    BY <1>1, <1>2a, LookingUp, StillOthers DEF Read, Base
  <2>2. TasksMove
    BY <1>1, <1>2a, <2>1, OneMoves DEF Read
  <2>3. Typed' /\ OrphansOK' /\ UNCHANGED spread
    BY <1>2a, <2>1 DEF Read, Base, Typed, OrphansOK
  <2> QED
    BY <2>2, <2>3, BaseKept
<1>3. CASE Look(p)
  <2>1. CASE Finish(p, [task[p] EXCEPT !.pc = "use"])
    <3> DEFINE t == [task[p] EXCEPT !.pc = "use"]
    <3>1. t \in Tasks /\ t.pc = "use" /\ t.key = task[p].key
      BY <1>1 DEF Tasks
    <3> HIDE DEF t
    <3>2. /\ task' \in [Para -> Tasks] /\ rendering' \in [Key -> Para \cup {None}]
          /\ Others(p)
          /\ task'[p] = t \/ (task'[p].pc = "queued" /\ task'[p].key = says[p])
      BY <2>1, <3>1, Finishing DEF t, Base
    <3>3. TasksMove
      BY <1>1, <1>3, <3>1, <3>2, OneMoves DEF Look
    <3>4. Typed' /\ OrphansOK' /\ UNCHANGED spread
      BY <1>3, <3>2 DEF Look, Base, Typed, OrphansOK
    <3> QED
      BY <3>3, <3>4, BaseKept
  <2>2. CASE Go(p, "claim") /\ UNCHANGED rendering
    <3>1. /\ task' \in [Para -> Tasks] /\ task'[p].pc = "claim" /\ task'[p].key = task[p].key
          /\ Others(p)
      BY <1>1, <2>2, Going, StillOthers DEF Base
    <3>2. TasksMove
      BY <1>1, <1>3, <3>1, OneMoves DEF Look
    <3>3. Typed' /\ OrphansOK' /\ UNCHANGED spread
      BY <1>3, <2>2, <3>1 DEF Look, Base, Typed, OrphansOK
    <3> QED
      BY <3>2, <3>3, BaseKept
  <2> QED
    BY <1>3, <2>1, <2>2 DEF Look
<1>4. CASE Claim(p)
  <2>1. PICK pc \in {"render", "wait"} : Go(p, pc)
    BY <1>4 DEF Claim
  <2>2. /\ task' \in [Para -> Tasks] /\ task'[p].pc = pc /\ task'[p].key = task[p].key
        /\ Others(p)
    BY <1>1, <2>1, Going, StillOthers DEF Base
  <2>3. rendering' \in [Key -> Para \cup {None}]
    BY <1>4 DEF Claim, Base, Typed
  <2>4. TasksMove
    BY <1>1, <1>4, <2>2, OneMoves DEF Claim
  <2>5. Typed' /\ OrphansOK' /\ UNCHANGED spread
    BY <1>4, <2>2, <2>3 DEF Claim, Base, Typed, OrphansOK
  <2> QED
    BY <2>4, <2>5, BaseKept
<1>5. CASE Rendered(p)
  <2>1. PICK c \in Clip \ {0} : Finish(p, [task[p] EXCEPT !.pc = "save", !.clip = c])
    BY <1>5 DEF Rendered
  <2> DEFINE t == [task[p] EXCEPT !.pc = "save", !.clip = c]
  <2>2. t \in Tasks /\ t.pc = "save" /\ t.key = task[p].key /\ t.clip = c
    BY <1>1 DEF Tasks
  <2> HIDE DEF t
  <2>3. /\ task' \in [Para -> Tasks] /\ rendering' \in [Key -> Para \cup {None}]
        /\ Others(p)
        /\ task'[p] = t \/ (task'[p].pc = "queued" /\ task'[p].key = says[p])
    BY <2>1, <2>2, Finishing DEF t, Base
  <2>4. TasksMove
    BY <1>1, <1>5, <2>2, <2>3, OneMoves DEF Rendered
  <2>5. Typed' /\ OrphansOK' /\ UNCHANGED spread
    BY <1>5, <2>3 DEF Rendered, Base, Typed, OrphansOK
  <2> QED
    BY <2>4, <2>5, BaseKept
<1>6. CASE FailForNow(p)
  <2> DEFINE t == [Yielded(p) EXCEPT !.attempt = Yielded(p).attempt + 1]
  <2>1. task[p].attempt + 1 \in 0..(MaxAttempts - 1)
    BY <1>1, <1>6, TaskHas DEF FailForNow, ClipsAssumption
  <2>2. t \in Tasks /\ t.pc = "queued" /\ t.key = task[p].key
    BY <1>1, <2>1 DEF Tasks, Yielded
  <2>3. Release(p, t) /\ left' \in 0..MaxUpsets
    BY <1>6 DEF FailForNow, Base, Typed
  <2> HIDE DEF t
  <2>4. /\ task' \in [Para -> Tasks] /\ rendering' \in [Key -> Para \cup {None}]
        /\ task'[p] = t /\ Others(p)
    BY <2>2, <2>3, Releasing DEF Base
  <2>5. TasksMove
    BY <1>1, <1>6, <2>2, <2>4, OneMoves DEF FailForNow
  <2>6. Typed' /\ OrphansOK' /\ UNCHANGED spread
    BY <1>6, <2>3, <2>4 DEF FailForNow, Base, Typed, OrphansOK
  <2> QED
    BY <2>5, <2>6, BaseKept
<1>7. CASE FailForGood(p)
  <2> DEFINE t == [task[p] EXCEPT !.pc = "ending"]
  <2>1. t \in Tasks /\ t.pc = "ending" /\ t.key = task[p].key
    BY <1>1 DEF Tasks
  <2>2. Release(p, t) /\ left' \in 0..MaxUpsets
    BY <1>7 DEF FailForGood, Base, Typed
  <2> HIDE DEF t
  <2>3. /\ task' \in [Para -> Tasks] /\ rendering' \in [Key -> Para \cup {None}]
        /\ task'[p] = t /\ Others(p)
    BY <2>1, <2>2, Releasing DEF Base
  <2>4. Row("error") \in Rows
    BY ClearedRow
  <2>5. row' \in [Para -> Rows] /\ orphan' \in [Key -> Orphans] /\ clearing' = clearing
    BY <1>7, <2>4, SettingRow DEF FailForGood, Base
  <2>6. OrphansOK'
    BY <1>7, <2>4, OrphansKept DEF FailForGood, Base
  <2>7. TasksMove
    BY <1>1, <1>7, <2>1, <2>3, OneMoves DEF FailForGood
  <2>8. Typed' /\ UNCHANGED spread
    BY <1>7, <2>2, <2>3, <2>5 DEF FailForGood, Base, Typed
  <2> QED
    BY <2>6, <2>7, <2>8, BaseKept
<1>8. CASE Use(p)
  <2>1. /\ task' \in [Para -> Tasks] /\ task'[p].pc \in {"again", "queued"}
        /\ task'[p].key = task[p].key /\ Others(p)
    <3>1. CASE Go(p, "again")
      BY <1>1, <3>1, Going, StillOthers DEF Base
    <3>2. CASE task' = [task EXCEPT ![p] = Yielded(p)]
      <4>1. Yielded(p) \in Tasks /\ Yielded(p).pc = "queued" /\ Yielded(p).key = task[p].key
        BY <1>1 DEF Yielded, Tasks
      <4> QED
        BY <3>2, <4>1, TaskSet, StillOthers DEF Base
    <3> QED
      BY <1>8, <3>1, <3>2 DEF Use
  <2>2. TasksMove
    BY <1>1, <1>8, <2>1, OneMoves DEF Use
  <2>3. row' \in [Para -> Rows] /\ orphan' \in [Key -> Orphans] /\ clearing' \in BOOLEAN /\ OrphansOK'
    <3>1. CASE UNCHANGED <<row, orphan, clearing>>
      BY <3>1 DEF Base, Typed, OrphansOK
    <3>2. ASSUME NEW c \in Offer(task[p].key, p), SetRow(p, On(task[p].key, c))
          PROVE  /\ row' \in [Para -> Rows] /\ orphan' \in [Key -> Orphans]
                 /\ clearing' \in BOOLEAN /\ OrphansOK'
      <4>1. On(task[p].key, c) \in Rows
        BY <1>1, <1>8, <3>2, Offered, ReadyRow DEF Use, Base
      <4> QED
        BY <3>2, <4>1, SettingRow, OrphansKept DEF Base, Typed
    <3> QED
      BY <1>8, <3>1, <3>2 DEF Use
  <2>4. Typed' /\ UNCHANGED spread
    BY <1>8, <2>1, <2>3 DEF Use, Base, Typed
  <2> QED
    BY <2>2, <2>3, <2>4, BaseKept
<1>9. CASE Reuse(p)
  <2>1. Done(p) \in Tasks /\ Done(p).pc = "again" /\ Done(p).key = task[p].key
    BY <1>1 DEF Done, Tasks
  <2>2. /\ task' \in [Para -> Tasks] /\ rendering' \in [Key -> Para \cup {None}]
        /\ task'[p] = Done(p) /\ Others(p)
    BY <1>9, <2>1, Releasing DEF Reuse, Base
  <2>3. PICK c \in Offer(task[p].key, p) : SetRow(p, On(task[p].key, c))
    BY <1>9 DEF Reuse
  <2>4. On(task[p].key, c) \in Rows
    BY <1>1, <1>9, <2>3, Offered, ReadyRow DEF Reuse, Base
  <2>5. row' \in [Para -> Rows] /\ orphan' \in [Key -> Orphans] /\ clearing' = clearing
    BY <2>3, <2>4, SettingRow DEF Base
  <2>6. OrphansOK'
    BY <2>3, <2>4, OrphansKept DEF Base
  <2>7. TasksMove
    BY <1>1, <1>9, <2>1, <2>2, OneMoves DEF Reuse
  <2>8. Typed' /\ UNCHANGED spread
    BY <1>9, <2>2, <2>5 DEF Reuse, Base, Typed
  <2> QED
    BY <2>6, <2>7, <2>8, BaseKept
<1>10. CASE RunAgain(p)
  <2> DEFINE n == task[p].again
             t == IF n # None /\ (n.fresh \/ row[p].st # "ready")
                    THEN [NoTask EXCEPT !.pc = "queued", !.key = n.key, !.fresh = n.fresh,
                                        !.attempt = task[p].attempt]
                    ELSE [task[p] EXCEPT !.pc = "ending", !.again = None]
  <2>1. task' = [task EXCEPT ![p] = t]
    BY <1>10 DEF RunAgain
  <2>2. t \in Tasks /\ t.pc \in {"queued", "ending"} /\ (t.pc # "none" => t.key \in Key)
    <3>1. CASE n # None /\ (n.fresh \/ row[p].st # "ready")
      <4>1. n \in [key : Key, fresh : BOOLEAN] /\ task[p].attempt \in 0..(MaxAttempts - 1)
        BY <1>1, <3>1, TaskHas DEF Pushes
      <4>2. n.key \in Key /\ n.fresh \in BOOLEAN
        BY <4>1
      <4> DEFINE u == [NoTask EXCEPT !.pc = "queued", !.key = n.key, !.fresh = n.fresh,
                                     !.attempt = task[p].attempt]
      <4>3. u \in Tasks
        BY <1>1, <4>1, <4>2 DEF NoTask, Tasks, Pushes
      <4>4. u.pc = "queued" /\ u.key = n.key
        BY DEF NoTask
      <4>5. t = u
        BY <3>1
      <4> QED
        BY <4>2, <4>3, <4>4, <4>5
    <3>2. CASE ~(n # None /\ (n.fresh \/ row[p].st # "ready"))
      <4> DEFINE u == [task[p] EXCEPT !.pc = "ending", !.again = None]
      <4>1. u \in Tasks /\ u.pc = "ending" /\ u.key = task[p].key
        BY <1>1 DEF Tasks, Pushes
      <4>2. t = u
        BY <3>2
      <4> QED
        BY <1>1, <1>10, <4>1, <4>2 DEF RunAgain
    <3> QED
      BY <3>1, <3>2
  <2> HIDE DEF t
  <2>3. task' \in [Para -> Tasks] /\ task'[p] = t /\ Others(p)
    BY <2>1, <2>2, TaskSet, StillOthers DEF Base
  <2>4. TasksMove
    BY <1>1, <1>10, <2>2, <2>3, OneMoves DEF RunAgain
  <2>5. Typed' /\ OrphansOK' /\ UNCHANGED spread
    BY <1>10, <2>3 DEF RunAgain, Base, Typed, OrphansOK
  <2> QED
    BY <2>4, <2>5, BaseKept
<1>11. CASE End(p)
  <2>1. NoTask \in Tasks /\ NoTask.pc = "none"
    BY ZeroIsClip DEF NoTask, Tasks, Pcs, Pushes, ClipsAssumption
  <2>2. task' \in [Para -> Tasks] /\ task'[p] = NoTask /\ Others(p)
    BY <1>11, <2>1, TaskSet, StillOthers DEF End, Base
  <2>3. TasksMove
    BY <1>1, <1>11, <2>1, <2>2, OneMoves DEF End
  <2>4. Typed' /\ OrphansOK' /\ UNCHANGED spread
    BY <1>11, <2>2 DEF End, Base, Typed, OrphansOK
  <2> QED
    BY <2>3, <2>4, BaseKept
<1> QED
  BY <1>2, <1>2a, <1>3, <1>4, <1>5, <1>6, <1>7, <1>8, <1>9, <1>10, <1>11

\* A spread begins when there is none; it ends with its task's release.
LEMMA SpreadBase ==
  ASSUME ClipsAssumption, Base, NEW p \in Para, Save(p) \/ SpreadTo(p)
  PROVE  Base'
<1> USE DEF store, asks, upkeep
<1>1. \A q \in Para :
        /\ task[q] \in Tasks /\ (task[q].pc # "none" => task[q].key \in Key)
        /\ Done(q) \in Tasks /\ Done(q).pc = "again" /\ Done(q).key = task[q].key
  <2>1. \A q \in Para : task[q] \in Tasks
    BY DEF Base, Typed
  <2> QED
    BY <2>1, ZeroIsClip DEF Base, TasksOK, Done, Tasks, Pcs
<1>2. None \notin Para
  BY DEF ClipsAssumption
<1>3. CASE Save(p)
  <2> DEFINE k == task[p].key
             c == task[p].clip
             others == Users(k) \ {p}
  <2>1. k \in Key /\ c \in Clip \ {0} /\ spread = NoSpread /\ task[p].pc = "save"
    BY <1>1, <1>3, TaskHas DEF Save, MuFree, Base, TasksOK
  <2>2. PICK w \in WordsOf(c) :
          /\ SetRow(p, On(k, [clip |-> c, words |-> w]))
          /\ \/ /\ task[p].fresh /\ others # {}
                /\ spread' = [by |-> p, key |-> k, clip |-> c, words |-> w, todo |-> others]
                /\ late' = late \cup (others \cap untold)
                /\ task' = [task EXCEPT ![p].pc = "spread", ![p].clip = 0]
                /\ UNCHANGED <<rendering, aligning>>
             \/ /\ ~(task[p].fresh /\ others # {})
                /\ Release(p, Done(p)) /\ Align(p, c, w) /\ UNCHANGED <<spread, late>>
    BY <1>3 DEF Save
  <2> DEFINE part == [clip |-> c, words |-> w]
  <2>2a. part \in Parts /\ w \in Clip /\ aligning' \subseteq Aligns
    BY <2>1, <2>2, ZeroIsClip DEF Parts, WordsOf, Align, Alignment, Aligns, Base, Typed
  <2>2b. On(k, part) \in Rows /\ SetRow(p, On(k, part))
    BY <2>1, <2>2, <2>2a, ReadyRow
  <2> HIDE DEF part
  <2>3. row' \in [Para -> Rows] /\ orphan' \in [Key -> Orphans] /\ clearing' \in BOOLEAN /\ OrphansOK'
    BY <2>2b, SettingRow, OrphansKept DEF Base, Typed
  <2>4. file' \in [Key -> Clip] /\ sweep' \in Sweeps
    BY <1>3, <2>1 DEF Save, Base, Typed, Sweeps
  <2>5. CASE task[p].fresh /\ others # {}
    <3> DEFINE t == [[task[p] EXCEPT !.pc = "spread"] EXCEPT !.clip = 0]
    <3>1. /\ spread' = [by |-> p, key |-> k, clip |-> c, words |-> w, todo |-> others]
          /\ late' = late \cup (others \cap untold) /\ UNCHANGED rendering
          /\ task' = [task EXCEPT ![p].pc = "spread", ![p].clip = 0]
      BY <2>2, <2>5
    <3>2. t \in Tasks /\ t.pc = "spread" /\ t.key = k
      BY <1>1, ZeroIsClip DEF Tasks, Pcs
    <3>3. task' = [task EXCEPT ![p] = t]
      BY <3>1 DEF Base, Typed
    <3> HIDE DEF t
    <3>4. task' \in [Para -> Tasks] /\ task'[p] = t /\ \A q \in Para \ {p} : task'[q] = task[q]
      BY <3>2, <3>3, TaskSet DEF Base
    <3>5. spread' \in Spreads /\ others \subseteq Para
      BY <3>1, <2>1, <2>2a DEF Spreads, Users
    <3>6. TasksOK'
      BY <2>1, <3>2, <3>4 DEF TasksOK, Base
    <3>7. spread'.by = p /\ spread'.key = k /\ spread'.clip = c /\ spread'.todo = others
      BY <3>1
    <3>8. spread' # NoSpread
      BY <3>7, <1>2 DEF NoSpread
    <3>9. Spreading'
      BY <1>2, <2>1, <2>5, <3>2, <3>4, <3>7, <3>8 DEF Spreading, Base, NoSpread
    <3>10. Typed'
      BY <1>3, <2>3, <2>4, <2>2a, <3>1, <3>4, <3>5 DEF Save, Base, Typed
    <3> QED
      BY <2>3, <3>6, <3>9, <3>10 DEF Base
  <2>6. CASE ~(task[p].fresh /\ others # {})
    <3>1. Release(p, Done(p)) /\ UNCHANGED <<spread, late>>
      BY <2>2, <2>6
    <3>2. /\ task' \in [Para -> Tasks] /\ rendering' \in [Key -> Para \cup {None}]
          /\ task'[p] = Done(p) /\ Others(p)
      BY <1>1, <3>1, Releasing DEF Base
    <3>3. TasksMove
      BY <1>1, <2>1, <3>2, OneMoves
    <3>4. Typed'
      BY <1>3, <2>3, <2>4, <2>2a, <3>1, <3>2 DEF Save, Base, Typed
    <3> QED
      BY <2>3, <3>1, <3>3, <3>4, BaseKept
  <2> QED
    BY <2>5, <2>6
<1>4. CASE SpreadTo(p)
  <2>1. p \in spread.todo /\ spread # NoSpread /\ spread.key \in Key /\ spread.clip \in Clip \ {0}
        /\ spread.by \in Para /\ task[spread.by].pc = "spread" /\ spread.words \in Clip
    <3>1. p \in spread.todo
      BY <1>4 DEF SpreadTo
    <3>2. spread # NoSpread
      BY <3>1 DEF NoSpread
    <3> QED
      BY <3>1, <3>2 DEF Base, Spreading, Typed, Spreads
  <2>2. On(spread.key, Part(spread)) \in Rows
        /\ SetRow(p, On(spread.key, Part(spread)))
    <3>1. Part(spread) \in Parts
      BY <2>1 DEF Part, Parts
    <3> QED
      BY <1>4, <2>1, <3>1, ReadyRow DEF SpreadTo
  <2>3. row' \in [Para -> Rows] /\ orphan' \in [Key -> Orphans] /\ clearing' \in BOOLEAN /\ OrphansOK'
    BY <2>2, SettingRow, OrphansKept DEF Base, Typed
  <2>4. CASE spread.todo = {p}
    <3>1. spread' = NoSpread /\ Release(spread.by, Done(spread.by))
      BY <1>4, <2>4 DEF SpreadTo
    <3>2. /\ task' \in [Para -> Tasks] /\ rendering' \in [Key -> Para \cup {None}]
          /\ task'[spread.by] = Done(spread.by) /\ Others(spread.by)
      BY <1>1, <2>1, <3>1, Releasing DEF Base
    <3>3. NoSpread \in Spreads /\ NoSpread.by = None
      BY ZeroIsClip DEF NoSpread, Spreads
    <3>3a. aligning' \subseteq Aligns
      BY <1>4, <2>1, <2>4 DEF SpreadTo, Align, Alignment, Aligns, Base, Typed
    <3>4. TasksOK' /\ \A q \in Para : task'[q].pc # "spread"
      BY <1>1, <2>1, <3>2 DEF Others, Base, TasksOK, Spreading
    <3>5. Spreading'
      BY <1>2, <3>1, <3>3, <3>4 DEF Spreading
    <3>6. Typed'
      BY <1>4, <2>3, <3>1, <3>2, <3>3, <3>3a DEF SpreadTo, Base, Typed
    <3> QED
      BY <2>3, <3>4, <3>5, <3>6 DEF Base
  <2>5. CASE spread.todo # {p}
    <3>1. spread' = [spread EXCEPT !.todo = spread.todo \ {p}] /\ UNCHANGED <<task, rendering, aligning>>
      BY <1>4, <2>5 DEF SpreadTo
    <3>2. spread \in Spreads
      BY DEF Base, Typed
    <3>3. spread' \in Spreads /\ spread'.by = spread.by /\ spread'.key = spread.key
          /\ spread'.clip = spread.clip /\ spread'.todo = spread.todo \ {p}
      BY <3>1, <3>2 DEF Spreads
    <3>4. spread' # NoSpread
      BY <1>2, <2>1, <3>3 DEF NoSpread
    <3>5. Spreading'
      BY <1>2, <2>1, <2>5, <3>1, <3>3, <3>4 DEF Spreading, Base
    <3>6. Typed' /\ TasksOK'
      BY <1>4, <2>3, <3>1, <3>3 DEF SpreadTo, Base, Typed, TasksOK
    <3> QED
      BY <2>3, <3>5, <3>6 DEF Base
  <2> QED
    BY <2>4, <2>5
<1> QED
  BY <1>3, <1>4

\* A word alignment changes nothing but what the rows have of words.
LEMMA AlignsOnly ==
  ASSUME ClipsAssumption, Typed, NEW a \in aligning,
         AlignFails(a) \/ AlignOwn(a) \/ AlignKey(a) \/ AlignOthers(a)
  PROVE  /\ row' \in [Para -> Rows] /\ aligning' \subseteq Aligns
         /\ \A p \in Para :
              row'[p].st = row[p].st /\ row'[p].key = row[p].key /\ row'[p].clip = row[p].clip
         /\ UNCHANGED <<says, untold, file, orphan, task, rendering, spread, asks, upkeep, late>>
<1> USE DEF store
<1>1. a \in Aligns /\ a.by \in Para /\ a.clip \in Clip /\ None \notin Key
  BY DEF Typed, Aligns, ClipsAssumption
<1>2. ASSUME NEW q \in Para, row[q].st = "ready"
      PROVE  LET r == [row[q] EXCEPT !.words = a.clip] IN
             r \in Rows /\ r.st = row[q].st /\ r.key = row[q].key /\ r.clip = row[q].clip
  <2>1. row[q] \in [st : {"ready"}, key : Key, clip : Clip \ {0}, words : Clip]
    BY <1>2 DEF Typed, Rows, Row
  <2> QED
    BY <1>1, <2>1 DEF Rows
<1>3. CASE AlignFails(a)
  BY <1>3 DEF AlignFails, Typed
<1>4. CASE AlignOwn(a)
  <2>1. aligning' \subseteq Aligns
    <3>1. [a EXCEPT !.pc = "key"] \in Aligns
      BY <1>1, <1>4 DEF AlignOwn, Aligns
    <3> QED
      BY <1>4, <3>1 DEF AlignOwn, Typed
  <2>2. CASE row[a.by].st = "ready"
    <3>1. row' = [row EXCEPT ![a.by] = [row[a.by] EXCEPT !.words = a.clip]]
      BY <1>1, <1>4, <2>2 DEF AlignOwn, Typed
    <3> QED
      BY <1>1, <1>2, <1>4, <2>1, <2>2, <3>1 DEF AlignOwn, Typed
  <2>3. CASE row[a.by].st # "ready"
    BY <1>4, <2>1, <2>3 DEF AlignOwn, Typed
  <2> QED
    BY <2>2, <2>3
<1>5. CASE AlignKey(a)
  <2>1. row[a.by].key \in Key \cup {None}
    BY <1>1, RowFields DEF Typed
  <2> DEFINE others == {[a EXCEPT !.pc = "others", !.key = k] : k \in {row[a.by].key} \ {None}}
  <2>2. /\ aligning' = (aligning \ {a}) \cup others
        /\ UNCHANGED <<store, task, rendering, spread, asks, upkeep, late>>
    BY <1>5, Zenon DEF AlignKey
  <2>3. ASSUME NEW k \in Key PROVE [a EXCEPT !.pc = "others", !.key = k] \in Aligns
    <3> DEFINE b == [a EXCEPT !.pc = "others"]
    <3>1. [b EXCEPT !.key = k] \in [by : Para, clip : Clip, pc : {"others"}, key : Key]
      BY <1>1 DEF Aligns
    <3> QED
      BY <3>1 DEF Aligns
  <2>4. others \subseteq Aligns
    BY <2>1, <2>3
  <2> HIDE DEF others
  <2> QED
    BY <2>2, <2>4 DEF Typed
<1>6. CASE AlignOthers(a)
  <2>1. a.key \in Key
    BY <1>1, <1>6 DEF AlignOthers, Aligns
  <2>2. \A q \in Para : row[q].key = a.key => row[q].st = "ready"
    BY <1>1, <2>1, RowFields DEF Typed
  <2>3. row' = [q \in Para |-> IF row[q].key = a.key /\ q # a.by
                                THEN [row[q] EXCEPT !.words = a.clip] ELSE row[q]]
    BY <1>6 DEF AlignOthers, Users
  <2> QED
    BY <1>2, <1>6, <2>2, <2>3 DEF AlignOthers, Typed
<1> QED
  BY <1>3, <1>4, <1>5, <1>6

LEMMA AlignsBase ==
  ASSUME ClipsAssumption, Base, NEW a \in aligning,
         AlignFails(a) \/ AlignOwn(a) \/ AlignKey(a) \/ AlignOthers(a)
  PROVE  Base'
BY AlignsOnly DEF asks, upkeep, Base, Typed, TasksOK, OrphansOK, Spreading

\* An edit or an override changes a paragraph's key to another.
LEMMA Changed ==
  ASSUME Typed, NEW p \in Para,
         (\E t \in Text : Edit(p, t)) \/ (\E r \in Reading : Override(p, r))
  PROVE  \E k \in Key : Change(p, k)
<1>1. says[p] \in Key
  BY DEF Typed
<1> QED
  BY <1>1, Keys DEF Edit, Override

LEMMA BaseStep ==
  ASSUME ClipsAssumption, Base, Next
  PROVE  Base'
BY AsksBase, ClearsBase, TaskBase, SpreadBase, AlignsBase, Changed DEF Next, TaskStep, Base
--------------------------------------------------------------------------------
(* Claims.                                                                      *)

\* A step that neither claims nor releases, and after which nobody new waits.
LEMMA ClaimsStill ==
  ASSUME ClaimsHeldByRenders, UNCHANGED rendering,
         \A p \in Para :
           /\ task'[p].pc \in Claims <=> task[p].pc \in Claims
           /\ task[p].pc \in Claims => task'[p].key = task[p].key
           /\ task'[p].pc = "wait" => task[p].pc = "wait" /\ task'[p].key = task[p].key
  PROVE  ClaimsHeldByRenders'
BY DEF ClaimsHeldByRenders, Claims

\* One that releases whatever p has claimed.
LEMMA ClaimsReleased ==
  ASSUME ClipsAssumption, Base, ClaimsHeldByRenders, NEW p \in Para, NEW new \in Tasks,
         Release(p, new), new.pc \notin Claims \cup {"wait"}
  PROVE  ClaimsHeldByRenders'
<1>1. /\ task'[p] = new /\ Others(p)
      /\ \A k \in Key : rendering'[k] = IF rendering[k] = p THEN None ELSE rendering[k]
      /\ \A q \in Para \ {p} :
           task'[q].pc = "wait" => ~(task[q].key \in Key /\ rendering[task[q].key] = p)
  BY Releasing DEF Base
<1>2. None \notin Para /\ \A q \in Para : task[q].pc # "none" => task[q].key \in Key
  BY DEF ClipsAssumption, Base, TasksOK
<1>3. ASSUME NEW q \in Para, NEW k \in Key
      PROVE  rendering'[k] = q <=> task'[q].key = k /\ task'[q].pc \in Claims
  <2>1. CASE q = p
    BY <1>1, <1>2, <2>1
  <2>2. CASE q # p
    BY <1>1, <1>2, <2>2 DEF Others, ClaimsHeldByRenders, Claims
  <2> QED
    BY <2>1, <2>2
<1>4. ASSUME NEW q \in Para, task'[q].pc = "wait"
      PROVE  rendering'[task'[q].key] \notin {None, q}
  <2>1. q # p /\ task[q].pc = "wait" /\ task'[q].key = task[q].key /\ task[q].key \in Key
    BY <1>1, <1>2, <1>4 DEF Others
  <2> QED
    BY <1>1, <1>4, <2>1 DEF ClaimsHeldByRenders
<1> QED
  BY <1>3, <1>4 DEF ClaimsHeldByRenders, Claims

LEMMA ClaimsStep ==
  ASSUME ClipsAssumption, Base, ClaimsHeldByRenders, Next
  PROVE  ClaimsHeldByRenders'
<1> USE DEF store, asks, upkeep
<1>1. \A p \in Para :
        /\ task[p] \in Tasks /\ (task[p].pc # "none" => task[p].key \in Key)
        /\ Done(p) \in Tasks /\ Done(p).pc = "again"
        /\ Woken(p) \in {"claim", "look"} /\ says[p] \in Key
  <2>1. \A q \in Para : task[q] \in Tasks /\ says[q] \in Key
    BY DEF Base, Typed
  <2> QED
    BY <2>1, ZeroIsClip DEF Base, TasksOK, Done, Tasks, Pcs, Woken
<1>2. CASE UNCHANGED <<task, rendering>>
  BY <1>2, ClaimsStill
<1>3. ASSUME NEW p \in Para, NEW k \in Key, NEW f \in BOOLEAN, Join(p, k, f), UNCHANGED rendering
      PROVE  ClaimsHeldByRenders'
  <2>1. /\ \A q \in Para \ {p} : task'[q] = task[q]
        /\ \/ task[p].pc = "none" /\ task'[p].pc = "queued"
           \/ task'[p].pc = task[p].pc /\ task'[p].key = task[p].key
    BY <1>3, Joining DEF Base
  <2> QED
    BY <1>3, <2>1, ClaimsStill DEF Claims
<1>4. ASSUME NEW p \in Para, List(p) \/ Resolve(p) \/ Enqueue(p) \/ Regenerate(p) \/ PushRegenerate(p)
      PROVE  ClaimsHeldByRenders'
  <2>1. CASE Enqueue(p)
    BY <1>3, <2>1 DEF Enqueue, Base, Typed
  <2>2. CASE PushRegenerate(p)
    BY <1>3, <2>2 DEF PushRegenerate, Base, Typed
  <2> QED
    BY <1>2, <1>4, <2>1, <2>2 DEF List, Resolve, Regenerate
<1>5. ASSUME NEW p \in Para, TaskStep(p) \/ FailForGood(p) PROVE ClaimsHeldByRenders'
  <2> DEFINE k == task[p].key
  <2>1. ASSUME NEW pc \in Pcs, Go(p, pc), pc \notin Claims \cup {"wait"},
               task[p].pc \notin Claims, UNCHANGED rendering
        PROVE  ClaimsHeldByRenders'
    <3>1. task'[p].pc = pc /\ \A q \in Para \ {p} : task'[q] = task[q]
      BY <2>1, Going DEF Base
    <3> QED
      BY <2>1, <3>1, ClaimsStill
  <2>2. ASSUME NEW t \in Tasks, task' = [task EXCEPT ![p] = t], t.pc \notin Claims \cup {"wait"},
               task[p].pc \notin Claims, UNCHANGED rendering
        PROVE  ClaimsHeldByRenders'
    <3>1. task'[p] = t /\ \A q \in Para \ {p} : task'[q] = task[q]
      BY <2>2, TaskSet DEF Base
    <3> QED
      BY <2>2, <3>1, ClaimsStill
  <2>3. ASSUME Release(p, [Yielded(p) EXCEPT !.key = says[p]])
        PROVE  ClaimsHeldByRenders'
    <3> DEFINE t == [Yielded(p) EXCEPT !.key = says[p]]
    <3>1. t \in Tasks /\ t.pc = "queued"
      BY <1>1 DEF Yielded, Tasks, Pcs
    <3> HIDE DEF t
    <3> QED
      BY <2>3, <3>1, ClaimsReleased DEF t, Claims
  <2>4. CASE Start(p)
    BY <1>1, <2>1, <2>4 DEF Start, Pcs, Claims
  <2>4a. CASE Read(p)
    <3>1. /\ task[p].pc = "read" /\ task'[p].pc = Woken(p)
          /\ \A q \in Para \ {p} : task'[q] = task[q]
      BY <1>1, <2>4a, LookingUp DEF Read, Base
    <3> QED
      BY <1>1, <2>4a, <3>1, ClaimsStill DEF Read, Claims
  <2>5. CASE Look(p)
    <3>1. CASE Finish(p, [task[p] EXCEPT !.pc = "use"])
      <4> DEFINE t == [task[p] EXCEPT !.pc = "use"]
      <4>1. t \in Tasks /\ t.pc = "use"
        BY <1>1 DEF Tasks, Pcs
      <4> HIDE DEF t
      <4>2. \/ task' = [task EXCEPT ![p] = t] /\ UNCHANGED rendering
            \/ Release(p, [Yielded(p) EXCEPT !.key = says[p]])
        BY <3>1 DEF Finish, t
      <4> QED
        BY <2>2, <2>3, <2>5, <4>1, <4>2 DEF Look, Claims
    <3>2. CASE Go(p, "claim") /\ UNCHANGED rendering
      BY <2>1, <2>5, <3>2 DEF Look, Pcs, Claims
    <3> QED
      BY <2>5, <3>1, <3>2 DEF Look
  <2>6. CASE Claim(p)
    <3>1. k \in Key /\ task[p].pc = "claim" /\ rendering[k] # p
      BY <1>1, <2>6 DEF Claim, ClaimsHeldByRenders
    <3>2. CASE rendering[k] = None
      <4>1. Go(p, "render") /\ rendering' = [rendering EXCEPT ![k] = p]
        BY <2>6, <3>2 DEF Claim
      <4>2. /\ task'[p].pc = "render" /\ task'[p].key = k
            /\ \A q \in Para \ {p} : task'[q] = task[q]
        BY <4>1, Going DEF Base, Pcs
      <4> HIDE DEF k
      <4>3. \A j \in Key : rendering'[j] = IF j = k THEN p ELSE rendering[j]
        BY <3>1, <4>1 DEF Base, Typed
      <4>4. None \notin Para
        BY DEF ClipsAssumption
      <4>5. \A q \in Para : task[q].pc = "wait" => task[q].key \in Key /\ task[q].key # k
        BY <1>1, <3>2 DEF ClaimsHeldByRenders
      <4>6. \A q \in Para : task[q].pc = "wait" => q # p
        BY <3>1
      <4> QED
        BY <3>1, <3>2, <4>2, <4>3, <4>4, <4>5, <4>6 DEF ClaimsHeldByRenders, k
    <3>3. CASE rendering[k] # None
      <4>1. Go(p, "wait") /\ UNCHANGED rendering
        BY <2>6, <3>3 DEF Claim
      <4>2. /\ task'[p].pc = "wait" /\ task'[p].key = k
            /\ \A q \in Para \ {p} : task'[q] = task[q]
        BY <4>1, Going DEF Base, Pcs
      <4> QED
        BY <3>1, <3>3, <4>1, <4>2 DEF ClaimsHeldByRenders
    <3> QED
      BY <3>2, <3>3
  <2>7. CASE Rendered(p)
    <3>1. PICK c \in Clip \ {0} : Finish(p, [task[p] EXCEPT !.pc = "save", !.clip = c])
      BY <2>7 DEF Rendered
    <3> DEFINE t == [task[p] EXCEPT !.pc = "save", !.clip = c]
    <3>2. t \in Tasks /\ t.pc = "save" /\ t.key = k
      BY <1>1 DEF Tasks, Pcs
    <3> HIDE DEF t
    <3>3. CASE task' = [task EXCEPT ![p] = t] /\ UNCHANGED rendering
      <4>1. task'[p] = t /\ \A q \in Para \ {p} : task'[q] = task[q]
        BY <3>2, <3>3, TaskSet DEF Base
      <4> QED
        BY <2>7, <3>2, <3>3, <4>1, ClaimsStill DEF Rendered, Claims
    <3> QED
      BY <2>3, <3>1, <3>3 DEF Finish, t
  <2>8. CASE FailForNow(p)
    <3> DEFINE t == [Yielded(p) EXCEPT !.attempt = Yielded(p).attempt + 1]
    <3>1. task[p].attempt + 1 \in 0..(MaxAttempts - 1)
      BY <1>1, <2>8, TaskHas DEF FailForNow, ClipsAssumption
    <3>2. t \in Tasks /\ t.pc = "queued"
      BY <1>1, <3>1 DEF Tasks, Yielded, Pcs
    <3>3. Release(p, t)
      BY <2>8 DEF FailForNow
    <3> HIDE DEF t
    <3> QED
      BY <3>2, <3>3, ClaimsReleased DEF Claims
  <2>9. CASE FailForGood(p)
    <3> DEFINE t == [task[p] EXCEPT !.pc = "ending"]
    <3>1. t \in Tasks /\ t.pc = "ending"
      BY <1>1 DEF Tasks, Pcs
    <3>2. Release(p, t)
      BY <2>9 DEF FailForGood
    <3> HIDE DEF t
    <3> QED
      BY <3>1, <3>2, ClaimsReleased DEF Claims
  <2>10. CASE Use(p)
    <3>1. Yielded(p) \in Tasks /\ Yielded(p).pc = "queued"
      BY <1>1 DEF Yielded, Tasks, Pcs
    <3>2. UNCHANGED rendering /\ task[p].pc \notin Claims
          /\ (Go(p, "again") \/ task' = [task EXCEPT ![p] = Yielded(p)])
      BY <2>10 DEF Use, Claims
    <3> QED
      BY <2>1, <2>2, <3>1, <3>2 DEF Pcs, Claims
  <2>11. CASE Reuse(p) \/ (Save(p) /\ Release(p, Done(p)))
    BY <1>1, <2>11, ClaimsReleased DEF Reuse, Claims
  <2>12. CASE Save(p) /\ ~Release(p, Done(p))
    <3> DEFINE t == [[task[p] EXCEPT !.pc = "spread"] EXCEPT !.clip = 0]
    <3>1. task' = [task EXCEPT ![p].pc = "spread", ![p].clip = 0] /\ UNCHANGED rendering
      BY <2>12 DEF Save
    <3>2. t \in Tasks /\ t.pc = "spread" /\ t.key = k
      BY <1>1, ZeroIsClip DEF Tasks, Pcs
    <3>3. task' = [task EXCEPT ![p] = t]
      BY <3>1 DEF Base, Typed
    <3> HIDE DEF t
    <3>4. task'[p] = t /\ \A q \in Para \ {p} : task'[q] = task[q]
      BY <3>2, <3>3, TaskSet DEF Base
    <3> QED
      BY <2>12, <3>1, <3>2, <3>4, ClaimsStill DEF Save, Claims
  <2>13. CASE RunAgain(p)
    <3>1. /\ task[p].pc = "again" /\ task'[p].pc \in {"queued", "ending"}
          /\ \A q \in Para \ {p} : task'[q] = task[q]
      BY <1>1, <2>13 DEF RunAgain, Base, Typed, NoTask, Tasks
    <3> QED
      BY <2>13, <3>1, ClaimsStill DEF RunAgain, Claims
  <2>14. CASE End(p)
    <3>1. /\ task[p].pc = "ending" /\ task'[p].pc = "none"
          /\ \A q \in Para \ {p} : task'[q] = task[q]
      BY <2>14 DEF End, Base, Typed, NoTask
    <3> QED
      BY <2>14, <3>1, ClaimsStill DEF End, Claims
  <2> QED
    BY <1>5, <2>4, <2>4a, <2>5, <2>6, <2>7, <2>8, <2>9, <2>10, <2>11, <2>12, <2>13, <2>14
    DEF TaskStep
<1>6. ASSUME NEW p \in Para, SpreadTo(p) PROVE ClaimsHeldByRenders'
  <2>1. spread.by \in Para
    BY <1>6 DEF SpreadTo, Base, Spreading, Typed, Spreads, NoSpread
  <2> QED
    BY <1>1, <1>2, <1>6, <2>1, ClaimsReleased DEF SpreadTo, Claims
<1>7. ASSUME \/ \E p \in Para : Invalidate(p) \/ \E k \in Key : Change(p, k)
             \/ \E ps \in {Para} \cup {{p} : p \in Para} : ClearRows(ps)
             \/ Discard \/ SweepRemove \/ SweepForget \/ \E k \in Key : SweepLook(k)
      PROVE  ClaimsHeldByRenders'
  BY <1>2, <1>7 DEF Invalidate, Change, ClearRows, Discard, SweepRemove, SweepForget, SweepLook
<1>8. ASSUME NEW a \in aligning, AlignFails(a) \/ AlignOwn(a) \/ AlignKey(a) \/ AlignOthers(a)
      PROVE  ClaimsHeldByRenders'
  BY <1>2, <1>8, AlignsOnly DEF Base
<1> QED
  BY <1>4, <1>5, <1>6, <1>7, <1>8, Changed DEF Next, Base
--------------------------------------------------------------------------------
(* What a paragraph used to say.                                                *)

\* A step does not make p's task one that Guarded speaks of, other than of what p
\* says.
TaskGuarded(p) ==
  /\ task'[p].pc \in {"use", "save"} =>
       \/ task[p].pc \in {"use", "save"} /\ task'[p].key = task[p].key
       \/ task'[p].key = says[p] \/ p \in late
  /\ task'[p].pc \in Unchecked =>
       \/ task[p].pc \in Unchecked /\ task'[p].key = task[p].key
       \/ task'[p].key.reading = says[p].reading \/ p \in late

\* A step after which no paragraph says anything else: it is enough that what it
\* puts into a row, an enqueue, a task or a spread is what the paragraph says.
LEMMA GuardStill ==
  ASSUME NotUndone, Guarded, UNCHANGED <<says, untold>>, late \subseteq late',
         \A p \in Para :
           \/ row'[p].st = row[p].st /\ row'[p].key = row[p].key
           \/ row'[p].st # "ready" \/ row'[p].key = says[p] \/ p \in late',
         \A p \in Para : listed'[p] \in {listed[p], None, says[p]},
         \A p \in Para : TaskGuarded(p),
         \A p \in spread'.todo :
           \/ p \in spread.todo /\ spread'.key = spread.key
           \/ spread'.key = says[p] \/ p \in late'
  PROVE  NotUndone' /\ Guarded'
BY DEF NotUndone, Guarded, TaskGuarded

\* What SetRow does to a paragraph's row, when the row is of what it says or of
\* nothing.
LEMMA RowOfNow ==
  ASSUME ClipsAssumption, Base, NEW p \in Para, NEW r \in Rows, SetRow(p, r),
         r.st # "ready" \/ r.key = says[p] \/ p \in late'
  PROVE  \A q \in Para :
           \/ row'[q].st = row[q].st /\ row'[q].key = row[q].key
           \/ row'[q].st # "ready" \/ row'[q].key = says[q] \/ q \in late'
<1>1. row' = [row EXCEPT ![p] = r] /\ row \in [Para -> Rows]
  BY SettingRow DEF Base, Typed
<1> QED
  BY <1>1

\* So it is for every task when p's moves, and others only wake.
LEMMA TasksGuarded ==
  ASSUME Guarded, NEW p \in Para, Others(p), TaskGuarded(p)
  PROVE  \A q \in Para : TaskGuarded(q)
<1>1. ASSUME NEW q \in Para, q # p PROVE TaskGuarded(q)
  BY <1>1 DEF Others, TaskGuarded, Unchecked
<1> QED
  BY <1>1

LEMMA NotGuarded ==
  ASSUME NEW p \in Para, task'[p].pc \notin {"use", "save"} \cup Unchecked
  PROVE  TaskGuarded(p)
BY DEF TaskGuarded

LEMMA AsksGuarded ==
  ASSUME ClipsAssumption, Base, NotUndone, Guarded, NEW p \in Para,
         List(p) \/ Resolve(p) \/ Enqueue(p) \/ Regenerate(p) \/ PushRegenerate(p)
  PROVE  NotUndone' /\ Guarded'
<1> USE DEF store, asks, upkeep
<1>1. CASE List(p)
  BY <1>1, GuardStill DEF List, Base, Typed, TaskGuarded
<1>2. CASE Resolve(p)
  <2> DEFINE fits(r) == p \in late \/ [listed[p] EXCEPT !.reading = r] = says[p]
  <2>1. ASSUME NEW r \in {listed[p].reading, says[p].reading} PROVE fits(r)
    <3>1. listed[p] \in Key /\ says[p] \in Key /\ (listed[p] = says[p] \/ p \in late)
      BY <1>2 DEF Resolve, Base, Typed, Guarded
    <3> QED
      BY <2>1, <3>1, Keys DEF Key
  <2>2. ASSUME NEW k \in Key, k = says[p] \/ p \in late, NEW c \in Offer(k, p), SetRow(p, On(k, c))
        PROVE  NotUndone' /\ Guarded'
    <3>1. On(k, c) \in Rows /\ On(k, c).key = k
      BY <2>2, Offered, ReadyRow DEF Base
    <3>2. \A q \in Para :
            \/ row'[q].st = row[q].st /\ row'[q].key = row[q].key
            \/ row'[q].st # "ready" \/ row'[q].key = says[q] \/ q \in late'
      BY <1>2, <2>2, <3>1, RowOfNow DEF Resolve
    <3> QED
      BY <1>2, <3>2, GuardStill DEF Resolve, Base, Typed, TaskGuarded
  <2>3. CASE UNCHANGED <<row, orphan, clearing>>
    BY <1>2, <2>3, GuardStill DEF Resolve, Base, Typed, TaskGuarded
  <2>4. listed[p] # None
    BY <1>2 DEF Resolve
  <2>5. CASE \E r \in {listed[p].reading, says[p].reading} :
               LET k == [listed[p] EXCEPT !.reading = r] IN
               \E c \in Offer(k, p) : SetRow(p, On(k, c))
    BY <2>1, <2>2, <2>4, <2>5, ResolvedKey DEF Base
  <2> QED
    BY <1>2, <2>3, <2>5 DEF Resolve
<1>3. ASSUME NEW k \in Key, NEW f \in BOOLEAN, Join(p, k, f)
      PROVE  \A q \in Para : TaskGuarded(q)
  <2>1. Others(p) /\ TaskGuarded(p)
    BY <1>3, Joining, StillOthers DEF Base, TaskGuarded, Unchecked
  <2> QED
    BY <2>1, TasksGuarded
<1>4. CASE Enqueue(p)
  BY <1>3, <1>4, GuardStill DEF Enqueue, Base, Typed
<1>5. CASE Regenerate(p)
  <2>1. Row("pending") \in Rows /\ Row("pending").st # "ready"
    BY ClearedRow
  <2>2. \A q \in Para :
          \/ row'[q].st = row[q].st /\ row'[q].key = row[q].key
          \/ row'[q].st # "ready" \/ row'[q].key = says[q] \/ q \in late'
    BY <1>5, <2>1, RowOfNow DEF Regenerate
  <2> QED
    BY <1>5, <2>2, GuardStill DEF Regenerate, TaskGuarded
<1>6. CASE PushRegenerate(p)
  BY <1>3, <1>6, GuardStill DEF PushRegenerate, Base, Typed
<1> QED
  BY <1>1, <1>2, <1>4, <1>5, <1>6

\* A task is started on what its paragraph says now but for what an enqueue or a
\* spread still has in hand.
LEMMA StartGuarded ==
  ASSUME ClipsAssumption, Base, NotUndone, Guarded, NEW p \in Para, Start(p)
  PROVE  NotUndone' /\ Guarded'
<1> USE DEF store, asks, upkeep
<1>1. Row("generating") \in Rows /\ Row("generating").st # "ready"
  BY ClearedRow
<1>2. row' = [row EXCEPT ![p] = Row("generating")] /\ row \in [Para -> Rows]
  BY <1>1, SettingRow DEF Start, Base, Typed
<1>3. /\ task'[p].pc = "read" /\ \A q \in Para \ {p} : task'[q] = task[q]
      /\ UNCHANGED <<says, untold, spread, listed>>
      /\ \A q \in Para \ {p} : q \in late => q \in late'
      /\ (listed[p] = None /\ p \notin spread.todo) \/ late' = late
      /\ spread.todo \subseteq Para
  BY Going DEF Start, Base, Pcs, Typed, Spreads
<1>4. row'[p].st # "ready" /\ \A q \in Para \ {p} : row'[q] = row[q]
  BY <1>1, <1>2
<1>5. NotUndone'
  BY <1>3, <1>4 DEF NotUndone
<1>6. Guarded'
  BY <1>3 DEF Guarded, Unchecked
<1> QED
  BY <1>5, <1>6

\* A save gives the others on the clip no other key than the one they have.
LEMMA SaveGuarded ==
  ASSUME ClipsAssumption, Base, NotUndone, Guarded, NEW p \in Para, Save(p)
  PROVE  NotUndone' /\ Guarded'
<1> USE DEF store, asks, upkeep
<1> DEFINE k == task[p].key
           c == task[p].clip
<1>1. /\ k \in Key /\ c \in Clip \ {0} /\ (k = says[p] \/ p \in late)
      /\ task[p].pc = "save" /\ spread = NoSpread
      /\ Done(p) \in Tasks /\ Done(p).pc = "again"
  <2>1. task[p] \in Tasks
    BY DEF Base, Typed
  <2> QED
    BY <2>1, TaskHas, ZeroIsClip DEF Save, MuFree, Base, TasksOK, Guarded, Done, Tasks, Pcs
<1>2. PICK w \in WordsOf(c) :
        /\ SetRow(p, On(k, [clip |-> c, words |-> w]))
        /\ \/ /\ spread' = [by |-> p, key |-> k, clip |-> c, words |-> w, todo |-> Users(k) \ {p}]
              /\ late' = late \cup ((Users(k) \ {p}) \cap untold)
              /\ task' = [task EXCEPT ![p].pc = "spread", ![p].clip = 0]
           \/ Release(p, Done(p)) /\ UNCHANGED <<spread, late>>
  BY DEF Save
<1> DEFINE part == [clip |-> c, words |-> w]
<1>3. part \in Parts
  BY <1>1, ZeroIsClip DEF Parts, WordsOf
<1>4. On(k, part) \in Rows /\ On(k, part).key = k /\ SetRow(p, On(k, part))
  BY <1>1, <1>2, <1>3, ReadyRow
<1> HIDE DEF part
<1>5. late \subseteq late'
  BY <1>2
<1>6. \A q \in Para :
        \/ row'[q].st = row[q].st /\ row'[q].key = row[q].key
        \/ row'[q].st # "ready" \/ row'[q].key = says[q] \/ q \in late'
  BY <1>1, <1>4, <1>5, RowOfNow
<1>7. Others(p) /\ TaskGuarded(p)
  <2>1. CASE Release(p, Done(p))
    BY <1>1, <2>1, Releasing, NotGuarded DEF Base, Unchecked
  <2>2. CASE task' = [task EXCEPT ![p].pc = "spread", ![p].clip = 0]
    <3>1. task'[p].pc = "spread" /\ \A q \in Para \ {p} : task'[q] = task[q]
      BY <2>2 DEF Base, Typed, Tasks
    <3> QED
      BY <3>1, StillOthers, NotGuarded DEF Unchecked
  <2> QED
    BY <1>2, <2>1, <2>2
<1>8. \A q \in spread'.todo : spread'.key = says[q] \/ q \in late'
  <2>1. CASE UNCHANGED spread
    BY <1>1, <2>1 DEF NoSpread
  <2>2. CASE /\ spread' = [by |-> p, key |-> k, clip |-> c, words |-> w, todo |-> Users(k) \ {p}]
             /\ late' = late \cup ((Users(k) \ {p}) \cap untold)
    <3> SUFFICES ASSUME NEW q \in Users(k), q # p, k # says[q]
                 PROVE  q \in late \cup untold
      BY <2>2
    <3>1. q \in Para /\ row[q] \in Rows /\ row[q].key = k
      BY DEF Users, Base, Typed
    <3>2. row[q].st = "ready"
      BY <1>1, <3>1, RowFields DEF ClipsAssumption
    <3> QED
      BY <3>1, <3>2 DEF NotUndone
  <2> QED
    BY <1>2, <2>1, <2>2
<1> HIDE DEF k, c
<1>9. \A q \in Para : TaskGuarded(q)
  BY <1>7, TasksGuarded
<1> QED
  BY <1>5, <1>6, <1>8, <1>9, GuardStill DEF Save

LEMMA TaskStepGuarded ==
  ASSUME ClipsAssumption, Base, NotUndone, Guarded, NEW p \in Para,
         TaskStep(p) \/ FailForGood(p)
  PROVE  NotUndone' /\ Guarded'
<1> USE DEF store, asks, upkeep
<1>1. \A q \in Para :
        /\ task[q] \in Tasks /\ (task[q].pc # "none" => task[q].key \in Key)
        /\ says[q] \in Key /\ Done(q) \in Tasks /\ Done(q).pc = "again"
        /\ Woken(q) \in {"claim", "look"}
  <2>1. \A q \in Para : task[q] \in Tasks /\ says[q] \in Key
    BY DEF Base, Typed
  <2> QED
    BY <2>1, ZeroIsClip DEF Base, TasksOK, Done, Tasks, Pcs, Woken
<1>2. ASSUME NEW t \in Tasks, t.pc \notin {"use", "save"} \cup Unchecked,
             Release(p, t) \/ task' = [task EXCEPT ![p] = t]
      PROVE  Others(p) /\ TaskGuarded(p)
  BY <1>2, Releasing, TaskSet, StillOthers, NotGuarded DEF Base
<1>3. ASSUME NEW pc \in Pcs, pc \notin {"use", "save"}, Go(p, pc),
             pc \in Unchecked => task[p].pc \in Unchecked
      PROVE  Others(p) /\ TaskGuarded(p)
  BY <1>3, Going, StillOthers DEF Base, TaskGuarded
<1>4. ASSUME NEW t \in Tasks, t.key = task[p].key, t.pc \in {"use", "save"},
             task[p].pc \in Unchecked, Finish(p, t)
      PROVE  Others(p) /\ TaskGuarded(p)
  <2>1. /\ Others(p)
        /\ \/ says[p].text = task[p].key.text /\ task'[p] = t
           \/ task'[p].pc = "queued"
    BY <1>4, Finishing DEF Base
  <2>2. task[p].key \in Key /\ (task[p].key.reading = says[p].reading \/ p \in late)
    BY <1>1, <1>4 DEF Guarded, Unchecked
  <2>3. CASE says[p].text = task[p].key.text /\ task'[p] = t
    <3>1. task'[p].key = says[p] \/ p \in late
      BY <1>1, <1>4, <2>2, <2>3, Keys
    <3> QED
      BY <1>4, <2>1, <2>3, <3>1 DEF TaskGuarded, Unchecked
  <2>4. CASE task'[p].pc = "queued"
    BY <2>1, <2>4, NotGuarded DEF Unchecked
  <2> QED
    BY <2>1, <2>3, <2>4
<1>5. ASSUME UNCHANGED <<says, untold, row, listed, spread, late>>, Others(p), TaskGuarded(p)
      PROVE  NotUndone' /\ Guarded'
  BY <1>5, TasksGuarded, GuardStill
<1>6. ASSUME NEW r \in Rows, SetRow(p, r), r.st # "ready" \/ r.key = says[p] \/ p \in late',
             UNCHANGED <<says, untold, listed, spread, late>>, Others(p), TaskGuarded(p)
      PROVE  NotUndone' /\ Guarded'
  BY <1>6, TasksGuarded, RowOfNow, GuardStill
<1>7. CASE Read(p)
  <2>1. Others(p) /\ task'[p].pc = Woken(p) /\ task'[p].key.reading = says[p].reading
    BY <1>1, <1>7, LookingUp, StillOthers DEF Read, Base
  <2>2. TaskGuarded(p)
    BY <1>1, <2>1 DEF TaskGuarded
  <2> QED
    BY <1>5, <1>7, <2>1, <2>2 DEF Read
<1>8. CASE Look(p)
  <2> DEFINE t == [task[p] EXCEPT !.pc = "use"]
  <2>1. t \in Tasks /\ t.key = task[p].key /\ t.pc = "use"
    BY <1>1 DEF Tasks, Pcs
  <2>2. Finish(p, t) \/ Go(p, "claim")
    BY <1>8 DEF Look
  <2>3. task[p].pc \in Unchecked
    BY <1>8 DEF Look, Unchecked
  <2> HIDE DEF t
  <2>4. Others(p) /\ TaskGuarded(p)
    BY <1>3, <1>4, <2>1, <2>2, <2>3 DEF Pcs
  <2> QED
    BY <1>5, <1>8, <2>4 DEF Look
<1>9. CASE Claim(p)
  <2>1. (Go(p, "render") \/ Go(p, "wait")) /\ task[p].pc \in Unchecked
    BY <1>9 DEF Claim, Unchecked
  <2> QED
    BY <1>3, <1>5, <1>9, <2>1 DEF Claim, Pcs
<1>10. CASE Rendered(p)
  <2>1. PICK c \in Clip \ {0} : Finish(p, [task[p] EXCEPT !.pc = "save", !.clip = c])
    BY <1>10 DEF Rendered
  <2> DEFINE t == [task[p] EXCEPT !.pc = "save", !.clip = c]
  <2>2. t \in Tasks /\ t.key = task[p].key /\ t.pc = "save"
    BY <1>1 DEF Tasks, Pcs
  <2>3. task[p].pc \in Unchecked
    BY <1>10 DEF Rendered, Unchecked
  <2> HIDE DEF t
  <2>4. Others(p) /\ TaskGuarded(p)
    BY <1>4, <2>1, <2>2, <2>3 DEF t
  <2> QED
    BY <1>5, <1>10, <2>4 DEF Rendered
<1>11. CASE FailForNow(p)
  <2> DEFINE t == [Yielded(p) EXCEPT !.attempt = Yielded(p).attempt + 1]
  <2>1. task[p].attempt + 1 \in 0..(MaxAttempts - 1)
    BY <1>1, <1>11, TaskHas DEF FailForNow, ClipsAssumption
  <2>2. t \in Tasks /\ t.pc = "queued"
    BY <1>1, <2>1 DEF Tasks, Yielded, Pcs
  <2>3. Release(p, t)
    BY <1>11 DEF FailForNow
  <2> HIDE DEF t
  <2> QED
    BY <1>2, <1>5, <1>11, <2>2, <2>3 DEF FailForNow, Unchecked
<1>12. CASE FailForGood(p)
  <2> DEFINE t == [task[p] EXCEPT !.pc = "ending"]
  <2>1. t \in Tasks /\ t.pc = "ending"
    BY <1>1 DEF Tasks, Pcs
  <2>2. Release(p, t)
    BY <1>12 DEF FailForGood
  <2> HIDE DEF t
  <2>3. Row("error") \in Rows /\ Row("error").st # "ready"
    BY ClearedRow
  <2> QED
    BY <1>2, <1>6, <1>12, <2>1, <2>2, <2>3 DEF FailForGood, Unchecked
<1>13. CASE Use(p)
  <2>1. task[p].key \in Key /\ (task[p].key = says[p] \/ p \in late) /\ late' = late
    BY <1>1, <1>13 DEF Use, Guarded
  <2>2. Yielded(p) \in Tasks /\ Yielded(p).pc = "queued"
    BY <1>1 DEF Yielded, Tasks, Pcs
  <2>3. Go(p, "again") \/ task' = [task EXCEPT ![p] = Yielded(p)]
    BY <1>13 DEF Use
  <2>4. Others(p) /\ TaskGuarded(p)
    BY <1>2, <1>3, <2>2, <2>3 DEF Pcs, Unchecked
  <2>5. CASE UNCHANGED row
    BY <1>5, <1>13, <2>4, <2>5 DEF Use
  <2>6. ASSUME NEW c \in Offer(task[p].key, p), SetRow(p, On(task[p].key, c))
        PROVE  NotUndone' /\ Guarded'
    <3>1. On(task[p].key, c) \in Rows /\ On(task[p].key, c).key = task[p].key
      BY <2>1, <2>6, Offered, ReadyRow DEF Base
    <3> QED
      BY <1>6, <1>13, <2>1, <2>4, <2>6, <3>1 DEF Use
  <2> QED
    BY <1>13, <2>5, <2>6 DEF Use
<1>14. CASE Reuse(p)
  <2>1. task[p].key \in Key /\ (task[p].key = says[p] \/ p \in late) /\ late' = late
    BY <1>1, <1>14 DEF Reuse, Guarded
  <2>2. PICK c \in Offer(task[p].key, p) : SetRow(p, On(task[p].key, c))
    BY <1>14 DEF Reuse
  <2>3. On(task[p].key, c) \in Rows /\ On(task[p].key, c).key = task[p].key
    BY <2>1, <2>2, Offered, ReadyRow DEF Base
  <2>4. Others(p) /\ TaskGuarded(p)
    BY <1>1, <1>2, <1>14 DEF Reuse, Unchecked
  <2> QED
    BY <1>6, <1>14, <2>1, <2>2, <2>3, <2>4 DEF Reuse
<1>15. CASE RunAgain(p)
  <2>1. /\ task'[p].pc \in {"queued", "ending"}
        /\ \A q \in Para \ {p} : task'[q] = task[q]
    BY <1>1, <1>15 DEF RunAgain, Base, Typed, NoTask, Tasks
  <2> QED
    BY <1>5, <1>15, <2>1, StillOthers, NotGuarded DEF RunAgain, Unchecked
<1>16. CASE End(p)
  <2>1. task'[p].pc = "none" /\ \A q \in Para \ {p} : task'[q] = task[q]
    BY <1>16 DEF End, Base, Typed, NoTask
  <2> QED
    BY <1>5, <1>16, <2>1, StillOthers, NotGuarded DEF End, Unchecked
<1>17. CASE Save(p)
  BY <1>17, SaveGuarded
<1>18. CASE Start(p)
  BY <1>18, StartGuarded
<1> QED
  BY <1>7, <1>8, <1>9, <1>10, <1>11, <1>12, <1>13, <1>14, <1>15, <1>16, <1>17, <1>18 DEF TaskStep

LEMMA SpreadToGuarded ==
  ASSUME ClipsAssumption, Base, NotUndone, Guarded, NEW p \in Para, SpreadTo(p)
  PROVE  NotUndone' /\ Guarded'
<1> USE DEF store, asks, upkeep
<1>1. p \in spread.todo /\ spread # NoSpread /\ spread.key \in Key /\ Part(spread) \in Parts
      /\ spread.by \in Para /\ (spread.key = says[p] \/ p \in late) /\ late' = late
  BY DEF SpreadTo, Base, Spreading, Typed, Spreads, NoSpread, Guarded, Part, Parts
<1>2. /\ On(spread.key, Part(spread)) \in Rows
      /\ SetRow(p, On(spread.key, Part(spread)))
      /\ On(spread.key, Part(spread)).key = spread.key
  BY <1>1, ReadyRow DEF SpreadTo
<1>3. \A q \in Para :
        \/ row'[q].st = row[q].st /\ row'[q].key = row[q].key
        \/ row'[q].st # "ready" \/ row'[q].key = says[q] \/ q \in late'
  BY <1>1, <1>2, RowOfNow
<1>4. \A q \in Para : TaskGuarded(q)
  <2>1. CASE Release(spread.by, Done(spread.by))
    <3>1. Done(spread.by) \in Tasks /\ Done(spread.by).pc = "again"
      <4>1. task[spread.by] \in Tasks
        BY <1>1 DEF Base, Typed
      <4> QED
        BY <4>1, ZeroIsClip DEF Done, Tasks, Pcs
    <3>2. Others(spread.by) /\ TaskGuarded(spread.by)
      BY <1>1, <2>1, <3>1, Releasing, NotGuarded DEF Base, Unchecked
    <3> QED
      BY <1>1, <3>2, TasksGuarded
  <2>2. CASE UNCHANGED task
    BY <2>2 DEF TaskGuarded
  <2> QED
    BY <2>1, <2>2 DEF SpreadTo
<1>5. \A q \in spread'.todo : q \in spread.todo /\ spread'.key = spread.key
  BY <1>1 DEF SpreadTo, NoSpread, Base, Typed, Spreads
<1> QED
  BY <1>1, <1>3, <1>4, <1>5, GuardStill DEF SpreadTo

\* A change that nothing will notice is late.
LEMMA ChangeGuarded ==
  ASSUME ClipsAssumption, Base, NotUndone, Guarded, NEW p \in Para, NEW k \in Key, Change(p, k)
  PROVE  NotUndone' /\ Guarded'
<1> USE DEF asks, upkeep
<1>1. /\ says' = [says EXCEPT ![p] = k] /\ says \in [Para -> Key] /\ untold' = untold \cup {p}
      /\ UNCHANGED <<row, task, spread, listed>>
      /\ late \subseteq late' /\ (Unnoticed(p, k) => p \in late')
  BY DEF Change, Base, Typed
<1>2. \A q \in Para : says'[q] = IF q = p THEN k ELSE says[q]
  BY <1>1
<1>3. NotUndone'
  BY <1>1, <1>2 DEF NotUndone
<1>4. Guarded'
  BY <1>1, <1>2 DEF Guarded, Unnoticed, Unchecked
<1> QED
  BY <1>3, <1>4

LEMMA GuardedStep ==
  ASSUME ClipsAssumption, Base, NotUndone, Guarded, Next
  PROVE  NotUndone' /\ Guarded'
<1> USE DEF store, asks, upkeep
<1>1. ASSUME NEW p \in Para, Invalidate(p) PROVE NotUndone' /\ Guarded'
  <2>1. NoRow \in Rows /\ NoRow.st # "ready"
    BY ClearedRow DEF NoRow
  <2>2. row' = [row EXCEPT ![p] = NoRow] /\ row \in [Para -> Rows]
    BY <1>1, <2>1, SettingRow DEF Invalidate, Base, Typed
  <2> QED
    BY <1>1, <2>1, <2>2 DEF Invalidate, NotUndone, Guarded
<1>2. ASSUME NEW ps \in SUBSET Para, ClearRows(ps) PROVE NotUndone' /\ Guarded'
  <2>1. row' = [q \in Para |-> IF q \in ps THEN NoRow ELSE row[q]]
    BY <1>2 DEF ClearRows, SetRows
  <2>2. NoRow.st # "ready"
    BY ClearedRow DEF NoRow
  <2>3. \A q \in Para : row'[q] = row[q] \/ row'[q].st # "ready"
    BY <2>1, <2>2
  <2> QED
    BY <1>2, <2>3, GuardStill DEF ClearRows, TaskGuarded
<1>3. ASSUME Discard \/ SweepRemove \/ SweepForget \/ \E k \in Key : SweepLook(k)
      PROVE  NotUndone' /\ Guarded'
  BY <1>3, GuardStill DEF Discard, SweepRemove, SweepForget, SweepLook, TaskGuarded
<1>4. ASSUME NEW a \in aligning, AlignFails(a) \/ AlignOwn(a) \/ AlignKey(a) \/ AlignOthers(a)
      PROVE  NotUndone' /\ Guarded'
  BY <1>4, AlignsOnly, GuardStill DEF Base, TaskGuarded
<1>5. \A p \in Para : {p} \in SUBSET Para
  OBVIOUS
<1> QED
  BY <1>1, <1>2, <1>3, <1>4, <1>5, AsksGuarded, TaskStepGuarded, SpreadToGuarded, ChangeGuarded,
     Changed DEF Next, Base
--------------------------------------------------------------------------------
(* A row, its file and its orphan.                                              *)

\* A row that can be played, with what is known of the render it plays.
Fits(r) == r.st = "ready" => r.key \in swept \/ (file[r.key] # 0 /\ r.clip = file[r.key])

\* What was found unused is to be removed, and has not been written since.
Doomed == sweep.key # None /\ ~sweep.gone /\ ~sweep.written

\* What is offered fits, and is not about to be removed.
LEMMA OfferFits ==
  ASSUME ClipsAssumption, Base, ReadyPlays, PartsMatch, Kept, MuFree,
         NEW p \in Para, NEW k \in Key, NEW c \in Offer(k, p)
  PROVE  Fits(On(k, c)) /\ ~(Doomed /\ k = sweep.key)
<1>1. /\ file[k] # 0 /\ c \in Parts
      /\ \/ \E q \in Users(k) \ {p} : c.clip = row[q].clip /\ row[q].st = "ready"
         \/ /\ Users(k) = {} /\ c.clip = orphan[k].clip
            /\ orphan[k] # NoOrphan /\ orphan[k].age # "old"
  BY Offered DEF Base, Part
<1>2. spread.todo = {} /\ spread.key \notin Key
  BY DEF MuFree, NoSpread, ClipsAssumption
<1>3. On(k, c).key = k /\ On(k, c).clip = c.clip
  BY <1>1, ReadyRow
<1>4. k \in swept \/ c.clip = file[k]
  <2>1. CASE \E q \in Users(k) \ {p} : c.clip = row[q].clip /\ row[q].st = "ready"
    BY <1>2, <2>1 DEF PartsMatch, Users
  <2>2. CASE /\ Users(k) = {} /\ c.clip = orphan[k].clip
             /\ orphan[k] # NoOrphan /\ orphan[k].age # "old"
    BY <1>1, <1>2, <2>2 DEF PartsMatch
  <2> QED
    BY <1>1, <2>1, <2>2
<1>5. ~(Doomed /\ k = sweep.key)
  BY <1>1 DEF Doomed, Kept
<1> QED
  BY <1>1, <1>3, <1>4, <1>5 DEF Fits

\* Rows are set, and the files stay: what is set fits, and so does what is no
\* longer to be set by the spread.
LEMMA RowsFit ==
  ASSUME ClipsAssumption, Base, ReadyPlays, PartsMatch, Kept,
         NEW new \in [Para -> Rows], SetRows(new), UNCHANGED <<file, swept>>,
         \A p \in Para :
           \/ new[p] = row[p] /\ (p \in spread.todo => p \in spread'.todo)
           \/ Fits(new[p]),
         spread'.key = spread.key \/ \E p \in Para : new[p].key = spread.key
  PROVE  ReadyPlays' /\ PartsMatch'
<1>1. /\ row' = new
      /\ \A k \in Key :
           \/ orphan'[k] = orphan[k] /\ (Users(k) = {} \/ \E p \in Para : new[p].key = k)
           \/ /\ \A p \in Para : new[p].key # k
              /\ \E q \in Users(k) : orphan'[k].clip = row[q].clip
  BY SettingRows DEF Base
<1>2. \A p \in Para : row[p].st = "ready" <=> row[p].key # None
  BY RowFields DEF Base, Typed
<1>3. ReadyPlays'
  BY <1>1 DEF ReadyPlays, Fits
<1>4. ASSUME NEW p \in Para, new[p].st = "ready", p \notin spread'.todo, new[p].key \notin swept
      PROVE  new[p].clip = file[new[p].key]
  BY <1>4 DEF Fits, PartsMatch
<1>5. ASSUME NEW k \in Key, file[k] # 0, Users(k)' = {}, orphan'[k] # NoOrphan,
             k \notin swept \cup {spread'.key}
      PROVE  orphan'[k].clip = file[k]
  <2>1. \A p \in Para : new[p].key # k
    BY <1>1, <1>5 DEF Users
  <2>2. k # spread.key
    BY <1>5, <2>1
  <2>3. CASE orphan'[k] = orphan[k] /\ Users(k) = {}
    BY <1>5, <2>2, <2>3 DEF PartsMatch
  <2>4. ASSUME NEW q \in Users(k), orphan'[k].clip = row[q].clip
        PROVE  orphan'[k].clip = file[k]
    <3>1. q \in Para /\ row[q].key = k /\ row[q].st = "ready"
      BY <1>2 DEF Users, ClipsAssumption
    <3>2. q \notin spread.todo
      BY <2>2, <3>1 DEF Kept
    <3> QED
      BY <1>5, <2>4, <3>1, <3>2 DEF PartsMatch
  <2> QED
    BY <1>1, <2>1, <2>3, <2>4
<1>6. PartsMatch'
  BY <1>1, <1>4, <1>5 DEF PartsMatch
<1> QED
  BY <1>3, <1>6

\* And Kept, when what is set is not what the sweep is about to remove, and the
\* spread, if it goes on, is the same.
LEMMA RowsKept ==
  ASSUME ClipsAssumption, Base, Kept,
         NEW new \in [Para -> Rows], SetRows(new), UNCHANGED <<file, swept, sweep>>,
         \A p \in Para :
           \/ new[p] = row[p] \/ new[p].st # "ready"
           \/ /\ ~(Doomed /\ new[p].key = sweep.key)
              /\ p \notin spread'.todo,
         spread' = NoSpread \/ (spread # NoSpread /\ spread'.key = spread.key
                                /\ spread'.clip = spread.clip /\ spread'.todo \subseteq spread.todo)
  PROVE  Kept'
<1>1. /\ row' = new
      /\ \A k \in Key :
           \/ orphan'[k] = orphan[k]
           \/ \E q \in Users(k) : orphan'[k].clip = row[q].clip
  BY SettingRows DEF Base
<1>2. NoSpread.key = None /\ NoSpread.todo = {}
  BY DEF NoSpread
<1>3. ASSUME Doomed
      PROVE  /\ Users(sweep.key)' = {} /\ spread'.key # sweep.key
             /\ orphan'[sweep.key] = NoOrphan \/ orphan'[sweep.key].age = "old"
  <2>1. sweep.key \in Key /\ sweep.key # None
    BY <1>3 DEF Doomed, Base, Typed, Sweeps
  <2>2. /\ Users(sweep.key) = {} /\ spread.key # sweep.key
        /\ orphan[sweep.key] = NoOrphan \/ orphan[sweep.key].age = "old"
    BY <1>3 DEF Doomed, Kept
  <2>3. \A p \in Para : new[p].st # "ready" => new[p].key = None
    BY RowFields
  <2>4. \A p \in Para : new[p].key # sweep.key
    BY <1>3, <2>1, <2>2, <2>3 DEF Users
  <2> QED
    BY <1>1, <1>2, <2>1, <2>2, <2>4 DEF Users
<1>4. spread' # NoSpread => spread'.key \in swept' \/ file'[spread'.key] = spread'.clip
  BY DEF Kept
<1>5. \A p \in spread'.todo : row'[p].st = "ready" => row'[p].key = spread'.key
  <2>1. spread.todo \subseteq Para
    BY DEF Base, Typed, Spreads
  <2> QED
    BY <1>1, <1>2, <2>1 DEF Kept
<1> QED
  BY <1>3, <1>4, <1>5 DEF Kept, Doomed

Playable == ReadyPlays /\ PartsMatch /\ Kept

\* A step that leaves clips alone.
LEMMA ClipsStill ==
  ASSUME Playable, UNCHANGED <<file, orphan, spread, sweep, swept>>,
         \A p \in Para :
           row'[p].st = row[p].st /\ row'[p].key = row[p].key /\ row'[p].clip = row[p].clip,
         spread.todo \subseteq Para
  PROVE  Playable'
BY DEF Playable, ReadyPlays, PartsMatch, Kept, Users

\* One that clears p's row.
LEMMA RowCleared ==
  ASSUME ClipsAssumption, Base, Playable, NEW p \in Para, NEW r \in Rows, SetRow(p, r),
         r.st # "ready", UNCHANGED <<file, spread, sweep, swept>>
  PROVE  Playable'
<1> DEFINE new == [row EXCEPT ![p] = r]
<1>1. new \in [Para -> Rows] /\ SetRows(new) /\ \A q \in Para : new[q] = IF q = p THEN r ELSE row[q]
  BY DEF SetRow, Base, Typed
<1> HIDE DEF new
<1>2. \A q \in Para : new[q] = row[q] \/ Fits(new[q])
  BY <1>1 DEF Fits
<1>3. ReadyPlays' /\ PartsMatch'
  BY <1>1, <1>2, RowsFit DEF Playable
<1>4. Kept'
  BY <1>1, RowsKept DEF Playable
<1> QED
  BY <1>3, <1>4 DEF Playable

\* One that puts p on a clip it is offered.
LEMMA RowOffered ==
  ASSUME ClipsAssumption, Base, Playable, MuFree, NEW p \in Para, NEW k \in Key,
         NEW c \in Offer(k, p), SetRow(p, On(k, c)),
         UNCHANGED <<file, spread, sweep, swept>>
  PROVE  Playable'
<1> DEFINE r == On(k, c)
           new == [row EXCEPT ![p] = r]
<1>1. r \in Rows /\ r.key = k
  BY Offered, ReadyRow DEF Base
<1>2. Fits(r) /\ ~(Doomed /\ r.key = sweep.key)
  BY <1>1, OfferFits DEF Playable
<1> HIDE DEF r
<1>3. new \in [Para -> Rows] /\ SetRows(new) /\ \A q \in Para : new[q] = IF q = p THEN r ELSE row[q]
  BY <1>1 DEF SetRow, r, Base, Typed
<1> HIDE DEF new
<1>4. spread.todo = {}
  BY DEF MuFree, NoSpread
<1>5. \A q \in Para : new[q] = row[q] \/ Fits(new[q])
  BY <1>2, <1>3
<1>6. ReadyPlays' /\ PartsMatch'
  BY <1>3, <1>5, RowsFit DEF Playable
<1>7. Kept'
  BY <1>2, <1>3, <1>4, RowsKept DEF Playable, MuFree
<1> QED
  BY <1>6, <1>7 DEF Playable

\* What asks for renders, and a task but for its save.
LEMMA RowStep ==
  ASSUME ClipsAssumption, Base, Playable, NEW p \in Para,
         \/ List(p) \/ Resolve(p) \/ Enqueue(p) \/ Regenerate(p) \/ PushRegenerate(p)
         \/ Start(p) \/ Read(p) \/ Look(p) \/ Claim(p) \/ Rendered(p) \/ FailForNow(p)
         \/ FailForGood(p) \/ Use(p) \/ Reuse(p) \/ RunAgain(p) \/ End(p) \/ Invalidate(p)
  PROVE  Playable'
<1> USE DEF store, asks, upkeep
<1>0. spread.todo \subseteq Para
  BY DEF Base, Typed, Spreads
<1>1. ASSUME NEW st \in {"none", "pending", "generating", "error"}, SetRow(p, Row(st)),
             UNCHANGED <<file, spread, sweep, swept>>
      PROVE  Playable'
  BY <1>1, ClearedRow, RowCleared
<1>2. CASE Regenerate(p) \/ Start(p) \/ FailForGood(p) \/ Invalidate(p)
  BY <1>1, <1>2 DEF Regenerate, Start, FailForGood, Invalidate, NoRow
<1>3. CASE Resolve(p)
  <2> QED
    BY <1>0, <1>3, ResolvedKey, RowOffered, ClipsStill DEF Resolve, Base
<1>4. CASE Use(p) \/ Reuse(p)
  <2>1. task[p].key \in Key
    BY <1>4 DEF Use, Reuse, Base, TasksOK
  <2> QED
    BY <1>0, <1>4, <2>1, RowOffered, ClipsStill DEF Use, Reuse
<1> QED
  BY <1>0, <1>2, <1>3, <1>4, ClipsStill
  DEF List, Read, Enqueue, PushRegenerate, Look, Claim, Rendered, FailForNow, RunAgain, End

LEMMA SpreadToStep ==
  ASSUME ClipsAssumption, Base, Playable, NEW p \in Para, SpreadTo(p)
  PROVE  Playable'
<1> DEFINE r == On(spread.key, Part(spread))
           new == [row EXCEPT ![p] = r]
<1>1. p \in spread.todo /\ spread # NoSpread /\ spread.key \in Key /\ Part(spread) \in Parts
      /\ spread.clip # 0
  <2>1. p \in spread.todo
    BY DEF SpreadTo
  <2>2. spread # NoSpread
    BY <2>1 DEF NoSpread
  <2> QED
    BY <2>1, <2>2 DEF Base, Spreading, Typed, Spreads, Part, Parts
<1>2. r \in Rows /\ r.key = spread.key /\ r.clip = spread.clip
  BY <1>1, ReadyRow DEF Part
<1>3. Fits(r) /\ ~(Doomed /\ r.key = sweep.key)
  BY <1>1, <1>2 DEF Fits, Playable, Kept, Doomed
<1> HIDE DEF r
<1>4. new \in [Para -> Rows] /\ \A q \in Para : new[q] = IF q = p THEN r ELSE row[q]
  BY <1>2 DEF Base, Typed
<1>5. SetRows(new) /\ UNCHANGED <<file, sweep, swept>>
  BY DEF SpreadTo, SetRow, r
<1> HIDE DEF new
<1>6. \/ spread' = NoSpread /\ spread.todo = {p}
      \/ spread'.key = spread.key /\ spread'.clip = spread.clip /\ spread'.todo = spread.todo \ {p}
  BY DEF SpreadTo, Base, Typed, Spreads
<1>7. /\ p \notin spread'.todo
      /\ \A q \in Para \ {p} : q \in spread.todo => q \in spread'.todo
  BY <1>6 DEF NoSpread
<1>8. ReadyPlays' /\ PartsMatch'
  BY <1>2, <1>3, <1>4, <1>5, <1>7, RowsFit DEF Playable
<1>9. Kept'
  BY <1>1, <1>3, <1>4, <1>5, <1>6, <1>7, RowsKept DEF Playable
<1> QED
  BY <1>8, <1>9 DEF Playable

\* The new render is in the file, and p on it; whoever else was on the clip is
\* still to be given it, or had no file left.
LEMMA SaveStep ==
  ASSUME ClipsAssumption, Base, Playable, NEW p \in Para, Save(p)
  PROVE  Playable'
<1> DEFINE k == task[p].key
           c == task[p].clip
           others == Users(k) \ {p}
<1>1. k \in Key /\ c \in Clip \ {0} /\ spread = NoSpread
  <2>1. task[p] \in Tasks /\ task[p].pc = "save" /\ spread = NoSpread
    BY DEF Save, MuFree, Base, Typed
  <2> QED
    BY <2>1, TaskHas DEF Base, TasksOK
<1>2. PICK w \in WordsOf(c) :
        /\ SetRow(p, On(k, [clip |-> c, words |-> w]))
        /\ \/ spread' = [by |-> p, key |-> k, clip |-> c, words |-> w, todo |-> others]
           \/ spread' = NoSpread /\ (others = {} \/ Offer(k, p) = {})
  BY <1>1 DEF Save
<1> DEFINE part == [clip |-> c, words |-> w]
           r == On(k, part)
<1>3. /\ r \in Rows /\ r.st = "ready" /\ r.key = k /\ r.clip = c
      /\ SetRow(p, r) /\ file' = [file EXCEPT ![k] = c] /\ swept' = swept
      /\ sweep' = [sweep EXCEPT !.written = sweep.written \/ sweep.key = k]
  <2>1. part \in Parts /\ part.clip = c
    BY <1>1, ZeroIsClip DEF Parts, WordsOf
  <2>2. SetRow(p, On(k, part))
    BY <1>2
  <2> HIDE DEF part
  <2> QED
    BY <1>1, <2>1, <2>2, ReadyRow DEF Save
<1>4. \/ spread'.key = k /\ spread'.clip = c /\ spread'.todo = others
      \/ spread' = NoSpread /\ (others = {} \/ Offer(k, p) = {})
  BY <1>2
<1>5. others = Users(k) \ {p} /\ NoSpread.todo = {} /\ NoSpread.key = None /\ None \notin Key
  BY DEF NoSpread, ClipsAssumption
<1> HIDE DEF k, c, part, r, others
<1>6. /\ \A q \in Para : row'[q] = IF q = p THEN r ELSE row[q]
      /\ \A j \in Key :
           \/ orphan'[j] = orphan[j] /\ (Users(j) = {} \/ Users(j)' # {})
           \/ Users(j)' = {} /\ \E q \in Users(j) : orphan'[j].clip = row[q].clip
  BY <1>3, SettingRow DEF Base, Typed
<1>7. \A j \in Key : file'[j] = IF j = k THEN c ELSE file[j]
  BY <1>3 DEF Base, Typed
<1>8. \A q \in Para : row[q].key \in Key \cup {None} /\ (row[q].st = "ready" <=> row[q].key # None)
  BY RowFields DEF Base, Typed
<1>9. ReadyPlays'
  BY <1>1, <1>3, <1>6, <1>7, <1>8 DEF ReadyPlays, Playable
<1>10. ASSUME NEW q \in Para, row'[q].st = "ready", q \notin spread'.todo, row'[q].key \notin swept
       PROVE  row'[q].clip = file'[row'[q].key]
  <2>1. CASE q = p
    BY <1>1, <1>3, <1>6, <1>7, <2>1
  <2>2. CASE q # p /\ row[q].key # k
    <3>1. row[q].clip = file[row[q].key]
      BY <1>1, <1>5, <1>6, <1>10, <2>2 DEF Playable, PartsMatch
    <3> QED
      BY <1>6, <1>7, <1>8, <1>10, <2>2, <3>1
  <2>3. CASE q # p /\ row[q].key = k
    <3>1. q \in others
      BY <1>5, <2>3 DEF Users
    <3>2. Offer(k, p) = {}
      BY <1>4, <1>10, <3>1
    <3>3. row[q].clip \in {row[x].clip : x \in Users(k) \ {p}}
      BY <1>5, <3>1
    <3>4. file[k] = 0
      BY <3>2, <3>3 DEF Offer
    <3> QED
      BY <1>6, <1>10, <2>3, <3>4 DEF Playable, ReadyPlays
  <2> QED
    BY <2>1, <2>2, <2>3
<1>11. ASSUME NEW j \in Key, file'[j] # 0, Users(j)' = {}, orphan'[j] # NoOrphan,
              j \notin swept \cup {spread'.key}
       PROVE  orphan'[j].clip = file'[j]
  <2>1. j # k
    BY <1>3, <1>6, <1>11 DEF Users
  <2>2. CASE orphan'[j] = orphan[j] /\ Users(j) = {}
    BY <1>1, <1>5, <1>7, <1>11, <2>1, <2>2 DEF Playable, PartsMatch
  <2>3. ASSUME NEW q \in Users(j), orphan'[j].clip = row[q].clip
        PROVE  orphan'[j].clip = file'[j]
    <3>1. q \in Para /\ row[q].key = j /\ row[q].st = "ready"
      BY <1>5, <1>8 DEF Users
    <3> QED
      BY <1>1, <1>5, <1>7, <1>11, <2>1, <2>3, <3>1 DEF Playable, PartsMatch
  <2> QED
    BY <1>6, <1>11, <2>2, <2>3
<1>12. PartsMatch'
  BY <1>3, <1>10, <1>11 DEF PartsMatch
<1>13. sweep'.key = sweep.key
  BY <1>3 DEF Base, Typed, Sweeps
<1>14. ASSUME Doomed'
       PROVE  /\ Users(sweep.key)' = {} /\ spread'.key # sweep.key
              /\ orphan'[sweep.key] = NoOrphan \/ orphan'[sweep.key].age = "old"
  <2>1. sweep.key \in Key /\ sweep.key # k /\ Doomed
    BY <1>3, <1>14 DEF Doomed, Base, Typed, Sweeps
  <2>2. /\ Users(sweep.key) = {}
        /\ orphan[sweep.key] = NoOrphan \/ orphan[sweep.key].age = "old"
    BY <2>1 DEF Doomed, Playable, Kept
  <2>3. Users(sweep.key)' = {}
    BY <1>3, <1>6, <1>13, <2>1, <2>2 DEF Users
  <2> QED
    BY <1>4, <1>5, <1>6, <2>1, <2>2, <2>3
<1>15. spread' # NoSpread => file'[spread'.key] = spread'.clip
  BY <1>1, <1>4, <1>7
<1>16. \A q \in spread'.todo : row'[q].key = spread'.key
  BY <1>4, <1>5, <1>6 DEF Users
<1>17. Kept'
  BY <1>13, <1>14, <1>15, <1>16 DEF Kept, Doomed
<1> QED
  BY <1>9, <1>12, <1>17 DEF Playable

\* What clears audio beside the tasks.
LEMMA ClearsStep ==
  ASSUME ClipsAssumption, Base, Playable,
         \/ \E p \in Para, k \in Key : Change(p, k)
         \/ \E ps \in SUBSET Para : ClearRows(ps)
         \/ Discard \/ SweepRemove \/ SweepForget \/ \E k \in Key : SweepLook(k)
  PROVE  Playable'
<1> USE DEF store, asks, upkeep
<1>1. ASSUME NEW p \in Para, NEW k \in Key, Change(p, k) PROVE Playable'
  BY <1>1, ClipsStill DEF Change, Base, Typed, Spreads
<1>2. ASSUME NEW ps \in SUBSET Para, ClearRows(ps) PROVE Playable'
  <2> DEFINE new == [p \in Para |-> IF p \in ps THEN NoRow ELSE row[p]]
  <2>1. NoRow \in Rows /\ NoRow.st # "ready"
    BY ClearedRow DEF NoRow
  <2>2. new \in [Para -> Rows]
    BY <2>1 DEF Base, Typed
  <2>3. \A p \in Para : new[p] = row[p] \/ new[p].st # "ready"
    BY <2>1
  <2>4. SetRows(new)
    BY <1>2 DEF ClearRows
  <2> HIDE DEF new
  <2>5. UNCHANGED <<file, spread, sweep, swept>>
    BY <1>2 DEF ClearRows
  <2>6. ReadyPlays' /\ PartsMatch'
    BY <2>2, <2>3, <2>4, <2>5, RowsFit DEF Playable, Fits
  <2>7. Kept'
    BY <2>2, <2>3, <2>4, <2>5, RowsKept DEF Playable
  <2> QED
    BY <2>6, <2>7 DEF Playable
<1>3. \A p \in Para : row[p].st = "ready" => row[p].key \in Key /\ p \in Users(row[p].key)
  BY RowFields DEF Base, Typed, Users
<1>4. CASE Discard
  <2>1. /\ \A k \in Key : file'[k] = file[k] \/ (file'[k] = 0 /\ Users(k) = {} /\ orphan'[k] = NoOrphan)
        /\ \A k \in Key : orphan'[k] \in {orphan[k], NoOrphan}
        /\ UNCHANGED <<row, spread, sweep, swept>> /\ spread = NoSpread
    BY <1>4 DEF Discard, MuFree, Base, Typed
  <2>2. \A k : Users(k)' = Users(k)
    BY <2>1 DEF Users
  <2>3. ReadyPlays'
    BY <1>3, <2>1 DEF ReadyPlays, Playable
  <2>4. PartsMatch'
    BY <1>3, <2>1, <2>2 DEF PartsMatch, Playable
  <2>5. Kept'
    BY <2>1, <2>2 DEF Kept, Playable, NoSpread, Base, Typed, Sweeps
  <2> QED
    BY <2>3, <2>4, <2>5 DEF Playable
<1>5. CASE SweepRemove
  <2>1. /\ sweep.key \in Key /\ sweep'.key = sweep.key /\ sweep'.gone = TRUE
        /\ \A k \in Key : file'[k] = IF k = sweep.key THEN 0 ELSE file[k]
        /\ UNCHANGED <<row, orphan, spread>> /\ swept \subseteq swept'
        /\ sweep.key \in swept' \/ (Users(sweep.key) = {} /\ spread.key # sweep.key)
    BY <1>5 DEF SweepRemove, Base, Typed, Sweeps, Playable, Kept
  <2>2. \A k : Users(k)' = Users(k)
    BY <2>1 DEF Users
  <2>3. ReadyPlays'
    BY <1>3, <2>1 DEF ReadyPlays, Playable
  <2>4. PartsMatch'
    BY <1>3, <2>1, <2>2 DEF PartsMatch, Playable
  <2>5. Kept'
    BY <2>1, <2>2 DEF Kept, Playable, Base, Spreading
  <2> QED
    BY <2>3, <2>4, <2>5 DEF Playable
<1>6. CASE SweepForget
  <2>1. /\ \A k \in Key : orphan'[k] \in {orphan[k], NoOrphan}
        /\ UNCHANGED <<row, file, spread, swept>> /\ sweep'.key = None
    BY <1>6 DEF SweepForget, NoSweep, Base, Typed
  <2>2. \A k : Users(k)' = Users(k)
    BY <2>1 DEF Users
  <2> QED
    BY <2>1, <2>2 DEF Playable, ReadyPlays, PartsMatch, Kept
<1>7. ASSUME NEW k \in Key, SweepLook(k) PROVE Playable'
  <2>1. /\ UNCHANGED <<row, file, spread, swept>> /\ sweep'.key = k
        /\ Users(k) = {} /\ spread.key # k
    BY <1>7 DEF SweepLook, NoSweep
  <2>2. orphan[k] # NoOrphan =>
          /\ [orphan[k] EXCEPT !.age = "old"].clip = orphan[k].clip
          /\ [orphan[k] EXCEPT !.age = "old"].age = "old"
    BY DEF Base, Typed, Orphans
  <2>3. orphan' = IF orphan[k] = NoOrphan THEN orphan
                  ELSE [orphan EXCEPT ![k] = [orphan[k] EXCEPT !.age = "old"]]
    BY <1>7 DEF SweepLook
  <2>4. /\ \A j \in Key : /\ orphan'[j].clip = orphan[j].clip
                          /\ orphan[j] = NoOrphan => orphan'[j] = NoOrphan
        /\ orphan'[k] = NoOrphan \/ orphan'[k].age = "old"
    BY <2>2, <2>3 DEF Base, Typed
  <2>5. \A j : Users(j)' = Users(j)
    BY <2>1 DEF Users
  <2> QED
    BY <2>1, <2>4, <2>5 DEF Playable, ReadyPlays, PartsMatch, Kept
<1> QED
  BY <1>1, <1>2, <1>4, <1>5, <1>6, <1>7

LEMMA PlayableStep ==
  ASSUME ClipsAssumption, Base, Playable, Next
  PROVE  Playable'
<1>1. ASSUME NEW a \in aligning, AlignFails(a) \/ AlignOwn(a) \/ AlignKey(a) \/ AlignOthers(a)
      PROVE  Playable'
  BY <1>1, AlignsOnly, ClipsStill DEF asks, upkeep, Base, Typed, Spreads
<1> QED
  BY <1>1, RowStep, SaveStep, SpreadToStep, ClearsStep, Changed DEF Next, TaskStep, Base
--------------------------------------------------------------------------------
(* The invariant, and what follows.                                             *)

LEMMA ClipsInit == ASSUME ClipsAssumption, Init PROVE ClipsInv
<1> USE DEF Init
<1>1. 0 \in Clip /\ 0 \in 0..(MaxAttempts - 1) /\ left \in 0..MaxUpsets
  BY ZeroIsClip DEF ClipsAssumption
<1>2. NoRow \in Rows /\ NoRow.st # "ready" /\ NoRow.key = None
  BY ClearedRow DEF NoRow
<1>3. NoTask \in Tasks /\ NoTask.pc = "none" /\ NoTask.key = None
  BY <1>1 DEF NoTask, Tasks, Pcs, Pushes
<1>4. NoOrphan \in Orphans /\ NoSpread \in Spreads /\ NoSweep \in Sweeps
  BY <1>1 DEF NoOrphan, Orphans, NoSpread, Spreads, NoSweep, Sweeps
<1>5. NoSpread.by = None /\ NoSpread.todo = {} /\ NoSweep.key = None /\ None \notin Key \cup Para
  BY DEF NoSpread, NoSweep, ClipsAssumption
<1>6. Typed
  BY <1>1, <1>2, <1>3, <1>4 DEF Typed
<1>7. TasksOK /\ OrphansOK /\ Spreading /\ ClaimsHeldByRenders
  BY <1>3, <1>5 DEF TasksOK, OrphansOK, Spreading, ClaimsHeldByRenders
<1>8. NotUndone /\ Guarded /\ ReadyPlays /\ PartsMatch /\ Kept
  BY <1>2, <1>3, <1>5 DEF NotUndone, Guarded, Unchecked, ReadyPlays, PartsMatch, Kept
<1> QED
  BY <1>6, <1>7, <1>8 DEF ClipsInv

LEMMA ClipsStep == ASSUME ClipsAssumption, ClipsInv, [Next]_vars PROVE ClipsInv'
<1>1. CASE Next
  <2>1. Base /\ Playable
    BY DEF ClipsInv, Base, Playable
  <2> QED
    BY <1>1, <2>1, BaseStep, ClaimsStep, GuardedStep, PlayableStep DEF ClipsInv, Base, Playable
<1>2. CASE UNCHANGED vars
  <2> USE <1>2 DEF vars, store, asks, upkeep
  <2>1. Typed' /\ TasksOK' /\ OrphansOK' /\ Spreading'
    BY DEF ClipsInv, Typed, TasksOK, OrphansOK, Spreading
  <2>2. ClaimsHeldByRenders' /\ NotUndone' /\ Guarded'
    BY DEF ClipsInv, ClaimsHeldByRenders, NotUndone, Guarded
  <2>3. Playable'
    BY ClipsStill DEF ClipsInv, Playable, Typed, Spreads
  <2> QED
    BY <2>1, <2>2, <2>3 DEF ClipsInv, Playable
<1> QED
  BY <1>1, <1>2

LEMMA ClipsInvariant == Spec => []ClipsInv
<1>1. Init => ClipsInv
  BY ClipsAssumption, ClipsInit
<1>2. ClipsInv /\ [Next]_vars => ClipsInv'
  BY ClipsAssumption, ClipsStep
<1> QED
  BY <1>1, <1>2, PTL DEF Spec

\* Every variable keeps its type: a row names a clip exactly when it is ready, a
\* task counts no more attempts than it has, and no render number is used that is
\* not one.
THEOREM ClipsTypeCorrect == Spec => []TypeOK
<1>1. ClipsInv => TypeOK
  BY TypedIsTypeOK DEF ClipsInv
<1> QED
  BY <1>1, ClipsInvariant, PTL

\* A clip is rendered by one task at a time, and its claim is held by that task
\* only, until it is saved and given to every row on it: no task waits for one
\* that is queued behind it (sharedClips.claim, handleResult).
THEOREM OneRenderPerClip == Spec => []ClaimsHeldByRenders
<1>1. ClipsInv => ClaimsHeldByRenders
  BY DEF ClipsInv
<1> QED
  BY <1>1, ClipsInvariant, PTL

\* Audio of what a paragraph used to say, or of how it used to be read, does not
\* come back once it has been invalidated, however renders, enqueues, regenerations
\* and changes overlap, other than when the change came too late: of the text, after
\* the check of a finished render (refreshStaleGeneration), of the reading, at any
\* time of the render (emotionVariant looks it up before).
THEOREM ClearedStaysCleared == Spec => []NotUndone
<1>1. ClipsInv => NotUndone
  BY DEF ClipsInv
<1> QED
  BY <1>1, ClipsInvariant, PTL

\* A ready paragraph has its file, whatever clears, discards and sweeps have run
\* beside the tasks, other than a file the sweep removed after it was written
\* anew (useSharedClip, DiscardOrphanedClips, SweepSharedClips).
THEOREM ReadyHasItsFile == Spec => []ReadyPlays
<1>1. ClipsInv => ReadyPlays
  BY DEF ClipsInv
<1> QED
  BY <1>1, ClipsInvariant, PTL

\* Every ready row's duration, and the one kept for a clip without rows, is of the
\* render its file holds, except the rows a new render has still to be given to
\* (saveSharedClip, the triggers of migration 11). Of the word timings it is not so.
THEOREM PartsOfTheFile == Spec => []PartsMatch
<1>1. ClipsInv => PartsMatch
  BY DEF ClipsInv
<1> QED
  BY <1>1, ClipsInvariant, PTL
================================================================================
