--------------------------------- MODULE Live ---------------------------------
(* Live updates: the hub that rebuilds what changed and sends each subscriber   *)
(* the difference (src/backend/internal/live/hub.go), the connections it serves  *)
(* (live/client.go), the store's change notifications that reach it              *)
(* (cmd/server/main.go) and the page at the other end (src/frontend/src/api/      *)
(* live.ts). A page's connection may drop and be opened anew while the server     *)
(* still winds up the old one.                                                    *)
EXTENDS Naturals, Sequences, FiniteSets, SequencesExt

CONSTANTS
  Topic,        \* topics; a page's subscription id is the topic it names
  Throttled,    \* those with a MinInterval
  Value,        \* what a topic can show
  Gone,         \* what is shown when Build returns an error, such as a 404
  First,        \* what there may be to show to begin with
  Conn,         \* connections, each used again once the server is done with it
  Buffer,       \* Config.ClientBuffer
  Ops(_, _), ApplyOps(_, _), \* live/diff.go, api/live.ts
  MaxUpsets,    \* bound: writes, lost connections, mounts and resyncs, together
  None

Loop == "loop"

ASSUME LiveAssumption ==
  /\ IsFiniteSet(Topic) /\ IsFiniteSet(Conn) /\ Throttled \subseteq Topic
  /\ First \subseteq Value \cup {Gone}
  /\ Gone \notin Value /\ None \notin Value \cup {Gone} \cup Conn \cup Topic
  /\ Loop \notin Conn /\ None # Loop
  /\ Buffer \in Nat \ {0}
  /\ MaxUpsets \in Nat

\* What diff makes of two values, applied to the one, makes the other: MCLive has
\* the patches of LiveDiff do that for every two of many small documents.
ASSUME DiffAssumption == \A a, b \in Value : ApplyOps(a, Ops(a, b)) = b

VARIABLES
  db,      \* what each topic would show if it were built now
  owed,    \* topics whose table was written and whose listener is yet to run
  waking,  \* topics that Invalidate marked dirty and has yet to wake the loop for
  marked,  \* Hub.dirty: the tables invalidated since the last refresh
  wake,    \* Hub.wake, a channel of one
  retry,   \* Run's retry timer is set
  loop,    \* Run: "idle", "debounce" or "rebuild"
  todo,    \* topics the refresh has yet to rebuild
  refs,    \* topic.refs, 0 for a topic that does not exist
  dirty,   \* topic.dirty
  hot,     \* topics rebuilt less than MinInterval ago
  val,     \* what a topic last showed its subscribers, None if not built
  mu,      \* who holds topic.mu while it builds
  built,   \* what that build read
  subs,    \* topic.subs
  conn,    \* the server's side of each connection: its queue and two goroutines
  link,    \* the connection the page has, or None
  page,    \* the page's entry for each topic
  left,    \* how many upsets may still come
  leaked   \* references held by connections that are over (history)

hub == <<marked, wake, retry, loop, todo>>
topics == <<refs, dirty, hot, val, mu, built, subs>>
world == <<db, owed, waking>>
vars == <<world, hub, topics, conn, link, page, left, leaked>>

Show == Value \cup {Gone}

\* Messages: a snapshot or an error is the value itself.
Snapshot(t, v) == [t |-> t, kind |-> "value", is |-> v]
Patch(t, ops) == [t |-> t, kind |-> "patch", is |-> ops]
Ask(t, kind) == [t |-> t, kind |-> kind]

\* done: send found the queue full. reader and closer: what the two goroutines of
\* ServeWS do, and with which topic; holds: Client.subs.
NoConn == [st |-> "free", done |-> FALSE, holds |-> {}, out |-> <<>>, up |-> <<>>,
           reader |-> "read", ask |-> None, closer |-> "none", closing |-> {}, at |-> None]

NoEntry == [here |-> FALSE, awaiting |-> TRUE, data |-> None]

ReaderPc == {"read", "detach", "release", "acquire", "hold", "attach", "build"}

\* Every variable has its type; a topic that does not exist has nothing.
TypeOK ==
  /\ db \in [Topic -> Show] /\ owed \subseteq Topic /\ waking \subseteq Topic
  /\ marked \subseteq Topic /\ wake \in BOOLEAN /\ retry \in BOOLEAN
  /\ loop \in {"idle", "debounce", "rebuild"} /\ todo \subseteq Topic
  /\ refs \in [Topic -> Nat] /\ dirty \subseteq Topic /\ hot \subseteq Throttled
  /\ val \in [Topic -> Show \cup {None}]
  /\ mu \in [Topic -> Conn \cup {Loop, None}] /\ built \in [Topic -> Show \cup {None}]
  /\ subs \in [Topic -> SUBSET Conn]
  /\ \A c \in Conn :
       /\ conn[c].st \in {"free", "open", "closing"} /\ conn[c].done \in BOOLEAN
       /\ conn[c].holds \subseteq Topic /\ Len(conn[c].out) <= Buffer
       /\ conn[c].reader \in ReaderPc /\ conn[c].closing \subseteq Topic
       /\ conn[c].closer \in {"none", "detach", "release"}
       /\ conn[c].closer # "none" => conn[c].st = "closing" /\ conn[c].at \in Topic
       /\ conn[c].reader # "read" => conn[c].ask \in [t : Topic, kind : {"sub", "unsub"}]
  /\ link \in Conn \cup {None}
  /\ page \in [Topic -> [here : BOOLEAN, awaiting : BOOLEAN, data : Show \cup {None}]]
  /\ left \in 0..MaxUpsets
  /\ leaked \in [Topic -> Nat]
  /\ \A t \in Topic : refs[t] = 0 =>
       t \notin dirty \cup hot \cup todo /\ val[t] = None /\ mu[t] = None /\ subs[t] = {}

Init ==
  /\ db \in [Topic -> First] /\ owed = {} /\ waking = {}
  /\ marked = {} /\ wake = FALSE /\ retry = FALSE /\ loop = "idle" /\ todo = {}
  /\ refs = [t \in Topic |-> 0] /\ dirty = {} /\ hot = {}
  /\ val = [t \in Topic |-> None] /\ mu = [t \in Topic |-> None]
  /\ built = [t \in Topic |-> None] /\ subs = [t \in Topic |-> {}]
  /\ conn = [c \in Conn |-> NoConn]
  /\ link = None /\ page = [t \in Topic |-> NoEntry]
  /\ left = MaxUpsets
  /\ leaked = [t \in Topic |-> 0]
------------------------------------------------------------------------------
\* What changes, and how the hub hears of it.

\* A write commits; its table's listeners are called after that.
Write(t, v) ==
  /\ left > 0 /\ v # db[t]
  /\ left' = left - 1
  /\ db' = [db EXCEPT ![t] = v]
  /\ owed' = owed \cup {t}
  /\ UNCHANGED <<waking, hub, topics, conn, link, page, leaked>>

\* Invalidate, under the hub's mu...
Mark(t) ==
  /\ t \in owed
  /\ owed' = owed \ {t} /\ waking' = waking \cup {t}
  /\ marked' = marked \cup {t}
  /\ UNCHANGED <<db, wake, retry, loop, todo, topics, conn, link, page, left, leaked>>

\* ...and after it.
Wake(t) ==
  /\ t \in waking
  /\ waking' = waking \ {t} /\ wake' = TRUE
  /\ UNCHANGED <<db, owed, marked, retry, loop, todo, topics, conn, link, page, left, leaked>>

\* Every so often the loop, when it has nothing else to do, marks everything that
\* exists; it alone looks at the wake-up, so both halves of this are one step.
Resync ==
  /\ loop = "idle" /\ left > 0
  /\ left' = left - 1
  /\ marked' = Topic /\ wake' = TRUE
  /\ UNCHANGED <<world, retry, loop, todo, topics, conn, link, page, leaked>>
------------------------------------------------------------------------------
\* The refresh loop.

Exist == {t \in Topic : refs[t] > 0}

\* The timer runs out when the first of the topics it was set for may be rebuilt.
RetryDue == retry /\ (dirty = {} \/ ~(dirty \subseteq hot))

\* Run is woken, or its timer runs out; the burst is then waited out.
Woken ==
  /\ loop = "idle"
  /\ \/ wake /\ wake' = FALSE /\ UNCHANGED retry
     \/ RetryDue /\ retry' = FALSE /\ UNCHANGED wake
  /\ loop' = "debounce"
  /\ UNCHANGED <<world, marked, todo, topics, conn, link, page, left, leaked>>

\* MinInterval passes.
Cool(t) ==
  /\ t \in hot
  /\ hot' = hot \ {t}
  /\ UNCHANGED <<world, hub, refs, dirty, val, mu, built, subs, conn, link, page, left, leaked>>

\* (Mutant: a throttled topic is not waited for.)
RefreshNoRetry ==
  LET stale == dirty \cup (marked \cap Exist) IN
  /\ loop = "debounce"
  /\ marked' = {} /\ dirty' = stale \cap hot /\ todo' = stale \ hot
  /\ hot' = hot \cup (todo' \cap Throttled)
  /\ UNCHANGED retry
  /\ loop' = IF todo' = {} THEN "idle" ELSE "rebuild"
  /\ UNCHANGED <<world, wake, refs, val, mu, built, subs, conn, link, page, left, leaked>>

\* refresh: what depends on a marked table is dirty; what is not throttled is
\* rebuilt now, and the rest when the timer says so.
Refresh ==
  LET stale == dirty \cup (marked \cap Exist) IN
  /\ loop = "debounce"
  /\ marked' = {} /\ dirty' = stale \cap hot /\ todo' = stale \ hot
  /\ hot' = hot \cup (todo' \cap Throttled)
  /\ retry' = (retry \/ dirty' # {})
  /\ loop' = IF todo' = {} THEN "idle" ELSE "rebuild"
  /\ UNCHANGED <<world, wake, refs, val, mu, built, subs, conn, link, page, left, leaked>>

\* rebuild: under the topic's mu, the new value is read...
Rebuild(t) ==
  /\ t \in todo /\ mu[t] = None /\ \A u \in Topic : mu[u] # Loop
  /\ mu' = [mu EXCEPT ![t] = Loop]
  /\ built' = [built EXCEPT ![t] = db[t]]
  /\ todo' = todo \ {t}
  /\ UNCHANGED <<world, marked, wake, retry, loop>>
  /\ UNCHANGED <<refs, dirty, hot, val, subs, conn, link, page, left, leaked>>

\* (Mutant: a message that does not fit is lost, and the connection kept.)
SendOrLose(c, msg) ==
  IF conn[c].done \/ conn[c].st # "open" \/ Len(conn[c].out) = Buffer THEN conn[c]
  ELSE [conn[c] EXCEPT !.out = Append(@, msg)]

\* send: a connection whose queue is full is given up. Nobody reads the queue of
\* one that is no longer open.
Send(c, msg) ==
  IF conn[c].done \/ conn[c].st # "open" THEN conn[c]
  ELSE IF Len(conn[c].out) < Buffer THEN [conn[c] EXCEPT !.out = Append(@, msg)]
  ELSE [conn[c] EXCEPT !.done = TRUE]

\* A patch, or a snapshot where there was no value.
News(t) ==
  IF built[t] = Gone \/ val[t] \in {None, Gone} THEN Snapshot(t, built[t])
  ELSE Patch(t, Ops(val[t], built[t]))

\* ...and every subscriber is sent what changed, if anything did.
Publish(t) ==
  /\ mu[t] = Loop
  /\ mu' = [mu EXCEPT ![t] = None]
  /\ built' = [built EXCEPT ![t] = None]
  /\ val' = [val EXCEPT ![t] = built[t]]
  /\ conn' = IF built[t] = val[t] THEN conn
             ELSE [c \in Conn |-> IF c \in subs[t] THEN Send(c, News(t)) ELSE conn[c]]
  /\ UNCHANGED <<world, hub, refs, dirty, hot, subs, link, page, left, leaked>>

\* (Mutant: what was marked is forgotten when its refresh ends, not when it begins.)
RestLoopForgets ==
  /\ loop = "rebuild" /\ todo = {} /\ \A t \in Topic : mu[t] # Loop
  /\ loop' = "idle" /\ marked' = {}
  /\ UNCHANGED <<world, wake, retry, todo, topics, conn, link, page, left, leaked>>

\* The refresh is over.
RestLoop ==
  /\ loop = "rebuild" /\ todo = {} /\ \A t \in Topic : mu[t] # Loop
  /\ loop' = "idle"
  /\ UNCHANGED <<world, marked, wake, retry, todo, topics, conn, link, page, left, leaked>>
------------------------------------------------------------------------------
\* The server's side of a connection. ServeWS reads what the page asks in one
\* goroutine, and in the other writes out the queue and closes at the end.

\* (Mutant: unsubscribe looks the subscription up and leaves it there.)
NotHoldingYet(c, t) == conn[c]

\* Client.unsubscribe, c.mu held: only one of the two gets to drop t.
NotHolding(c, t) == [conn[c] EXCEPT !.holds = @ \ {t}]

\* subscribe and unsubscribe begin alike: what the id had is dropped.
Read(c) ==
  /\ conn[c].st \in {"open", "closing"} /\ conn[c].reader = "read" /\ conn[c].up # <<>>
  /\ LET ask == Head(conn[c].up) IN
     conn' = [conn EXCEPT ![c] =
       [NotHolding(c, ask.t) EXCEPT !.up = Tail(@), !.ask = ask,
          !.reader = IF ask.t \in conn[c].holds THEN "detach"
                     ELSE IF ask.kind = "sub" THEN "acquire" ELSE "read"]]
  /\ UNCHANGED <<world, hub, topics, link, page, left, leaked>>

Detach(c, t) ==
  /\ mu[t] = None
  /\ subs' = [subs EXCEPT ![t] = @ \ {c}]

\* (Mutant: the topic goes, and the refresh goes on with it.)
ReleaseMidway(t) ==
  LET last == refs[t] = 1 IN
  /\ refs' = [refs EXCEPT ![t] = @ - 1]
  /\ val' = IF last THEN [val EXCEPT ![t] = None] ELSE val
  /\ mu' = IF last THEN [mu EXCEPT ![t] = None] ELSE mu
  /\ built' = IF last THEN [built EXCEPT ![t] = None] ELSE built
  /\ subs' = IF last THEN [subs EXCEPT ![t] = {}] ELSE subs
  /\ UNCHANGED <<dirty, hot, todo>>

\* Hub.release: the last reference takes the topic with it. A rebuild still to
\* come or under way then has nobody to tell.
Release(t) ==
  LET last == refs[t] = 1 IN
  /\ refs' = [refs EXCEPT ![t] = @ - 1]
  /\ dirty' = IF last THEN dirty \ {t} ELSE dirty
  /\ hot' = IF last THEN hot \ {t} ELSE hot
  /\ todo' = IF last THEN todo \ {t} ELSE todo
  /\ val' = IF last THEN [val EXCEPT ![t] = None] ELSE val
  /\ mu' = IF last THEN [mu EXCEPT ![t] = None] ELSE mu
  /\ built' = IF last THEN [built EXCEPT ![t] = None] ELSE built
  /\ subs' = IF last THEN [subs EXCEPT ![t] = {}] ELSE subs

ReaderDetach(c) ==
  /\ conn[c].reader = "detach" /\ Detach(c, conn[c].ask.t)
  /\ conn' = [conn EXCEPT ![c].reader = "release"]
  /\ UNCHANGED <<world, hub, refs, dirty, hot, val, mu, built, link, page, left, leaked>>

ReaderRelease(c) ==
  /\ conn[c].reader = "release" /\ Release(conn[c].ask.t)
  /\ conn' = [conn EXCEPT ![c].reader = IF conn[c].ask.kind = "sub" THEN "acquire" ELSE "read"]
  /\ UNCHANGED <<world, marked, wake, retry, loop, link, page, left, leaked>>

\* subscribe: Hub.acquire, then the id is entered in Client.subs.
Acquire(c) ==
  /\ conn[c].reader = "acquire"
  /\ refs' = [refs EXCEPT ![conn[c].ask.t] = @ + 1]
  /\ conn' = [conn EXCEPT ![c].reader = "hold"]
  /\ UNCHANGED <<world, hub, dirty, hot, val, mu, built, subs, link, page, left, leaked>>

Hold(c) ==
  /\ conn[c].reader = "hold"
  /\ conn' = [conn EXCEPT ![c].reader = "attach", ![c].holds = @ \cup {conn[c].ask.t}]
  /\ UNCHANGED <<world, hub, topics, link, page, left, leaked>>

\* closeAll has dropped t behind the reader's back: it adds its subscription to
\* what it still has, if only to a topic that is gone, and is sent nothing.
Adrift(c, t) == t \notin conn[c].holds /\ ~(conn[c].closer = "detach" /\ conn[c].at = t)

\* The first subscriber builds, the topic's mu held.
BuildFirst(c) ==
  LET t == conn[c].ask.t IN
  /\ conn[c].reader = "attach" /\ ~Adrift(c, t)
  /\ mu[t] = None /\ val[t] = None
  /\ mu' = [mu EXCEPT ![t] = c]
  /\ built' = [built EXCEPT ![t] = db[t]]
  /\ conn' = [conn EXCEPT ![c].reader = "build"]
  /\ UNCHANGED <<world, hub, refs, dirty, hot, val, subs, link, page, left, leaked>>

\* The subscription is added and sent what the topic shows, the topic's mu held.
Attach(c) ==
  LET t == conn[c].ask.t
      v == IF conn[c].reader = "build" THEN built[t] ELSE val[t]
  IN
  /\ \/ conn[c].reader = "build"
     \/ conn[c].reader = "attach" /\ ~Adrift(c, t) /\ mu[t] = None /\ val[t] # None
  /\ val' = [val EXCEPT ![t] = v]
  /\ mu' = [mu EXCEPT ![t] = None] /\ built' = [built EXCEPT ![t] = None]
  /\ subs' = [subs EXCEPT ![t] = @ \cup {c}]
  /\ conn' = [conn EXCEPT ![c] = [Send(c, Snapshot(t, v)) EXCEPT !.reader = "read", !.ask = None]]
  /\ UNCHANGED <<world, hub, refs, dirty, hot, link, page, left, leaked>>

AttachAdrift(c) ==
  /\ conn[c].reader = "attach" /\ Adrift(c, conn[c].ask.t)
  /\ conn' = [conn EXCEPT ![c].reader = "read", ![c].ask = None]
  /\ UNCHANGED <<world, hub, topics, link, page, left, leaked>>

\* The write loop ends: the connection is gone or was given up. closeAll then
\* lists what there is to drop.
Close(c) ==
  /\ conn[c].st = "open" /\ (conn[c].done \/ link # c)
  /\ conn' = [conn EXCEPT ![c].st = "closing", ![c].closing = conn[c].holds, ![c].out = <<>>]
  /\ UNCHANGED <<world, hub, topics, link, page, left, leaked>>

CloseNext(c, t) ==
  /\ conn[c].closer = "none" /\ t \in conn[c].closing
  /\ conn' = [conn EXCEPT ![c] =
       [NotHolding(c, t) EXCEPT !.closing = @ \ {t},
          !.closer = IF t \in conn[c].holds THEN "detach" ELSE "none",
          !.at = IF t \in conn[c].holds THEN t ELSE @]]
  /\ UNCHANGED <<world, hub, topics, link, page, left, leaked>>

CloseDetach(c) ==
  /\ conn[c].closer = "detach" /\ Detach(c, conn[c].at)
  /\ conn' = [conn EXCEPT ![c].closer = "release"]
  /\ UNCHANGED <<world, hub, refs, dirty, hot, val, mu, built, link, page, left, leaked>>

CloseRelease(c) ==
  /\ conn[c].closer = "release" /\ Release(conn[c].at)
  /\ conn' = [conn EXCEPT ![c].closer = "none", ![c].at = None]
  /\ UNCHANGED <<world, marked, wake, retry, loop, link, page, left, leaked>>

\* ServeWS has returned and the reader is done with what it had read. What it
\* subscribed to after closeAll looked is never dropped; the connection is not
\* sent to any more, and stands for another from here on.
Over(c) ==
  /\ conn[c].st = "closing" /\ conn[c].closing = {} /\ conn[c].closer = "none"
  /\ conn[c].reader = "read" /\ link # c
  /\ leaked' = [t \in Topic |-> IF t \in conn[c].holds THEN leaked[t] + 1 ELSE leaked[t]]
  /\ subs' = [t \in Topic |-> subs[t] \ {c}]
  /\ conn' = [conn EXCEPT ![c] = NoConn]
  /\ UNCHANGED <<world, hub, refs, dirty, hot, val, mu, built, link, page, left>>
------------------------------------------------------------------------------
\* The page.

Tell(ask) == IF link = None THEN conn ELSE [conn EXCEPT ![link].up = Append(@, ask)]

\* retain: a component shows t for the first time.
Want(t) ==
  /\ ~page[t].here /\ left > 0
  /\ left' = left - 1
  /\ page' = [page EXCEPT ![t] = [NoEntry EXCEPT !.here = TRUE]]
  /\ conn' = Tell(Ask(t, "sub"))
  /\ UNCHANGED <<world, hub, topics, link, leaked>>

\* Nothing has shown t for a while.
Unwant(t) ==
  /\ page[t].here
  /\ page' = [page EXCEPT ![t] = NoEntry]
  /\ conn' = Tell(Ask(t, "unsub"))
  /\ UNCHANGED <<world, hub, topics, link, left, leaked>>

\* onopen: every entry is subscribed to anew, and keeps its value meanwhile.
Connect(c) ==
  /\ link = None /\ conn[c].st = "free" /\ \E t \in Topic : page[t].here
  /\ c = CHOOSE d \in Conn : conn[d].st = "free" \* any is as good
  /\ link' = c
  /\ page' = [t \in Topic |-> [page[t] EXCEPT !.awaiting = TRUE]]
  /\ conn' = [conn EXCEPT ![c].st = "open",
       ![c].up = SetToSeq({Ask(t, "sub") : t \in {u \in Topic : page[u].here}})]
  /\ UNCHANGED <<world, hub, topics, left, leaked>>

\* onclose: the server closed it, or it is lost.
Disconnect ==
  /\ link # None
  /\ \/ conn[link].st # "open" /\ UNCHANGED left
     \/ conn[link].st = "open" /\ left > 0 /\ left' = left - 1
  /\ link' = None
  /\ UNCHANGED <<world, hub, topics, conn, page, leaked>>

\* handle: entry e, when msg arrives for it.
Handle(e, msg) ==
  IF ~e.here THEN e
  ELSE IF msg.kind = "value" THEN [e EXCEPT !.awaiting = FALSE, !.data = msg.is]
  ELSE IF e.awaiting \/ e.data \in {None, Gone} THEN e
  ELSE [e EXCEPT !.data = ApplyOps(e.data, msg.is)]

\* The write loop writes out a message, and the page handles it.
Deliver ==
  /\ link # None /\ conn[link].st = "open" /\ conn[link].out # <<>>
  /\ LET msg == Head(conn[link].out) IN
     /\ page' = [page EXCEPT ![msg.t] = Handle(@, msg)]
     /\ conn' = [conn EXCEPT ![link].out = Tail(@)]
  /\ UNCHANGED <<world, hub, topics, link, left, leaked>>
------------------------------------------------------------------------------
Reader(c) ==
  \/ Read(c) \/ ReaderDetach(c) \/ ReaderRelease(c) \/ Acquire(c) \/ Hold(c)
  \/ BuildFirst(c) \/ Attach(c) \/ AttachAdrift(c)

Closer(c) ==
  \/ Close(c) \/ CloseDetach(c) \/ CloseRelease(c) \/ Over(c)
  \/ \E t \in Topic : CloseNext(c, t)

Run == Woken \/ Refresh \/ RestLoop \/ \E t \in Topic : Rebuild(t) \/ Publish(t)

Next ==
  \/ Run \/ Resync \/ Deliver \/ Disconnect
  \/ \E t \in Topic : Mark(t) \/ Wake(t) \/ Cool(t) \/ Want(t) \/ Unwant(t)
                      \/ \E v \in Show : Write(t, v)
  \/ \E c \in Conn : Reader(c) \/ Closer(c) \/ Connect(c)

\* What goes on of itself: goroutines that have begun something, time passing, a
\* page whose socket closed. Nothing makes anything be written, shown or lost.
Progress ==
  \/ Run \/ Deliver \/ (link # None /\ conn[link].st # "open" /\ Disconnect)
  \/ \E t \in Topic : Mark(t) \/ Wake(t) \/ Cool(t)
  \/ \E c \in Conn : Reader(c) \/ Closer(c) \/ Connect(c)

Spec == Init /\ [][Next]_vars /\ WF_vars(Progress)
------------------------------------------------------------------------------
\* Properties.

\* Entry e for topic t, when a queue of messages will have arrived.
After(e, t, queue) ==
  LET entry[i \in 0..Len(queue)] ==
        IF i = 0 THEN e
        ELSE IF queue[i].t = t THEN Handle(entry[i - 1], queue[i]) ELSE entry[i - 1]
  IN entry[Len(queue)]

\* What is on its way to a page brings it from what it shows to what the topic
\* last showed its subscribers: no patch is lost, sent out of order, or applied to
\* another value than it was made from (subscribe, rebuild, send, handle).
CopyFollows ==
  \A t \in Topic : link # None =>
    LET c == conn[link] IN
    /\ c.st = "open" /\ ~c.done /\ link \in subs[t]
    /\ page[t].here /\ ~\E i \in DOMAIN c.up : c.up[i].t = t
    /\ ~(c.reader # "read" /\ c.ask.t = t)
    => LET shown == After(page[t], t, c.out) IN ~shown.awaiting /\ shown.data = val[t]

\* A topic shows what the database does, or a rebuild of it is still to come: the
\* change is yet to be marked, is marked and the loop awake, or waits for the
\* timer, which is set (Invalidate, Run, refresh, acquire).
NothingForgotten ==
  /\ \A t \in Topic :
       LET v == IF mu[t] = None THEN val[t] ELSE built[t] IN
       v \notin {None, db[t]} => t \in owed \cup marked \cup dirty \cup todo
  /\ marked # {} => wake \/ waking # {} \/ loop = "debounce"
  /\ dirty # {} => retry \/ loop = "debounce"
  /\ todo # {} => loop = "rebuild"

\* A reference is held by each subscription that is or is being made or dropped,
\* and by no other but those that a connection makes after closing: a topic
\* exists as long as anyone subscribes to it, and no longer.
RefsExact ==
  \A t \in Topic :
    refs[t] = leaked[t]
      + Cardinality({c \in Conn : t \in conn[c].holds})
      + Cardinality({c \in Conn : conn[c].closer \in {"detach", "release"} /\ conn[c].at = t})
      + Cardinality({c \in Conn : conn[c].reader \in {"detach", "release", "hold"} /\ conn[c].ask.t = t})

\* A page that goes on showing a topic comes to show what the database holds, in
\* spite of lost connections, full queues and throttling, whether or not it resyncs.
CatchesUp ==
  \A t \in Topic : <>[](page[t].here => page[t].data = db[t] /\ ~page[t].awaiting)
==============================================================================
