------------------------------ MODULE WorkerModels ------------------------------
(* The models inside the worker process: the audio models, of which one kind at  *)
(* a time may be in use (src/backend/internal/audioworker/residency.go and        *)
(* worker.go), and the speaker LLM (llmworker/worker.go), which is so large that   *)
(* it and the audio models unload each other before they load                      *)
(* (cmd/ttsworker/main.go, llmExclusive).                                          *)
EXTENDS Integers, Sequences, FiniteSets

CONSTANTS
  Call,   \* HTTP calls under way at once, each made again and again
  MayWant,\* [Call -> sets of models]: what each of them may be for
  Kind,   \* residency kinds: clone models, design engines and aux engines
  Guard,  \* [Kind -> locks]: cloneMu, designMu, or an aux engine's own mu
  Default,\* DefaultCloneModel
  Llm,    \* the speaker LLM
  None

Guards == {Guard[m] : m \in Kind}

ASSUME ModelsAssumption ==
  /\ IsFiniteSet(Call)
  /\ Guard \in [Kind -> Guards]
  /\ MayWant \in [Call -> SUBSET (Kind \cup {Llm})]
  /\ Default \in Kind
  /\ Llm \notin Kind /\ None \notin Kind \cup Call \cup {Llm}

VARIABLES
  at,        \* where each call is
  wants,     \* the model it is for
  todo,      \* the locks under which it has still to unload what it can
  active,    \* residencyGate.active
  count,     \* residencyGate.count
  queue,     \* residencyGate.waiters
  resident,  \* the models in VRAM
  inFlight,  \* [Kind -> Int]: the calls that have reserved the model
  llmWriter, \* who holds the LLM's loadGate exclusively, or waits for its readers
  llmReaders,\* calls that hold it shared
  mixed      \* whether an audio call and an LLM call ever overlapped (history)

gate == <<active, count, queue>>
llm == <<llmWriter, llmReaders>>
models == <<at, wants, todo, gate, resident, inFlight, llm, mixed>>

AudioAt == {"wait", "look", "unload", "drain", "evict", "load", "run", "leave"}
LlmAt == {"ask", "lock", "open", "free", "enter", "answer"}

\* Every variable has its type.
ModelsTypeOK ==
  /\ at \in [Call -> {"idle"} \cup AudioAt \cup LlmAt]
  /\ wants \in [Call -> Kind \cup {Llm, None}]
  /\ todo \in [Call -> SUBSET Guards]
  /\ active \in Kind \cup {None}
  /\ count \in Nat
  /\ queue \in Seq([call : Call, kind : Kind])
  /\ resident \subseteq Kind \cup {Llm}
  /\ inFlight \in [Kind -> Nat]
  /\ llmWriter \in Call \cup {None}
  /\ llmReaders \subseteq Call
  /\ mixed \in BOOLEAN

\* New loads the default clone model.
ModelsInit ==
  /\ at = [c \in Call |-> "idle"] /\ wants = [c \in Call |-> None]
  /\ todo = [c \in Call |-> {}]
  /\ active = None /\ count = 0 /\ queue = <<>>
  /\ resident = {Default}
  /\ inFlight = [m \in Kind |-> 0]
  /\ llmWriter = None /\ llmReaders = {} /\ mixed = FALSE

GoTo(c, l) == at' = [at EXCEPT ![c] = l]

\* It holds the residency gate.
Holds(c) == at[c] \in AudioAt \ {"wait"}

\* A lock is held for as long as a model of it loads.
Unlocked(g) == \A c \in Call : at[c] = "load" => Guard[wants[c]] # g

\* What is loaded under a lock and reserved by nobody.
Unused(g) == {m \in Kind : Guard[m] = g /\ inFlight[m] = 0}

\* It is an audio call, or one for the LLM, while there are calls of the others.
Meets(others) == mixed' = (mixed \/ \E c \in Call : at[c] \in others)
--------------------------------------------------------------------------------
(* The residency gate: any number of calls of one kind, in the order they came. *)

\* (Mutant: whoever is first is admitted, drained or not.)
AdmitUndrained(q, n, l) ==
  /\ queue' = IF q = <<>> THEN q ELSE Tail(q)
  /\ count' = IF q = <<>> THEN n ELSE n + 1
  /\ active' = IF q = <<>> THEN active ELSE Head(q).kind
  /\ at' = [c \in Call |-> IF q # <<>> /\ c = Head(q).call THEN "look" ELSE l[c]]
\* The first of the queue are admitted for as long as they may hold the gate.
Admit(q, n, l) ==
  LET k == IF n = 0 /\ q # <<>> THEN q[1].kind ELSE active
  IN \E i \in 0..Len(q) :
       /\ \A j \in 1..i : q[j].kind = k
       /\ i < Len(q) => q[i + 1].kind # k
       /\ queue' = SubSeq(q, i + 1, Len(q))
       /\ count' = n + i
       /\ active' = k
       /\ at' = [c \in Call |-> IF \E j \in 1..i : q[j].call = c THEN "look" ELSE l[c]]

\* (Mutant: a call of the active kind does not queue.)
AcquireBarging(c, m) ==
  /\ at[c] = "idle" /\ m \in MayWant[c]
  /\ wants' = [wants EXCEPT ![c] = m]
  /\ Meets(LlmAt)
  /\ IF count = 0 \/ active = m
       THEN active' = m /\ count' = count + 1 /\ GoTo(c, "look") /\ UNCHANGED queue
       ELSE Admit(Append(queue, [call |-> c, kind |-> m]), count, [at EXCEPT ![c] = "wait"])
  /\ UNCHANGED <<todo, resident, inFlight, llm>>
\* A call for an audio model first takes the gate for its kind.
Acquire(c, m) ==
  /\ at[c] = "idle" /\ m \in MayWant[c]
  /\ wants' = [wants EXCEPT ![c] = m]
  /\ Meets(LlmAt)
  /\ IF queue = <<>> /\ (count = 0 \/ active = m)
       THEN active' = m /\ count' = count + 1 /\ GoTo(c, "look") /\ UNCHANGED queue
       ELSE Admit(Append(queue, [call |-> c, kind |-> m]), count, [at EXCEPT ![c] = "wait"])
  /\ UNCHANGED <<todo, resident, inFlight, llm>>
--------------------------------------------------------------------------------
(* A call for an audio model: getCloneModel, getDesignModel, getAux.            *)

Reserve(c) ==
  /\ inFlight' = [inFlight EXCEPT ![wants[c]] = @ + 1]
  /\ GoTo(c, "run")

\* (Mutant: a call that finds its model reserves nothing.)
LookUnreserved(c) ==
  /\ at[c] = "look" /\ Unlocked(Guard[wants[c]])
  /\ GoTo(c, IF wants[c] \in resident THEN "run" ELSE "unload")
  /\ UNCHANGED <<wants, todo, gate, resident, inFlight, llm, mixed>>
\* Is it loaded?
Look(c) ==
  /\ at[c] = "look" /\ Unlocked(Guard[wants[c]])
  /\ IF wants[c] \in resident THEN Reserve(c) ELSE GoTo(c, "unload") /\ UNCHANGED inFlight
  /\ UNCHANGED <<wants, todo, gate, resident, llm, mixed>>

\* BeforeLoad unloads the LLM: it takes the LLM's gate...
TakeLlm(c) ==
  /\ at[c] = "unload" /\ llmWriter = None
  /\ llmWriter' = c /\ GoTo(c, "drain")
  /\ UNCHANGED <<wants, todo, gate, resident, inFlight, llmReaders, mixed>>

\* ...once the calls for it have ended.
FreeLlm(c) ==
  /\ at[c] = "drain" /\ llmReaders = {}
  /\ resident' = resident \ {Llm}
  /\ llmWriter' = None
  /\ todo' = [todo EXCEPT ![c] = Guards \ {Guard[wants[c]]}] /\ GoTo(c, "evict")
  /\ UNCHANGED <<wants, gate, inFlight, llmReaders, mixed>>

\* It unloads what is loaded under each of the other locks, in whatever order.
\* Before it loads, the LLM has all of them unloaded.
Evict(c, g) ==
  /\ at[c] \in {"evict", "free"} /\ g \in todo[c] /\ Unlocked(g)
  /\ resident' = resident \ Unused(g)
  /\ todo' = [todo EXCEPT ![c] = @ \ {g}]
  /\ UNCHANGED <<at, wants, gate, inFlight, llm, mixed>>

\* Then it unloads the others of its own lock, unless another call has loaded the
\* model meanwhile, and keeps the lock while it loads.
StartLoad(c) ==
  /\ at[c] = "evict" /\ todo[c] = {} /\ Unlocked(Guard[wants[c]])
  /\ IF wants[c] \in resident
       THEN Reserve(c) /\ UNCHANGED resident
       ELSE GoTo(c, "load") /\ resident' = resident \ Unused(Guard[wants[c]])
            /\ UNCHANGED inFlight
  /\ UNCHANGED <<wants, todo, gate, llm, mixed>>

Loaded(c) ==
  /\ at[c] = "load"
  /\ resident' = resident \cup {wants[c]} /\ Reserve(c)
  /\ UNCHANGED <<wants, todo, gate, llm, mixed>>

LoadFails(c) ==
  /\ at[c] = "load"
  /\ GoTo(c, "leave")
  /\ UNCHANGED <<wants, todo, gate, resident, inFlight, llm, mixed>>

\* Its session has run, or it could not make one: it releases the model, ...
Ends(c) ==
  /\ at[c] = "run" /\ Unlocked(Guard[wants[c]])
  /\ inFlight' = [inFlight EXCEPT ![wants[c]] = @ - 1]
  /\ GoTo(c, "leave")
  /\ UNCHANGED <<wants, todo, gate, resident, llm, mixed>>

\* ...and then the gate, also when its load failed.
LeaveGate(c) ==
  /\ at[c] = "leave"
  /\ wants' = [wants EXCEPT ![c] = None]
  /\ Admit(queue, count - 1, [at EXCEPT ![c] = "idle"])
  /\ UNCHANGED <<todo, resident, inFlight, llm, mixed>>
--------------------------------------------------------------------------------
(* A call for the LLM: LLMGenerate, LLMDecide.                                  *)

Ask(c) ==
  /\ at[c] = "idle" /\ Llm \in MayWant[c]
  /\ wants' = [wants EXCEPT ![c] = Llm] /\ GoTo(c, "ask")
  /\ Meets(AudioAt)
  /\ UNCHANGED <<todo, gate, resident, inFlight, llm>>

IsLoaded(c) ==
  /\ at[c] = "ask" /\ llmWriter = None
  /\ GoTo(c, IF Llm \in resident THEN "enter" ELSE "lock")
  /\ UNCHANGED <<wants, todo, gate, resident, inFlight, llm, mixed>>

LockLlm(c) ==
  /\ at[c] = "lock" /\ llmWriter = None
  /\ llmWriter' = c /\ GoTo(c, "open")
  /\ UNCHANGED <<wants, todo, gate, resident, inFlight, llmReaders, mixed>>

\* Another call may have loaded it.
OpenLlm(c) ==
  /\ at[c] = "open" /\ llmReaders = {}
  /\ IF Llm \in resident
       THEN llmWriter' = None /\ GoTo(c, "enter") /\ UNCHANGED todo
       ELSE todo' = [todo EXCEPT ![c] = Guards] /\ GoTo(c, "free") /\ UNCHANGED llmWriter
  /\ UNCHANGED <<wants, gate, resident, inFlight, llmReaders, mixed>>

\* (Mutant: a load that failed keeps the LLM's gate.)
LlmLoadsOrKeepsGate(c) ==
  /\ at[c] = "free" /\ todo[c] = {}
  /\ \/ /\ resident' = resident \cup {Llm} /\ GoTo(c, "enter")
        /\ llmWriter' = None
        /\ UNCHANGED wants
     \/ /\ wants' = [wants EXCEPT ![c] = None] /\ GoTo(c, "idle")
        /\ UNCHANGED <<resident, llmWriter>>
  /\ UNCHANGED <<todo, gate, inFlight, llmReaders, mixed>>
\* The LLM is loaded, or it fails to.
LlmLoads(c) ==
  /\ at[c] = "free" /\ todo[c] = {}
  /\ llmWriter' = None
  /\ \/ /\ resident' = resident \cup {Llm} /\ GoTo(c, "enter")
        /\ UNCHANGED wants
     \/ /\ wants' = [wants EXCEPT ![c] = None] /\ GoTo(c, "idle")
        /\ UNCHANGED resident
  /\ UNCHANGED <<todo, gate, inFlight, llmReaders, mixed>>

\* The model may be gone again: the call then fails.
Enter(c) ==
  /\ at[c] = "enter" /\ llmWriter = None
  /\ IF Llm \in resident
       THEN llmReaders' = llmReaders \cup {c} /\ GoTo(c, "answer") /\ UNCHANGED wants
       ELSE wants' = [wants EXCEPT ![c] = None] /\ GoTo(c, "idle") /\ UNCHANGED llmReaders
  /\ UNCHANGED <<todo, gate, resident, inFlight, llmWriter, mixed>>

Answer(c) ==
  /\ at[c] = "answer"
  /\ llmReaders' = llmReaders \ {c}
  /\ wants' = [wants EXCEPT ![c] = None] /\ GoTo(c, "idle")
  /\ UNCHANGED <<todo, gate, resident, inFlight, llmWriter, mixed>>
--------------------------------------------------------------------------------
(* Unloading what is idle, or because the server asks for it.                   *)

\* UnloadAll takes lock after lock: what it may do under each, it may do at any time.
UnloadIdle(g) ==
  /\ Unlocked(g)
  /\ resident' = resident \ Unused(g)
  /\ UNCHANGED <<at, wants, todo, gate, inFlight, llm, mixed>>

UnloadLlm ==
  /\ Llm \in resident /\ llmWriter = None /\ llmReaders = {}
  /\ resident' = resident \ {Llm}
  /\ UNCHANGED <<at, wants, todo, gate, inFlight, llm, mixed>>
--------------------------------------------------------------------------------
GoesOn(c) ==
  \/ Look(c) \/ TakeLlm(c) \/ FreeLlm(c) \/ (\E g \in Guards : Evict(c, g))
  \/ StartLoad(c) \/ Loaded(c) \/ LoadFails(c) \/ Ends(c) \/ LeaveGate(c)
  \/ IsLoaded(c) \/ LockLlm(c) \/ OpenLlm(c) \/ LlmLoads(c) \/ Enter(c) \/ Answer(c)

ModelsNext ==
  \/ \E c \in Call : Ask(c) \/ GoesOn(c) \/ \E m \in Kind : Acquire(c, m)
  \/ UnloadLlm \/ \E g \in Guards : UnloadIdle(g)

ModelsSpec == ModelsInit /\ [][ModelsNext]_models
--------------------------------------------------------------------------------
(* Properties.                                                                  *)

\* Of the audio models, one at a time is loaded or being loaded, whatever calls
\* come together, whichever loads fail and whenever idle models are swept
\* (getCloneModel, getDesignModel, getAux): a busy model is never left for
\* another to be loaded beside it. And as long as audio calls and LLM calls do
\* not overlap, which is what the job manager's contexts are for, the LLM and an
\* audio model are never loaded both (the comment in cmd/ttsworker/main.go).
OneResident ==
  /\ \A m, n \in Kind :
       /\ m \in resident \/ \E c \in Call : at[c] = "load" /\ wants[c] = m
       /\ n \in resident \/ \E c \in Call : at[c] = "load" /\ wants[c] = n
       => m = n
  /\ ~mixed => ~(Llm \in resident /\ resident \cap Kind # {})

\* No model is closed under a call that uses it, by an eviction, an unload or a
\* load (inFlight, loadGate).
NotClosedInUse ==
  [][\A c \in Call : at[c] \in {"run", "answer"} => wants[c] \notin resident \ resident']_models

\* No call is overtaken in the queue of the gate: who enters it was ahead of all
\* who still wait (the comment on residencyGate: a steady stream of calls of one
\* kind would keep another kind out for ever).
NotOvertaken ==
  [][\A i \in 1..Len(queue), d \in Call :
       ~Holds(d) /\ Holds(d)' /\ at'[queue[i].call] = "wait"
       => \E j \in 1..(i - 1) : queue[j].call = d]_models

\* What a call waits for before it goes on: nothing, the lock of its model, the
\* LLM's gate, the end of the LLM's calls, or a lock it has still to take.
MayGoOn(c) ==
  \/ at[c] \in {"load", "leave", "answer"}
  \/ at[c] \in {"look", "run"} /\ Unlocked(Guard[wants[c]])
  \/ at[c] \in {"unload", "ask", "lock", "enter"} /\ llmWriter = None
  \/ at[c] \in {"drain", "open"} /\ llmReaders = {}
  \/ at[c] \in {"evict", "free"} /\ \E g \in todo[c] : Unlocked(g)
  \/ at[c] = "evict" /\ todo[c] = {} /\ Unlocked(Guard[wants[c]])
  \/ at[c] = "free" /\ todo[c] = {}

SomebodyMayGoOn == (\E c \in Call : at[c] # "idle") => \E c \in Call : MayGoOn(c)

\* Some call can always go on: the gate, the locks of the models and the LLM's
\* gate never wait for each other in a circle, though an audio load has the LLM
\* unloaded and an LLM load has the audio models unloaded.
NobodyStuck ==
  /\ SomebodyMayGoOn
  /\ \A c \in Call : MayGoOn(c) <=> ENABLED GoesOn(c)
================================================================================
