----------------------------- MODULE MCTTSWorker -----------------------------
(* The worker process from outside and from within. The two share no state, so *)
(* a behaviour is of one side, chosen at the start.                            *)
(* Outside: two calls, one caller of Restart beside the watchdog, and process  *)
(* ids for an orphan, the worker known to the manager and the next.            *)
(* Within: two clone models under one lock, an aux engine and the LLM, and     *)
(* three calls, so that two can follow each other past a third.                *)
EXTENDS TTSWorker, WorkerModels, TLC
CONSTANTS c1, c2, w1, w2, w3, x1, x2, x3, higgs, breeze, aceStep
VARIABLE side

CallsV == {c1, c2}
WorkersV == {w1, w2, w3}
CallV == {x1, x2, x3}
KindV == {higgs, breeze, aceStep}
GuardV == higgs :> "cloneMu" @@ breeze :> "cloneMu" @@ aceStep :> "mu"
MayWantV == x1 :> {higgs, Llm} @@ x2 :> {higgs, breeze} @@ x3 :> {aceStep, Llm}

SidesInit ==
  /\ Init /\ ModelsInit
  /\ \/ side = "outside"
     \/ side = "within" /\ port = w1

Outside(A) == side = "outside" /\ A /\ UNCHANGED <<models, side>>
Within(A) == side = "within" /\ A /\ UNCHANGED <<vars, side>>

(* Outside, the fairness of TTSWorker; within, only safety is asked.           *)
SidesSpec ==
  /\ SidesInit /\ [][Outside(Next) \/ Within(ModelsNext)]_<<vars, models, side>>
  /\ \A w \in Workers : WF_vars(Outside(Bind(w)))
  /\ \A c \in Calls : WF_vars(Outside(Return(c))) /\ SF_vars(Outside(TimesOut(c)))
  /\ WF_vars(Outside(Tick)) /\ SF_vars(Outside(HardKill))
  /\ \A a \in Actors : SF_vars(Outside(Restarting(a)))
==============================================================================
