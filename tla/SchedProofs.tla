----------------------------- MODULE SchedProofs -----------------------------
(* Proofs about the scheduler, Sched, for every set of tasks, contexts,        *)
(* priorities, capacities and needs.                                           *)
EXTENDS Sched, TLAPS, WellFoundedInduction, SequenceTheorems, FiniteSetTheorems

-----------------------------------------------------------------------------
(* Priorities.                                                                 *)

Below == {ss \in Nat \X Nat : ss[1] < ss[2]}

LEMMA BelowWellFounded == IsWellFoundedOn(Below, Nat)
BY NatLessThanWellFounded, Zenon DEF OpToRel, Below

\* The least element of a non-empty set of naturals is one of its elements, and
\* no greater than any.
LEMMA MinOfIn ==
  ASSUME NEW S \in SUBSET Nat, S # {}
  PROVE  MinOf(S) \in S /\ \A y \in S : MinOf(S) <= y
<1>1. PICK x \in S : \A y \in S : ~(<<y, x>> \in Below)
  BY BelowWellFounded, WFMin
<1>2. \A y \in S : x <= y
  <2>1. SUFFICES ASSUME NEW y \in S PROVE x <= y
    OBVIOUS
  <2>2. x \in Nat /\ y \in Nat
    OBVIOUS
  <2>3. ~(y < x)
    <3>1. <<y, x>> \notin Below
      BY <1>1
    <3>. QED  BY <2>2, <3>1 DEF Below
  <2>. QED  BY <2>2, <2>3
<1>. QED  BY <1>2 DEF MinOf

LEMMA PriorityNat == Priority \subseteq Nat
BY SchedAssumption DEF Priority, NoPriority

\* The effective priority of a task is a priority.
LEMMA PrioInPriority ==
  ASSUME GraphTypeOK, NEW k
  PROVE  Prio(k) \in Priority
<1>1. Wanters(k) \subseteq Keys
  BY DEF Wanters
<1> DEFINE S == {NoPriority} \cup {requests[w][s] : w \in Wanters(k), s \in Sources}
<1>2. S \subseteq Priority
  BY <1>1 DEF GraphTypeOK, Priority
<1>3. NoPriority \in S
  OBVIOUS
<1>4. MinOf(S) \in S
  <2>. HIDE DEF S
  <2>1. S \in SUBSET Nat
    BY <1>2, PriorityNat
  <2>. QED  BY <1>3, <2>1, MinOfIn
<1>. QED  BY <1>2, <1>4 DEF Prio

-----------------------------------------------------------------------------
(* The frames of the call stack.                                               *)

LEMMA PreparingType ==
  ASSUME NEW k \in Keys
  PROVE  Preparing(k) \in Frame
BY DEF Preparing, Frame, PrepareFrame

LEMMA LinkingType ==
  ASSUME NEW k \in Keys, NEW H \in SUBSET Keys, NEW S \in SUBSET Keys
  PROVE  Linking(k, H, S) \in Frame
BY DEF Linking, Frame, LinkFrame

LEMMA EndingType ==
  ASSUME NEW k \in Keys, NEW e \in Outcome
  PROVE  Ending(k, e) \in Frame
BY DEF Ending, Frame, EndFrame

LEMMA ReplacingType ==
  ASSUME NEW s \in Sources, NEW p \in Prios, NEW K \in SUBSET Keys, NEW L \in SUBSET Keys
  PROVE  Replacing(s, p, K, L) \in Frame
BY DEF Replacing, Frame, ReplaceFrame

LEMMA PushType ==
  ASSUME NEW f \in Frame, NEW s \in Seq(Frame)
  PROVE  <<f>> \in Seq(Frame) /\ <<f>> \o s \in Seq(Frame)
BY ConcatProperties

LEMMA LoopType ==
  ASSUME NEW f \in Frame
  PROVE  Loop(f) \in Seq(Frame)
BY DEF Loop

\* The frames of a loop are a sequence of frames.
LEMMA DroppingType ==
  ASSUME NEW K \in SUBSET Keys
  PROVE  Dropping(K) \in Seq(Frame) /\ Canceling(K) \in Seq(Frame)
<1>1. [op |-> "drop", todo |-> K] \in Frame
  BY DEF Frame, DropFrame
<1>2. [op |-> "cancel", todo |-> K] \in Frame
  BY DEF Frame, DropFrame
<1>. QED  BY <1>1, <1>2, LoopType DEF Dropping, Canceling

LEMMA WithdrawingType ==
  ASSUME NEW s \in Sources, NEW K \in SUBSET Keys
  PROVE  Withdrawing(s, K) \in Seq(Frame)
<1>1. [op |-> "withdraw", source |-> s, todo |-> K] \in Frame
  BY DEF Frame, WithdrawFrame
<1>. QED  BY <1>1, LoopType DEF Withdrawing

LEMMA TellingType ==
  ASSUME NEW k \in Keys, NEW e \in Outcome,
         NEW K \in SUBSET Keys, NEW H \in SUBSET Keys, NEW S \in SUBSET Keys
  PROVE  Telling(k, e, K, H, S) \in Seq(Frame)
<1>1. [op |-> "tell", key |-> k, err |-> e, todo |-> K, hard |-> H, soft |-> S] \in Frame
  BY DEF Frame, TellFrame
<1>. QED  BY <1>1, LoopType DEF Telling

\* What is on top of the stack, by the call it stands for.
LEMMA TopTypes ==
  ASSUME ControlTypeOK, stack # <<>>
  PROVE  /\ Top \in Frame
         /\ Rest \in Seq(Frame)
         /\ Top.op = "prepare" => Top.key \in Keys
         /\ Top.op = "link" => Top \in LinkFrame
         /\ Top.op = "end" => Top \in EndFrame
         /\ Top.op \in {"drop", "cancel"} => Top \in DropFrame
         /\ Top.op = "tell" => Top \in TellFrame
         /\ Top.op = "replace" => Top \in ReplaceFrame
         /\ Top.op = "withdraw" => Top \in WithdrawFrame
<1>1. Top \in Frame /\ Rest \in Seq(Frame)
  BY DEF ControlTypeOK, Top, Rest
<1>. QED  BY <1>1 DEF Frame, PrepareFrame, LinkFrame, EndFrame, DropFrame, TellFrame,
                      ReplaceFrame, WithdrawFrame

-----------------------------------------------------------------------------
(* Type correctness: every action preserves TypeOK.                            *)

LEMMA InitType ==
  ASSUME Init
  PROVE  TypeOK
<1>1. GraphTypeOK
  <2>1. requests \in [Keys -> [Sources -> Priority]]
    BY DEF Init, Priority
  <2>2. attempt \in [Keys -> 0 .. MaxAttempts - 1]
    BY SchedAssumption DEF Init
  <2>. QED  BY <2>1, <2>2 DEF Init, GraphTypeOK
<1>2. DispatchTypeOK
  BY DEF Init, DispatchTypeOK
<1>3. ControlTypeOK
  <2>1. stack = <<>> /\ gate = Keys /\ closed = FALSE /\ locked = FALSE
    BY DEF Init
  <2>. QED  BY <2>1, EmptySeq DEF ControlTypeOK
<1>. QED  BY <1>1, <1>2, <1>3 DEF TypeOK

\* What an action that leaves a group of variables alone does to its type.
LEMMA UnchangedTypes ==
  /\ GraphTypeOK /\ UNCHANGED graph => GraphTypeOK'
  /\ DispatchTypeOK /\ UNCHANGED dispatch => DispatchTypeOK'
BY DEF graph, dispatch, GraphTypeOK, DispatchTypeOK

LEMMA RequestType ==
  ASSUME TypeOK, NEW s \in Sources, NEW p \in Prios, NEW k \in Keys, Request(s, p, k)
  PROVE  TypeOK'
<1>1. requests' \in [Keys -> [Sources -> Priority]]
  BY DEF Request, Urge, TypeOK, GraphTypeOK, Priority
<1>2. GraphTypeOK'
  BY <1>1 DEF Request, Add, TypeOK, GraphTypeOK
<1>3. DispatchTypeOK'
  BY UnchangedTypes DEF Request, TypeOK
<1>4. stack' \in Seq(Frame)
  <2>1. stack \in Seq(Frame)
    BY DEF TypeOK, ControlTypeOK
  <2>2. stack' = <<Preparing(k)>> \/ stack' = stack
    BY DEF Request
  <2>. QED  BY <2>1, <2>2, PreparingType, PushType
<1>. QED  BY <1>2, <1>3, <1>4 DEF Request, Call, control, TypeOK, ControlTypeOK

LEMMA RaiseType ==
  ASSUME TypeOK, NEW s \in Sources, NEW p \in Prios, NEW k \in Keys, Raise(s, p, k)
  PROVE  TypeOK'
<1>1. requests' \in [Keys -> [Sources -> Priority]]
  BY DEF Raise, TypeOK, GraphTypeOK, Priority
<1>2. GraphTypeOK'
  BY <1>1 DEF Raise, TypeOK, GraphTypeOK
<1>3. DispatchTypeOK'
  BY UnchangedTypes DEF Raise, TypeOK
<1>. QED  BY <1>2, <1>3 DEF Raise, Call, control, TypeOK, ControlTypeOK

LEMMA AdoptType ==
  ASSUME TypeOK, NEW w \in Keys, NEW k \in Keys, Adopt(w, k)
  PROVE  TypeOK'
<1>1. GraphTypeOK'
  BY DEF Adopt, Add, TypeOK, GraphTypeOK
<1>2. DispatchTypeOK'
  BY UnchangedTypes DEF Adopt, TypeOK
<1>3. stack' \in Seq(Frame)
  <2>1. stack \in Seq(Frame)
    BY DEF TypeOK, ControlTypeOK
  <2>2. stack' = <<Preparing(k)>> \/ stack' = stack
    BY DEF Adopt
  <2>. QED  BY <2>1, <2>2, PreparingType, PushType
<1>. QED  BY <1>1, <1>2, <1>3 DEF Adopt, Call, control, TypeOK, ControlTypeOK

\* The calls that only start a loop, or a cancellation.
LEMMA LoopCallsType ==
  ASSUME TypeOK,
         \/ \E s \in Sources, p \in Prios, K \in Batches : Replace(s, p, K)
         \/ \E s \in Sources, K \in Batches : Withdraw(s, K)
         \/ \E k \in Keys : Cancel(k)
         \/ \E K \in Batches : CancelWhere(K)
  PROVE  TypeOK'
<1>1. stack \in Seq(Frame)
  BY DEF TypeOK, ControlTypeOK
<1>2. ASSUME NEW s \in Sources, NEW p \in Prios, NEW K \in Batches, Replace(s, p, K)
      PROVE  TypeOK'
  <2>1. stack' \in Seq(Frame)
    <3>1. K \in SUBSET Keys
      BY SchedAssumption
    <3>. QED  BY <1>2, <3>1, ReplacingType, PushType DEF Replace
  <2>. QED  BY <1>2, <2>1, UnchangedTypes DEF Replace, Call, control, TypeOK, ControlTypeOK
<1>3. ASSUME NEW s \in Sources, NEW K \in Batches, Withdraw(s, K)
      PROVE  TypeOK'
  <2>1. stack' \in Seq(Frame)
    <3>1. K \in SUBSET Keys
      BY SchedAssumption
    <3>. QED  BY <1>3, <3>1, WithdrawingType DEF Withdraw
  <2>. QED  BY <1>3, <2>1, UnchangedTypes DEF Withdraw, Call, control, TypeOK, ControlTypeOK
<1>4. ASSUME NEW k \in Keys, Cancel(k)
      PROVE  TypeOK'
  <2>1. stack' \in Seq(Frame) /\ canceled' \subseteq Keys
    <3>1. <<>> \in Seq(Frame)
      BY EmptySeq
    <3>2. "canceled" \in Outcome
      BY DEF Outcome
    <3>3. <<Ending(k, "canceled")>> \o <<>> \in Seq(Frame)
      BY <3>1, <3>2, EndingType, PushType
    <3>. QED  BY <1>4, <3>1, <3>3 DEF Cancel, CancelNode, TypeOK, GraphTypeOK
  <2>2. GraphTypeOK'
    BY <1>4, <2>1 DEF Cancel, TypeOK, GraphTypeOK
  <2>. QED  BY <1>4, <2>1, <2>2, UnchangedTypes DEF Cancel, Call, control, TypeOK, ControlTypeOK
<1>5. ASSUME NEW K \in Batches, CancelWhere(K)
      PROVE  TypeOK'
  <2>1. K \in SUBSET Keys
    BY SchedAssumption
  <2>2. stack' \in Seq(Frame)
    BY <1>5, <2>1, DroppingType DEF CancelWhere
  <2>3. GraphTypeOK'
    BY <1>5, <2>1 DEF CancelWhere, TypeOK, GraphTypeOK
  <2>. QED  BY <1>5, <2>2, <2>3, UnchangedTypes DEF CancelWhere, Call, control, TypeOK, ControlTypeOK
<1>. QED  BY <1>2, <1>3, <1>4, <1>5

\* The calls that touch nothing in the graph.
LEMMA ControlCallsType ==
  ASSUME TypeOK, (\E g \in Gates : SetGate(g)) \/ Close
  PROVE  TypeOK'
<1>1. ASSUME NEW g \in Gates, SetGate(g)
      PROVE  TypeOK'
  BY <1>1, SchedAssumption, UnchangedTypes DEF SetGate, Call, TypeOK, ControlTypeOK
<1>2. CASE Close
  BY <1>2, UnchangedTypes DEF Close, TypeOK, ControlTypeOK, DispatchTypeOK
<1>. QED  BY <1>1, <1>2

LEMMA AdmissionType ==
  ASSUME TypeOK, (\E k \in Keys : Start(k)) \/ Unlock \/ DwellEnds \/ TimerFires
  PROVE  TypeOK'
<1>1. ASSUME NEW k \in Keys, Start(k)
      PROVE  TypeOK'
  <2>1. GraphTypeOK'
    BY <1>1 DEF Start, TypeOK, GraphTypeOK
  <2>2. DispatchTypeOK'
    <3>1. Prio(k) \in Nat
      BY PrioInPriority, PriorityNat DEF TypeOK
    <3>2. Context[k] \in Contexts \cup {NoContext} /\ Dwell \in BOOLEAN
      BY SchedAssumption
    <3>. QED  BY <1>1, <3>1, <3>2 DEF Start, TypeOK, DispatchTypeOK
  <2>. QED  BY <1>1, <2>1, <2>2 DEF Start, control, TypeOK, ControlTypeOK
<1>2. CASE Unlock
  <2>1. timer' \in BOOLEAN
    BY <1>2 DEF Unlock, TimerArmed
  <2>. QED  BY <1>2, <2>1, UnchangedTypes DEF Unlock, control, TypeOK, DispatchTypeOK, ControlTypeOK
<1>3. CASE DwellEnds
  BY <1>3, UnchangedTypes DEF DwellEnds, control, TypeOK, DispatchTypeOK, ControlTypeOK
<1>4. CASE TimerFires
  BY <1>4, UnchangedTypes DEF TimerFires, control, TypeOK, DispatchTypeOK, ControlTypeOK
<1>. QED  BY <1>1, <1>2, <1>3, <1>4

LEMMA FinishType ==
  ASSUME TypeOK, NEW k \in Keys, NEW r \in Results, Finish(k, r)
  PROVE  TypeOK'
<1>1. stack' \in Seq(Frame)
  <2>1. \A e \in Outcome : <<Ending(k, e)>> \in Seq(Frame)
    BY EndingType, PushType, EmptySeq
  <2>2. <<Preparing(k)>> \in Seq(Frame)
    BY PreparingType, PushType, EmptySeq
  <2>. QED  BY <2>1, <2>2 DEF Finish, Outcome
<1>2. attempt' \in [Keys -> 0 .. MaxAttempts - 1]
  BY SchedAssumption DEF Finish, AttemptsLeft, TypeOK, GraphTypeOK
<1>3. GraphTypeOK'
  BY <1>2 DEF Finish, TypeOK, GraphTypeOK
<1>. QED  BY <1>1, <1>3, UnchangedTypes DEF Finish, control, TypeOK, ControlTypeOK

-----------------------------------------------------------------------------
(* Type correctness of the cascade.                                            *)

\* Replacing the frame on top by frames keeps the stack a stack.
LEMMA ProceedType ==
  ASSUME ControlTypeOK, stack # <<>>, NEW F \in Seq(Frame), Proceed(F)
  PROVE  stack' \in Seq(Frame)
<1>1. Rest \in Seq(Frame)
  BY TopTypes
<1>. QED  BY <1>1, ConcatProperties DEF Proceed

LEMMA PairType ==
  ASSUME NEW f \in Frame, NEW g \in Frame
  PROVE  <<f, g>> \in Seq(Frame)
OBVIOUS

\* What a cascade step owes once the graph and the stack are dealt with.
LEMMA CascadeRest ==
  ASSUME TypeOK, GraphTypeOK', stack' \in Seq(Frame), UNCHANGED <<dispatch, control, locked>>
  PROVE  TypeOK'
BY UnchangedTypes DEF control, TypeOK, ControlTypeOK

LEMMA PrepareType ==
  ASSUME TypeOK, Prepare
  PROVE  TypeOK'
<1>. DEFINE k == Top.key
<1>1. k \in Keys /\ stack # <<>> /\ ControlTypeOK
  BY TopTypes DEF Prepare, OnTop, TypeOK
<1>2. GraphTypeOK'
  BY <1>1 DEF Prepare, TypeOK, GraphTypeOK
<1>3. stack' \in Seq(Frame)
  <2>1. CASE \E H \in SUBSET Deps[k], S \in SUBSET Members[k] : Proceed(<<Linking(k, H, S)>>)
    <3>1. PICK H \in SUBSET Deps[k], S \in SUBSET Members[k] : Proceed(<<Linking(k, H, S)>>)
      BY <2>1
    <3>2. H \in SUBSET Keys /\ S \in SUBSET Keys
      BY <1>1, SchedAssumption
    <3>3. Linking(k, H, S) \in Frame
      BY <1>1, <3>2, LinkingType
    <3>4. <<Linking(k, H, S)>> \in Seq(Frame)
      BY <3>3, PushType, EmptySeq
    <3>. QED  BY <1>1, <3>1, <3>4, ProceedType
  <2>2. CASE Proceed(<<Ending(k, "error")>>)
    <3>1. <<Ending(k, "error")>> \in Seq(Frame)
      BY <1>1, EndingType, PushType, EmptySeq DEF Outcome
    <3>. QED  BY <1>1, <2>2, <3>1, ProceedType
  <2>. QED  BY <2>1, <2>2 DEF Prepare
<1>. QED  BY <1>2, <1>3, CascadeRest DEF Prepare

LEMMA LinkType ==
  ASSUME TypeOK, Link
  PROVE  TypeOK'
<1>1. Top \in LinkFrame /\ stack # <<>> /\ ControlTypeOK
  BY TopTypes DEF Link, OnTop, TypeOK
<1>. DEFINE k == Top.key
            more(d) == [Top EXCEPT !.todo = @ \ {d}]
<1>2. k \in Keys
  BY <1>1 DEF LinkFrame
<1>3. PICK d \in Top.todo :
        /\ \/ /\ Proceed(<<more(d)>>)
              /\ UNCHANGED <<state, needs, members>>
           \/ /\ Proceed(<<Ending(k, "error"), more(d)>>)
              /\ UNCHANGED <<state, needs, members>>
           \/ /\ IF d \in Top.hard
                   THEN needs' = [needs EXCEPT ![k] = @ \cup {d}] /\ UNCHANGED members
                   ELSE members' = [members EXCEPT ![k] = @ \cup {d}] /\ UNCHANGED needs
              /\ \/ Add(d) /\ Proceed(<<Preparing(d), more(d)>>)
                 \/ Proceed(<<more(d)>>) /\ UNCHANGED state
  BY DEF Link
<1>4. d \in Keys
  BY <1>1 DEF LinkFrame
<1>5. GraphTypeOK'
  <2>. HIDE DEF more, k
  <2>1. UNCHANGED <<requests, adopted, ended, attempt, canceled, doomed>>
    BY DEF Link
  <2>2. state' \in [Keys -> {"absent", "waiting", "ready", "running"}]
    BY <1>3, <1>4 DEF Add, TypeOK, GraphTypeOK
  <2>3. /\ needs' = needs \/ needs' = [needs EXCEPT ![k] = @ \cup {d}]
        /\ members' = members \/ members' = [members EXCEPT ![k] = @ \cup {d}]
    BY <1>3
  <2>4. needs' \in [Keys -> SUBSET Keys]
    BY <1>2, <1>4, <2>3 DEF TypeOK, GraphTypeOK
  <2>5. members' \in [Keys -> SUBSET Keys]
    BY <1>2, <1>4, <2>3 DEF TypeOK, GraphTypeOK
  <2>. QED  BY <2>1, <2>2, <2>4, <2>5 DEF TypeOK, GraphTypeOK
<1>6. stack' \in Seq(Frame)
  <2>1. more(d) \in Frame
    BY <1>1 DEF LinkFrame, Frame
  <2>2. Ending(k, "error") \in Frame /\ Preparing(d) \in Frame
    BY <1>2, <1>4, EndingType, PreparingType DEF Outcome
  <2>. HIDE DEF more, k
  <2>3. /\ <<more(d)>> \in Seq(Frame)
        /\ <<Ending(k, "error"), more(d)>> \in Seq(Frame)
        /\ <<Preparing(d), more(d)>> \in Seq(Frame)
    BY <2>1, <2>2, PairType, PushType, EmptySeq
  <2>. QED  BY <1>1, <1>3, <2>3, ProceedType
<1>. QED  BY <1>5, <1>6, CascadeRest DEF Link

LEMMA LinkedType ==
  ASSUME TypeOK, Linked
  PROVE  TypeOK'
<1>1. Top \in LinkFrame /\ stack # <<>> /\ ControlTypeOK
  BY TopTypes DEF Linked, OnTop, TypeOK
<1>2. GraphTypeOK'
  BY <1>1 DEF Linked, LinkFrame, TypeOK, GraphTypeOK
<1>3. stack' \in Seq(Frame)
  BY <1>1, ProceedType, EmptySeq DEF Linked
<1>. QED  BY <1>2, <1>3, CascadeRest DEF Linked

\* A frame that meets no more of a task that is gone is still a frame.
LEMMA WithoutType ==
  ASSUME NEW f \in Frame, NEW k \in Keys
  PROVE  Without(f, k) \in Frame
<1>1. CASE f.op = "link" /\ f.key = k
  <2>1. f \in LinkFrame
    BY <1>1 DEF Frame, PrepareFrame, LinkFrame, EndFrame, DropFrame, TellFrame,
                ReplaceFrame, WithdrawFrame
  <2>. QED  BY <1>1, <2>1 DEF Without, LinkFrame, Frame
<1>2. CASE f.op \in {"drop", "cancel"}
  <2>1. f \in DropFrame
    BY <1>2 DEF Frame, PrepareFrame, LinkFrame, EndFrame, DropFrame, TellFrame,
                ReplaceFrame, WithdrawFrame
  <2>. QED  BY <1>2, <2>1 DEF Without, DropFrame, Frame
<1>3. CASE f.op = "tell"
  <2>1. f \in TellFrame
    BY <1>3 DEF Frame, PrepareFrame, LinkFrame, EndFrame, DropFrame, TellFrame,
                ReplaceFrame, WithdrawFrame
  <2>. QED  BY <1>3, <2>1 DEF Without, TellFrame, Frame
<1>4. CASE f.op = "withdraw"
  <2>1. f \in WithdrawFrame
    BY <1>4 DEF Frame, PrepareFrame, LinkFrame, EndFrame, DropFrame, TellFrame,
                ReplaceFrame, WithdrawFrame
  <2>. QED  BY <1>4, <2>1 DEF Without, WithdrawFrame, Frame
<1>5. CASE ~(f.op = "link" /\ f.key = k) /\ f.op \notin {"drop", "cancel", "tell", "withdraw"}
  BY <1>5 DEF Without
<1>. QED  BY <1>1, <1>2, <1>3, <1>4, <1>5

LEMMA EndType ==
  ASSUME TypeOK, End
  PROVE  TypeOK'
<1>1. Top \in EndFrame /\ Rest \in Seq(Frame) /\ stack # <<>> /\ ControlTypeOK
  BY TopTypes DEF End, OnTop, TypeOK
<1>. DEFINE k == Top.key
            after == [i \in DOMAIN Rest |-> Without(Rest[i], k)]
<1>2. k \in Keys /\ Top.err \in Outcome
  BY <1>1 DEF EndFrame
<1>3. GraphTypeOK'
  <2>1. CASE state[k] = "absent"
    BY <2>1, UnchangedTypes DEF End, TypeOK
  <2>2. CASE state[k] # "absent"
    <3>1. /\ state' = [state EXCEPT ![k] = "absent"]
          /\ requests' = [requests EXCEPT ![k] = [s \in Sources |-> NoPriority]]
          /\ needs' = [w \in Keys |-> [needs EXCEPT ![k] = {}][w] \ {k}]
          /\ members' = [w \in Keys |-> [members EXCEPT ![k] = {}][w] \ {k}]
          /\ adopted' = [w \in Keys |-> [adopted EXCEPT ![k] = {}][w] \ {k}]
          /\ ended' = [ended EXCEPT ![k] = {}]
          /\ attempt' = [attempt EXCEPT ![k] = 0]
          /\ canceled' = canceled \ {k}
          /\ doomed' = doomed \ {k}
      BY <2>2 DEF End
    <3>. HIDE DEF after, k
    <3>2. [s \in Sources |-> NoPriority] \in [Sources -> Priority]
      BY DEF Priority
    <3>3. requests' \in [Keys -> [Sources -> Priority]]
      BY <1>2, <3>1, <3>2 DEF TypeOK, GraphTypeOK
    <3>4. attempt' \in [Keys -> 0 .. MaxAttempts - 1]
      BY <1>2, <3>1, SchedAssumption DEF TypeOK, GraphTypeOK
    <3>5. needs' \in [Keys -> SUBSET Keys]
      BY <1>2, <3>1 DEF TypeOK, GraphTypeOK
    <3>6. members' \in [Keys -> SUBSET Keys] /\ adopted' \in [Keys -> SUBSET Keys]
      BY <1>2, <3>1 DEF TypeOK, GraphTypeOK
    <3>7. ended' \in [Keys -> SUBSET Keys] /\ canceled' \subseteq Keys /\ doomed' \subseteq Keys
      BY <1>2, <3>1 DEF TypeOK, GraphTypeOK
    <3>8. state' \in [Keys -> {"absent", "waiting", "ready", "running"}]
      BY <1>2, <3>1 DEF TypeOK, GraphTypeOK
    <3>. QED  BY <3>3, <3>4, <3>5, <3>6, <3>7, <3>8 DEF GraphTypeOK
  <2>. QED  BY <2>1, <2>2
<1>4. stack' \in Seq(Frame)
  <2>1. after \in Seq(Frame)
    <3>1. Len(Rest) \in Nat /\ DOMAIN Rest = 1 .. Len(Rest)
      BY <1>1, LenProperties
    <3>2. \A i \in 1 .. Len(Rest) : Without(Rest[i], k) \in Frame
      BY <1>1, <1>2, WithoutType, ElementOfSeq
    <3>. QED  BY <3>1, <3>2
  <2>2. Wants(k) \in SUBSET Keys /\ WantedBy(k) \in SUBSET Keys
    BY <1>2 DEF Wants, WantedBy, TypeOK, GraphTypeOK
  <2>. DEFINE H == {w \in Keys : k \in needs[w]}
              S == {w \in Keys : k \in members[w]}
  <2>3. Dropping(Wants(k)) \in Seq(Frame)
    BY <2>2, DroppingType
  <2>4. Telling(k, Top.err, WantedBy(k), H, S) \in Seq(Frame)
    BY <1>2, <2>2, TellingType
  <2>5. \/ Proceed(<<>>)
        \/ stack' = Dropping(Wants(k)) \o Telling(k, Top.err, WantedBy(k), H, S) \o after
    BY DEF End
  <2>6. CASE Proceed(<<>>)
    BY <1>1, <2>6, ProceedType, EmptySeq
  <2>. HIDE DEF after, H, S, k
  <2>7. CASE stack' = Dropping(Wants(k)) \o Telling(k, Top.err, WantedBy(k), H, S) \o after
    BY <2>1, <2>3, <2>4, <2>7, ConcatProperties
  <2>. QED  BY <2>5, <2>6, <2>7
<1>. QED  BY <1>3, <1>4, CascadeRest DEF End

LEMMA DropType ==
  ASSUME TypeOK, Drop
  PROVE  TypeOK'
<1>1. Top \in DropFrame /\ Rest \in Seq(Frame) /\ stack # <<>>
  BY TopTypes DEF Drop, OnTop, TypeOK
<1>2. PICK d \in Top.todo :
        \/ CancelNode(d, Dropping(Top.todo \ {d}) \o Rest)
        \/ stack' = Dropping(Top.todo \ {d}) \o Rest /\ UNCHANGED canceled
  BY DEF Drop
<1>3. d \in Keys /\ Top.todo \ {d} \in SUBSET Keys
  BY <1>1 DEF DropFrame
<1>. DEFINE rest == Dropping(Top.todo \ {d}) \o Rest
<1>4. rest \in Seq(Frame)
  BY <1>1, <1>3, DroppingType, ConcatProperties
<1>5. <<Ending(d, "canceled")>> \o rest \in Seq(Frame)
  BY <1>3, <1>4, EndingType, PushType DEF Outcome
<1>6. stack' \in Seq(Frame) /\ canceled' \subseteq Keys
  BY <1>2, <1>3, <1>4, <1>5 DEF CancelNode, TypeOK, GraphTypeOK
<1>7. GraphTypeOK'
  BY <1>6 DEF Drop, TypeOK, GraphTypeOK
<1>. QED  BY <1>6, <1>7, CascadeRest DEF Drop

LEMMA CancelPickedType ==
  ASSUME TypeOK, CancelPicked
  PROVE  TypeOK'
<1>1. Top \in DropFrame /\ Rest \in Seq(Frame) /\ stack # <<>>
  BY TopTypes DEF CancelPicked, OnTop, TypeOK
<1>2. PICK d \in Top.todo : CancelNode(d, Canceling(Top.todo \ {d}) \o Rest)
  BY DEF CancelPicked
<1>3. d \in Keys /\ Top.todo \ {d} \in SUBSET Keys
  BY <1>1 DEF DropFrame
<1>. DEFINE rest == Canceling(Top.todo \ {d}) \o Rest
<1>4. rest \in Seq(Frame)
  BY <1>1, <1>3, DroppingType, ConcatProperties
<1>5. <<Ending(d, "canceled")>> \o rest \in Seq(Frame)
  BY <1>3, <1>4, EndingType, PushType DEF Outcome
<1>6. stack' \in Seq(Frame) /\ canceled' \subseteq Keys
  BY <1>2, <1>3, <1>4, <1>5 DEF CancelNode, TypeOK, GraphTypeOK
<1>7. GraphTypeOK'
  BY <1>6 DEF CancelPicked, TypeOK, GraphTypeOK
<1>. QED  BY <1>6, <1>7, CascadeRest DEF CancelPicked

LEMMA TellType ==
  ASSUME TypeOK, Tell
  PROVE  TypeOK'
<1>1. Top \in TellFrame /\ Rest \in Seq(Frame) /\ stack # <<>>
  BY TopTypes DEF Tell, OnTop, TypeOK
<1>. DEFINE more(w) == Loop([Top EXCEPT !.todo = @ \ {w}]) \o Rest
<1>2. PICK w \in Top.todo :
        /\ \/ UNCHANGED ended
           \/ ended' = [ended EXCEPT ![w] = @ \cup {Top.key}]
        /\ \/ stack' = more(w)
           \/ stack' = <<Ending(w, FailsAs(w))>> \o more(w)
           \/ stack' = <<Preparing(w)>> \o more(w)
  BY DEF Tell
<1>3. w \in Keys /\ Top.key \in Keys
  BY <1>1 DEF TellFrame
<1>4. more(w) \in Seq(Frame)
  <2>1. [Top EXCEPT !.todo = @ \ {w}] \in Frame
    BY <1>1 DEF TellFrame, Frame
  <2>. QED  BY <1>1, <2>1, LoopType, ConcatProperties
<1>5. FailsAs(w) \in Outcome
  BY DEF FailsAs, Outcome
<1>6. stack' \in Seq(Frame)
  <2>. HIDE DEF more
  <2>. QED  BY <1>2, <1>3, <1>4, <1>5, EndingType, PreparingType, PushType
<1>7. GraphTypeOK'
  <2>. HIDE DEF more
  <2>1. ended' = ended \/ ended' = [ended EXCEPT ![w] = @ \cup {Top.key}]
    BY <1>2
  <2>2. ended' \in [Keys -> SUBSET Keys]
    BY <1>3, <2>1 DEF TypeOK, GraphTypeOK
  <2>. QED  BY <2>2 DEF Tell, TypeOK, GraphTypeOK
<1>. QED  BY <1>6, <1>7, CascadeRest DEF Tell

LEMMA ReplaceNextType ==
  ASSUME TypeOK, ReplaceNext
  PROVE  TypeOK'
<1>1. Top \in ReplaceFrame /\ stack # <<>> /\ ControlTypeOK
  BY TopTypes DEF ReplaceNext, OnTop, TypeOK
<1>. DEFINE lost == {k \in Keys : requests[k][Top.source] # NoPriority} \ Top.keep
            more(k) == [Top EXCEPT !.todo = @ \ {k}]
<1>2. CASE Proceed(Withdrawing(Top.source, lost)) /\ UNCHANGED <<state, requests>>
  <2>1. Withdrawing(Top.source, lost) \in Seq(Frame)
    BY <1>1, WithdrawingType DEF ReplaceFrame
  <2>2. stack' \in Seq(Frame)
    BY <1>1, <1>2, <2>1, ProceedType
  <2>3. GraphTypeOK'
    BY <1>2 DEF ReplaceNext, TypeOK, GraphTypeOK
  <2>. QED  BY <2>2, <2>3, CascadeRest DEF ReplaceNext
<1>3. ASSUME NEW k \in Top.todo,
             requests' = [requests EXCEPT ![k][Top.source] = Top.prio],
             \/ Add(k) /\ Proceed(<<Preparing(k), more(k)>>)
             \/ Proceed(<<more(k)>>) /\ UNCHANGED state
      PROVE  TypeOK'
  <2>1. k \in Keys /\ Top.prio \in Priority /\ Top.source \in Sources
    BY <1>1 DEF ReplaceFrame, Priority
  <2>2. GraphTypeOK'
    <3>1. requests' \in [Keys -> [Sources -> Priority]]
      BY <1>3, <2>1 DEF TypeOK, GraphTypeOK
    <3>2. state' \in [Keys -> {"absent", "waiting", "ready", "running"}]
      BY <1>3, <2>1 DEF Add, TypeOK, GraphTypeOK
    <3>. QED  BY <3>1, <3>2 DEF ReplaceNext, TypeOK, GraphTypeOK
  <2>3. more(k) \in Frame /\ Preparing(k) \in Frame
    BY <1>1, <2>1, PreparingType DEF ReplaceFrame, Frame
  <2>4. stack' \in Seq(Frame)
    <3>. HIDE DEF more
    <3>1. <<more(k)>> \in Seq(Frame) /\ <<Preparing(k), more(k)>> \in Seq(Frame)
      BY <2>3, PairType, PushType, EmptySeq
    <3>. QED  BY <1>1, <1>3, <3>1, ProceedType
  <2>. QED  BY <2>2, <2>4, CascadeRest DEF ReplaceNext
<1>. QED  BY <1>2, <1>3 DEF ReplaceNext

LEMMA WithdrawNextType ==
  ASSUME TypeOK, WithdrawNext
  PROVE  TypeOK'
<1>1. Top \in WithdrawFrame /\ stack # <<>> /\ ControlTypeOK
  BY TopTypes DEF WithdrawNext, OnTop, TypeOK
<1>2. PICK k \in Top.todo :
        /\ requests' = [requests EXCEPT ![k][Top.source] = NoPriority]
        /\ Proceed(Dropping({k}) \o Withdrawing(Top.source, Top.todo \ {k}))
  BY DEF WithdrawNext
<1>3. k \in Keys /\ Top.todo \ {k} \in SUBSET Keys /\ {k} \in SUBSET Keys /\ Top.source \in Sources
  BY <1>1 DEF WithdrawFrame
<1>4. GraphTypeOK'
  <2>1. requests' \in [Keys -> [Sources -> Priority]]
    BY <1>2, <1>3 DEF TypeOK, GraphTypeOK, Priority
  <2>. QED  BY <2>1 DEF WithdrawNext, TypeOK, GraphTypeOK
<1>5. stack' \in Seq(Frame)
  <2>1. Dropping({k}) \o Withdrawing(Top.source, Top.todo \ {k}) \in Seq(Frame)
    BY <1>3, DroppingType, WithdrawingType, ConcatProperties
  <2>. QED  BY <1>1, <1>2, <2>1, ProceedType
<1>. QED  BY <1>4, <1>5, CascadeRest DEF WithdrawNext

LEMMA ReturnType ==
  ASSUME TypeOK, Return
  PROVE  TypeOK'
<1>1. stack' \in Seq(Frame)
  BY ProceedType, EmptySeq DEF Return, TypeOK
<1>. QED  BY <1>1, UnchangedTypes, CascadeRest DEF Return, TypeOK

LEMMA NextType ==
  ASSUME TypeOK, [Next]_vars
  PROVE  TypeOK'
<1>1. CASE Asking \/ Stopping
  BY <1>1, RequestType, RaiseType, AdoptType, LoopCallsType, ControlCallsType DEF Asking, Stopping
<1>2. CASE Cascade
  BY <1>2, PrepareType, LinkType, LinkedType, EndType, DropType, CancelPickedType, TellType,
     ReplaceNextType, WithdrawNextType, ReturnType DEF Cascade
<1>3. CASE (\E k \in Keys : Start(k)) \/ Unlock \/ DwellEnds \/ TimerFires
  BY <1>3, AdmissionType
<1>4. CASE \E k \in Keys, r \in Results : Finish(k, r)
  BY <1>4, FinishType
<1>5. CASE UNCHANGED vars
  BY <1>5, UnchangedTypes DEF vars, control, TypeOK, ControlTypeOK
<1>. QED  BY <1>1, <1>2, <1>3, <1>4, <1>5 DEF Next

(* Type correctness. It also bounds the attempts of a task, whatever it goes   *)
(* through (Finish, Config.MaxAttempts).                                       *)
THEOREM TypeCorrect == Spec => []TypeOK
<1>1. Init => TypeOK
  BY InitType
<1>2. TypeOK /\ [Next]_vars => TypeOK'
  BY NextType
<1>. QED  BY <1>1, <1>2, PTL DEF Spec

-----------------------------------------------------------------------------
(* One model at a time. The running tasks that need a context all have the     *)
(* resident one: only Start adds a running task or moves the context, and a    *)
(* task of another context is a candidate only when nothing runs that needs    *)
(* one.                                                                        *)

\* Only Start makes a task run.
LEMMA NoNewRunning ==
  ASSUME TypeOK, [Next]_vars, ~ \E k \in Keys : Start(k), NEW k \in Keys, state'[k] = "running"
  PROVE  state[k] = "running"
<1>1. CASE Asking \/ Stopping
  <2>1. state' = state \/ \E j \in Keys : Add(j)
    BY <1>1 DEF Asking, Stopping, Request, Raise, Replace, Adopt, Withdraw, Cancel,
                CancelWhere, SetGate, Close, graph
  <2>. QED  BY <2>1 DEF Add, TypeOK, GraphTypeOK
<1>2. CASE Cascade
  <2>1. state' = state \/ \E j, x : x # "running" /\ state' = [state EXCEPT ![j] = x]
    BY <1>2 DEF Cascade, Prepare, Link, Linked, End, Drop, CancelPicked, Tell,
                ReplaceNext, WithdrawNext, Return, Add, graph
  <2>. QED  BY <2>1 DEF TypeOK, GraphTypeOK
<1>3. CASE Unlock \/ DwellEnds \/ TimerFires
  BY <1>3 DEF Unlock, DwellEnds, TimerFires, graph
<1>4. CASE \E j \in Keys, r \in Results : Finish(j, r)
  BY <1>4 DEF Finish
<1>5. CASE UNCHANGED vars
  BY <1>5 DEF vars, graph
<1>. QED  BY <1>1, <1>2, <1>3, <1>4, <1>5 DEF Next

\* Nothing but Start moves the resident context.
LEMMA ContextStays ==
  ASSUME [Next]_vars, ~ \E k \in Keys : Start(k)
  PROVE  cur' = cur
<1>1. CASE Asking \/ Stopping
  BY <1>1 DEF Asking, Stopping, Request, Raise, Replace, Adopt, Withdraw, Cancel,
              CancelWhere, SetGate, Close, dispatch
<1>2. CASE Cascade
  BY <1>2 DEF Cascade, Prepare, Link, Linked, End, Drop, CancelPicked, Tell,
              ReplaceNext, WithdrawNext, Return, dispatch
<1>3. CASE Unlock \/ DwellEnds \/ TimerFires
  BY <1>3 DEF Unlock, DwellEnds, TimerFires
<1>4. CASE \E j \in Keys, r \in Results : Finish(j, r)
  BY <1>4 DEF Finish, dispatch
<1>5. CASE UNCHANGED vars
  BY <1>5 DEF vars, dispatch
<1>. QED  BY <1>1, <1>2, <1>3, <1>4, <1>5 DEF Next

\* A task is started in the resident context, or when no context is in use.
LEMMA StartContext ==
  ASSUME TypeOK, SingleContext, NEW k \in Keys, Start(k)
  PROVE  SingleContext'
<1>1. k \in Candidates /\ state' = [state EXCEPT ![k] = "running"]
  BY DEF Start
<1>2. CASE InCurrent(k)
  <2>1. cur' = cur
    BY <1>2 DEF Start
  <2>. QED  BY <1>1, <1>2, <2>1 DEF InCurrent, SingleContext, CtxRunning, Running, TypeOK, GraphTypeOK
<1>3. CASE ~InCurrent(k)
  <2>1. cur' = Context[k]
    BY <1>3 DEF Start
  <2>2. CtxRunning = {}
    <3>1. Local(k) => CtxRunning = {}
      BY <1>3 DEF Local
    <3>2. k \in Foreign /\ SwitchWanted /\ ~Draining => CtxRunning = {}
      BY DEF Draining
    <3>. QED  BY <1>1, <3>1, <3>2 DEF Candidates
  <2>. QED  BY <1>1, <2>1, <2>2 DEF SingleContext, CtxRunning, Running, TypeOK, GraphTypeOK
<1>. QED  BY <1>2, <1>3

(* Exclusivity of contexts, for any tasks, contexts and capacities: the tasks  *)
(* that run and need a model all need the resident one (evaluate and pop; the  *)
(* VRAM budget of the workers rests on it).                                    *)
THEOREM OneContext == Spec => []SingleContext
<1>1. Init => SingleContext
  BY DEF Init, SingleContext, CtxRunning, Running
<1>2. ASSUME TypeOK, SingleContext, [Next]_vars
      PROVE  SingleContext'
  <2>1. CASE \E k \in Keys : Start(k)
    BY <1>2, <2>1, StartContext
  <2>2. CASE ~ \E k \in Keys : Start(k)
    BY <1>2, <2>2, NoNewRunning, ContextStays DEF SingleContext, CtxRunning, Running
  <2>. QED  BY <2>1, <2>2
<1>. QED  BY <1>1, <1>2, TypeCorrect, PTL DEF Spec

-----------------------------------------------------------------------------
(* A run ends only when it returns. The invariant: a call on the stack that    *)
(* may take a task out of the running state is the only one, made by finish.   *)

Calls == {"prepare", "end", "link"}
QuietStack ==
  \A i \in 1 .. Len(stack) :
    stack[i].op \in Calls /\ state[stack[i].key] = "running" =>
      Len(stack) = 1 /\ stack[i].op # "link"

\* A call is for some task.
LEMMA CallHasKey ==
  ASSUME NEW f \in Frame, f.op \in Calls
  PROVE  f.key \in Keys
BY DEF Frame, PrepareFrame, LinkFrame, EndFrame, DropFrame, TellFrame, ReplaceFrame,
       WithdrawFrame, Calls

\* A cascade that starts no task, pushes only calls for tasks that do not run
\* and leaves the frames below for what they are keeps the stack quiet.
LEMMA PushQuiet ==
  ASSUME ControlTypeOK, QuietStack, stack # <<>>,
         NEW F \in Seq(Frame), NEW R \in Seq(Frame),
         stack' = F \o R, Len(R) = Len(Rest),
         \A i \in 1 .. Len(R) : R[i].op \in Calls => R[i].op = Rest[i].op /\ R[i].key = Rest[i].key,
         \A k \in Keys : state'[k] = "running" => state[k] = "running",
         \A i \in 1 .. Len(F) : F[i].op \in Calls => state'[F[i].key] # "running"
  PROVE  QuietStack'
<1>1. Len(Rest) = Len(stack) - 1 /\ \A i \in 1 .. Len(Rest) : Rest[i] = stack[i + 1]
  BY HeadTailProperties DEF ControlTypeOK, Rest
<1>2. Len(stack) \in Nat /\ Len(R) \in Nat /\ Len(F) \in Nat
  BY LenProperties DEF ControlTypeOK
<1>3. ASSUME NEW i \in 1 .. Len(stack'), stack'[i].op \in Calls
      PROVE  state'[stack'[i].key] # "running"
  <2>1. Len(stack') = Len(F) + Len(R)
    BY ConcatProperties
  <2>2. stack'[i] = IF i <= Len(F) THEN F[i] ELSE R[i - Len(F)]
    BY <2>1, ConcatProperties
  <2>3. CASE i <= Len(F)
    BY <1>2, <1>3, <2>2, <2>3
  <2>4. CASE ~(i <= Len(F))
    <3>. DEFINE j == i - Len(F)
    <3>1. j \in 1 .. Len(R) /\ stack'[i] = R[j]
      BY <1>2, <2>1, <2>2, <2>4
    <3>2. stack'[i].op = stack[j + 1].op /\ stack'[i].key = stack[j + 1].key
      BY <1>1, <1>3, <3>1
    <3>3. j + 1 \in 1 .. Len(stack) /\ Len(stack) # 1
      BY <1>1, <1>2, <3>1
    <3>4. stack[j + 1].key \in Keys
      BY <1>3, <3>2, <3>3, CallHasKey DEF ControlTypeOK
    <3>. QED  BY <1>3, <3>2, <3>3, <3>4 DEF QuietStack
  <2>. QED  BY <2>3, <2>4
<1>. QED  BY <1>3 DEF QuietStack

\* The same when the frames below stay.
LEMMA ProceedQuiet ==
  ASSUME ControlTypeOK, QuietStack, stack # <<>>, NEW F \in Seq(Frame), Proceed(F),
         \A k \in Keys : state'[k] = "running" => state[k] = "running",
         \A i \in 1 .. Len(F) : F[i].op \in Calls => state'[F[i].key] # "running"
  PROVE  QuietStack'
<1>1. Rest \in Seq(Frame)
  BY TopTypes
<1>. QED  BY <1>1, PushQuiet DEF Proceed

\* The frames of a loop are no calls for a task.
NoCalls(F) == \A i \in 1 .. Len(F) : F[i].op \notin Calls

LEMMA LoopNoCalls ==
  ASSUME NEW K, NEW s, NEW k, NEW e, NEW H, NEW S
  PROVE  /\ NoCalls(Dropping(K))
         /\ NoCalls(Canceling(K))
         /\ NoCalls(Withdrawing(s, K))
         /\ NoCalls(Telling(k, e, K, H, S))
BY DEF NoCalls, Dropping, Canceling, Withdrawing, Telling, Loop, Calls

LEMMA ConcatNoCalls ==
  ASSUME NEW F \in Seq(Frame), NEW G \in Seq(Frame), NoCalls(F), NoCalls(G)
  PROVE  F \o G \in Seq(Frame) /\ NoCalls(F \o G)
<1>1. /\ F \o G \in Seq(Frame)
      /\ Len(F \o G) = Len(F) + Len(G)
      /\ \A i \in 1 .. Len(F) + Len(G) : (F \o G)[i] = IF i <= Len(F) THEN F[i] ELSE G[i - Len(F)]
  BY ConcatProperties
<1>2. Len(F) \in Nat /\ Len(G) \in Nat
  BY LenProperties
<1>3. ASSUME NEW i \in 1 .. Len(F \o G)
      PROVE  (F \o G)[i].op \notin Calls
  <2>1. CASE i <= Len(F)
    BY <1>1, <1>2, <1>3, <2>1 DEF NoCalls
  <2>2. CASE ~(i <= Len(F))
    <3>1. i - Len(F) \in 1 .. Len(G)
      BY <1>1, <1>2, <2>2
    <3>. QED  BY <1>1, <2>2, <3>1 DEF NoCalls
  <2>. QED  BY <2>1, <2>2
<1>. QED  BY <1>1, <1>3 DEF NoCalls

\* A call for a task that does not run may be pushed above the frames of a loop.
LEMMA PushCallQuiet ==
  ASSUME ControlTypeOK, QuietStack, stack # <<>>,
         NEW E \in Frame, NEW F \in Seq(Frame), NoCalls(F),
         stack' = <<E>> \o (F \o Rest),
         \A k \in Keys : state'[k] = "running" => state[k] = "running",
         state'[E.key] # "running"
  PROVE  QuietStack'
<1>. DEFINE G == <<E>> \o F
<1>1. Rest \in Seq(Frame) /\ <<E>> \in Seq(Frame) /\ Len(<<E>>) = 1 /\ <<E>>[1] = E
  BY TopTypes
<1>2. Len(F) \in Nat
  BY LenProperties
<1>3. G \in Seq(Frame) /\ Len(G) = Len(F) + 1
      /\ \A i \in 1 .. Len(G) : G[i] = IF i = 1 THEN E ELSE F[i - 1]
  BY <1>1, <1>2, ConcatProperties
<1>4. stack' = G \o Rest
  BY <1>1, ConcatAssociative
<1>. HIDE DEF G
<1>5. \A i \in 1 .. Len(G) : G[i].op \in Calls => state'[G[i].key] # "running"
  <2>1. ASSUME NEW i \in 1 .. Len(G), i # 1
        PROVE  G[i].op \notin Calls
    <3>1. i - 1 \in 1 .. Len(F)
      BY <1>2, <1>3, <2>1
    <3>. QED  BY <1>3, <2>1, <3>1 DEF NoCalls
  <2>. QED  BY <1>3, <2>1
<1>. QED  BY <1>3, <1>4, <1>5, ProceedQuiet DEF Proceed

\* What cancelNode does to a quiet stack: only a task that does not run is ended
\* on the spot.
LEMMA CancelNodeQuiet ==
  ASSUME TypeOK, QuietStack, stack # <<>>, UNCHANGED state, NEW d \in Keys,
         NEW F \in Seq(Frame), NoCalls(F), CancelNode(d, F \o Rest)
  PROVE  QuietStack'
<1>1. ControlTypeOK
  BY DEF TypeOK
<1>2. CASE state[d] = "running"
  <2>1. Proceed(F)
    BY <1>2 DEF CancelNode, Proceed
  <2>. QED  BY <1>1, <2>1, ProceedQuiet DEF NoCalls
<1>3. CASE state[d] # "running"
  <2>1. Ending(d, "canceled") \in Frame /\ Ending(d, "canceled").key = d
    BY EndingType DEF Outcome, Ending
  <2>2. stack' = <<Ending(d, "canceled")>> \o (F \o Rest)
    BY <1>3 DEF CancelNode
  <2>. QED  BY <1>1, <1>3, <2>1, <2>2, PushCallQuiet
<1>. QED  BY <1>2, <1>3

\* One call in place of the one on top, for a task that does not run.
LEMMA ReplaceCallQuiet ==
  ASSUME ControlTypeOK, QuietStack, stack # <<>>,
         NEW E \in Frame, Proceed(<<E>>),
         \A k \in Keys : state'[k] = "running" => state[k] = "running",
         E.op \in Calls => state'[E.key] # "running"
  PROVE  QuietStack'
<1>. DEFINE F == <<E>>
<1>1. F \in Seq(Frame) /\ Len(F) = 1 /\ F[1] = E /\ Proceed(F)
  OBVIOUS
<1>. HIDE DEF F
<1>2. \A i \in 1 .. Len(F) : F[i].op \in Calls => state'[F[i].key] # "running"
  BY <1>1
<1>. QED  BY <1>1, <1>2, ProceedQuiet

\* The call on top returns.
LEMMA PopQuiet ==
  ASSUME ControlTypeOK, QuietStack, stack # <<>>, Proceed(<<>>),
         \A k \in Keys : state'[k] = "running" => state[k] = "running"
  PROVE  QuietStack'
<1>. DEFINE F == <<>>
<1>1. F \in Seq(Frame) /\ Len(F) = 0 /\ Proceed(F)
  BY EmptySeq
<1>. HIDE DEF F
<1>2. \A i \in 1 .. Len(F) : F[i].op \in Calls => state'[F[i].key] # "running"
  BY <1>1
<1>. QED  BY <1>1, <1>2, ProceedQuiet

LEMMA ReplacePairQuiet ==
  ASSUME ControlTypeOK, QuietStack, stack # <<>>,
         NEW E \in Frame, NEW G \in Frame, Proceed(<<E, G>>),
         \A k \in Keys : state'[k] = "running" => state[k] = "running",
         E.op \in Calls => state'[E.key] # "running",
         G.op \in Calls => state'[G.key] # "running"
  PROVE  QuietStack'
<1>. DEFINE F == <<E, G>>
<1>1. F \in Seq(Frame) /\ Len(F) = 2 /\ F[1] = E /\ F[2] = G /\ Proceed(F)
  OBVIOUS
<1>. HIDE DEF F
<1>2. \A i \in 1 .. Len(F) : F[i].op \in Calls => state'[F[i].key] # "running"
  <2>1. \A i \in 1 .. Len(F) : i = 1 \/ i = 2
    BY <1>1
  <2>. QED  BY <1>1, <2>1
<1>. QED  BY <1>1, <1>2, ProceedQuiet

\* A link frame's task never runs: prepare has made it wait.
LEMMA LinkingWaits ==
  ASSUME TypeOK, QuietStack, OnTop("link")
  PROVE  Top \in LinkFrame /\ state[Top.key] # "running"
<1>1. Top \in LinkFrame
  BY TopTypes DEF OnTop, TypeOK
<1>2. 1 \in 1 .. Len(stack) /\ stack[1] = Top
  BY DEF OnTop, Top, TypeOK, ControlTypeOK
<1>. QED  BY <1>1, <1>2 DEF QuietStack, Calls, OnTop

LEMMA CallsQuiet ==
  ASSUME TypeOK, QuietStack, Asking \/ Stopping
  PROVE  QuietStack'
<1>1. ASSUME NEW k \in Keys, stack' = <<Preparing(k)>>, Add(k)
      PROVE  QuietStack'
  BY <1>1 DEF Add, QuietStack, Preparing, TypeOK, GraphTypeOK
<1>2. ASSUME UNCHANGED <<stack, state>>
      PROVE  QuietStack'
  BY <1>2 DEF QuietStack
<1>3. ASSUME NoCalls(stack')
      PROVE  QuietStack'
  BY <1>3 DEF QuietStack, NoCalls
<1>4. ASSUME NEW s \in Sources, NEW p \in Prios, NEW k \in Keys, Request(s, p, k)
      PROVE  QuietStack'
  BY <1>1, <1>2, <1>4 DEF Request
<1>5. ASSUME NEW w \in Keys, NEW k \in Keys, Adopt(w, k)
      PROVE  QuietStack'
  BY <1>1, <1>2, <1>5 DEF Adopt
<1>6. ASSUME NEW s \in Sources, NEW p \in Prios, NEW K \in Batches, Replace(s, p, K)
      PROVE  QuietStack'
  BY <1>3, <1>6 DEF Replace, Replacing, NoCalls, Calls
<1>7. ASSUME NEW s \in Sources, NEW K \in Batches, Withdraw(s, K)
      PROVE  QuietStack'
  BY <1>3, <1>7, LoopNoCalls DEF Withdraw
<1>8. ASSUME NEW K \in Batches, CancelWhere(K)
      PROVE  QuietStack'
  BY <1>3, <1>8, LoopNoCalls DEF CancelWhere
<1>9. ASSUME NEW k \in Keys, Cancel(k)
      PROVE  QuietStack'
  <2>1. CASE stack' = <<>>
    BY <2>1 DEF QuietStack
  <2>2. CASE stack' = <<Ending(k, "canceled")>> \o <<>> /\ state[k] # "running"
    <3>1. stack' = <<Ending(k, "canceled")>>
      BY <2>2, EndingType, ConcatEmptySeq DEF Outcome
    <3>. QED  BY <1>9, <2>2, <3>1 DEF Cancel, QuietStack, Ending
  <2>. QED  BY <1>9, <2>1, <2>2 DEF Cancel, CancelNode
<1>10. ASSUME \/ \E s \in Sources, p \in Prios, k \in Keys : Raise(s, p, k)
              \/ \E g \in Gates : SetGate(g)
              \/ Close
       PROVE  QuietStack'
  BY <1>2, <1>10 DEF Raise, SetGate, Close, graph
<1>. QED  BY <1>4, <1>5, <1>6, <1>7, <1>8, <1>9, <1>10 DEF Asking, Stopping

LEMMA LinkQuiet ==
  ASSUME TypeOK, QuietStack, Prepare \/ Link \/ Linked
  PROVE  QuietStack'
<1>. USE DEF TypeOK
<1>1. CASE Prepare
  <2>. DEFINE k == Top.key
  <2>1. k \in Keys /\ stack # <<>>
    BY <1>1, TopTypes DEF Prepare, OnTop
  <2>2. state' = [state EXCEPT ![k] = "waiting"]
    BY <1>1 DEF Prepare
  <2>3. state'[k] # "running" /\ \A j \in Keys : state'[j] = "running" => state[j] = "running"
    BY <2>1, <2>2 DEF GraphTypeOK
  <2>4. CASE \E H \in SUBSET Deps[k], S \in SUBSET Members[k] : Proceed(<<Linking(k, H, S)>>)
    <3>1. PICK H \in SUBSET Deps[k], S \in SUBSET Members[k] : Proceed(<<Linking(k, H, S)>>)
      BY <2>4
    <3>2. H \in SUBSET Keys /\ S \in SUBSET Keys
      BY <2>1, SchedAssumption
    <3>3. Linking(k, H, S) \in Frame /\ Linking(k, H, S).key = k
      BY <2>1, <3>2, LinkingType DEF Linking
    <3>. QED  BY <2>1, <2>3, <3>1, <3>3, ReplaceCallQuiet
  <2>5. CASE Proceed(<<Ending(k, "error")>>)
    <3>1. Ending(k, "error") \in Frame /\ Ending(k, "error").key = k
      BY <2>1, EndingType DEF Ending, Outcome
    <3>. QED  BY <2>1, <2>3, <2>5, <3>1, ReplaceCallQuiet
  <2>. QED  BY <1>1, <2>4, <2>5 DEF Prepare
<1>2. CASE Link
  <2>. DEFINE k == Top.key
              more(d) == [Top EXCEPT !.todo = @ \ {d}]
  <2>1. Top \in LinkFrame /\ state[k] # "running" /\ stack # <<>>
    BY <1>2, LinkingWaits DEF Link, OnTop
  <2>2. PICK d \in Top.todo :
          \/ Proceed(<<more(d)>>) /\ UNCHANGED state
          \/ Proceed(<<Ending(k, "error"), more(d)>>) /\ UNCHANGED state
          \/ state[d] = "absent" /\ Add(d) /\ Proceed(<<Preparing(d), more(d)>>)
    BY <1>2 DEF Link
  <2>3. k \in Keys /\ d \in Keys
    BY <2>1 DEF LinkFrame
  <2>4. more(d) \in Frame /\ more(d).key = k
    BY <2>1 DEF LinkFrame, Frame
  <2>5. Ending(k, "error") \in Frame /\ Ending(k, "error").key = k
    BY <2>3, EndingType DEF Ending, Outcome
  <2>6. Preparing(d) \in Frame /\ Preparing(d).key = d
    BY <2>3, PreparingType DEF Preparing
  <2>. HIDE DEF more, k
  <2>7. CASE Proceed(<<more(d)>>) /\ UNCHANGED state
    BY <2>1, <2>4, <2>7, ReplaceCallQuiet
  <2>8. CASE Proceed(<<Ending(k, "error"), more(d)>>) /\ UNCHANGED state
    BY <2>1, <2>4, <2>5, <2>8, ReplacePairQuiet
  <2>9. CASE state[d] = "absent" /\ Add(d) /\ Proceed(<<Preparing(d), more(d)>>)
    <3>1. state'[d] # "running" /\ \A j \in Keys : state'[j] = "running" => state[j] = "running"
      BY <2>3, <2>9 DEF Add, GraphTypeOK
    <3>. QED  BY <2>1, <2>3, <2>4, <2>6, <2>9, <3>1, ReplacePairQuiet
  <2>. QED  BY <2>2, <2>7, <2>8, <2>9
<1>3. CASE Linked
  <2>1. Top \in LinkFrame /\ stack # <<>>
    BY <1>3, LinkingWaits DEF Linked, OnTop
  <2>2. \A j \in Keys : state'[j] = "running" => state[j] = "running"
    <3>1. state' = state \/ state' = [state EXCEPT ![Top.key] = "ready"]
      BY <1>3 DEF Linked
    <3>. DEFINE k == Top.key
    <3>2. k \in Keys
      BY <2>1 DEF LinkFrame
    <3>3. state' = state \/ state' = [state EXCEPT ![k] = "ready"]
      BY <3>1
    <3>4. state \in [Keys -> {"absent", "waiting", "ready", "running"}]
      BY DEF TypeOK, GraphTypeOK
    <3>. HIDE DEF k
    <3>5. CASE state' = state
      BY <3>5
    <3>6. CASE state' = [state EXCEPT ![k] = "ready"]
      BY <3>2, <3>4, <3>6
    <3>. QED  BY <3>3, <3>5, <3>6
  <2>3. Proceed(<<>>)
    BY <1>3 DEF Linked
  <2>. QED  BY <2>1, <2>2, <2>3, PopQuiet
<1>. QED  BY <1>1, <1>2, <1>3

LEMMA EndQuiet ==
  ASSUME TypeOK, QuietStack, End
  PROVE  QuietStack'
<1>1. Top \in EndFrame /\ Rest \in Seq(Frame) /\ stack # <<>> /\ ControlTypeOK
  BY TopTypes DEF End, OnTop, TypeOK
<1>. DEFINE k == Top.key
            after == [i \in DOMAIN Rest |-> Without(Rest[i], k)]
            H == {w \in Keys : k \in needs[w]}
            S == {w \in Keys : k \in members[w]}
            F == Dropping(Wants(k)) \o Telling(k, Top.err, WantedBy(k), H, S)
<1>2. k \in Keys /\ Top.err \in Outcome
  BY <1>1 DEF EndFrame
<1>3. CASE state[k] = "absent"
  <2>1. Proceed(<<>>) /\ UNCHANGED state
    BY <1>3 DEF End, graph
  <2>. QED  BY <1>1, <2>1, PopQuiet
<1>4. CASE state[k] # "absent"
  <2>1. state' = [state EXCEPT ![k] = "absent"] /\ stack' = F \o after
    BY <1>4 DEF End
  <2>2. \A j \in Keys : state'[j] = "running" => state[j] = "running"
    <3>1. state' = [state EXCEPT ![k] = "absent"]
      BY <2>1
    <3>. HIDE DEF k
    <3>. QED  BY <1>2, <3>1 DEF TypeOK, GraphTypeOK
  <2>3. F \in Seq(Frame) /\ NoCalls(F)
    <3>1. Wants(k) \in SUBSET Keys /\ WantedBy(k) \in SUBSET Keys
      BY <1>2 DEF Wants, WantedBy, TypeOK, GraphTypeOK
    <3>2. Dropping(Wants(k)) \in Seq(Frame) /\ Telling(k, Top.err, WantedBy(k), H, S) \in Seq(Frame)
      BY <1>2, <3>1, DroppingType, TellingType
    <3>3. NoCalls(Dropping(Wants(k))) /\ NoCalls(Telling(k, Top.err, WantedBy(k), H, S))
      BY LoopNoCalls
    <3>. HIDE DEF H, S, k
    <3>. QED  BY <3>2, <3>3, ConcatNoCalls
  <2>4. after \in Seq(Frame) /\ Len(after) = Len(Rest)
    <3>1. Len(Rest) \in Nat /\ DOMAIN Rest = 1 .. Len(Rest)
      BY <1>1, LenProperties
    <3>2. \A i \in 1 .. Len(Rest) : Without(Rest[i], k) \in Frame
      BY <1>1, <1>2, WithoutType, ElementOfSeq
    <3>. QED  BY <3>1, <3>2
  <2>5. \A i \in 1 .. Len(after) : after[i].op \in Calls => after[i].op = Rest[i].op /\ after[i].key = Rest[i].key
    <3>1. ASSUME NEW i \in 1 .. Len(after), after[i].op \in Calls
          PROVE  after[i] = Rest[i]
      <4>1. DOMAIN Rest = 1 .. Len(after)
        BY <1>1, <2>4, LenProperties
      <4>2. after[i] = Without(Rest[i], k)
        BY <4>1
      <4>3. Rest[i] \in Frame
        BY <1>1, <2>4, ElementOfSeq
      <4>. DEFINE f == Rest[i]
      <4>4. Without(f, k).op \in Calls
        BY <3>1, <4>2
      <4>. HIDE DEF f, k, after
      <4>5. f \in Frame => f = Without(f, k)
        BY <4>4 DEF Without, Calls, Frame, PrepareFrame, LinkFrame, EndFrame, DropFrame,
                    TellFrame, ReplaceFrame, WithdrawFrame
      <4>. QED  BY <4>2, <4>3, <4>5 DEF f
    <3>. QED  BY <3>1
  <2>. HIDE DEF after, F, k
  <2>. QED  BY <1>1, <2>1, <2>2, <2>3, <2>4, <2>5, PushQuiet DEF NoCalls
<1>. QED  BY <1>3, <1>4

LEMMA LoopsQuiet ==
  ASSUME TypeOK, QuietStack, Drop \/ CancelPicked \/ Tell
  PROVE  QuietStack'
<1>. USE DEF TypeOK
<1>1. CASE Drop
  <2>1. Top \in DropFrame /\ stack # <<>> /\ UNCHANGED state
    BY <1>1, TopTypes DEF Drop, OnTop
  <2>2. PICK d \in Top.todo :
          \/ CancelNode(d, Dropping(Top.todo \ {d}) \o Rest)
          \/ Proceed(Dropping(Top.todo \ {d}))
    BY <1>1 DEF Drop, Proceed
  <2>3. d \in Keys /\ Top.todo \ {d} \in SUBSET Keys
    BY <2>1 DEF DropFrame
  <2>4. Dropping(Top.todo \ {d}) \in Seq(Frame) /\ NoCalls(Dropping(Top.todo \ {d}))
    BY <2>3, DroppingType, LoopNoCalls
  <2>5. CASE CancelNode(d, Dropping(Top.todo \ {d}) \o Rest)
    BY <2>1, <2>3, <2>4, <2>5, CancelNodeQuiet
  <2>6. CASE Proceed(Dropping(Top.todo \ {d}))
    BY <2>1, <2>4, <2>6, ProceedQuiet DEF NoCalls
  <2>. QED  BY <2>2, <2>5, <2>6
<1>2. CASE CancelPicked
  <2>1. Top \in DropFrame /\ stack # <<>> /\ UNCHANGED state
    BY <1>2, TopTypes DEF CancelPicked, OnTop
  <2>2. PICK d \in Top.todo : CancelNode(d, Canceling(Top.todo \ {d}) \o Rest)
    BY <1>2 DEF CancelPicked
  <2>3. d \in Keys /\ Top.todo \ {d} \in SUBSET Keys
    BY <2>1 DEF DropFrame
  <2>4. Canceling(Top.todo \ {d}) \in Seq(Frame) /\ NoCalls(Canceling(Top.todo \ {d}))
    BY <2>3, DroppingType, LoopNoCalls
  <2>. QED  BY <2>1, <2>2, <2>3, <2>4, CancelNodeQuiet
<1>3. CASE Tell
  <2>1. Top \in TellFrame /\ stack # <<>> /\ UNCHANGED state
    BY <1>3, TopTypes DEF Tell, OnTop
  <2>. DEFINE more(w) == Loop([Top EXCEPT !.todo = @ \ {w}])
  <2>2. PICK w \in Top.todo :
          \/ Proceed(more(w))
          \/ state[w] = "waiting" /\ stack' = <<Ending(w, FailsAs(w))>> \o (more(w) \o Rest)
          \/ state[w] = "waiting" /\ stack' = <<Preparing(w)>> \o (more(w) \o Rest)
    BY <1>3 DEF Tell, Proceed
  <2>3. w \in Keys
    BY <2>1 DEF TellFrame
  <2>4. more(w) \in Seq(Frame) /\ NoCalls(more(w))
    <3>. DEFINE f == [Top EXCEPT !.todo = @ \ {w}]
    <3>1. f \in Frame /\ f.op = "tell"
      BY <2>1 DEF TellFrame, Frame
    <3>. HIDE DEF f
    <3>2. Loop(f) \in Seq(Frame) /\ NoCalls(Loop(f))
      BY <3>1, LoopType DEF Loop, NoCalls, Calls
    <3>. QED  BY <3>2 DEF f
  <2>5. Ending(w, FailsAs(w)) \in Frame /\ Ending(w, FailsAs(w)).key = w
    BY <2>3, EndingType DEF Ending, FailsAs, Outcome
  <2>6. Preparing(w) \in Frame /\ Preparing(w).key = w
    BY <2>3, PreparingType DEF Preparing
  <2>. HIDE DEF more
  <2>7. CASE Proceed(more(w))
    BY <2>1, <2>4, <2>7, ProceedQuiet DEF NoCalls
  <2>8. CASE state[w] = "waiting" /\ stack' = <<Ending(w, FailsAs(w))>> \o (more(w) \o Rest)
    BY <2>1, <2>4, <2>5, <2>8, PushCallQuiet
  <2>9. CASE state[w] = "waiting" /\ stack' = <<Preparing(w)>> \o (more(w) \o Rest)
    BY <2>1, <2>4, <2>6, <2>9, PushCallQuiet
  <2>. QED  BY <2>2, <2>7, <2>8, <2>9
<1>. QED  BY <1>1, <1>2, <1>3

LEMMA RequestsQuiet ==
  ASSUME TypeOK, QuietStack, ReplaceNext \/ WithdrawNext \/ Return
  PROVE  QuietStack'
<1>. USE DEF TypeOK
<1>1. CASE ReplaceNext
  <2>1. Top \in ReplaceFrame /\ stack # <<>>
    BY <1>1, TopTypes DEF ReplaceNext, OnTop
  <2>. DEFINE lost == {k \in Keys : requests[k][Top.source] # NoPriority} \ Top.keep
              more(k) == [Top EXCEPT !.todo = @ \ {k}]
  <2>2. CASE Proceed(Withdrawing(Top.source, lost)) /\ UNCHANGED state
    <3>1. Withdrawing(Top.source, lost) \in Seq(Frame) /\ NoCalls(Withdrawing(Top.source, lost))
      BY <2>1, WithdrawingType, LoopNoCalls DEF ReplaceFrame
    <3>. QED  BY <2>1, <2>2, <3>1, ProceedQuiet DEF NoCalls
  <2>3. ASSUME NEW k \in Top.todo,
               \/ Add(k) /\ Proceed(<<Preparing(k), more(k)>>)
               \/ Proceed(<<more(k)>>) /\ UNCHANGED state
        PROVE  QuietStack'
    <3>1. k \in Keys
      BY <2>1 DEF ReplaceFrame
    <3>2. more(k) \in Frame /\ more(k).op \notin Calls
      BY <2>1 DEF ReplaceFrame, Frame, Calls
    <3>3. Preparing(k) \in Frame /\ Preparing(k).key = k
      BY <3>1, PreparingType DEF Preparing
    <3>. HIDE DEF more
    <3>4. CASE Add(k) /\ Proceed(<<Preparing(k), more(k)>>)
      <4>1. state'[k] # "running" /\ \A j \in Keys : state'[j] = "running" => state[j] = "running"
        BY <3>1, <3>4 DEF Add, GraphTypeOK
      <4>. QED  BY <2>1, <3>2, <3>3, <3>4, <4>1, ReplacePairQuiet
    <3>5. CASE Proceed(<<more(k)>>) /\ UNCHANGED state
      BY <2>1, <3>2, <3>5, ReplaceCallQuiet
    <3>. QED  BY <2>3, <3>4, <3>5
  <2>. QED  BY <1>1, <2>2, <2>3 DEF ReplaceNext
<1>2. CASE WithdrawNext
  <2>1. Top \in WithdrawFrame /\ stack # <<>> /\ UNCHANGED state
    BY <1>2, TopTypes DEF WithdrawNext, OnTop
  <2>2. PICK k \in Top.todo : Proceed(Dropping({k}) \o Withdrawing(Top.source, Top.todo \ {k}))
    BY <1>2 DEF WithdrawNext
  <2>. DEFINE F == Dropping({k}) \o Withdrawing(Top.source, Top.todo \ {k})
  <2>3. F \in Seq(Frame) /\ NoCalls(F)
    <3>1. {k} \in SUBSET Keys /\ Top.todo \ {k} \in SUBSET Keys /\ Top.source \in Sources
      BY <2>1 DEF WithdrawFrame
    <3>. QED  BY <3>1, DroppingType, WithdrawingType, LoopNoCalls, ConcatNoCalls
  <2>. HIDE DEF F
  <2>4. Proceed(F)
    BY <2>2 DEF F
  <2>. QED  BY <2>1, <2>3, <2>4, ProceedQuiet DEF NoCalls
<1>3. CASE Return
  BY <1>3, PopQuiet DEF Return, graph
<1>. QED  BY <1>1, <1>2, <1>3

LEMMA QuietInductive ==
  ASSUME TypeOK, QuietStack, [Next]_vars
  PROVE  QuietStack'
<1>1. CASE Asking \/ Stopping
  BY <1>1, CallsQuiet
<1>2. CASE Cascade
  BY <1>2, LinkQuiet, EndQuiet, LoopsQuiet, RequestsQuiet DEF Cascade
<1>3. CASE \E k \in Keys : Start(k)
  BY <1>3 DEF Start, QuietStack
<1>4. CASE Unlock \/ DwellEnds \/ TimerFires
  BY <1>4 DEF Unlock, DwellEnds, TimerFires, graph, QuietStack
<1>5. CASE \E k \in Keys, r \in Results : Finish(k, r)
  BY <1>5 DEF Finish, Preparing, Ending, QuietStack
<1>6. CASE UNCHANGED vars
  BY <1>6 DEF vars, graph, QuietStack
<1>. QED  BY <1>1, <1>2, <1>3, <1>4, <1>5, <1>6 DEF Next

\* A step that takes a task out of the running state is its own finish's.
LEMMA StopsByItself ==
  ASSUME TypeOK, QuietStack, [Next]_vars, NEW k \in Running, state'[k] # "running"
  PROVE  Len(stack) = 1 /\ Top.op \in {"end", "prepare"} /\ Top.key = k
<1>. USE DEF TypeOK
<1>1. k \in Keys /\ state[k] = "running"
  BY DEF Running
<1>2. ASSUME stack # <<>>, Top.op \in Calls, Top.key = k
      PROVE  Len(stack) = 1 /\ Top.op # "link"
  <2>1. 1 \in 1 .. Len(stack) /\ stack[1] = Top
    BY <1>2 DEF Top, ControlTypeOK
  <2>. QED  BY <1>1, <1>2, <2>1 DEF QuietStack
<1>3. ~(Asking \/ Stopping)
  <2>1. Asking \/ Stopping => state' = state \/ \E j \in Keys : state[j] = "absent" /\ Add(j)
    BY DEF Asking, Stopping, Request, Raise, Replace, Adopt, Withdraw, Cancel,
           CancelWhere, SetGate, Close, graph
  <2>. QED  BY <1>1, <2>1 DEF Add, GraphTypeOK
<1>4. ~(Link \/ Drop \/ CancelPicked \/ Tell \/ ReplaceNext \/ WithdrawNext \/ Return)
  <2>1. Link \/ Drop \/ CancelPicked \/ Tell \/ ReplaceNext \/ WithdrawNext \/ Return
          => state' = state \/ \E j : state[j] = "absent" /\ Add(j)
    BY DEF Link, Drop, CancelPicked, Tell, ReplaceNext, WithdrawNext, Return, graph
  <2>. QED  BY <1>1, <2>1 DEF Add, GraphTypeOK
<1>5. ~Linked
  <2>1. SUFFICES ASSUME Linked PROVE FALSE
    OBVIOUS
  <2>2. state[Top.key] # "running"
    BY <2>1, LinkingWaits DEF Linked
  <2>3. state' = state \/ state' = [state EXCEPT ![Top.key] = "ready"]
    BY <2>1 DEF Linked
  <2>. QED  BY <1>1, <2>2, <2>3 DEF GraphTypeOK
<1>6. CASE Prepare
  <2>1. state' = [state EXCEPT ![Top.key] = "waiting"] /\ stack # <<>> /\ Top.op = "prepare"
    BY <1>6 DEF Prepare, OnTop
  <2>2. Top.key = k
    BY <1>1, <2>1 DEF GraphTypeOK
  <2>. QED  BY <1>2, <2>1, <2>2 DEF Calls
<1>7. CASE End
  <2>1. /\ state' = state \/ state' = [state EXCEPT ![Top.key] = "absent"]
        /\ stack # <<>> /\ Top.op = "end"
    BY <1>7 DEF End, OnTop, graph
  <2>2. Top.key = k
    BY <1>1, <2>1 DEF GraphTypeOK
  <2>. QED  BY <1>2, <2>1, <2>2 DEF Calls
<1>8. ~ \E j \in Keys : Start(j)
  BY <1>1 DEF Start, GraphTypeOK
<1>9. ~(Unlock \/ DwellEnds \/ TimerFires \/ (\E j \in Keys, r \in Results : Finish(j, r)))
  BY <1>1 DEF Unlock, DwellEnds, TimerFires, Finish, graph
<1>10. ~ UNCHANGED vars
  BY <1>1 DEF vars, graph
<1>. QED  BY <1>3, <1>4, <1>5, <1>6, <1>7, <1>8, <1>9, <1>10 DEF Next, Cascade

(* A run ends only when it returns, whatever cascades its task is caught in:   *)
(* no task is started a second time while the first run of its key goes on     *)
(* (cancelNode, end, prepare).                                                 *)
THEOREM NoRunAbandoned == Spec => RunningUntilReturn
<1>1. Init => QuietStack
  BY DEF Init, QuietStack
<1>2. TypeOK /\ QuietStack /\ [Next]_vars => QuietStack'
  BY QuietInductive
<1>3. TypeOK /\ QuietStack /\ [Next]_vars =>
        [\A k \in Running : state'[k] # "running" =>
           /\ Len(stack) = 1
           /\ Top.op \in {"end", "prepare"} /\ Top.key = k]_vars
  BY StopsByItself
<1>. QED  BY <1>1, <1>2, <1>3, TypeCorrect, PTL DEF Spec, RunningUntilReturn

-----------------------------------------------------------------------------
(* Admission.                                                                  *)

LEMMA PrioStays ==
  ASSUME UNCHANGED <<requests, needs, members, adopted>>
  PROVE  \A k : Prio(k)' = Prio(k)
<1> TAKE k
<1>1. Wanters(k)' = Wanters(k)
  BY DEF Wanters, Closure, WantedBy, Wants
<1> QED
  BY <1>1 DEF Prio

\* What admission decides depends on the graph, the gate and the context alone.
LEMMA DecisionStays ==
  ASSUME UNCHANGED <<graph, gate, cur, switchPrio>>
  PROVE  /\ Foreign' = Foreign /\ ForeignPrio' = ForeignPrio /\ Admissible' = Admissible
         /\ CurrentHasReady' = CurrentHasReady /\ Running' = Running
         /\ \A k : Local(k)' = Local(k) /\ CanStart(k)' = CanStart(k) /\ Prio(k)' = Prio(k)
<1> USE DEF graph
<1>1. \A k : Prio(k)' = Prio(k)
  BY PrioStays
<1>2. Running' = Running /\ CtxRunning' = CtxRunning /\ Admissible' = Admissible
  BY DEF Running, CtxRunning, Admissible
<1>3. \A k : Local(k)' = Local(k) /\ CanStart(k)' = CanStart(k)
  BY <1>2 DEF Local, InCurrent, CanStart
<1>4. Foreign' = Foreign
  BY <1>2, <1>3 DEF Foreign
<1>5. ForeignPrio' = ForeignPrio
  BY <1>1, <1>4 DEF ForeignPrio
<1>6. CurrentHasReady' = CurrentHasReady
  BY <1>1, <1>2, <1>5 DEF CurrentHasReady
<1> QED
  BY <1>1, <1>2, <1>3, <1>4, <1>5, <1>6

\* And on the dwell, which only refuses.
LEMMA CandidatesStay ==
  ASSUME UNCHANGED <<graph, gate, cur, switchPrio, closed>>,
         (dwelling' = dwelling) \/ (~DwellRefuses /\ ~dwelling')
  PROVE  Candidates' = Candidates /\ (DwellRefuses' => DwellRefuses)
<1>1. /\ Foreign' = Foreign /\ ForeignPrio' = ForeignPrio /\ Admissible' = Admissible
      /\ CurrentHasReady' = CurrentHasReady /\ Running' = Running
      /\ \A k : Local(k)' = Local(k) /\ CanStart(k)' = CanStart(k) /\ Prio(k)' = Prio(k)
  BY DecisionStays
<1>2. DwellRefuses' = DwellRefuses
  BY <1>1 DEF DwellRefuses, graph
<1>3. SwitchWanted' = SwitchWanted /\ Draining' = Draining
  BY <1>1, <1>2 DEF SwitchWanted, Draining, CtxRunning
<1>4. Candidates' = Candidates
  BY <1>1, <1>3 DEF Candidates
<1> QED
  BY <1>2, <1>4

\* The priority that decides on a switch is the priority of a task.
LEMMA ForeignPrioIn ==
  ASSUME GraphTypeOK, Foreign # {}
  PROVE  \E k \in Foreign : Prio(k) = ForeignPrio
<1> DEFINE S == {Prio(k) : k \in Foreign}
<1>1. S \in SUBSET Nat /\ S # {}
  BY PrioInPriority, PriorityNat
<1>2. MinOf(S) \in S
  BY <1>1, MinOfIn
<1> QED
  BY <1>2 DEF ForeignPrio

\* When nothing runs and nothing may start, only the dwell holds work back.
LEMMA OnlyDwellHolds ==
  ASSUME TypeOK, Candidates = {}, ~closed, Admissible # {}, Running = {}
  PROVE  DwellRefuses
<1>1. \A k \in Keys : CanStart(k)
  <2> TAKE k \in Keys
  <2>1. Context[k] # NoContext => Capacity[Context[k]] \in Nat \ {0}
    BY SchedAssumption
  <2>2. {r \in Running : Context[r] = Context[k]} = {} /\ Cardinality({}) = 0
    BY FS_EmptySet
  <2> QED
    BY <2>1, <2>2 DEF CanStart
<1>2. ~Draining
  BY DEF Draining, CtxRunning
<1>3. Admissible \subseteq Keys /\ \A k \in Admissible : ~Local(k)
  BY <1>1, <1>2 DEF Candidates, Admissible
<1>4. Foreign = Admissible
  BY <1>3 DEF Foreign
<1>5. PICK k \in Foreign : Prio(k) = ForeignPrio
  BY <1>4, ForeignPrioIn DEF TypeOK
<1>6. ~SwitchWanted
  BY <1>1, <1>2, <1>3, <1>4, <1>5 DEF Candidates
<1>7. ~CurrentHasReady
  BY <1>3 DEF CurrentHasReady, Local, InCurrent
<1> QED
  BY <1>4, <1>6, <1>7 DEF SwitchWanted

\* What Unlock has seen to, whatever the dwell does next.
Dispatched ==
  ~locked =>
    /\ stack = <<>>
    /\ Candidates # {} => timer
    /\ DwellRefuses /\ ~closed => timer
    /\ ~closed /\ Admissible # {} => Running # {} \/ timer

LEMMA DispatchedStep ==
  ASSUME TypeOK, Dispatched, [Next]_vars
  PROVE  Dispatched'
<1>1. CASE Unlock
  <2>1. UNCHANGED <<graph, gate, cur, switchPrio, closed>> /\ dwelling' = dwelling
    BY <1>1 DEF Unlock, control
  <2>2. /\ Candidates' = Candidates /\ (DwellRefuses' => DwellRefuses)
        /\ Admissible' = Admissible /\ Running' = Running
    BY <2>1, CandidatesStay, DecisionStays
  <2> QED
    BY <1>1, <2>1, <2>2, OnlyDwellHolds DEF Unlock, Dispatched, TimerArmed
<1>2. CASE DwellEnds
  <2>1. UNCHANGED <<graph, gate, cur, switchPrio, closed, timer, locked, stack>> /\ ~dwelling' /\ ~locked
    BY <1>2 DEF DwellEnds, control
  <2>2. Admissible' = Admissible /\ Running' = Running
    BY <2>1, DecisionStays
  <2>3. ~DwellRefuses'
    BY <2>1 DEF DwellRefuses
  <2>4. CASE DwellRefuses
    <3>1. closed \/ timer
      BY <2>1, <2>4 DEF Dispatched
    <3>2. closed => Candidates' = {}
      BY <2>1 DEF Candidates
    <3> QED
      BY <2>1, <2>2, <2>3, <3>1, <3>2 DEF Dispatched
  <2>5. CASE ~DwellRefuses
    <3>1. Candidates' = Candidates
      BY <2>1, <2>5, CandidatesStay
    <3> QED
      BY <2>1, <2>2, <2>3, <3>1 DEF Dispatched
  <2> QED
    BY <2>4, <2>5
<1>3. CASE Close
  <2>1. closed' /\ Candidates' = {} /\ ~locked /\ UNCHANGED stack
    BY <1>3 DEF Close, Candidates
  <2> QED
    BY <2>1 DEF Dispatched
<1>4. CASE UNCHANGED vars
  <2>1. UNCHANGED <<graph, gate, cur, switchPrio, closed, timer, locked, stack>> /\ dwelling' = dwelling
    BY <1>4 DEF vars, control, dispatch
  <2>2. /\ Candidates' = Candidates /\ (DwellRefuses' => DwellRefuses)
        /\ Admissible' = Admissible /\ Running' = Running
    BY <2>1, CandidatesStay, DecisionStays
  <2> QED
    BY <2>1, <2>2 DEF Dispatched
<1>5. ASSUME Next, ~Unlock, ~DwellEnds, ~Close
      PROVE  locked'
  <2>1. CASE Cascade
    <3>1. stack # <<>> /\ locked' = locked
      BY <2>1 DEF Cascade, Prepare, Link, Linked, End, Drop, CancelPicked, Tell, ReplaceNext,
                  WithdrawNext, Return, OnTop
    <3> QED
      BY <3>1 DEF Dispatched, TypeOK, ControlTypeOK
  <2>2. CASE ~Cascade
    BY <1>5, <2>2 DEF Next, Asking, Stopping, Call, Request, Raise, Replace, Adopt, Withdraw,
       Cancel, CancelWhere, SetGate, Start, Finish, TimerFires
  <2> QED
    BY <2>1, <2>2
<1> QED
  BY <1>1, <1>2, <1>3, <1>4, <1>5 DEF Dispatched, TypeOK, ControlTypeOK

LEMMA DispatchedInit ==
  ASSUME Init
  PROVE  Dispatched
<1>1. Admissible = {}
  BY DEF Init, Admissible
<1>2. Foreign = {}
  BY <1>1 DEF Foreign
<1>3. Candidates = {} /\ ~DwellRefuses
  BY <1>1, <1>2 DEF Candidates, DwellRefuses
<1> QED
  BY <1>1, <1>3 DEF Init, Dispatched

THEOREM DispatchedAlways == Spec => []Dispatched
<1>1. Init => Dispatched
  BY DispatchedInit
<1>2. TypeOK /\ Dispatched /\ [Next]_vars => Dispatched'
  BY DispatchedStep
<1> QED
  BY <1>1, <1>2, TypeCorrect, PTL DEF Spec

\* Whatever could start when a call of the scheduler returned was started,
\* except what waits for the dwell's end, whose timer is armed then: unlock's
\* admission loop, and the retry of a switch that it refused (armDwell).
THEOREM NoStartForgotten == Spec => []NoForgottenStart
<1>1. Dispatched => NoForgottenStart
  BY DEF Dispatched, NoForgottenStart
<1> QED
  BY <1>1, DispatchedAlways, PTL

\* The scheduler is never idle in front of admissible work, unless the timer
\* that looks again is armed: drain, dwell, capacity and exclusion do not
\* together hold every ready task back, for any capacities and exclusions.
THEOREM AlwaysWorkConserving == Spec => []WorkConserving
<1>1. Dispatched => WorkConserving
  BY DEF Dispatched, WorkConserving
<1> QED
  BY <1>1, DispatchedAlways, PTL

-----------------------------------------------------------------------------
(* The stack as the set of its frames.                                         *)

Frames(s) == {s[i] : i \in 1 .. Len(s)}

LEMMA FramesOfOne ==
  ASSUME NEW e \in Frame
  PROVE  <<e>> \in Seq(Frame) /\ Frames(<<e>>) = {e}
<1>1. Len(<<e>>) = 1 /\ <<e>>[1] = e
  OBVIOUS
<1>2. 1 .. 1 = {1}
  OBVIOUS
<1> QED  BY <1>1, <1>2 DEF Frames

LEMMA FramesOfTwo ==
  ASSUME NEW e \in Frame, NEW g \in Frame
  PROVE  <<e, g>> \in Seq(Frame) /\ Frames(<<e, g>>) = {e, g}
<1>1. Len(<<e, g>>) = 2 /\ <<e, g>>[1] = e /\ <<e, g>>[2] = g
  OBVIOUS
<1>2. 1 .. 2 = {1, 2}
  OBVIOUS
<1> QED  BY <1>1, <1>2 DEF Frames

LEMMA FramesOfNone == <<>> \in Seq(Frame) /\ Frames(<<>>) = {}
<1>1. Len(<<>>) = 0 /\ 1 .. 0 = {}
  OBVIOUS
<1> QED  BY <1>1 DEF Frames

LEMMA FramesOfLoop ==
  ASSUME NEW f \in Frame
  PROVE  Loop(f) \in Seq(Frame) /\ Frames(Loop(f)) = IF f.todo = {} THEN {} ELSE {f}
BY FramesOfOne, FramesOfNone DEF Loop

LEMMA FramesConcat ==
  ASSUME NEW F \in Seq(Frame), NEW G \in Seq(Frame)
  PROVE  F \o G \in Seq(Frame) /\ Frames(F \o G) = Frames(F) \cup Frames(G)
<1>1. /\ F \o G \in Seq(Frame)
      /\ Len(F \o G) = Len(F) + Len(G)
      /\ \A i \in 1 .. Len(F) + Len(G) : (F \o G)[i] = IF i <= Len(F) THEN F[i] ELSE G[i - Len(F)]
  BY ConcatProperties
<1>2. Len(F) \in Nat /\ Len(G) \in Nat
  BY LenProperties
<1>3. ASSUME NEW i \in 1 .. Len(F \o G)
      PROVE  (F \o G)[i] \in Frames(F) \cup Frames(G)
  <2>1. CASE i <= Len(F)
    BY <1>1, <1>2, <1>3, <2>1 DEF Frames
  <2>2. CASE ~(i <= Len(F))
    <3>1. i - Len(F) \in 1 .. Len(G) /\ (F \o G)[i] = G[i - Len(F)]
      BY <1>1, <1>2, <1>3, <2>2
    <3> QED  BY <3>1 DEF Frames
  <2> QED  BY <2>1, <2>2
<1>4. ASSUME NEW i \in 1 .. Len(F)
      PROVE  F[i] \in Frames(F \o G)
  <2>1. i \in 1 .. Len(F \o G) /\ (F \o G)[i] = F[i]
    BY <1>1, <1>2
  <2> QED  BY <2>1 DEF Frames
<1>5. ASSUME NEW i \in 1 .. Len(G)
      PROVE  G[i] \in Frames(F \o G)
  <2>1. i + Len(F) \in 1 .. Len(F \o G) /\ (F \o G)[i + Len(F)] = G[i]
    BY <1>1, <1>2
  <2> QED  BY <2>1 DEF Frames
<1>6. Frames(F \o G) \subseteq Frames(F) \cup Frames(G)
  BY <1>3 DEF Frames
<1>7. Frames(F) \cup Frames(G) \subseteq Frames(F \o G)
  BY <1>4, <1>5 DEF Frames
<1> QED  BY <1>1, <1>6, <1>7

LEMMA FramesOfStack ==
  ASSUME ControlTypeOK, stack # <<>>
  PROVE  /\ Frames(stack) = {Top} \cup Frames(Rest)
         /\ Frames(stack) \subseteq Frame /\ Rest \in Seq(Frame) /\ Top \in Frame
<1>1. /\ Len(Rest) = Len(stack) - 1 /\ \A i \in 1 .. Len(Rest) : Rest[i] = stack[i + 1]
      /\ Top = stack[1] /\ Len(stack) \in Nat \ {0}
  BY HeadTailProperties, LenProperties, EmptySeq DEF ControlTypeOK, Rest, Top
<1>2. ASSUME NEW i \in 1 .. Len(stack)
      PROVE  stack[i] \in {Top} \cup Frames(Rest)
  <2>1. CASE i = 1
    BY <1>1, <2>1
  <2>2. CASE i # 1
    <3>1. i - 1 \in 1 .. Len(Rest) /\ Rest[i - 1] = stack[i]
      BY <1>1, <2>2
    <3> QED  BY <3>1 DEF Frames
  <2> QED  BY <2>1, <2>2
<1>3. ASSUME NEW i \in 1 .. Len(Rest)
      PROVE  Rest[i] \in Frames(stack)
  <2>1. i + 1 \in 1 .. Len(stack) /\ Rest[i] = stack[i + 1]
    BY <1>1
  <2> QED  BY <2>1 DEF Frames
<1>4. Top \in Frames(stack)
  <2>1. 1 \in 1 .. Len(stack)
    BY <1>1
  <2> QED  BY <1>1, <2>1 DEF Frames
<1>5. Frames(stack) \subseteq {Top} \cup Frames(Rest)
  BY <1>2 DEF Frames
<1>6. {Top} \cup Frames(Rest) \subseteq Frames(stack)
  BY <1>3, <1>4 DEF Frames
<1>7. Frames(stack) \subseteq Frame
  BY ElementOfSeq DEF Frames, ControlTypeOK
<1> QED  BY <1>5, <1>6, <1>7, TopTypes

\* What End makes of the frames below it.
Cut(s, k) == [i \in DOMAIN s |-> Without(s[i], k)]

LEMMA FramesCut ==
  ASSUME NEW s \in Seq(Frame), NEW k \in Keys
  PROVE  Cut(s, k) \in Seq(Frame) /\ Frames(Cut(s, k)) = {Without(f, k) : f \in Frames(s)}
<1>1. Len(s) \in Nat /\ DOMAIN s = 1 .. Len(s)
  BY LenProperties
<1>2. \A i \in 1 .. Len(s) : Without(s[i], k) \in Frame
  BY WithoutType, ElementOfSeq
<1>3. Cut(s, k) \in Seq(Frame) /\ Len(Cut(s, k)) = Len(s)
  BY <1>1, <1>2 DEF Cut
<1>4. \A i \in 1 .. Len(s) : Cut(s, k)[i] = Without(s[i], k)
  BY <1>1 DEF Cut
<1> QED  BY <1>3, <1>4 DEF Frames

-----------------------------------------------------------------------------
(* Nothing unwanted stays.                                                     *)

\* f takes k out of the graph, or looks whether it is still wanted.
Disposes(f, k) == (f.op = "drop" /\ k \in f.todo) \/ (f.op = "end" /\ f.key = k)

Abandoned(k) == Unwanted(k) => k \in canceled \/ \E f \in Frames(stack) : Disposes(f, k)

\* A prepare is always the call under way, for a task that is there and that
\* nobody has asked to stop.
PrepareCurrent ==
  /\ stack # <<>> => \A f \in Frames(Rest) : f.op # "prepare"
  /\ OnTop("prepare") => state[Top.key] # "absent" /\ Top.key \notin canceled

\* A prepare that goes on is for a task that is still there.
LinksPresent(s) == \A f \in Frames(s) : f.op = "link" => state[f.key] # "absent"

WantedInv ==
  /\ canceled \subseteq Running
  /\ PrepareCurrent
  /\ LinksPresent(stack)
  /\ \A k \in Keys : Abandoned(k)

\* The step keeps what the frames below have to do, and what F stands for.
LEMMA PushFrames ==
  ASSUME ControlTypeOK, stack # <<>>, NEW F \in Seq(Frame), Proceed(F)
  PROVE  Frames(stack)' = Frames(F) \cup Frames(Rest)
<1>1. Rest \in Seq(Frame)
  BY TopTypes
<1>2. Frames(F \o Rest) = Frames(F) \cup Frames(Rest)
  BY <1>1, FramesConcat
<1> QED  BY <1>2 DEF Proceed, Frames

LEMMA NoPrepareOnTop ==
  ASSUME NEW G \in Seq(Frame), \A f \in Frames(G) : f.op # "prepare", stack' = G
  PROVE  PrepareCurrent'
<1>1. CASE G = <<>>
  BY <1>1 DEF PrepareCurrent, OnTop
<1>2. CASE G # <<>>
  <2>1. /\ Len(G) \in Nat \ {0} /\ Tail(G) \in Seq(Frame)
        /\ Len(Tail(G)) = Len(G) - 1 /\ \A i \in 1 .. Len(Tail(G)) : Tail(G)[i] = G[i + 1]
        /\ Head(G) = G[1]
    BY <1>2, HeadTailProperties, LenProperties, EmptySeq
  <2>2. Head(G) \in Frames(G)
    <3>1. 1 \in 1 .. Len(G)
      BY <2>1
    <3> QED  BY <2>1, <3>1 DEF Frames
  <2>3. ASSUME NEW i \in 1 .. Len(Tail(G))
        PROVE  Tail(G)[i] \in Frames(G)
    <3>1. i + 1 \in 1 .. Len(G) /\ Tail(G)[i] = G[i + 1]
      BY <2>1
    <3> QED  BY <3>1 DEF Frames
  <2>4. Frames(Tail(G)) \subseteq Frames(G)
    BY <2>3 DEF Frames
  <2>5. Rest' = Tail(G) /\ Top' = Head(G)
    BY DEF Rest, Top
  <2>6. Frames(Rest)' = Frames(Tail(G))
    BY <2>5 DEF Frames
  <2> QED  BY <2>2, <2>4, <2>5, <2>6 DEF PrepareCurrent, OnTop
<1> QED  BY <1>1, <1>2

LEMMA PrepareOnTop ==
  ASSUME NEW k \in Keys, NEW G \in Seq(Frame), \A f \in Frames(G) : f.op # "prepare",
         stack' = <<Preparing(k)>> \o G,
         state'[k] # "absent", k \notin canceled'
  PROVE  PrepareCurrent'
<1> DEFINE e == Preparing(k)
<1>1. e \in Frame /\ e.key = k
  BY PreparingType DEF Preparing
<1>2. stack' = <<e>> \o G
  OBVIOUS
<1> HIDE DEF e
<1>3. Rest' = G /\ Top' = e
  <2>1. Len(<<e>> \o G) = Len(G) + 1 /\ Len(G) \in Nat
    BY <1>1, ConcatProperties, FramesOfOne, LenProperties
  <2>2. <<e>> \o G # <<>> /\ <<e>> \o G \in Seq(Frame)
    BY <1>1, <2>1, FramesOfOne, ConcatProperties
  <2>3. Head(<<e>> \o G) = e /\ Tail(<<e>> \o G) = G
    BY <1>1, SMT
  <2> QED  BY <1>2, <2>3 DEF Rest, Top
<1>4. Frames(Rest)' = Frames(G)
  BY <1>3 DEF Frames
<1> QED  BY <1>1, <1>3, <1>4 DEF PrepareCurrent, OnTop

\* A task that nothing wants keeps what will dispose of it.
LEMMA AbandonedKept ==
  ASSUME ControlTypeOK, stack # <<>>, NEW F \in Seq(Frame), Proceed(F),
         NEW k \in Keys, Abandoned(k),
         k \in canceled => k \in canceled',
         Unwanted(k)' =>
           \/ /\ Unwanted(k)
              /\ Disposes(Top, k) => k \in canceled'
           \/ \E f \in Frames(F) : Disposes(f, k)
  PROVE  Abandoned(k)'
<1>1. Frames(stack)' = Frames(F) \cup Frames(Rest)
  BY PushFrames
<1>2. Frames(stack) = {Top} \cup Frames(Rest)
  BY FramesOfStack
<1>3. SUFFICES ASSUME Unwanted(k)'
               PROVE  k \in canceled' \/ \E f \in Frames(stack)' : Disposes(f, k)
  BY DEF Abandoned, Disposes
<1> QED  BY <1>1, <1>2, <1>3 DEF Abandoned

\* What a task that has become unwanted, or loses what would dispose of it, has
\* instead after a step that puts the frames F in place of the one on top.
Covered(F) ==
  \A k \in Keys : Unwanted(k)' =>
    \/ /\ Unwanted(k)
       /\ Disposes(Top, k) => k \in canceled'
    \/ \E f \in Frames(F) : Disposes(f, k)

\* No task leaves the graph, and the prepares in F that go on are for tasks there.
StillPresent(F) ==
  /\ \A k \in Keys : state[k] # "absent" => state'[k] # "absent"
  /\ \A f \in Frames(F) : f.op = "link" => state'[f.key] # "absent"

LEMMA LinksStay ==
  ASSUME ControlTypeOK, stack # <<>>, NEW F \in Seq(Frame), Proceed(F),
         StillPresent(F), LinksPresent(stack)
  PROVE  LinksPresent(stack)'
<1>1. Frames(stack)' = Frames(F) \cup Frames(Rest)
  BY PushFrames
<1>2. Frames(stack) = {Top} \cup Frames(Rest) /\ Frames(stack) \subseteq Frame
  BY FramesOfStack
<1>3. \A f \in Frames(Rest) : f.op = "link" => f.key \in Keys
  BY <1>2, CallHasKey DEF Calls
<1> QED  BY <1>1, <1>2, <1>3 DEF LinksPresent, StillPresent

LEMMA StepWanted ==
  ASSUME TypeOK, WantedInv, stack # <<>>, NEW F \in Seq(Frame), Proceed(F),
         \A f \in Frames(F) : f.op # "prepare",
         StillPresent(F),
         canceled \subseteq canceled', canceled' \subseteq Running', Covered(F)
  PROVE  WantedInv'
<1>1. ControlTypeOK
  BY DEF TypeOK
<1>2. \A k \in Keys : Abandoned(k)'
  BY <1>1, AbandonedKept DEF WantedInv, Covered
<1>3. Rest \in Seq(Frame)
  BY <1>1, TopTypes
<1>4. F \o Rest \in Seq(Frame) /\ Frames(F \o Rest) = Frames(F) \cup Frames(Rest)
  BY <1>3, FramesConcat
<1>5. PrepareCurrent'
  BY <1>4, NoPrepareOnTop DEF WantedInv, PrepareCurrent, Proceed
<1>6. LinksPresent(stack)'
  BY <1>1, LinksStay DEF WantedInv
<1> QED  BY <1>2, <1>5, <1>6 DEF WantedInv

LEMMA StepPrepares ==
  ASSUME TypeOK, WantedInv, stack # <<>>, NEW j \in Keys, NEW F \in Seq(Frame),
         stack' = <<Preparing(j)>> \o (F \o Rest),
         \A f \in Frames(F) : f.op # "prepare",
         StillPresent(F), state'[j] # "absent", j \notin canceled',
         canceled \subseteq canceled', canceled' \subseteq Running', Covered(F)
  PROVE  WantedInv'
<1>1. ControlTypeOK
  BY DEF TypeOK
<1>2. Rest \in Seq(Frame)
  BY <1>1, TopTypes
<1>3. /\ <<Preparing(j)>> \in Seq(Frame) /\ Frames(<<Preparing(j)>>) = {Preparing(j)}
  BY PreparingType, FramesOfOne
<1>4. F \o Rest \in Seq(Frame) /\ Frames(F \o Rest) = Frames(F) \cup Frames(Rest)
  BY <1>2, FramesConcat
<1>5. PrepareCurrent'
  BY <1>4, PrepareOnTop DEF WantedInv, PrepareCurrent
<1> DEFINE P == <<Preparing(j)>>
           G == P \o F
<1>6. G \in Seq(Frame) /\ Frames(G) = {Preparing(j)} \cup Frames(F)
  BY <1>3, FramesConcat
<1>7. Proceed(G)
  <2> HIDE DEF P
  <2>1. P \o (F \o Rest) = (P \o F) \o Rest
    BY <1>2, <1>3, ConcatAssociative DEF P
  <2> QED  BY <2>1 DEF Proceed, P
<1>8. \A k \in Keys : Unwanted(k)' =>
        \/ /\ Unwanted(k)
           /\ Disposes(Top, k) => k \in canceled'
        \/ \E f \in Frames(G) : Disposes(f, k)
  BY <1>6 DEF Covered
<1>9. StillPresent(G)
  BY <1>6 DEF StillPresent, Preparing
<1> HIDE DEF G
<1>10. \A k \in Keys : Abandoned(k)'
  BY <1>1, <1>6, <1>7, <1>8, AbandonedKept DEF WantedInv
<1>11. LinksPresent(stack)'
  BY <1>1, <1>6, <1>7, <1>9, LinksStay DEF WantedInv
<1> QED  BY <1>5, <1>10, <1>11 DEF WantedInv

LEMMA PrepareWanted ==
  ASSUME TypeOK, WantedInv, Prepare
  PROVE  WantedInv'
<1> DEFINE k == Top.key
<1>1. k \in Keys /\ stack # <<>> /\ Top.op = "prepare" /\ ControlTypeOK
  BY TopTypes DEF Prepare, OnTop, TypeOK
<1>2. state' = [state EXCEPT ![k] = "waiting"] /\ UNCHANGED <<requests, needs, members, adopted, canceled>>
  BY DEF Prepare
<1>3. state[k] # "absent" /\ k \notin canceled
  BY <1>1 DEF WantedInv, PrepareCurrent, OnTop
<1>4. PICK e \in Frame : Proceed(<<e>>) /\ e.op # "prepare" /\ e.key = k
  <2>1. CASE \E H \in SUBSET Deps[k], S \in SUBSET Members[k] : Proceed(<<Linking(k, H, S)>>)
    <3>1. PICK H \in SUBSET Deps[k], S \in SUBSET Members[k] : Proceed(<<Linking(k, H, S)>>)
      BY <2>1
    <3>2. H \in SUBSET Keys /\ S \in SUBSET Keys
      BY <1>1, SchedAssumption
    <3>3. Linking(k, H, S) \in Frame /\ Linking(k, H, S).op # "prepare" /\ Linking(k, H, S).key = k
      BY <1>1, <3>2, LinkingType DEF Linking
    <3> QED  BY <3>1, <3>3
  <2>2. CASE Proceed(<<Ending(k, "error")>>)
    <3>1. Ending(k, "error") \in Frame /\ Ending(k, "error").op # "prepare" /\ Ending(k, "error").key = k
      BY <1>1, EndingType DEF Ending, Outcome
    <3> QED  BY <2>2, <3>1
  <2> QED  BY <2>1, <2>2 DEF Prepare
<1>5. <<e>> \in Seq(Frame) /\ Frames(<<e>>) = {e}
  BY FramesOfOne
<1> DEFINE F == <<e>>
<1> HIDE DEF F, k
<1>6. \A j \in Keys : Unwanted(j)' => Unwanted(j)
  BY <1>1, <1>2, <1>3 DEF Unwanted, Asked, WantedBy, Wants, TypeOK, GraphTypeOK
<1>7. Covered(F)
  BY <1>1, <1>6 DEF Covered, Disposes
<1>8. canceled' \subseteq Running'
  BY <1>1, <1>2, <1>3 DEF WantedInv, Running, TypeOK, GraphTypeOK
<1>9. StillPresent(F)
  BY <1>1, <1>2, <1>4, <1>5 DEF F, StillPresent, TypeOK, GraphTypeOK
<1> QED  BY <1>1, <1>2, <1>4, <1>5, <1>7, <1>8, <1>9, StepWanted DEF F

LEMMA LinkWanted ==
  ASSUME TypeOK, WantedInv, Link
  PROVE  WantedInv'
<1> DEFINE more(d) == [Top EXCEPT !.todo = @ \ {d}]
<1>1. Top \in LinkFrame /\ stack # <<>> /\ Top.op = "link" /\ ControlTypeOK
  BY TopTypes DEF Link, OnTop, TypeOK
<1>0. PICK k \in Keys : k = Top.key
  BY <1>1 DEF LinkFrame
<1>2. PICK d \in Top.todo :
        \/ Proceed(<<more(d)>>) /\ UNCHANGED <<state, needs, members>>
        \/ Proceed(<<Ending(k, "error"), more(d)>>) /\ UNCHANGED <<state, needs, members>>
        \/ /\ \/ needs' = [needs EXCEPT ![k] = @ \cup {d}] /\ UNCHANGED members
              \/ members' = [members EXCEPT ![k] = @ \cup {d}] /\ UNCHANGED needs
           /\ \/ state[d] = "absent" /\ Add(d) /\ Proceed(<<Preparing(d), more(d)>>)
              \/ Proceed(<<more(d)>>) /\ UNCHANGED state
  BY <1>0 DEF Link
<1>3. k \in Keys /\ d \in Keys
  BY <1>0, <1>1 DEF LinkFrame
<1>4. more(d) \in Frame /\ more(d).op = "link" /\ more(d).key = k
  BY <1>0, <1>1 DEF LinkFrame, Frame
<1>5. Ending(k, "error") \in Frame /\ Ending(k, "error").op = "end"
  BY <1>3, EndingType DEF Ending, Outcome
<1>6. UNCHANGED <<requests, adopted, canceled>>
  BY DEF Link
<1>7. canceled \subseteq Running /\ state[k] # "absent"
  <2>1. Top \in Frames(stack)
    BY <1>1, FramesOfStack
  <2> QED  BY <1>0, <1>1, <2>1 DEF WantedInv, LinksPresent
<1> HIDE DEF more
<1>8. ASSUME UNCHANGED <<state, needs, members>>
      PROVE  canceled' \subseteq Running' /\ \A F : Covered(F)
  BY <1>1, <1>6, <1>7, <1>8 DEF Covered, Unwanted, Asked, WantedBy, Wants, Running, Disposes
<1>9. \A F : (\A f \in Frames(F) : f.op = "link" => f.key = k) /\ UNCHANGED state => StillPresent(F)
  BY <1>7 DEF StillPresent
<1>12. CASE Proceed(<<more(d)>>) /\ UNCHANGED <<state, needs, members>>
  <2> DEFINE F == <<more(d)>>
  <2>1. F \in Seq(Frame) /\ Frames(F) = {more(d)} /\ Proceed(F)
    BY <1>4, <1>12, FramesOfOne
  <2> HIDE DEF F
  <2> QED  BY <1>1, <1>4, <1>6, <1>8, <1>9, <1>12, <2>1, StepWanted
<1>10. CASE Proceed(<<Ending(k, "error"), more(d)>>) /\ UNCHANGED <<state, needs, members>>
  <2> DEFINE F == <<Ending(k, "error"), more(d)>>
  <2>1. F \in Seq(Frame) /\ Frames(F) = {Ending(k, "error"), more(d)} /\ Proceed(F)
    BY <1>4, <1>5, <1>10, FramesOfTwo
  <2> HIDE DEF F
  <2> QED  BY <1>1, <1>4, <1>5, <1>6, <1>8, <1>9, <1>10, <2>1, StepWanted
<1>11. CASE /\ \/ needs' = [needs EXCEPT ![k] = @ \cup {d}] /\ UNCHANGED members
               \/ members' = [members EXCEPT ![k] = @ \cup {d}] /\ UNCHANGED needs
            /\ \/ state[d] = "absent" /\ Add(d) /\ Proceed(<<Preparing(d), more(d)>>)
               \/ Proceed(<<more(d)>>) /\ UNCHANGED state
  <2>1. /\ \A j \in Keys : Wants(j) \subseteq Wants(j)'
        /\ d \in Wants(k)'
    <3>1. CASE needs' = [needs EXCEPT ![k] = @ \cup {d}] /\ UNCHANGED members
      BY <1>3, <1>6, <3>1 DEF Wants, TypeOK, GraphTypeOK
    <3>2. CASE members' = [members EXCEPT ![k] = @ \cup {d}] /\ UNCHANGED needs
      BY <1>3, <1>6, <3>2 DEF Wants, TypeOK, GraphTypeOK
    <3> QED  BY <1>11, <3>1, <3>2
  <2>2. ASSUME \A j \in Keys : j # d => state'[j] = state[j]
        PROVE  \A F : Covered(F)
    <3>1. \A j \in Keys : WantedBy(j) \subseteq WantedBy(j)'
      BY <2>1 DEF WantedBy
    <3>2. WantedBy(d)' # {}
      BY <1>3, <2>1 DEF WantedBy
    <3>3. \A j \in Keys : Unwanted(j)' => Unwanted(j)
      BY <1>6, <2>2, <3>1, <3>2 DEF Unwanted, Asked
    <3> QED  BY <1>1, <3>3 DEF Covered, Disposes
  <2>3. CASE state[d] = "absent" /\ Add(d) /\ Proceed(<<Preparing(d), more(d)>>)
    <3>1. /\ \A j \in Keys : j # d => state'[j] = state[j]
          /\ state'[d] = "waiting"
      BY <1>3, <2>3 DEF Add, TypeOK, GraphTypeOK
    <3>2. d \notin canceled /\ canceled' \subseteq Running'
      BY <1>3, <1>6, <1>7, <2>3, <3>1 DEF Running
    <3> DEFINE F == <<more(d)>>
    <3>3. F \in Seq(Frame) /\ Frames(F) = {more(d)} /\ <<Preparing(d)>> \in Seq(Frame)
      BY <1>3, <1>4, FramesOfOne, PreparingType
    <3>4. <<Preparing(d), more(d)>> = <<Preparing(d)>> \o F
      OBVIOUS
    <3> HIDE DEF F
    <3>5. stack' = <<Preparing(d)>> \o (F \o Rest)
      BY <1>1, <2>3, <3>3, <3>4, FramesOfStack, ConcatAssociative DEF Proceed
    <3>6. StillPresent(F)
      BY <1>3, <1>4, <1>7, <3>1, <3>3 DEF StillPresent
    <3> QED  BY <1>1, <1>3, <1>4, <1>6, <2>2, <3>1, <3>2, <3>3, <3>5, <3>6, StepPrepares
  <2>4. CASE Proceed(<<more(d)>>) /\ UNCHANGED state
    <3> DEFINE F == <<more(d)>>
    <3>1. F \in Seq(Frame) /\ Frames(F) = {more(d)} /\ Proceed(F)
      BY <1>4, <2>4, FramesOfOne
    <3> HIDE DEF F
    <3>2. canceled' \subseteq Running' /\ Covered(F)
      BY <1>6, <1>7, <2>2, <2>4 DEF Running
    <3> QED  BY <1>1, <1>4, <1>6, <1>9, <2>4, <3>1, <3>2, StepWanted
  <2> QED  BY <1>11, <2>3, <2>4
<1> QED  BY <1>2, <1>10, <1>12, <1>11

\* A step that takes the frame on top away, or puts one frame in its place,
\* and leaves alone what anything wants.
LEMMA PopWanted ==
  ASSUME TypeOK, WantedInv, stack # <<>>, Proceed(<<>>),
         UNCHANGED <<requests, needs, members, adopted, canceled>>,
         \A k \in Keys : (state'[k] = "absent") = (state[k] = "absent"),
         canceled \subseteq Running',
         \A k \in Keys : Disposes(Top, k) => ~Unwanted(k)'
  PROVE  WantedInv'
<1> DEFINE F == <<>>
<1>1. F \in Seq(Frame) /\ Frames(F) = {} /\ Proceed(F)
  BY FramesOfNone
<1> HIDE DEF F
<1>2. Covered(F) /\ StillPresent(F)
  BY <1>1 DEF Covered, StillPresent, Unwanted, Asked, WantedBy, Wants
<1> QED  BY <1>1, <1>2, StepWanted

LEMMA LinkedWanted ==
  ASSUME TypeOK, QuietStack, WantedInv, Linked
  PROVE  WantedInv'
<1> DEFINE k == Top.key
<1>1. Top \in LinkFrame /\ stack # <<>> /\ ControlTypeOK /\ Top.op = "link"
  BY TopTypes DEF Linked, OnTop, TypeOK
<1>2. state' = state \/ state' = [state EXCEPT ![k] = "ready"]
  BY DEF Linked
<1>3. k \in Keys /\ state[k] \notin {"absent", "running"}
  <2>1. Top \in Frames(stack)
    BY <1>1, FramesOfStack
  <2> QED  BY <1>1, <2>1, LinkingWaits DEF WantedInv, LinksPresent, LinkFrame, OnTop
<1> HIDE DEF k
<1>4. /\ \A j \in Keys : (state'[j] = "absent") = (state[j] = "absent")
      /\ Running' = Running
  <2>1. CASE state' = state
    BY <2>1 DEF Running
  <2>2. CASE state' = [state EXCEPT ![k] = "ready"]
    BY <1>3, <2>2 DEF Running, TypeOK, GraphTypeOK
  <2> QED  BY <1>2, <2>1, <2>2
<1>5. Proceed(<<>>) /\ UNCHANGED <<requests, needs, members, adopted, canceled>>
  BY DEF Linked
<1> QED  BY <1>1, <1>4, <1>5, PopWanted DEF Disposes, WantedInv

LEMMA ReturnWanted ==
  ASSUME TypeOK, WantedInv, Return
  PROVE  WantedInv'
<1>1. stack # <<>> /\ Proceed(<<>>) /\ UNCHANGED graph
  BY DEF Return
<1>2. \A k \in Keys : ~Disposes(Top, k)
  BY DEF Return, Disposes
<1> QED  BY <1>1, <1>2, PopWanted DEF graph, WantedInv, Running

\* A call pushed over a loop that goes on.
LEMMA PushOver ==
  ASSUME ControlTypeOK, stack # <<>>, NEW e \in Frame, NEW F \in Seq(Frame),
         stack' = <<e>> \o (F \o Rest)
  PROVE  /\ <<e>> \o F \in Seq(Frame) /\ Frames(<<e>> \o F) = {e} \cup Frames(F)
         /\ Proceed(<<e>> \o F)
<1> DEFINE E == <<e>>
<1>1. E \in Seq(Frame) /\ Frames(E) = {e} /\ Rest \in Seq(Frame)
  BY FramesOfOne, TopTypes
<1>2. stack' = E \o (F \o Rest)
  OBVIOUS
<1> HIDE DEF E
<1>3. E \o (F \o Rest) = (E \o F) \o Rest
  BY <1>1, ConcatAssociative
<1>4. E \o F \in Seq(Frame) /\ Frames(E \o F) = {e} \cup Frames(F) /\ Proceed(E \o F)
  BY <1>1, <1>2, <1>3, FramesConcat DEF Proceed
<1> QED  BY <1>4 DEF E

NoPrepares(F) == \A f \in Frames(F) : f.op \notin {"prepare", "link"}

LEMMA CancelNodeWanted ==
  ASSUME TypeOK, WantedInv, stack # <<>>, NEW d \in Keys,
         NEW F \in Seq(Frame), NoPrepares(F), CancelNode(d, F \o Rest),
         UNCHANGED <<state, requests, needs, members, adopted>>,
         \A k \in Keys : Disposes(Top, k) =>
           ~Unwanted(k) \/ k = d \/ \E f \in Frames(F) : Disposes(f, k)
  PROVE  WantedInv'
<1>1. \A k \in Keys : Unwanted(k)' = Unwanted(k)
  BY DEF Unwanted, Asked, WantedBy, Wants
<1>2. CASE state[d] = "running"
  <2>1. canceled' = canceled \cup {d} /\ Proceed(F)
    BY <1>2 DEF CancelNode, Proceed
  <2>2. Covered(F)
    BY <1>1, <2>1 DEF Covered
  <2>3. StillPresent(F)
    BY DEF StillPresent, NoPrepares
  <2>4. canceled' \subseteq Running'
    BY <1>2, <2>1 DEF WantedInv, Running
  <2> QED  BY <2>1, <2>2, <2>3, <2>4, StepWanted DEF NoPrepares
<1>3. CASE state[d] # "running"
  <2> DEFINE e == Ending(d, "canceled")
             G == <<e>> \o F
  <2>1. e \in Frame /\ e.op = "end" /\ e.key = d
    BY EndingType DEF Outcome, Ending
  <2>2. UNCHANGED canceled /\ stack' = <<e>> \o (F \o Rest)
    BY <1>3 DEF CancelNode
  <2>3. ControlTypeOK
    BY DEF TypeOK
  <2> HIDE DEF e
  <2>4. G \in Seq(Frame) /\ Frames(G) = {e} \cup Frames(F) /\ Proceed(G)
    BY <2>1, <2>2, <2>3, PushOver
  <2> HIDE DEF G
  <2>5. Covered(G)
    BY <1>1, <2>1, <2>4 DEF Covered, Disposes
  <2>6. StillPresent(G)
    BY <2>1, <2>4 DEF StillPresent, NoPrepares
  <2>7. canceled' \subseteq Running'
    BY <2>2 DEF WantedInv, Running
  <2> QED  BY <2>1, <2>2, <2>4, <2>5, <2>6, <2>7, StepWanted DEF NoPrepares
<1> QED  BY <1>2, <1>3

\* The frames of a loop.
LEMMA DroppingFrames ==
  ASSUME NEW K \in SUBSET Keys
  PROVE  /\ Dropping(K) \in Seq(Frame)
         /\ Frames(Dropping(K)) = IF K = {} THEN {} ELSE {[op |-> "drop", todo |-> K]}
<1>1. [op |-> "drop", todo |-> K] \in Frame
  BY DEF Frame, DropFrame
<1> QED  BY <1>1, FramesOfLoop DEF Dropping

LEMMA CancelingFrames ==
  ASSUME NEW K \in SUBSET Keys
  PROVE  /\ Canceling(K) \in Seq(Frame)
         /\ Frames(Canceling(K)) = IF K = {} THEN {} ELSE {[op |-> "cancel", todo |-> K]}
<1>1. [op |-> "cancel", todo |-> K] \in Frame
  BY DEF Frame, DropFrame
<1> QED  BY <1>1, FramesOfLoop DEF Canceling

LEMMA WithdrawingFrames ==
  ASSUME NEW s \in Sources, NEW K \in SUBSET Keys
  PROVE  /\ Withdrawing(s, K) \in Seq(Frame)
         /\ \A f \in Frames(Withdrawing(s, K)) : f.op = "withdraw"
<1>1. [op |-> "withdraw", source |-> s, todo |-> K] \in Frame
  BY DEF Frame, WithdrawFrame
<1> QED  BY <1>1, FramesOfLoop DEF Withdrawing

LEMMA TellingFrames ==
  ASSUME NEW k \in Keys, NEW e \in Outcome, NEW W \in SUBSET Keys, NEW H \in SUBSET Keys,
         NEW S \in SUBSET Keys
  PROVE  /\ Telling(k, e, W, H, S) \in Seq(Frame)
         /\ \A f \in Frames(Telling(k, e, W, H, S)) : f.op = "tell"
<1>1. [op |-> "tell", key |-> k, err |-> e, todo |-> W, hard |-> H, soft |-> S] \in Frame
  BY DEF Frame, TellFrame
<1> QED  BY <1>1, FramesOfLoop DEF Telling

LEMMA DropWanted ==
  ASSUME TypeOK, WantedInv, Drop
  PROVE  WantedInv'
<1>1. Top \in DropFrame /\ Top.op = "drop" /\ stack # <<>>
  BY TopTypes DEF Drop, OnTop, TypeOK
<1>2. PICK d \in Top.todo :
        \/ Unwanted(d) /\ CancelNode(d, Dropping(Top.todo \ {d}) \o Rest)
        \/ ~Unwanted(d) /\ Proceed(Dropping(Top.todo \ {d})) /\ UNCHANGED canceled
  BY DEF Drop, Proceed
<1>3. d \in Keys /\ Top.todo \ {d} \in SUBSET Keys
  BY <1>1 DEF DropFrame
<1> DEFINE F == Dropping(Top.todo \ {d})
<1>4. F \in Seq(Frame) /\ NoPrepares(F) /\ \A k \in Top.todo \ {d} : \E f \in Frames(F) : Disposes(f, k)
  <2> DEFINE K == Top.todo \ {d}
  <2>1. F \in Seq(Frame) /\ Frames(F) = IF K = {} THEN {} ELSE {[op |-> "drop", todo |-> K]}
    BY <1>3, DroppingFrames
  <2> HIDE DEF K, F
  <2>2. CASE K = {}
    BY <2>1, <2>2 DEF NoPrepares, K
  <2>3. CASE K # {}
    <3>1. \A f \in Frames(F) : f.op = "drop" /\ f.todo = K
      BY <2>1, <2>3
    <3>2. Frames(F) # {}
      BY <2>1, <2>3
    <3> QED  BY <2>1, <3>1, <3>2 DEF NoPrepares, Disposes, K
  <2> QED  BY <2>2, <2>3
<1> HIDE DEF F
<1>5. UNCHANGED <<state, requests, needs, members, adopted>>
  BY DEF Drop
<1>6. \A k \in Keys : Disposes(Top, k) => k = d \/ \E f \in Frames(F) : Disposes(f, k)
  BY <1>1, <1>4 DEF Disposes
<1>7. CASE Unwanted(d) /\ CancelNode(d, F \o Rest)
  BY <1>1, <1>3, <1>4, <1>5, <1>6, <1>7, CancelNodeWanted
<1>8. CASE ~Unwanted(d) /\ Proceed(F) /\ UNCHANGED canceled
  <2>1. \A k \in Keys : Unwanted(k)' = Unwanted(k)
    BY <1>5 DEF Unwanted, Asked, WantedBy, Wants
  <2>2. Covered(F)
    BY <1>6, <1>8, <2>1 DEF Covered
  <2>3. StillPresent(F)
    BY <1>4, <1>5 DEF StillPresent, NoPrepares
  <2>4. canceled' \subseteq Running'
    BY <1>5, <1>8 DEF WantedInv, Running
  <2> QED  BY <1>1, <1>4, <1>8, <2>2, <2>3, <2>4, StepWanted DEF NoPrepares
<1> QED  BY <1>2, <1>7, <1>8 DEF F

LEMMA CancelPickedWanted ==
  ASSUME TypeOK, WantedInv, CancelPicked
  PROVE  WantedInv'
<1>1. Top \in DropFrame /\ Top.op = "cancel" /\ stack # <<>>
  BY TopTypes DEF CancelPicked, OnTop, TypeOK
<1>2. PICK d \in Top.todo : CancelNode(d, Canceling(Top.todo \ {d}) \o Rest)
  BY DEF CancelPicked
<1>3. d \in Keys /\ Top.todo \ {d} \in SUBSET Keys
  BY <1>1 DEF DropFrame
<1> DEFINE F == Canceling(Top.todo \ {d})
<1>4. F \in Seq(Frame) /\ NoPrepares(F)
  BY <1>3, CancelingFrames DEF NoPrepares
<1> HIDE DEF F
<1> QED  BY <1>1, <1>2, <1>3, <1>4, CancelNodeWanted DEF F, CancelPicked, Disposes

LEMMA TellWanted ==
  ASSUME TypeOK, WantedInv, Tell
  PROVE  WantedInv'
<1> DEFINE more(w) == [Top EXCEPT !.todo = @ \ {w}]
<1>1. Top \in TellFrame /\ Top.op = "tell" /\ stack # <<>> /\ ControlTypeOK
  BY TopTypes DEF Tell, OnTop, TypeOK
<1>2. PICK w \in Top.todo :
        \/ stack' = Loop(more(w)) \o Rest
        \/ stack' = <<Ending(w, FailsAs(w))>> \o (Loop(more(w)) \o Rest)
        \/ state[w] = "waiting" /\ stack' = <<Preparing(w)>> \o (Loop(more(w)) \o Rest)
  BY DEF Tell
<1>3. w \in Keys
  BY <1>1 DEF TellFrame
<1>4. more(w) \in Frame /\ more(w).op = "tell"
  BY <1>1 DEF TellFrame, Frame
<1> DEFINE F == Loop(more(w))
<1> HIDE DEF more
<1>5. F \in Seq(Frame) /\ NoPrepares(F)
  BY <1>4, FramesOfLoop DEF NoPrepares
<1> HIDE DEF F
<1>6. UNCHANGED <<state, requests, needs, members, adopted, canceled>>
  BY DEF Tell
<1>7. \A G : Covered(G)
  BY <1>1, <1>6 DEF Covered, Disposes, Unwanted, Asked, WantedBy, Wants
<1>8. canceled' \subseteq Running' /\ \A G : (\A f \in Frames(G) : f.op # "link") => StillPresent(G)
  BY <1>6 DEF StillPresent, WantedInv, Running
<1>9. CASE stack' = F \o Rest
  BY <1>1, <1>5, <1>6, <1>7, <1>8, <1>9, StepWanted DEF NoPrepares, Proceed
<1>10. CASE stack' = <<Ending(w, FailsAs(w))>> \o (F \o Rest)
  <2> DEFINE e == Ending(w, FailsAs(w))
             G == <<e>> \o F
  <2>1. e \in Frame /\ e.op = "end"
    BY <1>3, EndingType DEF Outcome, Ending, FailsAs
  <2> HIDE DEF e
  <2>2. G \in Seq(Frame) /\ Frames(G) = {e} \cup Frames(F) /\ Proceed(G)
    BY <1>1, <1>5, <1>10, <2>1, PushOver DEF e
  <2> HIDE DEF G
  <2> QED  BY <1>1, <1>5, <1>6, <1>7, <1>8, <2>1, <2>2, StepWanted DEF NoPrepares
<1>11. CASE state[w] = "waiting" /\ stack' = <<Preparing(w)>> \o (F \o Rest)
  <2>1. state'[w] # "absent" /\ w \notin canceled'
    BY <1>6, <1>11 DEF WantedInv, Running
  <2> QED  BY <1>1, <1>3, <1>5, <1>6, <1>7, <1>8, <1>11, <2>1, StepPrepares DEF NoPrepares
<1> QED  BY <1>2, <1>9, <1>10, <1>11 DEF F

\* A request more makes nothing unwanted, not even its own task.
LEMMA AskedMore ==
  ASSUME GraphTypeOK, NEW k \in Keys, NEW s \in Sources, NEW p \in Prios,
         \/ requests' = [requests EXCEPT ![k][s] = p]
         \/ Urge(k, s, p),
         UNCHANGED <<needs, members, adopted>>,
         \A j \in Keys : j # k => state'[j] = state[j]
  PROVE  /\ \A j \in Keys : Unwanted(j)' => Unwanted(j)
         /\ ~Unwanted(k)'
<1>1. p \in Nat /\ p < NoPriority /\ requests[k][s] \in Priority
  BY SchedAssumption DEF GraphTypeOK
<1>2. p # NoPriority
  BY <1>1 DEF NoPriority
<1>3. requests'[k][s] # NoPriority
  <2>1. CASE requests' = [requests EXCEPT ![k][s] = p]
    BY <1>2, <2>1 DEF GraphTypeOK
  <2>2. CASE Urge(k, s, p)
    <3>1. requests'[k][s] = IF p < requests[k][s] THEN p ELSE requests[k][s]
      BY <2>2 DEF Urge, GraphTypeOK
    <3> QED  BY <1>1, <1>2, <3>1 DEF NoPriority
  <2> QED  BY <2>1, <2>2
<1>4. \A j \in Keys : j # k => requests'[j] = requests[j]
  BY DEF Urge, GraphTypeOK
<1>5. ~Unwanted(k)'
  BY <1>3 DEF Unwanted, Asked
<1> QED  BY <1>4, <1>5 DEF Unwanted, Asked, WantedBy, Wants

LEMMA ReplaceNextWanted ==
  ASSUME TypeOK, WantedInv, ReplaceNext
  PROVE  WantedInv'
<1> DEFINE more(k) == [Top EXCEPT !.todo = @ \ {k}]
           lost == {k \in Keys : requests[k][Top.source] # NoPriority} \ Top.keep
<1>1. Top \in ReplaceFrame /\ Top.op = "replace" /\ stack # <<>> /\ ControlTypeOK
  BY TopTypes DEF ReplaceNext, OnTop, TypeOK
<1>2. UNCHANGED <<needs, members, adopted, canceled>> /\ canceled \subseteq Running
  BY DEF ReplaceNext, WantedInv
<1>3. \A k : ~Disposes(Top, k)
  BY <1>1 DEF Disposes
<1>4. CASE Proceed(Withdrawing(Top.source, lost)) /\ UNCHANGED <<state, requests>>
  <2> DEFINE F == Withdrawing(Top.source, lost)
  <2>1. F \in Seq(Frame) /\ NoPrepares(F)
    BY <1>1, WithdrawingFrames DEF NoPrepares, ReplaceFrame
  <2> HIDE DEF F
  <2>2. Covered(F) /\ StillPresent(F) /\ canceled' \subseteq Running'
    BY <1>2, <1>3, <1>4, <2>1
       DEF Covered, StillPresent, NoPrepares, Unwanted, Asked, WantedBy, Wants, Running
  <2> QED  BY <1>1, <1>2, <1>4, <2>1, <2>2, StepWanted DEF F, NoPrepares
<1>5. CASE \E k \in Top.todo :
             /\ requests' = [requests EXCEPT ![k][Top.source] = Top.prio]
             /\ \/ state[k] = "absent" /\ Add(k) /\ Proceed(<<Preparing(k), more(k)>>)
                \/ Proceed(<<more(k)>>) /\ UNCHANGED state
  <2>1. PICK d \in Top.todo :
             /\ requests' = [requests EXCEPT ![d][Top.source] = Top.prio]
             /\ \/ state[d] = "absent" /\ Add(d) /\ Proceed(<<Preparing(d), more(d)>>)
                \/ Proceed(<<more(d)>>) /\ UNCHANGED state
    BY <1>5
  <2>2. d \in Keys /\ Top.source \in Sources /\ Top.prio \in Prios
    BY <1>1 DEF ReplaceFrame
  <2>3. more(d) \in Frame /\ more(d).op = "replace"
    BY <1>1 DEF ReplaceFrame, Frame
  <2> DEFINE F == <<more(d)>>
  <2>4. F \in Seq(Frame) /\ NoPrepares(F)
    BY <2>3, FramesOfOne DEF NoPrepares
  <2> HIDE DEF more
  <2>5. CASE state[d] = "absent" /\ Add(d) /\ Proceed(<<Preparing(d), more(d)>>)
    <3>1. (\A j \in Keys : j # d => state'[j] = state[j]) /\ state'[d] = "waiting"
      BY <2>2, <2>5 DEF Add, TypeOK, GraphTypeOK
    <3>2. \A j \in Keys : Unwanted(j)' => Unwanted(j)
      BY <1>2, <2>1, <2>2, <3>1, AskedMore DEF TypeOK
    <3>3. d \notin canceled /\ canceled' \subseteq Running'
      BY <1>2, <2>5, <3>1 DEF Running
    <3>4. <<Preparing(d), more(d)>> = <<Preparing(d)>> \o F /\ <<Preparing(d)>> \in Seq(Frame)
      BY <2>2, PreparingType
    <3> HIDE DEF F
    <3>5. stack' = <<Preparing(d)>> \o (F \o Rest)
      BY <1>1, <2>4, <2>5, <3>4, FramesOfStack, ConcatAssociative DEF Proceed
    <3>6. Covered(F) /\ StillPresent(F)
      BY <1>3, <2>4, <3>1, <3>2 DEF Covered, StillPresent, NoPrepares
    <3> QED  BY <1>1, <1>2, <2>2, <2>4, <3>1, <3>3, <3>5, <3>6, StepPrepares DEF NoPrepares
  <2>6. CASE Proceed(F) /\ UNCHANGED state
    <3> HIDE DEF F
    <3>1. \A j \in Keys : Unwanted(j)' => Unwanted(j)
      BY <1>2, <2>1, <2>2, <2>6, AskedMore DEF TypeOK
    <3>2. Covered(F) /\ StillPresent(F) /\ canceled' \subseteq Running'
      BY <1>2, <1>3, <2>4, <2>6, <3>1 DEF Covered, StillPresent, NoPrepares, Running
    <3> QED  BY <1>1, <1>2, <2>4, <2>6, <3>2, StepWanted DEF NoPrepares
  <2> QED  BY <2>1, <2>5, <2>6
<1> QED  BY <1>4, <1>5 DEF ReplaceNext

LEMMA WithdrawNextWanted ==
  ASSUME TypeOK, WantedInv, WithdrawNext
  PROVE  WantedInv'
<1>1. Top \in WithdrawFrame /\ Top.op = "withdraw" /\ stack # <<>>
  BY TopTypes DEF WithdrawNext, OnTop, TypeOK
<1>2. PICK d \in Top.todo :
        /\ requests' = [requests EXCEPT ![d][Top.source] = NoPriority]
        /\ Proceed(Dropping({d}) \o Withdrawing(Top.source, Top.todo \ {d}))
  BY DEF WithdrawNext
<1>3. d \in Keys /\ Top.source \in Sources /\ Top.todo \ {d} \in SUBSET Keys
  BY <1>1 DEF WithdrawFrame
<1> DEFINE D == Dropping({d})
           W == Withdrawing(Top.source, Top.todo \ {d})
           F == D \o W
<1>4. D \in Seq(Frame) /\ Frames(D) = {[op |-> "drop", todo |-> {d}]}
  BY <1>3, DroppingFrames
<1>5. W \in Seq(Frame) /\ \A f \in Frames(W) : f.op = "withdraw"
  BY <1>3, WithdrawingFrames
<1> HIDE DEF D, W
<1>6. F \in Seq(Frame) /\ Frames(F) = Frames(D) \cup Frames(W) /\ Proceed(F)
  BY <1>2, <1>4, <1>5, FramesConcat DEF D, W
<1> HIDE DEF F
<1>7. NoPrepares(F) /\ \E f \in Frames(F) : Disposes(f, d)
  <2> DEFINE f == [op |-> "drop", todo |-> {d}]
  <2>1. f.op = "drop" /\ d \in f.todo /\ Frames(D) = {f}
    BY <1>4
  <2> HIDE DEF f
  <2> QED  BY <1>5, <1>6, <2>1 DEF NoPrepares, Disposes
<1>8. UNCHANGED <<state, needs, members, adopted, canceled>>
  BY DEF WithdrawNext
<1>9. \A j \in Keys : j # d => Unwanted(j)' = Unwanted(j)
  BY <1>2, <1>3, <1>8 DEF Unwanted, Asked, WantedBy, Wants, TypeOK, GraphTypeOK
<1>10. Covered(F) /\ StillPresent(F) /\ canceled' \subseteq Running'
  BY <1>1, <1>7, <1>8, <1>9
     DEF Covered, Disposes, StillPresent, NoPrepares, WantedInv, Running
<1> QED  BY <1>1, <1>6, <1>7, <1>8, <1>10, StepWanted DEF NoPrepares

LEMMA WithoutKeeps ==
  ASSUME NEW f \in Frame, NEW k \in Keys
  PROVE  /\ Without(f, k).op = "prepare" => f.op = "prepare"
         /\ Without(f, k).op = "link" => Without(f, k) = f /\ f.op = "link" /\ f.key # k
         /\ \A j \in Keys : j # k /\ Disposes(f, j) => Disposes(Without(f, k), j)
<1> USE DEF Frame, PrepareFrame, LinkFrame, EndFrame, DropFrame, TellFrame, ReplaceFrame,
            WithdrawFrame
<1>1. CASE f.op = "link" /\ f.key = k
  BY <1>1 DEF Without, Disposes
<1>2. CASE f.op \in {"drop", "cancel", "tell", "withdraw"}
  <2>1. Without(f, k) = [f EXCEPT !.todo = @ \ {k}]
    BY <1>2 DEF Without
  <2>2. Without(f, k).op = f.op /\ Without(f, k).todo = f.todo \ {k}
    BY <1>2, <2>1
  <2> QED  BY <1>2, <2>2 DEF Disposes
<1>3. CASE ~(f.op = "link" /\ f.key = k) /\ f.op \notin {"drop", "cancel", "tell", "withdraw"}
  BY <1>3 DEF Without, Disposes
<1> QED  BY <1>1, <1>2, <1>3

LEMMA EndWanted ==
  ASSUME TypeOK, WantedInv, End
  PROVE  WantedInv'
<1>1. Top \in EndFrame /\ Top.op = "end" /\ stack # <<>> /\ Rest \in Seq(Frame) /\ ControlTypeOK
  BY TopTypes DEF End, OnTop, TypeOK
<1>2. PICK k \in Keys : k = Top.key
  BY <1>1 DEF EndFrame
<1>3. CASE state[k] = "absent"
  <2>1. Proceed(<<>>) /\ UNCHANGED graph
    BY <1>2, <1>3 DEF End
  <2>2. \A j \in Keys : Disposes(Top, j) => ~Unwanted(j)'
    BY <1>1, <1>2, <1>3, <2>1 DEF Disposes, Unwanted, graph
  <2> QED  BY <1>1, <2>1, <2>2, PopWanted DEF graph, WantedInv, Running
<1>4. CASE state[k] # "absent"
  <2> DEFINE D == Dropping(Wants(k))
             T == Telling(k, Top.err, WantedBy(k), {w \in Keys : k \in needs[w]},
                          {w \in Keys : k \in members[w]})
             C == Cut(Rest, k)
             F == D \o T
  <2>1. /\ state' = [state EXCEPT ![k] = "absent"]
        /\ requests' = [requests EXCEPT ![k] = [s \in Sources |-> NoPriority]]
        /\ canceled' = canceled \ {k}
        /\ stack' = F \o C
    BY <1>2, <1>4 DEF End, Cut
  <2>2. /\ needs' = [w \in Keys |-> [needs EXCEPT ![k] = {}][w] \ {k}]
        /\ members' = [w \in Keys |-> [members EXCEPT ![k] = {}][w] \ {k}]
        /\ adopted' = [w \in Keys |-> [adopted EXCEPT ![k] = {}][w] \ {k}]
    BY <1>2, <1>4 DEF End
  <2>3. Wants(k) \in SUBSET Keys /\ WantedBy(k) \in SUBSET Keys /\ Top.err \in Outcome
    BY <1>1 DEF EndFrame, Wants, WantedBy, TypeOK, GraphTypeOK
  <2>4. /\ D \in Seq(Frame) /\ NoPrepares(D)
        /\ \A j \in Wants(k) : \E f \in Frames(D) : Disposes(f, j)
    <3> DEFINE K == Wants(k)
    <3>1. D \in Seq(Frame) /\ Frames(D) = IF K = {} THEN {} ELSE {[op |-> "drop", todo |-> K]}
      BY <2>3, DroppingFrames
    <3> HIDE DEF K, D
    <3>2. CASE K = {}
      BY <3>1, <3>2 DEF NoPrepares, K
    <3>3. CASE K # {}
      <4>1. \A f \in Frames(D) : f.op = "drop" /\ f.todo = K
        BY <3>1, <3>3
      <4>2. Frames(D) # {}
        BY <3>1, <3>3
      <4> QED  BY <3>1, <4>1, <4>2 DEF NoPrepares, Disposes, K
    <3> QED  BY <3>2, <3>3
  <2>5. T \in Seq(Frame) /\ NoPrepares(T)
    <3> DEFINE H == {w \in Keys : k \in needs[w]}
               S == {w \in Keys : k \in members[w]}
    <3>1. H \in SUBSET Keys /\ S \in SUBSET Keys
      OBVIOUS
    <3> HIDE DEF H, S
    <3>2. \A e \in Outcome, W \in SUBSET Keys :
            /\ Telling(k, e, W, H, S) \in Seq(Frame)
            /\ \A f \in Frames(Telling(k, e, W, H, S)) : f.op = "tell"
      BY <3>1, TellingFrames
    <3>3. T = Telling(k, Top.err, WantedBy(k), H, S)
      BY DEF H, S
    <3> HIDE DEF T
    <3> QED  BY <2>3, <3>2, <3>3 DEF NoPrepares
  <2>6. C \in Seq(Frame) /\ Frames(C) = {Without(f, k) : f \in Frames(Rest)}
    BY <1>1, FramesCut
  <2> HIDE DEF D, T, C
  <2>7. F \in Seq(Frame) /\ Frames(F) = Frames(D) \cup Frames(T)
    BY <2>4, <2>5, FramesConcat
  <2> HIDE DEF F
  <2>8. F \o C \in Seq(Frame) /\ Frames(F \o C) = Frames(F) \cup Frames(C)
    BY <2>6, <2>7, FramesConcat
  <2>9. Frames(stack)' = Frames(F) \cup Frames(C)
    BY <2>1, <2>8 DEF Frames
  <2>10. Frames(stack) = {Top} \cup Frames(Rest) /\ Frames(Rest) \subseteq Frame
    BY <1>1, FramesOfStack
  <2>11. canceled' \subseteq Running'
    BY <2>1 DEF WantedInv, Running, TypeOK, GraphTypeOK
  <2>12. PrepareCurrent'
    <3>1. \A f \in Frames(Rest) : f.op # "prepare"
      BY <1>1 DEF WantedInv, PrepareCurrent
    <3>2. \A f \in Frames(F \o C) : f.op # "prepare"
      BY <2>4, <2>5, <2>6, <2>7, <2>8, <2>10, <3>1, WithoutKeeps DEF NoPrepares
    <3> QED  BY <2>1, <2>8, <3>2, NoPrepareOnTop
  <2>13. LinksPresent(stack)'
    <3>1. ASSUME NEW g \in Frames(stack)', g.op = "link"
          PROVE  state'[g.key] # "absent"
      <4>1. g \in Frames(C)
        BY <2>4, <2>5, <2>7, <2>9, <3>1 DEF NoPrepares
      <4>2. PICK f \in Frames(Rest) : g = Without(f, k)
        BY <2>6, <4>1
      <4>3. g = f /\ f.op = "link" /\ f.key # k /\ f.key \in Keys
        BY <2>10, <3>1, <4>2, WithoutKeeps, CallHasKey DEF Calls
      <4>4. state[f.key] # "absent"
        BY <2>10, <4>3 DEF WantedInv, LinksPresent
      <4> QED  BY <2>1, <4>3, <4>4 DEF TypeOK, GraphTypeOK
    <3> QED  BY <3>1 DEF LinksPresent
  <2>14. ASSUME NEW j \in Keys
         PROVE  Abandoned(j)'
    <3>1. CASE j = k
      BY <2>1, <3>1 DEF Abandoned, Unwanted, TypeOK, GraphTypeOK
    <3>2. CASE j # k
      <4>1. SUFFICES ASSUME Unwanted(j)'
                     PROVE  j \in canceled' \/ \E f \in Frames(stack)' : Disposes(f, j)
        BY DEF Abandoned, Disposes
      <4>2. state[j] # "absent" /\ ~Asked(j)
        BY <2>1, <3>2, <4>1 DEF Unwanted, Asked, TypeOK, GraphTypeOK
      <4>3. CASE j \in Wants(k)
        BY <2>4, <2>7, <2>9, <4>3
      <4>4. CASE j \notin Wants(k)
        <5>1. \A w \in Keys : j \in Wants(w) => j \in Wants(w)'
          <6>1. \A w \in Keys : w # k => Wants(w)' = Wants(w) \ {k}
            BY <2>2 DEF Wants, TypeOK, GraphTypeOK
          <6> QED  BY <3>2, <4>4, <6>1
        <5>2. WantedBy(j) = {}
          BY <4>1, <5>1 DEF Unwanted, WantedBy
        <5>3. j \in canceled \/ \E f \in Frames(stack) : Disposes(f, j)
          BY <4>2, <5>2 DEF WantedInv, Abandoned, Unwanted
        <5>4. CASE j \in canceled
          BY <2>1, <3>2, <5>4
        <5>5. ASSUME NEW f \in Frames(stack), Disposes(f, j)
              PROVE  \E g \in Frames(stack)' : Disposes(g, j)
          <6>1. f # Top
            BY <1>1, <1>2, <3>2, <5>5 DEF Disposes
          <6>2. f \in Frames(Rest) /\ f \in Frame
            BY <2>10, <5>5, <6>1
          <6>3. Disposes(Without(f, k), j)
            BY <3>2, <5>5, <6>2, WithoutKeeps
          <6> QED  BY <2>6, <2>9, <6>2, <6>3
        <5> QED  BY <5>3, <5>4, <5>5
      <4> QED  BY <4>3, <4>4
    <3> QED  BY <3>1, <3>2
  <2> QED  BY <2>11, <2>12, <2>13, <2>14 DEF WantedInv
<1> QED  BY <1>3, <1>4

\* The calls, Start and the return of a run: nothing was under way before.
LEMMA SettledStep ==
  ASSUME WantedInv, stack = <<>>, NEW F \in Seq(Frame), stack' = F, NoPrepares(F),
         canceled \subseteq canceled', canceled' \subseteq Running',
         \A k \in Keys : Unwanted(k)' => Unwanted(k)
  PROVE  WantedInv'
<1>1. PrepareCurrent'
  BY NoPrepareOnTop DEF NoPrepares
<1>2. LinksPresent(stack)' /\ \A k \in Keys : Abandoned(k)'
  BY FramesOfNone DEF WantedInv, LinksPresent, Abandoned, NoPrepares
<1> QED  BY <1>1, <1>2 DEF WantedInv

LEMMA SettledPrepare ==
  ASSUME WantedInv, stack = <<>>, NEW j \in Keys, stack' = <<Preparing(j)>>,
         state'[j] # "absent", j \notin canceled',
         canceled \subseteq canceled', canceled' \subseteq Running',
         \A k \in Keys : Unwanted(k)' => Unwanted(k)
  PROVE  WantedInv'
<1>1. /\ <<Preparing(j)>> \in Seq(Frame) /\ Frames(<<Preparing(j)>>) = {Preparing(j)}
      /\ <<Preparing(j)>> = <<Preparing(j)>> \o <<>>
  BY PreparingType, FramesOfOne, ConcatEmptySeq
<1>2. PrepareCurrent'
  BY <1>1, FramesOfNone, PrepareOnTop
<1>3. Frames(stack)' = {Preparing(j)}
  BY <1>1 DEF Frames
<1>4. LinksPresent(stack)'
  BY <1>3 DEF LinksPresent, Preparing
<1>5. \A k \in Keys : Abandoned(k)'
  BY FramesOfNone DEF WantedInv, Abandoned
<1> QED  BY <1>2, <1>4, <1>5 DEF WantedInv

\* Nothing changes but what is asked for or how it waits.
LEMMA UnwantedStays ==
  ASSUME UNCHANGED <<state, requests, needs, members, adopted>>
  PROVE  \A k \in Keys : Unwanted(k)' = Unwanted(k)
BY DEF Unwanted, Asked, WantedBy, Wants

LEMMA AddedState ==
  ASSUME GraphTypeOK, NEW k \in Keys, state[k] = "absent", Add(k), canceled \subseteq Running
  PROVE  /\ \A j \in Keys : j # k => state'[j] = state[j]
         /\ state'[k] = "waiting" /\ k \notin canceled /\ canceled \subseteq Running'
BY DEF Add, GraphTypeOK, Running

LEMMA AskingWanted ==
  ASSUME TypeOK, WantedInv, Dispatched, Asking
  PROVE  WantedInv'
<1>1. stack = <<>>
  BY DEF Asking, Request, Raise, Replace, Adopt, Call, Dispatched
<1>2. GraphTypeOK /\ canceled \subseteq Running
  BY DEF TypeOK, WantedInv
<1>3. ASSUME NEW s \in Sources, NEW p \in Prios, NEW k \in Keys, Request(s, p, k)
      PROVE  WantedInv'
  <2>1. Urge(k, s, p) /\ UNCHANGED <<needs, members, adopted, canceled>>
    BY <1>3 DEF Request
  <2>2. CASE state[k] = "absent"
    <3>1. Add(k) /\ stack' = <<Preparing(k)>>
      BY <1>3, <2>2 DEF Request
    <3>2. /\ \A j \in Keys : j # k => state'[j] = state[j]
          /\ state'[k] = "waiting" /\ k \notin canceled /\ canceled \subseteq Running'
      BY <1>2, <2>2, <3>1, AddedState
    <3>3. \A j \in Keys : Unwanted(j)' => Unwanted(j)
      BY <1>2, <2>1, <3>2, AskedMore
    <3> QED  BY <1>1, <2>1, <3>1, <3>2, <3>3, SettledPrepare
  <2>3. CASE state[k] # "absent"
    <3>1. UNCHANGED <<state, stack>>
      BY <1>3, <2>3 DEF Request
    <3>2. \A j \in Keys : Unwanted(j)' => Unwanted(j)
      BY <1>2, <2>1, <3>1, AskedMore
    <3> QED  BY <1>1, <1>2, <2>1, <3>1, <3>2, FramesOfNone, SettledStep DEF NoPrepares, Running
  <2> QED  BY <2>2, <2>3
<1>4. ASSUME NEW s \in Sources, NEW p \in Prios, NEW k \in Keys, Raise(s, p, k)
      PROVE  WantedInv'
  <2>1. /\ requests' = [requests EXCEPT ![k][s] = p]
        /\ UNCHANGED <<state, needs, members, adopted, canceled, stack>>
    BY <1>4 DEF Raise
  <2>2. \A j \in Keys : Unwanted(j)' => Unwanted(j)
    BY <1>2, <2>1, AskedMore
  <2> QED  BY <1>1, <1>2, <2>1, <2>2, FramesOfNone, SettledStep DEF NoPrepares, Running
<1>5. ASSUME NEW s \in Sources, NEW p \in Prios, NEW K \in Batches, Replace(s, p, K)
      PROVE  WantedInv'
  <2> DEFINE e == Replacing(s, p, K, K)
  <2>1. K \in SUBSET Keys
    BY SchedAssumption
  <2>2. e \in Frame /\ e.op = "replace"
    BY <2>1, ReplacingType DEF Replacing
  <2>3. stack' = <<e>> /\ UNCHANGED <<state, requests, needs, members, adopted, canceled>>
    BY <1>5 DEF Replace, graph
  <2> HIDE DEF e
  <2>4. <<e>> \in Seq(Frame) /\ NoPrepares(<<e>>)
    BY <2>2, FramesOfOne DEF NoPrepares
  <2> QED  BY <1>1, <1>2, <2>3, <2>4, UnwantedStays, SettledStep DEF Running
<1>6. ASSUME NEW w \in Keys, NEW k \in Keys, Adopt(w, k)
      PROVE  WantedInv'
  <2>1. /\ adopted' = [adopted EXCEPT ![w] = @ \cup {k}]
        /\ UNCHANGED <<requests, needs, members, canceled>>
    BY <1>6 DEF Adopt
  <2>2. WantedBy(k)' # {} /\ \A j \in Keys : WantedBy(j) \subseteq WantedBy(j)'
    <3>1. k \in Wants(w)' /\ \A j \in Keys : Wants(j) \subseteq Wants(j)'
      BY <1>2, <2>1 DEF Wants, GraphTypeOK
    <3> QED  BY <3>1 DEF WantedBy
  <2>3. CASE state[k] = "absent"
    <3>1. Add(k) /\ stack' = <<Preparing(k)>>
      BY <1>6, <2>3 DEF Adopt
    <3>2. /\ \A j \in Keys : j # k => state'[j] = state[j]
          /\ state'[k] = "waiting" /\ k \notin canceled /\ canceled \subseteq Running'
      BY <1>2, <2>3, <3>1, AddedState
    <3>3. \A j \in Keys : Unwanted(j)' => Unwanted(j)
      BY <2>1, <2>2, <3>2 DEF Unwanted, Asked
    <3> QED  BY <1>1, <2>1, <3>1, <3>2, <3>3, SettledPrepare
  <2>4. CASE state[k] # "absent"
    <3>1. UNCHANGED <<state, stack>>
      BY <1>6, <2>4 DEF Adopt
    <3>2. \A j \in Keys : Unwanted(j)' => Unwanted(j)
      BY <2>1, <2>2, <3>1 DEF Unwanted, Asked
    <3> QED  BY <1>1, <1>2, <2>1, <3>1, <3>2, FramesOfNone, SettledStep DEF NoPrepares, Running
  <2> QED  BY <2>3, <2>4
<1> QED  BY <1>3, <1>4, <1>5, <1>6 DEF Asking

LEMMA StoppingWanted ==
  ASSUME TypeOK, WantedInv, Dispatched, Stopping
  PROVE  WantedInv'
<1>1. stack = <<>>
  BY DEF Stopping, Withdraw, Cancel, CancelWhere, SetGate, Close, Call, Dispatched
<1>2. canceled \subseteq Running
  BY DEF WantedInv
<1>3. UNCHANGED <<state, requests, needs, members, adopted>>
  BY DEF Stopping, Withdraw, Cancel, CancelWhere, SetGate, Close, graph
<1>4. ASSUME NEW F \in Seq(Frame), stack' = F, NoPrepares(F), UNCHANGED canceled
      PROVE  WantedInv'
  BY <1>1, <1>2, <1>3, <1>4, UnwantedStays, SettledStep DEF Running
<1>5. ASSUME NEW s \in Sources, NEW K \in Batches, Withdraw(s, K)
      PROVE  WantedInv'
  <2>1. K \in SUBSET Keys
    BY SchedAssumption
  <2> QED  BY <1>4, <1>5, <2>1, WithdrawingFrames DEF Withdraw, graph, NoPrepares
<1>6. ASSUME NEW k \in Keys, Cancel(k)
      PROVE  WantedInv'
  <2>1. CASE state[k] = "running"
    <3>1. canceled' = canceled \cup {k} /\ stack' = <<>>
      BY <1>6, <2>1 DEF Cancel, CancelNode
    <3>2. canceled' \subseteq Running'
      BY <1>2, <1>3, <2>1, <3>1 DEF Running
    <3> QED  BY <1>1, <1>3, <3>1, <3>2, UnwantedStays, FramesOfNone, SettledStep DEF NoPrepares
  <2>2. CASE state[k] # "running"
    <3> DEFINE e == Ending(k, "canceled")
    <3>1. stack' = <<e>> \o <<>> /\ UNCHANGED canceled
      BY <1>6, <2>2 DEF Cancel, CancelNode
    <3>2. e \in Frame /\ e.op = "end"
      BY EndingType DEF Outcome, Ending
    <3> HIDE DEF e
    <3>3. <<e>> \in Seq(Frame) /\ NoPrepares(<<e>>) /\ <<e>> \o <<>> = <<e>>
      BY <3>2, FramesOfOne, ConcatEmptySeq DEF NoPrepares
    <3> QED  BY <1>4, <3>1, <3>3
  <2> QED  BY <2>1, <2>2
<1>7. ASSUME NEW K \in Batches, CancelWhere(K)
      PROVE  WantedInv'
  <2>1. K \in SUBSET Keys
    BY SchedAssumption
  <2> QED  BY <1>4, <1>7, <2>1, CancelingFrames DEF CancelWhere, NoPrepares
<1>8. CASE (\E g \in Gates : SetGate(g)) \/ Close
  <2>1. UNCHANGED <<stack, canceled>>
    BY <1>8 DEF SetGate, Close, graph
  <2> QED  BY <1>1, <1>4, <2>1, FramesOfNone DEF NoPrepares
<1> QED  BY <1>5, <1>6, <1>7, <1>8 DEF Stopping

LEMMA RunsWanted ==
  ASSUME TypeOK, WantedInv, Dispatched,
         \/ \E k \in Keys : Start(k)
         \/ \E k \in Keys, r \in Results : Finish(k, r)
  PROVE  WantedInv'
<1>1. stack = <<>>
  BY DEF Start, Finish, Dispatched
<1>2. canceled \subseteq Running
  BY DEF WantedInv
<1>3. ASSUME NEW k \in Keys, Start(k)
      PROVE  WantedInv'
  <2>1. state[k] = "ready"
    BY <1>3 DEF Start, Candidates, Foreign, Admissible
  <2>2. /\ state' = [state EXCEPT ![k] = "running"]
        /\ UNCHANGED <<requests, needs, members, adopted, canceled, stack>>
    BY <1>3 DEF Start
  <2>3. /\ \A j \in Keys : (state'[j] = "absent") = (state[j] = "absent")
        /\ canceled' \subseteq Running'
    BY <1>2, <2>1, <2>2 DEF Running, TypeOK, GraphTypeOK
  <2>4. \A j \in Keys : Unwanted(j)' => Unwanted(j)
    BY <2>2, <2>3 DEF Unwanted, Asked, WantedBy, Wants
  <2> QED  BY <1>1, <2>2, <2>3, <2>4, FramesOfNone, SettledStep DEF NoPrepares
<1>4. ASSUME NEW k \in Keys, NEW r \in Results, Finish(k, r)
      PROVE  WantedInv'
  <2>1. state[k] = "running" /\ UNCHANGED <<state, requests, needs, members, adopted, canceled>>
    BY <1>4 DEF Finish
  <2>2. canceled' \subseteq Running' /\ \A j \in Keys : Unwanted(j)' => Unwanted(j)
    BY <1>2, <2>1, UnwantedStays DEF Running
  <2>3. CASE stack' = <<Preparing(k)>> /\ k \notin canceled
    BY <1>1, <2>1, <2>2, <2>3, SettledPrepare
  <2>4. ASSUME NEW e \in Outcome, stack' = <<Ending(k, e)>>
        PROVE  WantedInv'
    <3> DEFINE f == Ending(k, e)
    <3>1. f \in Frame /\ f.op = "end" /\ stack' = <<f>>
      BY <2>4, EndingType DEF Ending
    <3> HIDE DEF f
    <3>2. <<f>> \in Seq(Frame) /\ NoPrepares(<<f>>)
      BY <3>1, FramesOfOne DEF NoPrepares
    <3> QED  BY <1>1, <2>1, <2>2, <3>1, <3>2, SettledStep
  <2> QED  BY <1>4, <2>3, <2>4 DEF Finish, Outcome
<1> QED  BY <1>3, <1>4

LEMMA WantedInductive ==
  ASSUME TypeOK, QuietStack, Dispatched, WantedInv, [Next]_vars
  PROVE  WantedInv'
<1>1. CASE Asking \/ Stopping
  BY <1>1, AskingWanted, StoppingWanted
<1>2. CASE Cascade
  BY <1>2, PrepareWanted, LinkWanted, LinkedWanted, EndWanted, DropWanted, CancelPickedWanted,
     TellWanted, ReplaceNextWanted, WithdrawNextWanted, ReturnWanted DEF Cascade
<1>3. CASE (\E k \in Keys : Start(k)) \/ (\E k \in Keys, r \in Results : Finish(k, r))
  BY <1>3, RunsWanted
<1>4. CASE Unlock \/ DwellEnds \/ TimerFires \/ UNCHANGED vars
  <2>1. UNCHANGED <<graph, stack>>
    BY <1>4 DEF Unlock, DwellEnds, TimerFires, vars
  <2> QED  BY <2>1, UnwantedStays
           DEF graph, WantedInv, PrepareCurrent, LinksPresent, Abandoned, Frames, Running,
               OnTop, Top, Rest, Disposes
<1> QED  BY <1>1, <1>2, <1>3, <1>4 DEF Next

LEMMA WantedInit ==
  ASSUME Init
  PROVE  WantedInv
BY FramesOfNone DEF Init, WantedInv, PrepareCurrent, LinksPresent, Abandoned, Unwanted, OnTop

\* No task stays that nothing wants, unless it runs and has been asked to stop:
\* whatever is withdrawn, ends or is dropped in whatever order, what only that
\* wanted goes with it (end, dropIfUnwanted, cancelNode).
THEOREM NothingUnwantedStays == Spec => []NothingUnwanted
<1>1. Init => WantedInv
  BY WantedInit
<1>2. TypeOK /\ QuietStack /\ Dispatched /\ WantedInv /\ [Next]_vars => WantedInv'
  BY WantedInductive
<1>3. WantedInv => NothingUnwanted
  BY FramesOfNone DEF WantedInv, NothingUnwanted, Settled, Abandoned, Live
<1>4. Init => QuietStack
  BY DEF Init, QuietStack
<1>5. TypeOK /\ QuietStack /\ [Next]_vars => QuietStack'
  BY QuietInductive
<1> QED  BY <1>1, <1>2, <1>3, <1>4, <1>5, TypeCorrect, DispatchedAlways, PTL DEF Spec

-----------------------------------------------------------------------------
(* The stack as its frames, each with the frames above it.                     *)

Above(s, i) == {s[j] : j \in 1 .. i - 1}
Levels(s) == {<<s[i], Above(s, i)>> : i \in 1 .. Len(s)}

LEMMA LevelsInFrames ==
  ASSUME NEW s \in Seq(Frame), NEW p \in Levels(s)
  PROVE  p[1] \in Frames(s) /\ p[2] \subseteq Frames(s)
<1>1. PICK i \in 1 .. Len(s) : p = <<s[i], Above(s, i)>>
  BY DEF Levels
<1>2. Len(s) \in Nat
  BY LenProperties
<1>3. \A j \in 1 .. i - 1 : j \in 1 .. Len(s)
  BY <1>2
<1> QED  BY <1>1, <1>3 DEF Frames, Above

LEMMA LevelsOfNone == Levels(<<>>) = {}
<1>1. Len(<<>>) = 0 /\ 1 .. 0 = {}
  OBVIOUS
<1> QED  BY <1>1 DEF Levels

LEMMA LevelsOfOne ==
  ASSUME NEW e \in Frame
  PROVE  Levels(<<e>>) = {<<e, {}>>}
<1>1. Len(<<e>>) = 1 /\ <<e>>[1] = e /\ 1 .. 1 = {1} /\ 1 .. 0 = {} /\ 1 - 1 = 0
  OBVIOUS
<1>2. Above(<<e>>, 1) = {}
  BY <1>1 DEF Above
<1> QED  BY <1>1, <1>2 DEF Levels

LEMMA LevelsOfTwo ==
  ASSUME NEW e \in Frame, NEW g \in Frame
  PROVE  Levels(<<e, g>>) = {<<e, {}>>, <<g, {e}>>}
<1> DEFINE s == <<e, g>>
<1>1. Len(s) = 2 /\ s[1] = e /\ s[2] = g
  OBVIOUS
<1>2. 1 .. 2 = {1, 2} /\ 1 .. 0 = {} /\ 1 .. 1 = {1} /\ 1 - 1 = 0 /\ 2 - 1 = 1
  OBVIOUS
<1> HIDE DEF s
<1>3. Above(s, 1) = {} /\ Above(s, 2) = {e}
  BY <1>1, <1>2 DEF Above
<1>4. Levels(s) = {<<e, {}>>, <<g, {e}>>}
  BY <1>1, <1>2, <1>3 DEF Levels
<1> QED  BY <1>4 DEF s

\* The forms in which the levels of one or two frames are used.
LEMMA OneLevel ==
  ASSUME NEW e \in Frame
  PROVE  /\ <<e>> \in Seq(Frame) /\ Frames(<<e>>) = {e}
         /\ \A p \in Levels(<<e>>) : p[1] = e /\ p[2] = {}
BY FramesOfOne, LevelsOfOne

LEMMA TwoLevels ==
  ASSUME NEW e \in Frame, NEW g \in Frame
  PROVE  /\ <<e, g>> \in Seq(Frame) /\ Frames(<<e, g>>) = {e, g}
         /\ \A p \in Levels(<<e, g>>) : (p[1] = e /\ p[2] = {}) \/ (p[1] = g /\ p[2] = {e})
<1>1. ASSUME NEW p \in {<<e, {}>>, <<g, {e}>>}
      PROVE  (p[1] = e /\ p[2] = {}) \/ (p[1] = g /\ p[2] = {e})
  BY <1>1
<1> QED  BY <1>1, FramesOfTwo, LevelsOfTwo

LEMMA LevelsConcat ==
  ASSUME NEW F \in Seq(Frame), NEW G \in Seq(Frame)
  PROVE  Levels(F \o G) = Levels(F) \cup {<<p[1], p[2] \cup Frames(F)>> : p \in Levels(G)}
<1> DEFINE s == F \o G
           Lift == {<<p[1], p[2] \cup Frames(F)>> : p \in Levels(G)}
<1>1. /\ s \in Seq(Frame)
      /\ Len(s) = Len(F) + Len(G)
      /\ \A i \in 1 .. Len(F) + Len(G) : s[i] = IF i <= Len(F) THEN F[i] ELSE G[i - Len(F)]
  BY ConcatProperties
<1>2. Len(F) \in Nat /\ Len(G) \in Nat
  BY LenProperties
<1> HIDE DEF s
<1>3. ASSUME NEW i \in 1 .. Len(F)
      PROVE  i \in 1 .. Len(s) /\ s[i] = F[i] /\ Above(s, i) = Above(F, i)
  <2>1. \A j \in 1 .. i : s[j] = F[j]
    BY <1>1, <1>2
  <2> QED  BY <1>1, <1>2, <2>1 DEF Above
<1>4. ASSUME NEW i \in 1 .. Len(G)
      PROVE  /\ i + Len(F) \in 1 .. Len(s) /\ s[i + Len(F)] = G[i]
             /\ Above(s, i + Len(F)) = Above(G, i) \cup Frames(F)
  <2>0. \A j \in 1 .. Len(G) : j + Len(F) \in 1 .. Len(s) /\ s[j + Len(F)] = G[j]
    <3> TAKE j \in 1 .. Len(G)
    <3>1. j + Len(F) \in 1 .. Len(F) + Len(G) /\ ~(j + Len(F) <= Len(F)) /\ (j + Len(F)) - Len(F) = j
      BY <1>2
    <3> QED  BY <1>1, <3>1
  <2>1. i + Len(F) \in 1 .. Len(s) /\ s[i + Len(F)] = G[i]
    BY <2>0
  <2>2. ASSUME NEW j \in 1 .. i + Len(F) - 1
        PROVE  s[j] \in Above(G, i) \cup Frames(F)
    <3>1. CASE j <= Len(F)
      <4>1. j \in 1 .. Len(F) /\ s[j] = F[j]
        BY <1>1, <1>2, <3>1
      <4> QED  BY <4>1 DEF Frames
    <3>2. CASE ~(j <= Len(F))
      <4>1. j - Len(F) \in 1 .. i - 1 /\ s[j] = G[j - Len(F)]
        BY <1>1, <1>2, <3>2
      <4> QED  BY <4>1 DEF Above
    <3> QED  BY <3>1, <3>2
  <2>3. ASSUME NEW j \in 1 .. Len(F)
        PROVE  F[j] \in Above(s, i + Len(F))
    <3>1. j \in 1 .. i + Len(F) - 1 /\ s[j] = F[j]
      BY <1>1, <1>2
    <3> QED  BY <3>1 DEF Above
  <2>4. ASSUME NEW j \in 1 .. i - 1
        PROVE  G[j] \in Above(s, i + Len(F))
    <3>1. j \in 1 .. Len(G) /\ j + Len(F) \in 1 .. i + Len(F) - 1
      BY <1>2
    <3>2. s[j + Len(F)] = G[j]
      BY <2>0, <3>1
    <3> QED  BY <3>1, <3>2 DEF Above
  <2>5. Above(s, i + Len(F)) \subseteq Above(G, i) \cup Frames(F)
    BY <2>2 DEF Above
  <2>6. Above(G, i) \cup Frames(F) \subseteq Above(s, i + Len(F))
    BY <2>3, <2>4 DEF Above, Frames
  <2> QED  BY <2>1, <2>5, <2>6
<1>5. ASSUME NEW i \in 1 .. Len(G)
      PROVE  <<G[i], Above(G, i) \cup Frames(F)>> \in Lift
  <2> DEFINE p == <<G[i], Above(G, i)>>
  <2>1. p \in Levels(G) /\ p[1] = G[i] /\ p[2] = Above(G, i)
    BY DEF Levels
  <2> HIDE DEF p
  <2> QED  BY <2>1
<1>6. ASSUME NEW q \in Lift
      PROVE  q \in Levels(s)
  <2>1. PICK p \in Levels(G) : q = <<p[1], p[2] \cup Frames(F)>>
    OBVIOUS
  <2>2. PICK i \in 1 .. Len(G) : p = <<G[i], Above(G, i)>>
    BY DEF Levels
  <2>3. q = <<s[i + Len(F)], Above(s, i + Len(F))>>
    BY <1>4, <2>1, <2>2
  <2> QED  BY <1>4, <2>3 DEF Levels
<1> HIDE DEF Lift
<1>7. Levels(F) \subseteq Levels(s)
  BY <1>3 DEF Levels
<1>8. ASSUME NEW i \in 1 .. Len(s)
      PROVE  <<s[i], Above(s, i)>> \in Levels(F) \cup Lift
  <2>1. CASE i <= Len(F)
    <3>1. i \in 1 .. Len(F)
      BY <1>1, <1>2, <2>1
    <3> QED  BY <1>3, <3>1 DEF Levels
  <2>2. CASE ~(i <= Len(F))
    <3>1. i - Len(F) \in 1 .. Len(G) /\ (i - Len(F)) + Len(F) = i
      BY <1>1, <1>2, <2>2
    <3>2. s[i] = G[i - Len(F)] /\ Above(s, i) = Above(G, i - Len(F)) \cup Frames(F)
      BY <1>4, <3>1
    <3> QED  BY <1>5, <3>1, <3>2
  <2> QED  BY <2>1, <2>2
<1>9. Levels(s) \subseteq Levels(F) \cup Lift
  BY <1>8 DEF Levels
<1>10. Levels(s) = Levels(F) \cup Lift
  BY <1>6, <1>7, <1>9
<1> QED  BY <1>10 DEF s, Lift

LEMMA LevelsOfStack ==
  ASSUME ControlTypeOK, stack # <<>>
  PROVE  Levels(stack) = {<<Top, {}>>} \cup {<<p[1], p[2] \cup {Top}>> : p \in Levels(Rest)}
<1> DEFINE E == <<Top>>
<1>1. Top \in Frame /\ Rest \in Seq(Frame)
  BY TopTypes
<1>2. E \in Seq(Frame) /\ Frames(E) = {Top} /\ Levels(E) = {<<Top, {}>>}
  BY <1>1, FramesOfOne, LevelsOfOne
<1>3. stack = E \o Rest
  BY DEF ControlTypeOK, Top, Rest
<1> DEFINE Lift(X) == {<<p[1], p[2] \cup X>> : p \in Levels(Rest)}
<1> HIDE DEF E
<1>4. Levels(E \o Rest) = Levels(E) \cup Lift(Frames(E))
  BY <1>1, <1>2, LevelsConcat
<1>5. Lift(Frames(E)) = Lift({Top})
  BY <1>2
<1>6. Levels(stack) = Levels(E) \cup Lift({Top})
  BY <1>3, <1>4, <1>5
<1> QED  BY <1>2, <1>6

LEMMA LevelsCut ==
  ASSUME NEW s \in Seq(Frame), NEW k \in Keys, NEW q \in Levels(Cut(s, k))
  PROVE  \E p \in Levels(s) : q = <<Without(p[1], k), {Without(a, k) : a \in p[2]}>>
<1>1. Len(s) \in Nat /\ DOMAIN s = 1 .. Len(s)
  BY LenProperties
<1>2. \A i \in 1 .. Len(s) : Without(s[i], k) \in Frame
  BY WithoutType, ElementOfSeq
<1>3. Len(Cut(s, k)) = Len(s)
  BY <1>1, <1>2 DEF Cut
<1>4. \A i \in 1 .. Len(s) : Cut(s, k)[i] = Without(s[i], k)
  BY <1>1 DEF Cut
<1>5. PICK i \in 1 .. Len(s) : q = <<Cut(s, k)[i], Above(Cut(s, k), i)>>
  BY <1>3 DEF Levels
<1>6. \A j \in 1 .. i - 1 : j \in 1 .. Len(s)
  BY <1>1
<1>7. Above(Cut(s, k), i) = {Without(a, k) : a \in Above(s, i)}
  BY <1>4, <1>6 DEF Above
<1> DEFINE p == <<s[i], Above(s, i)>>
<1>8. p \in Levels(s) /\ p[1] = s[i] /\ p[2] = Above(s, i)
  BY DEF Levels
<1> HIDE DEF p
<1>9. q = <<Without(p[1], k), {Without(a, k) : a \in p[2]}>>
  BY <1>4, <1>5, <1>7, <1>8
<1> QED  BY <1>8, <1>9
-----------------------------------------------------------------------------
(* A task waits exactly if something it needs has not ended.                   *)

\* f will tell k that d has ended, or end k.
Answers(f, k, d) ==
  \/ f.op = "tell" /\ f.key = d /\ k \in f.todo \cap (f.hard \cup f.soft)
  \/ f.op = "end" /\ f.key = k

\* f will look whether k is ready, or end it.
Attends(f, k) ==
  \/ f.op \in {"prepare", "link", "end"} /\ f.key = k
  \/ f.op = "tell" /\ k \in f.todo \cap (f.hard \cup f.soft)

\* The loop in prepare need not link k to d: d ended for k, or is not to be had.
Past(st, en, k, d) == d \in en[k] \cup {k} \/ (st[d] = "absent" /\ d \notin Creatable)

\* A prepare f below the calls in A: once its task is ready, through a prepare
\* nested in it, it links no need more; while it waits, each need f is done with
\* is past, outstanding, or about to be told of.
Sound(st, en, nd, mb, f, A) ==
  f.op = "link" =>
    /\ st[f.key] \in {"waiting", "ready"}
    /\ f.todo \subseteq f.hard \cup f.soft
    /\ st[f.key] = "ready" => \A d \in f.todo : Past(st, en, f.key, d)
    /\ st[f.key] = "waiting" => \A d \in (f.hard \cup f.soft) \ f.todo :
         \/ Past(st, en, f.key, d)
         \/ d \in nd[f.key] \cup mb[f.key]
         \/ \E a \in A : Answers(a, f.key, d)

NeedsWait == \A k \in Keys : Outstanding(k) # {} => state[k] = "waiting"
Idle(k) == state[k] = "waiting" /\ Outstanding(k) = {}
NoReplaces(A) == \A a \in A : a.op # "replace"
SameAnswer(f, g) ==
  f.op = "link" /\ g.op = "link" /\ f.key = g.key => f.hard = g.hard /\ f.soft = g.soft

WaitsInv ==
  /\ NeedsWait
  /\ \A k \in Keys : Idle(k) => \E f \in Frames(stack) : Attends(f, k)
  /\ \A f \in Frames(stack) : f.op = "prepare" => state[f.key] \in {"waiting", "running"}
  /\ \A p \in Levels(stack) : /\ Sound(state, ended, needs, members, p[1], p[2])
                              /\ NoReplaces(p[2])
  /\ \A f, g \in Frames(stack) : SameAnswer(f, g)

\* A step that puts the frames F in place of the one on top.
LEMMA StepWaits ==
  ASSUME TypeOK, WantedInv, WaitsInv, stack # <<>>, NEW F \in Seq(Frame), Proceed(F),
         NeedsWait',
         \A k \in Keys : Idle(k)' =>
           \/ Idle(k) /\ ~Attends(Top, k)
           \/ \E f \in Frames(F) \cup Frames(Rest) : Attends(f, k),
         \A f \in Frames(F) : f.op = "prepare" => state'[f.key] \in {"waiting", "running"},
         \A p \in Levels(F) : /\ Sound(state', ended', needs', members', p[1], p[2])
                              /\ NoReplaces(p[2]),
         Top.op # "replace" => NoReplaces(Frames(F)),
         \A f \in Frames(Rest) : \A A : Sound(state, ended, needs, members, f, A \cup {Top}) =>
           Sound(state', ended', needs', members', f, A \cup Frames(F)),
         \A f \in Frames(F), g \in Frames(F) \cup Frames(Rest) : SameAnswer(f, g)
  PROVE  WaitsInv'
<1>1. ControlTypeOK
  BY DEF TypeOK
<1>2. Rest \in Seq(Frame) /\ Frames(stack) = {Top} \cup Frames(Rest)
  BY <1>1, FramesOfStack
<1>3. Frames(stack)' = Frames(F) \cup Frames(Rest)
  BY <1>1, PushFrames
<1>4. Levels(F \o Rest) = Levels(F) \cup {<<p[1], p[2] \cup Frames(F)>> : p \in Levels(Rest)}
  BY <1>2, LevelsConcat
<1>5. Levels(stack)' = Levels(F) \cup {<<p[1], p[2] \cup Frames(F)>> : p \in Levels(Rest)}
  <2> DEFINE G == F \o Rest
  <2>1. stack' = G
    BY DEF Proceed
  <2> HIDE DEF G
  <2>2. Levels(stack)' = Levels(G)
    BY <2>1 DEF Levels, Above
  <2> QED  BY <1>4, <2>2 DEF G
<1>6. \A k \in Keys : Idle(k)' => \E f \in Frames(stack)' : Attends(f, k)
  BY <1>2, <1>3 DEF WaitsInv
<1>7. \A f \in Frames(stack)' : f.op = "prepare" => state'[f.key] \in {"waiting", "running"}
  BY <1>3 DEF WantedInv, PrepareCurrent
<1>8. ASSUME NEW q \in Levels(stack)'
      PROVE  Sound(state', ended', needs', members', q[1], q[2]) /\ NoReplaces(q[2])
  <2>1. CASE q \in Levels(F)
    BY <2>1
  <2>2. CASE q \notin Levels(F)
    <3>1. PICK p \in Levels(Rest) : q = <<p[1], p[2] \cup Frames(F)>>
      BY <1>5, <2>2
    <3> DEFINE o == <<p[1], p[2] \cup {Top}>>
    <3>2. o \in Levels(stack)
      BY <1>1, LevelsOfStack
    <3>3. o[1] = p[1] /\ o[2] = p[2] \cup {Top}
      OBVIOUS
    <3> HIDE DEF o
    <3>4. Sound(state, ended, needs, members, p[1], p[2] \cup {Top}) /\ NoReplaces(p[2] \cup {Top})
      BY <3>2, <3>3 DEF WaitsInv
    <3>5. p[1] \in Frames(Rest)
      BY <1>2, LevelsInFrames
    <3>6. Sound(state', ended', needs', members', p[1], p[2] \cup Frames(F))
      BY <3>4, <3>5
    <3>7. NoReplaces(p[2] \cup Frames(F))
      BY <3>4 DEF NoReplaces
    <3>8. q[1] = p[1] /\ q[2] = p[2] \cup Frames(F)
      BY <3>1
    <3> QED  BY <3>6, <3>7, <3>8
  <2> QED  BY <2>1, <2>2
<1>9. \A f, g \in Frames(stack)' : SameAnswer(f, g)
  BY <1>2, <1>3 DEF WaitsInv, SameAnswer
<1> QED  BY <1>6, <1>7, <1>8, <1>9 DEF WaitsInv, Sound, Past, NoReplaces, SameAnswer, Attends, Answers

\* What a prepare further down relies on stays.
LEMMA SoundStays ==
  ASSUME TypeOK, NEW f \in Frame, NEW A, NEW B, NEW g,
         Sound(state, ended, needs, members, f, A \cup {g}),
         f.op = "link" =>
           /\ state'[f.key] = state[f.key]
           /\ ended[f.key] \subseteq ended'[f.key]
           /\ needs[f.key] \cup members[f.key] \subseteq needs'[f.key] \cup members'[f.key]
           /\ \A d \in Keys : state[f.key] = "waiting" /\ Answers(g, f.key, d) =>
                d \in ended'[f.key] \/ \E b \in B : Answers(b, f.key, d),
         \A d \in Keys : state[d] = "absent" /\ d \notin Creatable => state'[d] = "absent"
  PROVE  Sound(state', ended', needs', members', f, A \cup B)
<1>1. SUFFICES ASSUME f.op = "link"
               PROVE  Sound(state', ended', needs', members', f, A \cup B)
  BY DEF Sound
<1>2. f.key \in Keys /\ f.todo \subseteq Keys /\ f.hard \subseteq Keys /\ f.soft \subseteq Keys
  BY <1>1 DEF Frame, PrepareFrame, LinkFrame, EndFrame, DropFrame, TellFrame, ReplaceFrame,
              WithdrawFrame
<1>3. \A d \in Keys : Past(state, ended, f.key, d) => Past(state', ended', f.key, d)
  BY <1>1, <1>2 DEF Past
<1>4. \A d \in Keys : d \in ended'[f.key] => Past(state', ended', f.key, d)
  BY DEF Past
<1> QED  BY <1>1, <1>2, <1>3, <1>4 DEF Sound

\* No prepare awaits an answer from what is on top, or the answer is in F.
RestSound(F) ==
  \A f \in Frames(Rest) : \A A : Sound(state, ended, needs, members, f, A \cup {Top}) =>
    Sound(state', ended', needs', members', f, A \cup Frames(F))

LEMMA RestKept ==
  ASSUME TypeOK, stack # <<>>, NEW F,
         \A f \in Frames(Rest), d \in Keys :
           f.op = "link" /\ state[f.key] = "waiting" /\ Answers(Top, f.key, d) =>
             d \in ended'[f.key] \/ \E b \in Frames(F) : Answers(b, f.key, d),
         \A k \in Keys : /\ state[k] \in {"waiting", "ready"} => state'[k] = state[k]
                         /\ state[k] = "absent" /\ k \notin Creatable => state'[k] = "absent"
                         /\ ended[k] \subseteq ended'[k]
                         /\ Outstanding(k) \subseteq needs'[k] \cup members'[k]
  PROVE  RestSound(F)
<1>1. ASSUME NEW f \in Frames(Rest), NEW A, Sound(state, ended, needs, members, f, A \cup {Top})
      PROVE  Sound(state', ended', needs', members', f, A \cup Frames(F))
  <2>1. f \in Frame
    BY FramesOfStack DEF TypeOK
  <2>2. f.op = "link" => f.key \in Keys /\ state[f.key] \in {"waiting", "ready"}
    BY <1>1, <2>1, CallHasKey DEF Calls, Sound
  <2>3. f.op = "link" =>
           /\ state'[f.key] = state[f.key]
           /\ ended[f.key] \subseteq ended'[f.key]
           /\ needs[f.key] \cup members[f.key] \subseteq needs'[f.key] \cup members'[f.key]
    BY <2>2 DEF Outstanding
  <2>4. f.op = "link" =>
           \A d \in Keys : state[f.key] = "waiting" /\ Answers(Top, f.key, d) =>
                d \in ended'[f.key] \/ \E b \in Frames(F) : Answers(b, f.key, d)
    BY <1>1
  <2> QED  BY <1>1, <2>1, <2>3, <2>4, SoundStays
<1> QED  BY <1>1 DEF RestSound

\* Steps of the loops that only drop, cancel or withdraw, and returns.
LEMMA LoopWaits ==
  ASSUME TypeOK, WantedInv, WaitsInv, stack # <<>>, NEW F \in Seq(Frame), Proceed(F),
         UNCHANGED <<state, needs, members, ended>>,
         \A f \in Frames(F) : f.op \notin {"prepare", "link", "replace"},
         \A k \in Keys : Attends(Top, k) => state[k] = "absent"
  PROVE  WaitsInv'
<1>1. NeedsWait'
  BY DEF WaitsInv, NeedsWait, Outstanding
<1>2. \A k \in Keys : Idle(k)' => Idle(k) /\ ~Attends(Top, k)
  BY DEF Idle, Outstanding
<1>3. \A p \in Levels(F) : Sound(state', ended', needs', members', p[1], p[2]) /\ NoReplaces(p[2])
  BY LevelsInFrames DEF Sound, NoReplaces
<1>4. RestSound(F)
  <2>1. \A f \in Frames(Rest) : f.op = "link" => f.key \in Keys
    BY FramesOfStack, CallHasKey DEF TypeOK, Calls
  <2>2. \A k \in Keys : \A d : state[k] = "waiting" => ~Answers(Top, k, d)
    BY DEF Attends, Answers
  <2> QED  BY <2>1, <2>2, RestKept DEF Outstanding
<1> QED  BY <1>1, <1>2, <1>3, <1>4, StepWaits DEF RestSound, NoReplaces, SameAnswer

LEMMA LoopsWait ==
  ASSUME TypeOK, WantedInv, WaitsInv, Drop \/ CancelPicked \/ WithdrawNext \/ Return
  PROVE  WaitsInv'
<1>1. UNCHANGED <<state, needs, members, ended>> /\ stack # <<>> /\ ControlTypeOK
  BY DEF Drop, CancelPicked, WithdrawNext, Return, OnTop, graph, TypeOK
<1>2. ASSUME NEW d \in Keys, NEW F \in Seq(Frame), CancelNode(d, F \o Rest),
             \A f \in Frames(F) : f.op \in {"drop", "cancel"}, Top.op \in {"drop", "cancel"}
      PROVE  WaitsInv'
  <2>1. \A k \in Keys : ~Attends(Top, k)
    BY <1>2 DEF Attends
  <2>2. CASE state[d] = "running"
    <3>1. Proceed(F)
      BY <1>2, <2>2 DEF CancelNode, Proceed
    <3> QED  BY <1>1, <1>2, <2>1, <3>1, LoopWaits
  <2>3. CASE state[d] # "running"
    <3> DEFINE e == Ending(d, "canceled")
               G == <<e>> \o F
    <3>1. e \in Frame /\ e.op = "end"
      BY EndingType DEF Outcome, Ending
    <3>2. stack' = <<e>> \o (F \o Rest)
      BY <1>2, <2>3 DEF CancelNode
    <3> HIDE DEF e
    <3>3. G \in Seq(Frame) /\ Frames(G) = {e} \cup Frames(F) /\ Proceed(G)
      BY <1>1, <3>1, <3>2, PushOver
    <3> HIDE DEF G
    <3> QED  BY <1>1, <1>2, <2>1, <3>1, <3>3, LoopWaits
  <2> QED  BY <2>2, <2>3
<1>3. CASE Drop
  <2>1. Top \in DropFrame /\ Top.op = "drop"
    BY <1>1, <1>3, TopTypes DEF Drop, OnTop
  <2>2. PICK d \in Top.todo :
          \/ CancelNode(d, Dropping(Top.todo \ {d}) \o Rest)
          \/ Proceed(Dropping(Top.todo \ {d}))
    BY <1>3 DEF Drop, Proceed
  <2> DEFINE F == Dropping(Top.todo \ {d})
  <2>3. d \in Keys /\ Top.todo \ {d} \in SUBSET Keys
    BY <2>1 DEF DropFrame
  <2>4. F \in Seq(Frame) /\ \A f \in Frames(F) : f.op = "drop"
    BY <2>3, DroppingFrames
  <2> HIDE DEF F
  <2>5. CASE CancelNode(d, F \o Rest)
    BY <1>2, <2>1, <2>3, <2>4, <2>5
  <2>6. CASE Proceed(F)
    BY <1>1, <2>1, <2>4, <2>6, LoopWaits DEF Attends
  <2> QED  BY <2>2, <2>5, <2>6 DEF F
<1>4. CASE CancelPicked
  <2>1. Top \in DropFrame /\ Top.op = "cancel"
    BY <1>1, <1>4, TopTypes DEF CancelPicked, OnTop
  <2>2. PICK d \in Top.todo : CancelNode(d, Canceling(Top.todo \ {d}) \o Rest)
    BY <1>4 DEF CancelPicked
  <2> DEFINE F == Canceling(Top.todo \ {d})
  <2>3. d \in Keys /\ Top.todo \ {d} \in SUBSET Keys
    BY <2>1 DEF DropFrame
  <2>4. F \in Seq(Frame) /\ \A f \in Frames(F) : f.op = "cancel"
    BY <2>3, CancelingFrames
  <2> HIDE DEF F
  <2> QED  BY <1>2, <2>1, <2>2, <2>3, <2>4 DEF F
<1>5. CASE WithdrawNext
  <2>1. Top \in WithdrawFrame /\ Top.op = "withdraw"
    BY <1>1, <1>5, TopTypes DEF WithdrawNext, OnTop
  <2>2. PICK d \in Top.todo : Proceed(Dropping({d}) \o Withdrawing(Top.source, Top.todo \ {d}))
    BY <1>5 DEF WithdrawNext
  <2>3. d \in Keys /\ Top.source \in Sources /\ Top.todo \ {d} \in SUBSET Keys
    BY <2>1 DEF WithdrawFrame
  <2> DEFINE D == Dropping({d})
             W == Withdrawing(Top.source, Top.todo \ {d})
  <2>4. D \in Seq(Frame) /\ \A f \in Frames(D) : f.op = "drop"
    BY <2>3, DroppingFrames
  <2>5. W \in Seq(Frame) /\ \A f \in Frames(W) : f.op = "withdraw"
    BY <2>3, WithdrawingFrames
  <2> HIDE DEF D, W
  <2>6. D \o W \in Seq(Frame) /\ Frames(D \o W) = Frames(D) \cup Frames(W) /\ Proceed(D \o W)
    BY <2>2, <2>4, <2>5, FramesConcat DEF D, W
  <2>7. \A f \in Frames(D \o W) : f.op \in {"drop", "withdraw"}
    BY <2>4, <2>5, <2>6
  <2> QED  BY <1>1, <2>1, <2>6, <2>7, LoopWaits DEF Attends
<1>6. CASE Return
  <2> DEFINE F == <<>>
  <2>1. F \in Seq(Frame) /\ Frames(F) = {} /\ Proceed(F)
    BY <1>6, FramesOfNone DEF Return
  <2>2. \A k \in Keys : ~Attends(Top, k)
    BY <1>6 DEF Return, Attends
  <2> HIDE DEF F
  <2> QED  BY <1>1, <2>1, <2>2, LoopWaits
<1> QED  BY <1>3, <1>4, <1>5, <1>6

LEMMA RestByIndex ==
  ASSUME ControlTypeOK, stack # <<>>
  PROVE  Frames(Rest) \subseteq {stack[i] : i \in 2 .. Len(stack)}
<1>1. Len(Rest) = Len(stack) - 1 /\ \A i \in 1 .. Len(Rest) : Rest[i] = stack[i + 1]
  BY HeadTailProperties DEF ControlTypeOK, Rest
<1>2. Len(stack) \in Nat
  BY LenProperties DEF ControlTypeOK
<1>3. ASSUME NEW i \in 1 .. Len(Rest)
      PROVE  Rest[i] \in {stack[j] : j \in 2 .. Len(stack)}
  <2>1. i + 1 \in 2 .. Len(stack)
    BY <1>1, <1>2
  <2> QED  BY <1>1, <2>1
<1> QED  BY <1>3 DEF Frames

LEMMA PrepareWaits ==
  ASSUME TypeOK, WantedInv, WaitsInv, Prepare
  PROVE  WaitsInv'
<1>1. Top.key \in Keys /\ stack # <<>> /\ Top.op = "prepare" /\ ControlTypeOK
  BY TopTypes DEF Prepare, OnTop, TypeOK
<1>2. PICK k \in Keys : k = Top.key
  BY <1>1
<1>3. state' = [state EXCEPT ![k] = "waiting"] /\ UNCHANGED <<needs, members, ended>>
  BY <1>2 DEF Prepare
<1>4. /\ state'[k] = "waiting" /\ \A j \in Keys : j # k => state'[j] = state[j]
      /\ state[k] \in {"waiting", "running"}
  <2>1. Top \in Frames(stack)
    BY <1>1, FramesOfStack
  <2> QED  BY <1>1, <1>2, <1>3, <2>1 DEF WaitsInv, TypeOK, GraphTypeOK
<1>5. PICK e \in Frame :
        /\ Proceed(<<e>>) /\ e.key = k
        /\ \/ /\ e.op = "link" /\ e.todo = e.hard \cup e.soft
              /\ \A g \in Frames(Rest) : SameAnswer(e, g)
           \/ e.op = "end"
  <2>1. CASE \E H \in SUBSET Deps[k], S \in SUBSET Members[k] :
               /\ \A f \in OuterAnswers(k) : H = f.hard /\ S = f.soft
               /\ Proceed(<<Linking(k, H, S)>>)
    <3>1. PICK H \in SUBSET Deps[k], S \in SUBSET Members[k] :
               /\ \A f \in OuterAnswers(k) : H = f.hard /\ S = f.soft
               /\ Proceed(<<Linking(k, H, S)>>)
      BY <2>1
    <3>2. H \in SUBSET Keys /\ S \in SUBSET Keys
      BY SchedAssumption
    <3> DEFINE e == Linking(k, H, S)
    <3>3. /\ e \in Frame /\ e.op = "link" /\ e.key = k
          /\ e.todo = H \cup S /\ e.hard = H /\ e.soft = S
      BY <3>2, LinkingType DEF Linking
    <3> HIDE DEF e
    <3>4. \A g \in Frames(Rest) : SameAnswer(e, g)
      BY <1>1, <3>1, <3>3, RestByIndex DEF OuterAnswers, SameAnswer
    <3> QED  BY <3>1, <3>3, <3>4 DEF e
  <2>2. CASE Proceed(<<Ending(k, "error")>>)
    <3> DEFINE e == Ending(k, "error")
    <3>1. e \in Frame /\ e.op = "end" /\ e.key = k
      BY <1>1, EndingType DEF Ending, Outcome
    <3> HIDE DEF e
    <3> QED  BY <2>2, <3>1 DEF e
  <2> QED  BY <1>2, <2>1, <2>2 DEF Prepare
<1> DEFINE F == <<e>>
<1>6. F \in Seq(Frame) /\ Frames(F) = {e} /\ Levels(F) = {<<e, {}>>} /\ Proceed(F)
  BY <1>5, FramesOfOne, LevelsOfOne
<1> HIDE DEF F
<1>7. NeedsWait'
  BY <1>3, <1>4 DEF WaitsInv, NeedsWait, Outstanding
<1>8. \A j \in Keys : Idle(j)' => (Idle(j) /\ ~Attends(Top, j)) \/ \E f \in Frames(F) : Attends(f, j)
  <2> TAKE j \in Keys
  <2>1. CASE j = k
    BY <1>5, <1>6, <2>1 DEF Attends
  <2>2. CASE j # k
    BY <1>1, <1>2, <1>3, <1>4, <2>2 DEF Attends, Idle, Outstanding
  <2> QED  BY <2>1, <2>2
<1>9. \A p \in Levels(F) : Sound(state', ended', needs', members', p[1], p[2]) /\ NoReplaces(p[2])
  <2>1. Sound(state', ended', needs', members', e, {})
    BY <1>4, <1>5 DEF Sound
  <2>2. \A p \in Levels(F) : p[1] = e /\ p[2] = {}
    BY <1>6
  <2> QED  BY <2>1, <2>2 DEF NoReplaces
<1>10. RestSound(F)
  <2>1. \A j \in Keys : /\ state[j] \in {"waiting", "ready"} => state'[j] = state[j]
                        /\ state[j] = "absent" => state'[j] = "absent"
    BY <1>4
  <2> QED  BY <1>1, <1>3, <2>1, RestKept DEF Outstanding, Answers
<1>11. \A f \in Frames(F), g \in Frames(F) \cup Frames(Rest) : SameAnswer(f, g)
  BY <1>5, <1>6 DEF SameAnswer
<1>12. \A f \in Frames(F) : f.op \notin {"prepare", "replace"}
  BY <1>5, <1>6
<1> QED  BY <1>1, <1>6, <1>7, <1>8, <1>9, <1>10, <1>11, <1>12, StepWaits DEF RestSound, NoReplaces

\* What a prepare under way relies on.
LEMMA LinkOnTop ==
  ASSUME TypeOK, WaitsInv, OnTop("link")
  PROVE  /\ Top \in LinkFrame /\ Top \in Frame /\ Top.key \in Keys /\ ControlTypeOK
         /\ Sound(state, ended, needs, members, Top, {})
         /\ \A g \in Frames(Rest) : SameAnswer(Top, g)
<1>1. Top \in LinkFrame /\ stack # <<>> /\ ControlTypeOK
  BY TopTypes DEF OnTop, TypeOK
<1>2. Top \in Frames(stack) /\ Frames(Rest) \subseteq Frames(stack)
  BY <1>1, FramesOfStack
<1> DEFINE p == <<Top, {}>>
<1>3. p \in Levels(stack) /\ p[1] = Top /\ p[2] = {}
  BY <1>1, LevelsOfStack
<1> HIDE DEF p
<1> QED  BY <1>1, <1>2, <1>3, TopTypes DEF WaitsInv, LinkFrame

LEMMA LinkWaits ==
  ASSUME TypeOK, WantedInv, WaitsInv, Link
  PROVE  WaitsInv'
<1>1. /\ Top \in LinkFrame /\ stack # <<>> /\ Top.op = "link" /\ ControlTypeOK
      /\ Sound(state, ended, needs, members, Top, {})
      /\ \A g \in Frames(Rest) : SameAnswer(Top, g)
  BY LinkOnTop DEF Link, OnTop
<1>2. PICK k \in Keys : k = Top.key
  BY <1>1 DEF LinkFrame
<1>3. PICK d \in Top.todo : LET more == [Top EXCEPT !.todo = @ \ {d}]
                                fresh == state[d] = "absent"
                                skip == \/ d \in ended[k] \cup {k} \cup Outstanding(k)
                                        \/ fresh /\ d \notin Creatable
        IN \/ skip /\ Proceed(<<more>>) /\ UNCHANGED <<state, needs, members>>
           \/ Proceed(<<Ending(k, "error"), more>>) /\ UNCHANGED <<state, needs, members>>
           \/ /\ ~skip
              /\ \/ needs' = [needs EXCEPT ![k] = @ \cup {d}] /\ UNCHANGED members
                 \/ members' = [members EXCEPT ![k] = @ \cup {d}] /\ UNCHANGED needs
              /\ \/ fresh /\ Add(d) /\ Proceed(<<Preparing(d), more>>)
                 \/ ~fresh /\ Proceed(<<more>>) /\ UNCHANGED state
  BY <1>2 DEF Link
<1>4. d \in Keys /\ UNCHANGED ended
  BY <1>1 DEF LinkFrame, Link
<1>5. PICK m \in Frame : /\ m = [Top EXCEPT !.todo = @ \ {d}]
                         /\ m.op = "link" /\ m.key = k /\ m.todo = Top.todo \ {d}
                         /\ m.hard = Top.hard /\ m.soft = Top.soft
  <2> DEFINE m == [Top EXCEPT !.todo = @ \ {d}]
  <2>1. m \in LinkFrame
    BY <1>1 DEF LinkFrame
  <2>2. m.op = "link" /\ m.key = k /\ m.todo = Top.todo \ {d} /\ m.hard = Top.hard /\ m.soft = Top.soft
    BY <1>1, <1>2 DEF LinkFrame
  <2> HIDE DEF m
  <2>3. m \in Frame
    BY <2>1 DEF Frame
  <2> QED  BY <2>2, <2>3 DEF m
<1>6. /\ state[k] \in {"waiting", "ready"}
      /\ Top.todo \subseteq Top.hard \cup Top.soft
      /\ state[k] = "ready" => \A c \in Top.todo : Past(state, ended, k, c)
      /\ state[k] = "waiting" => \A c \in (Top.hard \cup Top.soft) \ Top.todo :
           Past(state, ended, k, c) \/ c \in Outstanding(k)
  BY <1>1, <1>2 DEF Sound, Outstanding
<1>7. \A g \in Frames(Rest) : SameAnswer(m, g)
  BY <1>1, <1>2, <1>5 DEF SameAnswer
<1>8. \A j \in Keys : Attends(Top, j) => j = k
  BY <1>1, <1>2 DEF Attends
<1>9. Attends(m, k)
  BY <1>5 DEF Attends
<1>10. \A j, c : ~Answers(Top, j, c)
  BY <1>1 DEF Answers
<1>11. CASE /\ d \in ended[k] \cup {k} \cup Outstanding(k) \/ (state[d] = "absent" /\ d \notin Creatable)
            /\ Proceed(<<m>>) /\ UNCHANGED <<state, needs, members>>
  <2> DEFINE F == <<m>>
  <2>1. F \in Seq(Frame) /\ Frames(F) = {m} /\ Proceed(F) /\ \A p \in Levels(F) : p[1] = m /\ p[2] = {}
    BY <1>5, <1>11, OneLevel
  <2> HIDE DEF F
  <2>2. Sound(state', ended', needs', members', m, {})
    BY <1>4, <1>5, <1>6, <1>11 DEF Sound, Past, Outstanding
  <2>3. NeedsWait' /\ \A j \in Keys : Idle(j)' => Idle(j)
    BY <1>11 DEF WaitsInv, NeedsWait, Idle, Outstanding
  <2>4. RestSound(F)
    BY <1>1, <1>4, <1>10, <1>11, RestKept DEF Outstanding
  <2>5. \A j \in Keys : Idle(j)' => (Idle(j) /\ ~Attends(Top, j)) \/ \E f \in Frames(F) : Attends(f, j)
    BY <1>8, <1>9, <2>1, <2>3
  <2>6. \A f \in Frames(F), g \in Frames(F) \cup Frames(Rest) : SameAnswer(f, g)
    BY <1>7, <2>1 DEF SameAnswer
  <2> QED  BY <1>1, <1>5, <2>1, <2>2, <2>3, <2>4, <2>5, <2>6, StepWaits DEF RestSound, NoReplaces
<1>12. CASE Proceed(<<Ending(k, "error"), m>>) /\ UNCHANGED <<state, needs, members>>
  <2> DEFINE e == Ending(k, "error")
  <2>1. e \in Frame /\ e.op = "end" /\ e.key = k
    BY EndingType DEF Outcome, Ending
  <2> HIDE DEF e
  <2> DEFINE F == <<e, m>>
  <2>2. /\ F \in Seq(Frame) /\ Frames(F) = {e, m} /\ Proceed(F)
        /\ \A p \in Levels(F) : (p[1] = e /\ p[2] = {}) \/ (p[1] = m /\ p[2] = {e})
    BY <1>5, <1>12, <2>1, TwoLevels DEF e
  <2> HIDE DEF F
  <2>3. Sound(state', ended', needs', members', m, {e}) /\ Sound(state', ended', needs', members', e, {})
    <3>1. \A c : Answers(e, k, c)
      BY <2>1 DEF Answers
    <3> QED  BY <1>4, <1>5, <1>6, <1>12, <2>1, <3>1 DEF Sound
  <2>4. NeedsWait' /\ \A j \in Keys : Idle(j)' => Idle(j)
    BY <1>12 DEF WaitsInv, NeedsWait, Idle, Outstanding
  <2>5. RestSound(F)
    BY <1>1, <1>4, <1>10, <1>12, RestKept DEF Outstanding
  <2>6. \A j \in Keys : Idle(j)' => (Idle(j) /\ ~Attends(Top, j)) \/ \E f \in Frames(F) : Attends(f, j)
    BY <1>8, <1>9, <2>2, <2>4
  <2>7. \A f \in Frames(F), g \in Frames(F) \cup Frames(Rest) : SameAnswer(f, g)
    BY <1>7, <2>1, <2>2 DEF SameAnswer
  <2>8. \A p \in Levels(F) : Sound(state', ended', needs', members', p[1], p[2]) /\ NoReplaces(p[2])
    BY <2>1, <2>2, <2>3 DEF NoReplaces
  <2> QED  BY <1>1, <1>5, <2>1, <2>2, <2>4, <2>5, <2>6, <2>7, <2>8, StepWaits DEF RestSound, NoReplaces
<1>13. CASE /\ d \notin ended[k] \cup {k} \cup Outstanding(k) /\ ~(state[d] = "absent" /\ d \notin Creatable)
            /\ \/ needs' = [needs EXCEPT ![k] = @ \cup {d}] /\ UNCHANGED members
               \/ members' = [members EXCEPT ![k] = @ \cup {d}] /\ UNCHANGED needs
            /\ \/ state[d] = "absent" /\ Add(d) /\ Proceed(<<Preparing(d), m>>)
               \/ state[d] # "absent" /\ Proceed(<<m>>) /\ UNCHANGED state
  <2>1. state[k] = "waiting" /\ d # k
    BY <1>6, <1>13 DEF Past
  <2>2. /\ needs'[k] \cup members'[k] = Outstanding(k) \cup {d}
        /\ \A j \in Keys : j # k => needs'[j] = needs[j] /\ members'[j] = members[j]
    <3>1. CASE needs' = [needs EXCEPT ![k] = @ \cup {d}] /\ UNCHANGED members
      BY <3>1 DEF Outstanding, TypeOK, GraphTypeOK
    <3>2. CASE members' = [members EXCEPT ![k] = @ \cup {d}] /\ UNCHANGED needs
      BY <3>2 DEF Outstanding, TypeOK, GraphTypeOK
    <3> QED  BY <1>13, <3>1, <3>2
  <2>3. /\ \A j \in Keys : j # d => state'[j] = state[j]
        /\ state[d] # "absent" => state'[d] = state[d]
        /\ state[d] = "absent" => state'[d] = "waiting"
    <3>1. CASE Add(d)
      BY <1>4, <1>13, <3>1 DEF Add, TypeOK, GraphTypeOK
    <3> QED  BY <1>13, <3>1
  <2>4. NeedsWait'
    <3>1. \A j \in Keys : needs'[j] \cup members'[j] # {} => state'[j] = "waiting"
      BY <1>4, <2>1, <2>2, <2>3 DEF WaitsInv, NeedsWait, Outstanding
    <3> QED  BY <3>1 DEF NeedsWait, Outstanding
  <2>5. \A j \in Keys : Idle(j)' => j # k /\ (Idle(j) \/ (j = d /\ state[d] = "absent"))
    <3> TAKE j \in Keys
    <3>1. Idle(j)' => state'[j] = "waiting" /\ needs'[j] \cup members'[j] = {}
      BY DEF Idle, Outstanding
    <3> QED  BY <1>4, <2>2, <2>3, <3>1 DEF Idle, Outstanding
  <2>6. \A A : Sound(state', ended', needs', members', m, A)
    <3>1. state'[k] = "waiting" /\ m.todo \subseteq m.hard \cup m.soft
      BY <1>5, <1>6, <2>1, <2>3
    <3>2. ASSUME NEW c \in (m.hard \cup m.soft) \ m.todo
          PROVE  Past(state', ended', k, c) \/ c \in needs'[k] \cup members'[k]
      <4>1. CASE c = d
        BY <2>2, <4>1
      <4>2. CASE c # d
        <5>1. Past(state, ended, k, c) \/ c \in Outstanding(k)
          BY <1>5, <1>6, <2>1, <4>2
        <5>2. Past(state, ended, k, c) => Past(state', ended', k, c)
          <6>1. c \in Keys
            BY <1>1, <1>5 DEF LinkFrame
          <6> QED  BY <1>4, <2>3, <4>2, <6>1 DEF Past
        <5> QED  BY <2>2, <5>1, <5>2
      <4> QED  BY <4>1, <4>2
    <3> QED  BY <1>5, <3>1, <3>2 DEF Sound
  <2>7. \A j \in Keys : /\ state[j] \in {"waiting", "ready"} => state'[j] = state[j]
                        /\ state[j] = "absent" /\ j \notin Creatable => state'[j] = "absent"
                        /\ ended[j] \subseteq ended'[j]
                        /\ Outstanding(j) \subseteq needs'[j] \cup members'[j]
    BY <1>4, <1>13, <2>2, <2>3 DEF Outstanding
  <2>8. \A F : RestSound(F)
    BY <1>1, <1>10, <2>7, RestKept
  <2>9. CASE state[d] = "absent" /\ Proceed(<<Preparing(d), m>>)
    <3> DEFINE e == Preparing(d)
    <3>1. e \in Frame /\ e.op = "prepare" /\ e.key = d /\ Proceed(<<e, m>>)
      BY <1>4, <2>9, PreparingType DEF Preparing
    <3> HIDE DEF e
    <3> DEFINE F == <<e, m>>
    <3>2. /\ F \in Seq(Frame) /\ Frames(F) = {e, m} /\ Proceed(F)
          /\ \A p \in Levels(F) : (p[1] = e /\ p[2] = {}) \/ (p[1] = m /\ p[2] = {e})
      <4>1. e \in Frame /\ m \in Frame
        BY <3>1
      <4>2. Proceed(F)
        BY <3>1
      <4> QED  BY <4>1, <4>2, TwoLevels
    <3> HIDE DEF F
    <3>3. \A j \in Keys : Idle(j)' => (Idle(j) /\ ~Attends(Top, j)) \/ \E f \in Frames(F) : Attends(f, j)
      BY <1>8, <2>5, <3>1, <3>2 DEF Attends
    <3>4. \A f \in Frames(F), g \in Frames(F) \cup Frames(Rest) : SameAnswer(f, g)
      BY <1>7, <3>1, <3>2 DEF SameAnswer
    <3>5. \A p \in Levels(F) : Sound(state', ended', needs', members', p[1], p[2]) /\ NoReplaces(p[2])
      <4>1. Sound(state', ended', needs', members', e, {})
        BY <3>1 DEF Sound
      <4> QED  BY <2>6, <3>1, <3>2, <4>1 DEF NoReplaces
    <3>6. \A f \in Frames(F) : f.op = "prepare" => state'[f.key] \in {"waiting", "running"}
      BY <1>5, <2>3, <2>9, <3>1, <3>2
    <3> QED  BY <1>1, <1>5, <2>4, <2>8, <3>1, <3>2, <3>3, <3>4, <3>5, <3>6, StepWaits
             DEF RestSound, NoReplaces
  <2>10. CASE state[d] # "absent" /\ Proceed(<<m>>)
    <3> DEFINE F == <<m>>
    <3>1. F \in Seq(Frame) /\ Frames(F) = {m} /\ Proceed(F) /\ \A p \in Levels(F) : p[1] = m /\ p[2] = {}
      BY <1>5, <2>10, OneLevel
    <3> HIDE DEF F
    <3>2. \A j \in Keys : Idle(j)' => Idle(j) /\ ~Attends(Top, j)
      BY <1>8, <2>5, <2>10
    <3>3. \A f \in Frames(F), g \in Frames(F) \cup Frames(Rest) : SameAnswer(f, g)
      BY <1>7, <3>1 DEF SameAnswer
    <3> QED  BY <1>1, <1>5, <2>4, <2>6, <2>8, <3>1, <3>2, <3>3, StepWaits DEF RestSound, NoReplaces
  <2> QED  BY <1>13, <2>9, <2>10
<1> QED  BY <1>3, <1>5, <1>11, <1>12, <1>13

LEMMA LinkedWaits ==
  ASSUME TypeOK, WantedInv, WaitsInv, Linked
  PROVE  WaitsInv'
<1>1. /\ Top \in LinkFrame /\ stack # <<>> /\ Top.op = "link" /\ ControlTypeOK /\ Top.todo = {}
      /\ Sound(state, ended, needs, members, Top, {})
      /\ \A g \in Frames(Rest) : SameAnswer(Top, g)
  BY LinkOnTop DEF Linked, OnTop
<1>2. PICK k \in Keys : k = Top.key
  BY <1>1 DEF LinkFrame
<1> DEFINE F == <<>>
<1>3. F \in Seq(Frame) /\ Frames(F) = {} /\ Levels(F) = {} /\ Proceed(F)
  BY FramesOfNone, LevelsOfNone DEF Linked
<1> HIDE DEF F
<1>4. UNCHANGED <<needs, members, ended>>
  BY DEF Linked
<1>5. /\ \A j \in Keys : j # k => state'[j] = state[j]
      /\ state'[k] = IF Outstanding(k) = {} THEN "ready" ELSE state[k]
  BY <1>2 DEF Linked, TypeOK, GraphTypeOK
<1>6. NeedsWait'
  BY <1>4, <1>5 DEF WaitsInv, NeedsWait, Outstanding
<1>7. \A j \in Keys : Idle(j)' => Idle(j) /\ ~Attends(Top, j)
  BY <1>1, <1>2, <1>4, <1>5 DEF Idle, Attends, Outstanding
<1>8. state[k] \in {"waiting", "ready"}
  BY <1>1, <1>2 DEF Sound
<1>9. \A c \in Keys : Past(state, ended, k, c) => Past(state', ended', k, c)
  BY <1>4, <1>5, <1>8 DEF Past
<1>10. ASSUME NEW f \in Frames(Rest), NEW A, Sound(state, ended, needs, members, f, A \cup {Top})
       PROVE  Sound(state', ended', needs', members', f, A \cup Frames(F))
  <2>1. f \in Frame
    BY <1>1, FramesOfStack
  <2>2. \A j, d : ~Answers(Top, j, d)
    BY <1>1 DEF Answers
  <2>3. CASE f.op # "link"
    BY <2>3 DEF Sound
  <2>4. CASE f.op = "link" /\ (f.key # k \/ state'[k] = state[k])
    <3>1. f.key \in Keys
      BY <2>1, <2>4, CallHasKey DEF Calls
    <3>2. \A d \in Keys : state[d] = "absent" => state'[d] = "absent"
      BY <1>5, <1>8
    <3> QED  BY <1>4, <1>5, <1>10, <2>1, <2>2, <2>4, <3>1, <3>2, SoundStays
  <2>5. CASE f.op = "link" /\ f.key = k /\ state'[k] # state[k]
    <3>1. state[k] = "waiting" /\ state'[k] = "ready" /\ Outstanding(k) = {}
      BY <1>5, <1>8, <2>5
    <3>2. f.hard = Top.hard /\ f.soft = Top.soft /\ f.todo \subseteq f.hard \cup f.soft
      BY <1>1, <1>2, <1>10, <2>5 DEF SameAnswer, Sound
    <3>3. \A c \in Top.hard \cup Top.soft : Past(state, ended, k, c)
      BY <1>1, <1>2, <3>1 DEF Sound, Outstanding
    <3>4. \A c \in f.todo : Past(state', ended', k, c)
      BY <1>1, <1>9, <3>2, <3>3 DEF LinkFrame
    <3> QED  BY <2>5, <3>1, <3>2, <3>4 DEF Sound
  <2> QED  BY <2>3, <2>4, <2>5
<1> QED  BY <1>1, <1>3, <1>6, <1>7, <1>10, StepWaits DEF NoReplaces

LEMMA TellWaits ==
  ASSUME TypeOK, WantedInv, WaitsInv, Tell
  PROVE  WaitsInv'
<1>1. Top \in TellFrame /\ Top.op = "tell" /\ stack # <<>> /\ ControlTypeOK
  BY TopTypes DEF Tell, OnTop, TypeOK
<1>2. UNCHANGED <<state, needs, members>>
  BY DEF Tell
<1>3. PICK w \in Top.todo :
        LET rest == Loop([Top EXCEPT !.todo = @ \ {w}]) \o Rest
            fails == Top.err # "ok" /\ w \in Top.hard
        IN  IF state[w] # "waiting"
              THEN stack' = rest /\ UNCHANGED ended
              ELSE
                /\ ended' = [ended EXCEPT ![w] = @ \cup {Top.key}]
                /\ CASE fails -> stack' = <<Ending(w, FailsAs(w))>> \o rest
                     [] ~fails /\ Outstanding(w) = {} /\ ~AboutToHear(w, rest) ->
                          stack' = <<Preparing(w)>> \o rest
                     [] OTHER -> stack' = rest
  BY DEF Tell
<1>4. w \in Keys /\ Top.key \in Keys
  BY <1>1 DEF TellFrame
<1>5. PICK m \in Frame : /\ m = [Top EXCEPT !.todo = @ \ {w}]
                         /\ m.op = "tell" /\ m.key = Top.key /\ m.todo = Top.todo \ {w}
                         /\ m.hard = Top.hard /\ m.soft = Top.soft
  <2> DEFINE m == [Top EXCEPT !.todo = @ \ {w}]
  <2>1. m \in TellFrame
    BY <1>1 DEF TellFrame
  <2>2. m.op = "tell" /\ m.key = Top.key /\ m.todo = Top.todo \ {w} /\ m.hard = Top.hard /\ m.soft = Top.soft
    BY <1>1 DEF TellFrame
  <2> HIDE DEF m
  <2>3. m \in Frame
    BY <2>1 DEF Frame
  <2> QED  BY <2>2, <2>3 DEF m
<1>6. PICK L \in Seq(Frame) : L = Loop(m) /\ Frames(L) = IF m.todo = {} THEN {} ELSE {m}
  BY <1>5, FramesOfLoop
<1>7. \A j \in Keys : j # w => (Attends(Top, j) => \E f \in Frames(L) : Attends(f, j))
  <2> TAKE j \in Keys
  <2>1. SUFFICES ASSUME j # w, Attends(Top, j)
                 PROVE  Attends(m, j) /\ m.todo # {}
    BY <1>6
  <2> QED  BY <1>1, <1>5, <2>1 DEF Attends
<1>8. \A j \in Keys : \A c : j # w => (Answers(Top, j, c) => \E f \in Frames(L) : Answers(f, j, c))
  <2> TAKE j \in Keys
  <2> TAKE c
  <2>1. SUFFICES ASSUME j # w, Answers(Top, j, c)
                 PROVE  Answers(m, j, c) /\ m.todo # {}
    BY <1>6
  <2> QED  BY <1>1, <1>5, <2>1 DEF Answers
<1>9. NeedsWait' /\ \A j \in Keys : Idle(j)' => Idle(j)
  BY <1>2 DEF WaitsInv, NeedsWait, Idle, Outstanding
<1>10. /\ \A j \in Keys : ended[j] \subseteq ended'[j]
       /\ state[w] = "waiting" => Top.key \in ended'[w]
  <2>1. CASE ended' = ended /\ state[w] # "waiting"
    BY <2>1
  <2>2. CASE ended' = [ended EXCEPT ![w] = @ \cup {Top.key}]
    BY <1>4, <2>2 DEF TypeOK, GraphTypeOK
  <2> QED  BY <1>3, <2>1, <2>2
<1>11. ASSUME NEW F \in Seq(Frame), Frames(L) \subseteq Frames(F)
       PROVE  RestSound(F)
  <2>1. \A f \in Frames(Rest), c \in Keys :
           f.op = "link" /\ state[f.key] = "waiting" /\ Answers(Top, f.key, c) =>
             c \in ended'[f.key] \/ \E b \in Frames(F) : Answers(b, f.key, c)
    <3> TAKE f \in Frames(Rest), c \in Keys
    <3>1. SUFFICES ASSUME f.op = "link", state[f.key] = "waiting", Answers(Top, f.key, c)
                   PROVE  c \in ended'[f.key] \/ \E b \in Frames(F) : Answers(b, f.key, c)
      OBVIOUS
    <3>2. f.key \in Keys
      BY <1>1, <3>1, FramesOfStack, CallHasKey DEF Calls
    <3>3. CASE f.key = w
      BY <1>1, <1>10, <3>1, <3>3 DEF Answers
    <3>4. CASE f.key # w
      BY <1>8, <1>11, <3>1, <3>2, <3>4
    <3> QED  BY <3>3, <3>4
  <2> QED  BY <1>1, <1>2, <1>10, <2>1, RestKept DEF Outstanding
<1>12. ASSUME NEW F \in Seq(Frame), Proceed(F), Frames(L) \subseteq Frames(F),
              \A f \in Frames(F) : f.op \notin {"link", "replace"},
              \A f \in Frames(F) : f.op = "prepare" => state[f.key] \in {"waiting", "running"},
              Idle(w) /\ Attends(Top, w) => \E f \in Frames(F) \cup Frames(Rest) : Attends(f, w)
       PROVE  WaitsInv'
  <2>1. \A p \in Levels(F) : Sound(state', ended', needs', members', p[1], p[2]) /\ NoReplaces(p[2])
    BY <1>12, LevelsInFrames DEF Sound, NoReplaces
  <2>2. \A j \in Keys : Idle(j)' =>
           (Idle(j) /\ ~Attends(Top, j)) \/ \E f \in Frames(F) \cup Frames(Rest) : Attends(f, j)
    BY <1>7, <1>9, <1>12
  <2>3. RestSound(F)
    BY <1>11, <1>12
  <2> QED  BY <1>1, <1>2, <1>9, <1>12, <2>1, <2>2, <2>3, StepWaits DEF RestSound, NoReplaces, SameAnswer
<1>13. \A f \in Frames(L) : f.op = "tell"
  BY <1>5, <1>6
<1>14. ASSUME stack' = L \o Rest,
              Idle(w) /\ Attends(Top, w) => \E f \in Frames(Rest) : Attends(f, w)
       PROVE  WaitsInv'
  BY <1>12, <1>13, <1>14 DEF Proceed
<1>15. ASSUME NEW e \in Frame, stack' = <<e>> \o (L \o Rest), e.key = w,
              \/ e.op = "end"
              \/ e.op = "prepare" /\ state[w] = "waiting"
       PROVE  WaitsInv'
  <2>1. PICK F \in Seq(Frame) : Frames(F) = {e} \cup Frames(L) /\ Proceed(F)
    BY <1>1, <1>15, PushOver
  <2>2. Attends(e, w)
    BY <1>15 DEF Attends
  <2> QED  BY <1>12, <1>13, <1>15, <2>1, <2>2
<1>16. CASE state[w] # "waiting"
  <2>1. stack' = L \o Rest
    BY <1>3, <1>5, <1>6, <1>16
  <2> QED  BY <1>14, <1>16, <2>1 DEF Idle
<1>17. CASE state[w] = "waiting"
  <2>1. CASE stack' = <<Ending(w, FailsAs(w))>> \o (L \o Rest)
    <3> DEFINE e == Ending(w, FailsAs(w))
    <3>1. e \in Frame /\ e.op = "end" /\ e.key = w
      BY <1>4, EndingType DEF Outcome, Ending, FailsAs
    <3> HIDE DEF e
    <3> QED  BY <1>15, <2>1, <3>1 DEF e
  <2>2. CASE stack' = <<Preparing(w)>> \o (L \o Rest)
    <3> DEFINE e == Preparing(w)
    <3>1. e \in Frame /\ e.op = "prepare" /\ e.key = w
      BY <1>4, PreparingType DEF Preparing
    <3> HIDE DEF e
    <3> QED  BY <1>15, <1>17, <2>2, <3>1 DEF e
  <2>3. CASE stack' = L \o Rest /\ (Outstanding(w) # {} \/ AboutToHear(w, L \o Rest))
    <3>1. ASSUME AboutToHear(w, L \o Rest)
          PROVE  \E f \in Frames(Rest) : Attends(f, w)
      <4>1. Rest \in Seq(Frame) /\ L \o Rest \in Seq(Frame) /\ Frames(L \o Rest) = Frames(L) \cup Frames(Rest)
        BY <1>1, TopTypes, FramesConcat
      <4>2. \E f \in Frames(L \o Rest) : f.op = "tell" /\ w \in f.todo \cap (f.hard \cup f.soft)
        <5>1. DOMAIN (L \o Rest) = 1 .. Len(L \o Rest)
          BY <4>1, LenProperties
        <5> QED  BY <3>1, <5>1 DEF AboutToHear, Frames
      <4>3. \A f \in Frames(L) : w \notin f.todo
        BY <1>5, <1>6
      <4> QED  BY <4>1, <4>2, <4>3 DEF Attends
    <3> QED  BY <1>14, <2>3, <3>1 DEF Idle
  <2> QED  BY <1>3, <1>5, <1>6, <1>17, <2>1, <2>2, <2>3
<1> QED  BY <1>16, <1>17

LEMMA ReplaceNextWaits ==
  ASSUME TypeOK, WantedInv, WaitsInv, ReplaceNext
  PROVE  WaitsInv'
<1> DEFINE lost == {k \in Keys : requests[k][Top.source] # NoPriority} \ Top.keep
<1>1. Top \in ReplaceFrame /\ Top.op = "replace" /\ stack # <<>> /\ ControlTypeOK
  BY TopTypes DEF ReplaceNext, OnTop, TypeOK
<1>2. UNCHANGED <<needs, members, ended>> /\ \A k : ~Attends(Top, k)
  BY <1>1 DEF ReplaceNext, Attends
<1>3. CASE Proceed(Withdrawing(Top.source, lost)) /\ UNCHANGED state
  <2> DEFINE F == Withdrawing(Top.source, lost)
  <2>1. F \in Seq(Frame) /\ \A f \in Frames(F) : f.op = "withdraw"
    BY <1>1, WithdrawingFrames DEF ReplaceFrame
  <2> HIDE DEF F
  <2> QED  BY <1>1, <1>2, <1>3, <2>1, LoopWaits DEF F
<1>4. ASSUME NEW d \in Top.todo,
             LET more == [Top EXCEPT !.todo = @ \ {d}]
             IN  \/ state[d] = "absent" /\ Add(d) /\ Proceed(<<Preparing(d), more>>)
                 \/ Proceed(<<more>>) /\ UNCHANGED state
      PROVE  WaitsInv'
  <2>1. d \in Keys
    BY <1>1 DEF ReplaceFrame
  <2>2. PICK m \in Frame : m = [Top EXCEPT !.todo = @ \ {d}] /\ m.op = "replace"
    <3> DEFINE m == [Top EXCEPT !.todo = @ \ {d}]
    <3>1. m \in ReplaceFrame /\ m.op = "replace"
      BY <1>1 DEF ReplaceFrame
    <3> HIDE DEF m
    <3>2. m \in Frame
      BY <3>1 DEF Frame
    <3> QED  BY <3>1, <3>2 DEF m
  <2>3. Frames(Rest) = {}
    <3>1. Rest \in Seq(Frame)
      BY <1>1, TopTypes
    <3>2. ASSUME NEW p \in Levels(Rest)
          PROVE  FALSE
      <4> DEFINE o == <<p[1], p[2] \cup {Top}>>
      <4>1. o \in Levels(stack) /\ o[2] = p[2] \cup {Top}
        BY <1>1, LevelsOfStack
      <4> HIDE DEF o
      <4> QED  BY <1>1, <4>1 DEF WaitsInv, NoReplaces
    <3> QED  BY <3>2 DEF Levels, Frames
  <2>4. \A F : RestSound(F)
    BY <2>3 DEF RestSound
  <2>5. CASE state[d] = "absent" /\ Add(d) /\ Proceed(<<Preparing(d), m>>)
    <3> DEFINE e == Preparing(d)
    <3>1. e \in Frame /\ e.op = "prepare" /\ e.key = d /\ Proceed(<<e, m>>)
      BY <2>1, <2>5, PreparingType DEF Preparing
    <3> HIDE DEF e
    <3> DEFINE F == <<e, m>>
    <3>2. /\ F \in Seq(Frame) /\ Frames(F) = {e, m} /\ Proceed(F)
          /\ \A p \in Levels(F) : (p[1] = e /\ p[2] = {}) \/ (p[1] = m /\ p[2] = {e})
      <4>1. e \in Frame /\ m \in Frame
        BY <3>1
      <4>2. Proceed(F)
        BY <3>1
      <4> QED  BY <4>1, <4>2, TwoLevels
    <3> HIDE DEF F
    <3>3. (\A j \in Keys : j # d => state'[j] = state[j]) /\ state'[d] = "waiting"
      BY <2>1, <2>5 DEF Add, TypeOK, GraphTypeOK
    <3>4. NeedsWait'
      BY <1>2, <3>3 DEF WaitsInv, NeedsWait, Outstanding
    <3>5. \A j \in Keys : Idle(j)' => (Idle(j) /\ ~Attends(Top, j)) \/ \E f \in Frames(F) : Attends(f, j)
      BY <1>2, <3>1, <3>2, <3>3 DEF Idle, Outstanding, Attends
    <3>6. \A p \in Levels(F) : Sound(state', ended', needs', members', p[1], p[2]) /\ NoReplaces(p[2])
      BY <2>2, <3>1, <3>2 DEF Sound, NoReplaces
    <3>7. \A f \in Frames(F) : f.op = "prepare" => state'[f.key] \in {"waiting", "running"}
      BY <2>2, <3>1, <3>2, <3>3
    <3>8. \A f \in Frames(F), g \in Frames(F) \cup Frames(Rest) : SameAnswer(f, g)
      BY <2>2, <3>1, <3>2 DEF SameAnswer
    <3> QED  BY <1>1, <2>4, <3>2, <3>4, <3>5, <3>6, <3>7, <3>8, StepWaits DEF RestSound
  <2>6. CASE Proceed(<<m>>) /\ UNCHANGED state
    <3> DEFINE F == <<m>>
    <3>1. F \in Seq(Frame) /\ Frames(F) = {m} /\ Proceed(F) /\ \A p \in Levels(F) : p[1] = m /\ p[2] = {}
      BY <2>2, <2>6, OneLevel
    <3> HIDE DEF F
    <3>2. NeedsWait' /\ \A j \in Keys : Idle(j)' => Idle(j) /\ ~Attends(Top, j)
      BY <1>2, <2>6 DEF WaitsInv, NeedsWait, Idle, Outstanding
    <3>3. \A p \in Levels(F) : Sound(state', ended', needs', members', p[1], p[2]) /\ NoReplaces(p[2])
      BY <2>2, <3>1 DEF Sound, NoReplaces
    <3> QED  BY <1>1, <2>2, <2>4, <3>1, <3>2, <3>3, StepWaits DEF RestSound, SameAnswer
  <2> QED  BY <1>4, <2>2, <2>5, <2>6
<1> QED  BY <1>3, <1>4 DEF ReplaceNext

LEMMA WithoutAnswers ==
  ASSUME NEW f \in Frame, NEW k \in Keys, NEW j \in Keys, j # k
  PROVE  /\ Attends(f, j) => Attends(Without(f, k), j)
         /\ \A d : Answers(f, j, d) => Answers(Without(f, k), j, d)
         /\ Without(f, k).op = "replace" => f.op = "replace"
<1> USE DEF Frame, PrepareFrame, LinkFrame, EndFrame, DropFrame, TellFrame, ReplaceFrame,
            WithdrawFrame
<1>1. CASE f.op = "link" /\ f.key = k
  <2>1. Without(f, k).op = "gone"
    BY <1>1 DEF Without
  <2> QED  BY <1>1, <2>1 DEF Attends, Answers
<1>2. CASE f.op \in {"drop", "cancel", "withdraw"}
  <2>1. Without(f, k) = [f EXCEPT !.todo = @ \ {k}]
    BY <1>2 DEF Without
  <2>2. Without(f, k).op = f.op
    BY <1>2, <2>1
  <2> QED  BY <1>2, <2>2 DEF Attends, Answers
<1>3. CASE f.op = "tell"
  <2>1. Without(f, k) = [f EXCEPT !.todo = @ \ {k}] /\ f \in TellFrame
    BY <1>3 DEF Without
  <2>2. /\ Without(f, k).op = "tell" /\ Without(f, k).key = f.key
        /\ Without(f, k).todo = f.todo \ {k}
        /\ Without(f, k).hard = f.hard /\ Without(f, k).soft = f.soft
    BY <1>3, <2>1
  <2> QED  BY <1>3, <2>2 DEF Attends, Answers
<1>4. CASE ~(f.op = "link" /\ f.key = k) /\ f.op \notin {"drop", "cancel", "tell", "withdraw"}
  <2>1. Without(f, k) = f
    BY <1>4 DEF Without
  <2> QED  BY <2>1
<1> QED  BY <1>1, <1>2, <1>3, <1>4

LEMMA EndWaits ==
  ASSUME TypeOK, WantedInv, WaitsInv, End
  PROVE  WaitsInv'
<1>1. Top \in EndFrame /\ Top.op = "end" /\ stack # <<>> /\ Rest \in Seq(Frame) /\ ControlTypeOK
  BY TopTypes DEF End, OnTop, TypeOK
<1>2. PICK k \in Keys : k = Top.key
  BY <1>1 DEF EndFrame
<1>3. CASE state[k] = "absent"
  <2> DEFINE F == <<>>
  <2>1. F \in Seq(Frame) /\ Frames(F) = {} /\ Proceed(F) /\ UNCHANGED graph
    BY <1>2, <1>3, FramesOfNone DEF End
  <2> HIDE DEF F
  <2>2. \A j \in Keys : Attends(Top, j) => state[j] = "absent"
    BY <1>1, <1>2, <1>3 DEF Attends
  <2> QED  BY <1>1, <2>1, <2>2, LoopWaits DEF graph
<1>4. CASE state[k] # "absent"
  <2> DEFINE H == {w \in Keys : k \in needs[w]}
             S == {w \in Keys : k \in members[w]}
             W == WantedBy(k)
             t == [op |-> "tell", key |-> k, err |-> Top.err, todo |-> W, hard |-> H, soft |-> S]
             D == Dropping(Wants(k))
             T == Telling(k, Top.err, W, H, S)
             C == Cut(Rest, k)
             F == D \o T
  <2>1. /\ state' = [state EXCEPT ![k] = "absent"]
        /\ ended' = [ended EXCEPT ![k] = {}]
        /\ stack' = F \o C
    BY <1>2, <1>4 DEF End, Cut
  <2>2. /\ needs' = [w \in Keys |-> [needs EXCEPT ![k] = {}][w] \ {k}]
        /\ members' = [w \in Keys |-> [members EXCEPT ![k] = {}][w] \ {k}]
    BY <1>2, <1>4 DEF End
  <2>3. Wants(k) \in SUBSET Keys /\ W \in SUBSET Keys /\ Top.err \in Outcome
    BY <1>1 DEF EndFrame, Wants, WantedBy, TypeOK, GraphTypeOK
  <2>4. D \in Seq(Frame) /\ \A f \in Frames(D) : f.op = "drop"
    BY <2>3, DroppingFrames
  <2>5. H \in SUBSET Keys /\ S \in SUBSET Keys /\ H \cup S \subseteq W
    BY DEF WantedBy, Wants
  <2>6. /\ t \in Frame /\ t.op = "tell" /\ t.key = k /\ t.todo = W /\ t.hard = H /\ t.soft = S
        /\ T = Loop(t)
    <3> HIDE DEF H, S, W
    <3> QED  BY <2>3, <2>5 DEF Telling, Frame, TellFrame
  <2> HIDE DEF t
  <2>7. T \in Seq(Frame) /\ Frames(T) = IF W = {} THEN {} ELSE {t}
    <3> HIDE DEF T
    <3> QED  BY <2>6, FramesOfLoop
  <2>8. C \in Seq(Frame) /\ Frames(C) = {Without(f, k) : f \in Frames(Rest)}
    BY <1>1, FramesCut
  <2>9. \A q \in Levels(C) : \E p \in Levels(Rest) : q = <<Without(p[1], k), {Without(a, k) : a \in p[2]}>>
    BY <1>1, LevelsCut
  <2>10. \A j \in Keys : k \in Outstanding(j) <=> j \in H \cup S
    BY DEF Outstanding
  <2> HIDE DEF D, T, C, H, S, W
  <2>11. F \in Seq(Frame) /\ Frames(F) = Frames(D) \cup Frames(T)
    BY <2>4, <2>7, FramesConcat
  <2>12. \A f \in Frames(F) : f.op \in {"drop", "tell"}
    BY <2>4, <2>6, <2>7, <2>11
  <2>13. \A j \in Keys : k \in Outstanding(j) => \E f \in Frames(F) : Attends(f, j) /\ Answers(f, j, k)
    <3> TAKE j \in Keys
    <3> SUFFICES ASSUME k \in Outstanding(j)
                 PROVE  t \in Frames(F) /\ Attends(t, j) /\ Answers(t, j, k)
      OBVIOUS
    <3> QED  BY <2>5, <2>6, <2>7, <2>10, <2>11 DEF Attends, Answers
  <2> HIDE DEF F
  <2>14. /\ Frames(F \o C) = Frames(F) \cup Frames(C)
         /\ Levels(F \o C) = Levels(F) \cup {<<p[1], p[2] \cup Frames(F)>> : p \in Levels(C)}
    BY <2>8, <2>11, FramesConcat, LevelsConcat
  <2>15. Frames(stack)' = Frames(F) \cup Frames(C)
    BY <2>1, <2>14 DEF Frames
  <2>16. Levels(stack)' = Levels(F) \cup {<<p[1], p[2] \cup Frames(F)>> : p \in Levels(C)}
    <3> DEFINE G == F \o C
    <3>1. stack' = G
      BY <2>1
    <3> HIDE DEF G
    <3>2. Levels(stack)' = Levels(G)
      BY <3>1 DEF Levels, Above
    <3> QED  BY <2>14, <3>2 DEF G
  <2>17. /\ Frames(stack) = {Top} \cup Frames(Rest) /\ Frames(Rest) \subseteq Frame
         /\ \A f \in Frames(Rest) : f.op # "prepare"
    BY <1>1, FramesOfStack DEF WantedInv, PrepareCurrent
  <2>18. /\ \A j \in Keys : j # k => state'[j] = state[j] /\ ended'[j] = ended[j]
         /\ state'[k] = "absent"
         /\ \A j \in Keys : j # k => needs'[j] \cup members'[j] = Outstanding(j) \ {k}
         /\ needs'[k] \cup members'[k] = {}
    BY <2>1, <2>2 DEF Outstanding, TypeOK, GraphTypeOK
  <2>19. NeedsWait'
    <3>1. \A j \in Keys : needs'[j] \cup members'[j] # {} => state'[j] = "waiting"
      BY <2>18 DEF WaitsInv, NeedsWait
    <3> QED  BY <3>1 DEF NeedsWait, Outstanding
  <2>20. ASSUME NEW j \in Keys, Idle(j)'
         PROVE  \E f \in Frames(stack)' : Attends(f, j)
    <3>1. state'[j] = "waiting" /\ needs'[j] \cup members'[j] = {}
      BY <2>20 DEF Idle, Outstanding
    <3>2. j # k /\ state[j] = "waiting" /\ Outstanding(j) \subseteq {k}
      BY <2>18, <3>1
    <3>3. CASE k \in Outstanding(j)
      BY <2>13, <2>15, <3>3
    <3>4. CASE k \notin Outstanding(j)
      <4>1. PICK f \in Frames(stack) : Attends(f, j)
        BY <3>2, <3>4 DEF WaitsInv, Idle
      <4>2. f \in Frames(Rest) /\ f \in Frame
        BY <1>1, <1>2, <2>17, <3>2, <4>1 DEF Attends
      <4>3. Attends(Without(f, k), j)
        BY <3>2, <4>1, <4>2, WithoutAnswers
      <4> QED  BY <2>8, <2>15, <4>2, <4>3
    <3> QED  BY <3>3, <3>4
  <2>21. \A f \in Frames(stack)' : f.op # "prepare"
    BY <2>8, <2>12, <2>15, <2>17, WithoutKeeps
  <2>22. ASSUME NEW q \in Levels(stack)'
         PROVE  Sound(state', ended', needs', members', q[1], q[2]) /\ NoReplaces(q[2])
    <3>1. CASE q \in Levels(F)
      BY <2>11, <2>12, <3>1, LevelsInFrames DEF Sound, NoReplaces
    <3>2. CASE q \notin Levels(F)
      <4>1. PICK c \in Levels(C) : q = <<c[1], c[2] \cup Frames(F)>>
        BY <2>16, <3>2
      <4>2. PICK p \in Levels(Rest) : c = <<Without(p[1], k), {Without(a, k) : a \in p[2]}>>
        BY <2>9
      <4> DEFINE o == <<p[1], p[2] \cup {Top}>>
      <4>3. o \in Levels(stack)
        BY <1>1, LevelsOfStack
      <4>4. o[1] = p[1] /\ o[2] = p[2] \cup {Top}
        OBVIOUS
      <4> HIDE DEF o
      <4>5. Sound(state, ended, needs, members, p[1], p[2] \cup {Top}) /\ NoReplaces(p[2])
        BY <4>3, <4>4 DEF WaitsInv, NoReplaces
      <4>6. p[1] \in Frame /\ p[2] \subseteq Frame
        BY <1>1, <2>17, LevelsInFrames
      <4> DEFINE f == p[1]
                 B == {Without(a, k) : a \in p[2]}
      <4>7. q[1] = Without(f, k) /\ q[2] = B \cup Frames(F)
        BY <4>1, <4>2
      <4>8. NoReplaces(q[2])
        <5>2. \A a \in Frame : Without(a, k).op = "replace" => a.op = "replace"
          BY DEF Without, Frame, PrepareFrame, LinkFrame, EndFrame, DropFrame, TellFrame, ReplaceFrame,
            WithdrawFrame
        <5> QED  BY <2>12, <4>5, <4>6, <4>7, <5>2 DEF NoReplaces
      <4>9. Sound(state', ended', needs', members', q[1], q[2])
        <5>1. SUFFICES ASSUME q[1].op = "link"
                       PROVE  Sound(state', ended', needs', members', q[1], q[2])
          BY DEF Sound
        <5>2. q[1] = f /\ f.op = "link" /\ f.key # k /\ f.key \in Keys
          BY <4>6, <4>7, <5>1, WithoutKeeps, CallHasKey DEF Calls
        <5>3. f.todo \subseteq Keys /\ f.hard \subseteq Keys /\ f.soft \subseteq Keys
          BY <4>6, <5>2 DEF Frame, PrepareFrame, LinkFrame, EndFrame, DropFrame, TellFrame, ReplaceFrame,
            WithdrawFrame
        <5> HIDE DEF f, B
        <5>4. \A d \in Keys : Past(state, ended, f.key, d) => Past(state', ended', f.key, d)
          BY <2>18, <5>2 DEF Past
        <5>5. ASSUME NEW d, NEW a \in p[2] \cup {Top}, Answers(a, f.key, d)
              PROVE  \E b \in q[2] : Answers(b, f.key, d)
          <6>1. a \in p[2]
            BY <1>1, <1>2, <5>2, <5>5 DEF Answers
          <6>2. Answers(Without(a, k), f.key, d)
            BY <4>6, <5>2, <5>5, <6>1, WithoutAnswers
          <6> QED  BY <4>7, <6>1, <6>2 DEF B
        <5>6. \A d \in Outstanding(f.key) :
                 d \in needs'[f.key] \cup members'[f.key] \/ \E b \in q[2] : Answers(b, f.key, d)
          BY <2>13, <2>18, <4>7, <5>2
        <5>7. Sound(state, ended, needs, members, f, p[2] \cup {Top})
          BY <4>5 DEF f
        <5>8. \A d \in (f.hard \cup f.soft) \ f.todo : state[f.key] = "waiting" =>
                 \/ Past(state', ended', f.key, d)
                 \/ d \in needs'[f.key] \cup members'[f.key]
                 \/ \E b \in q[2] : Answers(b, f.key, d)
          BY <5>2, <5>3, <5>4, <5>5, <5>6, <5>7 DEF Sound, Outstanding
        <5> QED  BY <2>18, <5>2, <5>3, <5>4, <5>7, <5>8 DEF Sound
      <4> QED  BY <4>8, <4>9
    <3> QED  BY <3>1, <3>2
  <2>23. \A f, g \in Frames(stack)' : SameAnswer(f, g)
    <3>1. \A f \in Frames(stack)' : f.op = "link" => f \in Frames(Rest)
      BY <2>8, <2>12, <2>15, <2>17, WithoutKeeps
    <3> QED  BY <2>17, <3>1 DEF WaitsInv, SameAnswer
  <2> QED  BY <2>19, <2>20, <2>21, <2>22, <2>23
           DEF WaitsInv, Sound, Past, NoReplaces, SameAnswer, Attends, Answers
<1> QED  BY <1>3, <1>4

\* The calls, Start and the return of a run: nothing was under way before.
LEMMA SettledWaits ==
  ASSUME WaitsInv, stack = <<>>, NEW F \in Seq(Frame), stack' = F, NeedsWait',
         \A k \in Keys : Idle(k)' => Idle(k) \/ \E f \in Frames(F) : Attends(f, k),
         \A f \in Frames(F) : /\ f.op # "link"
                              /\ f.op = "prepare" => state'[f.key] \in {"waiting", "running"},
         \A p \in Levels(F) : NoReplaces(p[2])
  PROVE  WaitsInv'
<1>1. \A k \in Keys : ~Idle(k)
  BY FramesOfNone DEF WaitsInv
<1>2. Frames(stack)' = Frames(F) /\ Levels(stack)' = Levels(F)
  BY DEF Frames, Levels, Above
<1>3. \A p \in Levels(F) : p[1] \in Frames(F)
  BY LevelsInFrames
<1>4. \A f \in Frames(F) : \A A : Sound(state', ended', needs', members', f, A)
  BY DEF Sound
<1>5. \A k \in Keys : Idle(k)' => \E f \in Frames(stack)' : Attends(f, k)
  BY <1>1, <1>2
<1>6. \A f, g \in Frames(stack)' : SameAnswer(f, g)
  BY <1>2 DEF SameAnswer
<1> QED  BY <1>2, <1>3, <1>4, <1>5, <1>6
         DEF WaitsInv, Sound, Past, NoReplaces, SameAnswer, Attends, Answers

LEMMA SettledAdd ==
  ASSUME GraphTypeOK, WaitsInv, stack = <<>>, NEW k \in Keys, stack' = <<Preparing(k)>>,
         state[k] = "absent", Add(k), UNCHANGED <<needs, members>>
  PROVE  WaitsInv'
<1> DEFINE e == Preparing(k)
           F == <<e>>
<1>1. e \in Frame /\ e.op = "prepare" /\ e.key = k /\ stack' = F
  BY PreparingType DEF Preparing
<1> HIDE DEF e
<1>2. F \in Seq(Frame) /\ Frames(F) = {e} /\ \A p \in Levels(F) : p[2] = {}
  BY <1>1, OneLevel
<1> HIDE DEF F
<1>3. (\A j \in Keys : j # k => state'[j] = state[j]) /\ state'[k] = "waiting"
  BY DEF Add, GraphTypeOK
<1>4. NeedsWait'
  BY <1>3 DEF WaitsInv, NeedsWait, Outstanding
<1>5. \A j \in Keys : Idle(j)' => Idle(j) \/ \E f \in Frames(F) : Attends(f, j)
  BY <1>1, <1>2, <1>3 DEF Idle, Outstanding, Attends
<1> QED  BY <1>1, <1>2, <1>3, <1>4, <1>5, SettledWaits DEF NoReplaces

LEMMA SettledCalls ==
  ASSUME WaitsInv, stack = <<>>, NEW F \in Seq(Frame), stack' = F,
         UNCHANGED <<state, needs, members>>,
         \A f \in Frames(F) : /\ f.op # "link"
                              /\ f.op = "prepare" => state[f.key] \in {"waiting", "running"},
         \A p \in Levels(F) : NoReplaces(p[2])
  PROVE  WaitsInv'
<1>1. NeedsWait' /\ \A k \in Keys : Idle(k)' => Idle(k)
  BY DEF WaitsInv, NeedsWait, Idle, Outstanding
<1> QED  BY <1>1, SettledWaits

LEMMA SettledOne ==
  ASSUME WaitsInv, stack = <<>>, NEW e \in Frame, stack' = <<e>>,
         UNCHANGED <<state, needs, members>>, e.op # "link",
         e.op = "prepare" => state[e.key] \in {"waiting", "running"}
  PROVE  WaitsInv'
<1> DEFINE F == <<e>>
<1>1. F \in Seq(Frame) /\ Frames(F) = {e} /\ (\A p \in Levels(F) : p[2] = {}) /\ stack' = F
  BY OneLevel
<1> HIDE DEF F
<1> QED  BY <1>1, SettledCalls DEF NoReplaces

LEMMA SettledStays ==
  ASSUME WaitsInv, stack = <<>>, UNCHANGED <<stack, state, needs, members>>
  PROVE  WaitsInv'
<1>1. <<>> \in Seq(Frame) /\ Frames(<<>>) = {} /\ Levels(<<>>) = {}
  BY FramesOfNone, LevelsOfNone
<1>2. NeedsWait' /\ \A k \in Keys : Idle(k)' => Idle(k)
  BY DEF WaitsInv, NeedsWait, Idle, Outstanding
<1> QED  BY <1>1, <1>2, SettledWaits

LEMMA AskingWaits ==
  ASSUME TypeOK, WaitsInv, Dispatched, Asking
  PROVE  WaitsInv'
<1>1. stack = <<>> /\ UNCHANGED <<needs, members>> /\ GraphTypeOK
  BY DEF Asking, Request, Raise, Replace, Adopt, Call, Dispatched, graph, TypeOK
<1>2. ASSUME NEW k \in Keys,
             \/ state[k] = "absent" /\ Add(k) /\ stack' = <<Preparing(k)>>
             \/ UNCHANGED <<state, stack>>
      PROVE  WaitsInv'
  BY <1>1, <1>2, SettledAdd, SettledStays
<1>3. ASSUME NEW s \in Sources, NEW p \in Prios, NEW K \in Batches, Replace(s, p, K)
      PROVE  WaitsInv'
  <2> DEFINE e == Replacing(s, p, K, K)
  <2>1. K \in SUBSET Keys
    BY SchedAssumption
  <2>2. e \in Frame /\ e.op = "replace"
    BY <2>1, ReplacingType DEF Replacing
  <2>3. stack' = <<e>> /\ UNCHANGED <<state, needs, members>>
    BY <1>3 DEF Replace, graph
  <2> HIDE DEF e
  <2> QED  BY <1>1, <2>2, <2>3, SettledOne
<1>4. \A s \in Sources, p \in Prios, k \in Keys : Request(s, p, k) =>
        \/ state[k] = "absent" /\ Add(k) /\ stack' = <<Preparing(k)>>
        \/ UNCHANGED <<state, stack>>
  BY DEF Request
<1>5. \A s \in Sources, p \in Prios, k \in Keys : Raise(s, p, k) => UNCHANGED <<state, stack>>
  BY DEF Raise
<1>6. \A w, k \in Keys : Adopt(w, k) =>
        \/ state[k] = "absent" /\ Add(k) /\ stack' = <<Preparing(k)>>
        \/ UNCHANGED <<state, stack>>
  BY DEF Adopt
<1> QED  BY <1>2, <1>3, <1>4, <1>5, <1>6 DEF Asking

LEMMA StoppingWaits ==
  ASSUME TypeOK, WaitsInv, Dispatched, Stopping
  PROVE  WaitsInv'
<1>1. stack = <<>> /\ UNCHANGED <<state, needs, members>>
  BY DEF Stopping, Withdraw, Cancel, CancelWhere, SetGate, Close, Call, Dispatched, graph
<1>2. ASSUME NEW F \in Seq(Frame), stack' = F, \A f \in Frames(F) : f.op \in {"withdraw", "cancel"}
      PROVE  WaitsInv'
  <2>1. \A p \in Levels(F) : NoReplaces(p[2])
    BY <1>2, LevelsInFrames DEF NoReplaces
  <2> QED  BY <1>1, <1>2, <2>1, SettledCalls
<1>3. ASSUME NEW s \in Sources, NEW K \in Batches, Withdraw(s, K)
      PROVE  WaitsInv'
  <2>1. K \in SUBSET Keys
    BY SchedAssumption
  <2> QED  BY <1>2, <1>3, <2>1, WithdrawingFrames DEF Withdraw
<1>4. ASSUME NEW K \in Batches, CancelWhere(K)
      PROVE  WaitsInv'
  <2>1. K \in SUBSET Keys
    BY SchedAssumption
  <2> QED  BY <1>2, <1>4, <2>1, CancelingFrames DEF CancelWhere
<1>5. ASSUME NEW k \in Keys, Cancel(k)
      PROVE  WaitsInv'
  <2>1. CASE state[k] = "running"
    <3>1. UNCHANGED stack
      BY <1>1, <1>5, <2>1 DEF Cancel, CancelNode
    <3> QED  BY <1>1, <3>1, SettledStays
  <2>2. CASE state[k] # "running"
    <3> DEFINE e == Ending(k, "canceled")
    <3>1. stack' = <<e>> \o <<>>
      BY <1>5, <2>2 DEF Cancel, CancelNode
    <3>2. e \in Frame /\ e.op = "end"
      BY EndingType DEF Outcome, Ending
    <3> HIDE DEF e
    <3>3. <<e>> \o <<>> = <<e>>
      BY <3>2, FramesOfOne, ConcatEmptySeq
    <3> QED  BY <1>1, <3>1, <3>2, <3>3, SettledOne
  <2> QED  BY <2>1, <2>2
<1>6. CASE (\E g \in Gates : SetGate(g)) \/ Close
  <2>1. UNCHANGED stack
    BY <1>6 DEF SetGate, Close
  <2> QED  BY <1>1, <2>1, SettledStays
<1> QED  BY <1>3, <1>4, <1>5, <1>6 DEF Stopping

LEMMA RunsWait ==
  ASSUME TypeOK, WaitsInv, Dispatched,
         \/ \E k \in Keys : Start(k)
         \/ \E k \in Keys, r \in Results : Finish(k, r)
  PROVE  WaitsInv'
<1>1. stack = <<>> /\ UNCHANGED <<needs, members>>
  BY DEF Start, Finish, Dispatched
<1>2. ASSUME NEW k \in Keys, Start(k)
      PROVE  WaitsInv'
  <2>1. state[k] = "ready"
    BY <1>2 DEF Start, Candidates, Foreign, Admissible
  <2>2. /\ \A j \in Keys : j # k => state'[j] = state[j]
        /\ state'[k] = "running" /\ UNCHANGED stack
    BY <1>2 DEF Start, TypeOK, GraphTypeOK
  <2>3. NeedsWait' /\ \A j \in Keys : Idle(j)' => Idle(j)
    BY <1>1, <2>1, <2>2 DEF WaitsInv, NeedsWait, Idle, Outstanding
  <2>4. <<>> \in Seq(Frame) /\ Frames(<<>>) = {} /\ Levels(<<>>) = {}
    BY FramesOfNone, LevelsOfNone
  <2> QED  BY <1>1, <2>2, <2>3, <2>4, SettledWaits
<1>3. ASSUME NEW k \in Keys, NEW r \in Results, Finish(k, r)
      PROVE  WaitsInv'
  <2>1. state[k] = "running" /\ UNCHANGED state
    BY <1>3 DEF Finish
  <2>2. ASSUME stack' = <<Preparing(k)>>
        PROVE  WaitsInv'
    <3> DEFINE e == Preparing(k)
    <3>1. e \in Frame /\ e.op = "prepare" /\ e.key = k /\ stack' = <<e>>
      BY <2>2, PreparingType DEF Preparing
    <3> HIDE DEF e
    <3> QED  BY <1>1, <2>1, <3>1, SettledOne
  <2>3. ASSUME NEW r2 \in Outcome, stack' = <<Ending(k, r2)>>
        PROVE  WaitsInv'
    <3> DEFINE e == Ending(k, r2)
    <3>1. e \in Frame /\ e.op = "end" /\ stack' = <<e>>
      BY <2>3, EndingType DEF Ending
    <3> HIDE DEF e
    <3> QED  BY <1>1, <2>1, <3>1, SettledOne
  <2> QED  BY <1>3, <2>2, <2>3 DEF Finish, Outcome
<1> QED  BY <1>2, <1>3

LEMMA WaitsInductive ==
  ASSUME TypeOK, Dispatched, WantedInv, WaitsInv, [Next]_vars
  PROVE  WaitsInv'
<1>1. CASE Asking \/ Stopping
  BY <1>1, AskingWaits, StoppingWaits
<1>2. CASE Cascade
  BY <1>2, PrepareWaits, LinkWaits, LinkedWaits, EndWaits, TellWaits, ReplaceNextWaits, LoopsWait
     DEF Cascade
<1>3. CASE (\E k \in Keys : Start(k)) \/ (\E k \in Keys, r \in Results : Finish(k, r))
  BY <1>3, RunsWait
<1>4. CASE Unlock \/ DwellEnds \/ TimerFires \/ UNCHANGED vars
  <2>1. UNCHANGED <<graph, stack>>
    BY <1>4 DEF Unlock, DwellEnds, TimerFires, vars
  <2> QED  BY <2>1
           DEF graph, WaitsInv, NeedsWait, Idle, Outstanding, Frames, Levels, Above, Sound, Past,
               NoReplaces, SameAnswer, Attends, Answers
<1> QED  BY <1>1, <1>2, <1>3, <1>4 DEF Next

LEMMA WaitsInit ==
  ASSUME Init
  PROVE  WaitsInv
BY FramesOfNone, LevelsOfNone DEF Init, WaitsInv, NeedsWait, Idle, Outstanding

\* Once a cascade is over, a task waits exactly if something it needs has not
\* ended: no task starts before what it needs, and none is left waiting for what
\* has ended already, however the prepares, ends and tells of the cascade nest
\* (prepare, end, notify).
THEOREM WaitsExactlyForNeeds == Spec => []WaitsForSomething
<1>0. Init => QuietStack
  BY DEF Init, QuietStack
<1>1. Init => WaitsInv /\ WantedInv
  BY WaitsInit, WantedInit
<1>2. TypeOK /\ QuietStack /\ [Next]_vars => QuietStack'
  BY QuietInductive
<1>3. TypeOK /\ QuietStack /\ Dispatched /\ WantedInv /\ [Next]_vars => WantedInv'
  BY WantedInductive
<1>4. TypeOK /\ Dispatched /\ WantedInv /\ WaitsInv /\ [Next]_vars => WaitsInv'
  BY WaitsInductive
<1>5. WaitsInv => WaitsForSomething
  BY FramesOfNone DEF WaitsInv, WaitsForSomething, Settled, NeedsWait, Idle, Outstanding, Live
<1> QED  BY <1>0, <1>1, <1>2, <1>3, <1>4, <1>5, TypeCorrect, DispatchedAlways, PTL DEF Spec

-----------------------------------------------------------------------------
(* What Closure reaches: the least set that holds its first keys and whatever  *)
(* is outstanding of each.                                                     *)

Depth == Cardinality(Keys)

\* One more step along what nd and mb say is outstanding.
Further(nd, mb, R) == R \cup UNION {nd[k] \cup mb[k] : k \in R}
Body(nd, mb, K, f) == [i \in 0 .. Depth |-> IF i = 0 THEN K ELSE Further(nd, mb, f[i - 1])]
Reached(nd, mb, K) == (CHOOSE f : f = Body(nd, mb, K, f))[Depth]

Shut(nd, mb, S) == \A k \in S : nd[k] \cup mb[k] \subseteq S

LEMMA DepthNat == Depth \in Nat
BY SchedAssumption, FS_CardinalityType DEF Depth

LEMMA ReachesReached ==
  ASSUME NEW d, NEW k
  PROVE  Reaches(d, k) <=> k \in Reached(needs, members, {d})
BY DEF Reaches, Closure, Outstanding, Reached, Body, Further, Depth

LEMMA CycleReached ==
  NoNeedCycle <=> \A k \in Keys : k \notin Reached(needs, members, needs[k] \cup members[k])
BY DEF NoNeedCycle, Closure, Reached, Body, Further, Depth

\* A set of naturals that has 0, and with each of its elements the next, has all.
LEMMA NatByStep ==
  ASSUME NEW P, 0 \in P, \A n \in Nat : n \in P => n + 1 \in P
  PROVE  \A n \in Nat : n \in P
<1> DEFINE S == {n \in Nat : n \notin P}
<1>1. SUFFICES ASSUME S # {} PROVE FALSE
  OBVIOUS
<1>2. PICK x \in S : \A y \in S : x <= y
  <2>1. S \in SUBSET Nat
    OBVIOUS
  <2> HIDE DEF S
  <2> QED  BY <1>1, <2>1, MinOfIn
<1>3. x \in Nat /\ x # 0 /\ x \notin P
  BY <1>2
<1>4. x - 1 \in Nat /\ (x - 1) + 1 = x /\ ~(x <= x - 1)
  BY <1>3
<1>5. x - 1 \notin S
  BY <1>2, <1>4
<1>6. x - 1 \in P
  BY <1>4, <1>5
<1> QED  BY <1>3, <1>4, <1>6

LinkTypes(nd, mb) == nd \in [Keys -> SUBSET Keys] /\ mb \in [Keys -> SUBSET Keys]

\* The first n steps from K.
Steps(nd, mb, K, n, f) ==
  /\ f \in [0 .. n -> SUBSET Keys]
  /\ f[0] = K
  /\ \A i \in 1 .. n : f[i] = Further(nd, mb, f[i - 1])

LEMMA FurtherType ==
  ASSUME NEW nd, NEW mb, LinkTypes(nd, mb), NEW R \in SUBSET Keys
  PROVE  Further(nd, mb, R) \in SUBSET Keys
BY DEF LinkTypes, Further

LEMMA StepsExist ==
  ASSUME NEW nd, NEW mb, LinkTypes(nd, mb), NEW K \in SUBSET Keys, NEW n \in Nat
  PROVE  \E f : Steps(nd, mb, K, n, f)
<1> DEFINE P == {m \in Nat : \E f : Steps(nd, mb, K, m, f)}
<1>1. 0 \in P
  <2> DEFINE f == [i \in 0 .. 0 |-> K]
  <2>1. f \in [0 .. 0 -> SUBSET Keys] /\ f[0] = K /\ 1 .. 0 = {}
    OBVIOUS
  <2> HIDE DEF f
  <2>2. Steps(nd, mb, K, 0, f)
    BY <2>1 DEF Steps
  <2> QED  BY <2>2
<1>2. ASSUME NEW m \in Nat, m \in P
      PROVE  m + 1 \in P
  <2>1. PICK f : Steps(nd, mb, K, m, f)
    BY <1>2
  <2> DEFINE last == Further(nd, mb, f[m])
             g == [i \in 0 .. m + 1 |-> IF i <= m THEN f[i] ELSE last]
  <2>2. f \in [0 .. m -> SUBSET Keys] /\ m \in 0 .. m /\ 0 \in 0 .. m
    BY <2>1 DEF Steps
  <2>3. last \in SUBSET Keys
    BY <2>2, FurtherType
  <2>4. g[m + 1] = last /\ \A i \in 0 .. m : g[i] = f[i]
    BY <2>2
  <2>5. g \in [0 .. m + 1 -> SUBSET Keys] /\ g[0] = K
    <3>1. g[0] = K
      BY <2>1, <2>2, <2>4 DEF Steps
    <3>2. \A i \in 0 .. m + 1 : (IF i <= m THEN f[i] ELSE last) \in SUBSET Keys
      <4> HIDE DEF last
      <4> QED  BY <2>2, <2>3
    <3> HIDE DEF last
    <3> QED  BY <3>1, <3>2
  <2>6. \A i \in 1 .. m + 1 : g[i] = Further(nd, mb, g[i - 1])
    <3> HIDE DEF g
    <3>1. TAKE i \in 1 .. m + 1
    <3>2. CASE i = m + 1
      <4>1. i - 1 = m
        BY <3>2
      <4> QED  BY <2>2, <2>4, <3>2, <4>1
    <3>3. CASE i \in 1 .. m
      <4>1. i - 1 \in 0 .. m /\ i \in 0 .. m
        BY <3>3
      <4> QED  BY <2>1, <2>4, <3>3, <4>1 DEF Steps
    <3> QED  BY <3>2, <3>3
  <2> HIDE DEF g
  <2>7. Steps(nd, mb, K, m + 1, g)
    BY <2>5, <2>6 DEF Steps
  <2> QED  BY <2>7
<1> HIDE DEF P
<1>3. n \in P
  BY <1>1, <1>2, NatByStep
<1> QED  BY <1>3 DEF P

\* The set Closure takes is the last of Depth steps.
LEMMA ReachedBySteps ==
  ASSUME NEW nd, NEW mb, LinkTypes(nd, mb), NEW K \in SUBSET Keys
  PROVE  \E f : Steps(nd, mb, K, Depth, f) /\ Reached(nd, mb, K) = f[Depth]
<1>1. PICK f : Steps(nd, mb, K, Depth, f)
  BY StepsExist, DepthNat
<1>2. \A i \in 0 .. Depth : f[i] = IF i = 0 THEN K ELSE Further(nd, mb, f[i - 1])
  <2>1. TAKE i \in 0 .. Depth
  <2>2. i = 0 \/ i \in 1 .. Depth
    BY DepthNat
  <2> QED  BY <1>1, <2>2 DEF Steps
<1>3. f = [i \in 0 .. Depth |-> f[i]]
  BY <1>1 DEF Steps
<1>4. f = Body(nd, mb, K, f)
  BY <1>2, <1>3, Zenon DEF Body
<1> DEFINE g == CHOOSE h : h = Body(nd, mb, K, h)
<1>5. g = Body(nd, mb, K, g)
  BY <1>4, Zenon
<1>6. Reached(nd, mb, K) = g[Depth]
  BY DEF Reached
<1> HIDE DEF g
<1>7. /\ DOMAIN g = 0 .. Depth /\ g = [i \in 0 .. Depth |-> g[i]]
      /\ \A i \in 0 .. Depth : g[i] = IF i = 0 THEN K ELSE Further(nd, mb, g[i - 1])
  BY <1>5 DEF Body
<1>8. g[0] = K /\ \A i \in 1 .. Depth : g[i] = Further(nd, mb, g[i - 1])
  <2>1. 0 \in 0 .. Depth /\ \A i \in 1 .. Depth : i \in 0 .. Depth /\ i # 0
    BY DepthNat
  <2> QED  BY <1>7, <2>1
<1>9. \A i \in 0 .. Depth : g[i] \in SUBSET Keys
  <2> DEFINE P == {m \in Nat : m \in 0 .. Depth => g[m] \in SUBSET Keys}
  <2>1. 0 \in P
    BY <1>8
  <2>2. ASSUME NEW m \in Nat, m \in P
        PROVE  m + 1 \in P
    <3>1. SUFFICES ASSUME m + 1 \in 0 .. Depth
                   PROVE  g[m + 1] \in SUBSET Keys
      OBVIOUS
    <3>2. m \in 0 .. Depth /\ m + 1 \in 1 .. Depth /\ (m + 1) - 1 = m
      BY <3>1, DepthNat
    <3>3. g[m] \in SUBSET Keys
      BY <2>2, <3>2
    <3>4. g[m + 1] = Further(nd, mb, g[m])
      BY <1>8, <3>2
    <3> QED  BY <3>3, <3>4, FurtherType
  <2> HIDE DEF P
  <2>3. \A m \in Nat : m \in P
    BY <2>1, <2>2, NatByStep
  <2>4. \A i \in 0 .. Depth : i \in P
    BY <2>3, DepthNat
  <2> QED  BY <2>4 DEF P
<1>10. Steps(nd, mb, K, Depth, g)
  BY <1>7, <1>8, <1>9 DEF Steps
<1> QED  BY <1>6, <1>10

\* No further than any set that is shut.
LEMMA ReachedWithin ==
  ASSUME NEW nd, NEW mb, LinkTypes(nd, mb), NEW S \in SUBSET Keys, Shut(nd, mb, S),
         NEW K \in SUBSET S
  PROVE  Reached(nd, mb, K) \subseteq S
<1>1. PICK f : Steps(nd, mb, K, Depth, f) /\ Reached(nd, mb, K) = f[Depth]
  BY ReachedBySteps
<1> DEFINE P == {m \in Nat : m \in 0 .. Depth => f[m] \subseteq S}
<1>2. 0 \in P
  BY <1>1 DEF Steps
<1>3. ASSUME NEW m \in Nat, m \in P
      PROVE  m + 1 \in P
  <2>1. SUFFICES ASSUME m + 1 \in 0 .. Depth
                 PROVE  f[m + 1] \subseteq S
    OBVIOUS
  <2>2. m \in 0 .. Depth /\ m + 1 \in 1 .. Depth /\ (m + 1) - 1 = m
    BY <2>1, DepthNat
  <2>3. f[m] \subseteq S /\ f[m + 1] = Further(nd, mb, f[m])
    BY <1>1, <1>3, <2>2 DEF Steps
  <2> QED  BY <2>3 DEF Further, Shut
<1> HIDE DEF P
<1>4. Depth \in P
  BY <1>2, <1>3, NatByStep, DepthNat
<1> QED  BY <1>1, <1>4, DepthNat DEF P

\* What is reached from a key is shut: each step that is not the last one finds
\* another key, so Depth steps are enough.
LEMMA ReachedShut ==
  ASSUME NEW nd, NEW mb, LinkTypes(nd, mb), NEW d \in Keys
  PROVE  /\ d \in Reached(nd, mb, {d}) /\ Reached(nd, mb, {d}) \in SUBSET Keys
         /\ Shut(nd, mb, Reached(nd, mb, {d}))
<1>1. PICK f : Steps(nd, mb, {d}, Depth, f) /\ Reached(nd, mb, {d}) = f[Depth]
  BY ReachedBySteps
<1> DEFINE P == {m \in Nat : m \in 0 .. Depth =>
                   d \in f[m] /\ (Shut(nd, mb, f[m]) \/ Cardinality(f[m]) > m)}
<1>2. 0 \in P
  <2>1. f[0] = {d} /\ Cardinality({d}) = 1
    BY <1>1, FS_Singleton DEF Steps
  <2> QED  BY <2>1
<1>3. ASSUME NEW m \in Nat, m \in P
      PROVE  m + 1 \in P
  <2>1. SUFFICES ASSUME m + 1 \in 0 .. Depth
                 PROVE  d \in f[m + 1] /\ (Shut(nd, mb, f[m + 1]) \/ Cardinality(f[m + 1]) > m + 1)
    OBVIOUS
  <2>2. m \in 0 .. Depth /\ m + 1 \in 1 .. Depth /\ (m + 1) - 1 = m
    BY <2>1, DepthNat
  <2>3. /\ d \in f[m] /\ (Shut(nd, mb, f[m]) \/ Cardinality(f[m]) > m)
        /\ f[m + 1] = Further(nd, mb, f[m])
        /\ f[m] \in SUBSET Keys /\ f[m + 1] \in SUBSET Keys
    BY <1>1, <1>3, <2>1, <2>2 DEF Steps
  <2>4. CASE Shut(nd, mb, f[m])
    <3>1. f[m + 1] = f[m]
      BY <2>3, <2>4 DEF Further, Shut
    <3> QED  BY <2>3, <2>4, <3>1
  <2>5. CASE ~Shut(nd, mb, f[m])
    <3>1. PICK x \in f[m] : \E y \in nd[x] \cup mb[x] : y \notin f[m]
      BY <2>5 DEF Shut
    <3>2. PICK y \in nd[x] \cup mb[x] : y \notin f[m]
      BY <3>1
    <3>3. f[m] \cup {y} \subseteq f[m + 1]
      BY <2>3, <3>2 DEF Further
    <3>4. IsFiniteSet(f[m]) /\ IsFiniteSet(f[m + 1])
      BY <2>3, SchedAssumption, FS_Subset
    <3>5. Cardinality(f[m] \cup {y}) = Cardinality(f[m]) + 1
      BY <3>2, <3>4, FS_AddElement
    <3>6. Cardinality(f[m] \cup {y}) <= Cardinality(f[m + 1])
      BY <3>3, <3>4, FS_Subset
    <3>7. Cardinality(f[m]) \in Nat /\ Cardinality(f[m + 1]) \in Nat
      BY <3>4, FS_CardinalityType
    <3> QED  BY <2>3, <2>5, <3>3, <3>5, <3>6, <3>7
  <2> QED  BY <2>4, <2>5
<1> HIDE DEF P
<1>4. Depth \in P
  BY <1>2, <1>3, NatByStep, DepthNat
<1>5. d \in f[Depth] /\ (Shut(nd, mb, f[Depth]) \/ Cardinality(f[Depth]) > Depth)
  BY <1>4, DepthNat DEF P
<1>6. f[Depth] \in SUBSET Keys
  BY <1>1, DepthNat DEF Steps
<1>7. ~(Cardinality(f[Depth]) > Depth)
  <2>1. Cardinality(f[Depth]) <= Depth /\ IsFiniteSet(f[Depth])
    BY <1>6, SchedAssumption, FS_Subset DEF Depth
  <2> QED  BY <2>1, DepthNat, FS_CardinalityType
<1> QED  BY <1>1, <1>5, <1>6, <1>7

-----------------------------------------------------------------------------
(* Nothing waits for itself.                                                   *)

\* For each key, a shut set has what it needs and not the key.
Acyclic(nd, mb) ==
  \A k \in Keys : \E S \in SUBSET Keys :
    Shut(nd, mb, S) /\ nd[k] \cup mb[k] \subseteq S /\ k \notin S

LEMMA AcyclicNoCycle ==
  ASSUME TypeOK, Acyclic(needs, members)
  PROVE  NoNeedCycle
<1>1. LinkTypes(needs, members)
  BY DEF TypeOK, GraphTypeOK, LinkTypes
<1>2. ASSUME NEW k \in Keys
      PROVE  k \notin Reached(needs, members, needs[k] \cup members[k])
  <2>1. PICK S \in SUBSET Keys : Shut(needs, members, S) /\ needs[k] \cup members[k] \subseteq S
                                 /\ k \notin S
    BY DEF Acyclic
  <2> QED  BY <1>1, <2>1, ReachedWithin
<1> QED  BY <1>2, CycleReached

\* Fewer needs make no cycle.
LEMMA AcyclicFewer ==
  ASSUME NEW nd, NEW mb, Acyclic(nd, mb), NEW nd2, NEW mb2,
         \A k \in Keys : nd2[k] \cup mb2[k] \subseteq nd[k] \cup mb[k]
  PROVE  Acyclic(nd2, mb2)
BY DEF Acyclic, Shut

\* A new link from k to d makes no cycle, unless k is reached from d.
LEMMA AcyclicLinked ==
  ASSUME NEW nd, NEW mb, Acyclic(nd, mb), NEW nd2, NEW mb2, NEW k \in Keys, NEW d \in Keys,
         \A j \in Keys : nd2[j] \cup mb2[j] =
           IF j = k THEN nd[j] \cup mb[j] \cup {d} ELSE nd[j] \cup mb[j],
         NEW T \in SUBSET Keys, Shut(nd, mb, T), d \in T, k \notin T
  PROVE  Acyclic(nd2, mb2)
<1>1. SUFFICES ASSUME NEW j \in Keys
               PROVE  \E S \in SUBSET Keys :
                        Shut(nd2, mb2, S) /\ nd2[j] \cup mb2[j] \subseteq S /\ j \notin S
  BY DEF Acyclic
<1>2. PICK S \in SUBSET Keys : Shut(nd, mb, S) /\ nd[j] \cup mb[j] \subseteq S /\ j \notin S
  BY DEF Acyclic
<1>3. CASE j = k
  <2>1. Shut(nd2, mb2, S \cup T) /\ nd2[j] \cup mb2[j] \subseteq S \cup T /\ j \notin S \cup T
    BY <1>2, <1>3 DEF Shut
  <2> QED  BY <2>1
<1>4. CASE j # k /\ k \notin S
  <2>1. Shut(nd2, mb2, S) /\ nd2[j] \cup mb2[j] \subseteq S
    BY <1>2, <1>4 DEF Shut
  <2> QED  BY <1>2, <2>1
<1>5. CASE j # k /\ j \in T
  <2>1. Shut(nd2, mb2, S \cap T) /\ nd2[j] \cup mb2[j] \subseteq S \cap T /\ j \notin S \cap T
    BY <1>2, <1>5 DEF Shut
  <2> QED  BY <2>1
<1>6. CASE j # k /\ k \in S /\ j \notin T
  <2>1. Shut(nd2, mb2, S \cup T) /\ nd2[j] \cup mb2[j] \subseteq S \cup T /\ j \notin S \cup T
    BY <1>2, <1>6 DEF Shut
  <2> QED  BY <2>1
<1> QED  BY <1>3, <1>4, <1>5, <1>6

LEMMA AcyclicStep ==
  ASSUME TypeOK, Acyclic(needs, members), [Next]_vars
  PROVE  Acyclic(needs, members)'
<1>0. LinkTypes(needs, members)
  BY DEF TypeOK, GraphTypeOK, LinkTypes
<1>1. CASE Link
  <2>1. PICK d \in Top.todo :
          \/ UNCHANGED <<needs, members>>
          \/ /\ ~Reaches(d, Top.key)
             /\ \/ needs' = [needs EXCEPT ![Top.key] = @ \cup {d}] /\ UNCHANGED members
                \/ members' = [members EXCEPT ![Top.key] = @ \cup {d}] /\ UNCHANGED needs
    BY <1>1 DEF Link
  <2>2. CASE UNCHANGED <<needs, members>>
    BY <2>2
  <2>3. CASE ~UNCHANGED <<needs, members>>
    <3>1. Top.key \in Keys /\ d \in Keys
      <4>1. ControlTypeOK /\ stack # <<>> /\ Top.op = "link"
        BY <1>1 DEF TypeOK, Link, OnTop
      <4>2. Top \in LinkFrame
        BY <4>1, TopTypes
      <4> QED  BY <4>2 DEF LinkFrame
    <3> DEFINE T == Reached(needs, members, {d})
    <3>2. d \in T /\ T \in SUBSET Keys /\ Shut(needs, members, T)
      BY <1>0, <3>1, ReachedShut
    <3>3. Top.key \notin T
      BY <2>1, <2>3, ReachesReached
    <3>4. \A j \in Keys : (needs[j] \cup members[j])' =
            IF j = Top.key THEN needs[j] \cup members[j] \cup {d} ELSE needs[j] \cup members[j]
      BY <1>0, <2>1, <2>3, <3>1 DEF LinkTypes
    <3> HIDE DEF T
    <3> QED  BY <3>1, <3>2, <3>3, <3>4, AcyclicLinked
  <2> QED  BY <2>2, <2>3
<1>2. CASE End
  <2>1. \A k \in Keys : needs'[k] \cup members'[k] \subseteq needs[k] \cup members[k]
    BY <1>0, <1>2 DEF End, LinkTypes, graph
  <2> QED  BY <2>1, AcyclicFewer
<1>3. CASE UNCHANGED <<needs, members>>
  BY <1>3
<1>4. [Next]_vars => Link \/ End \/ UNCHANGED <<needs, members>>
  BY DEF Next, Asking, Stopping, Cascade, Request, Raise, Replace, Adopt, Withdraw, Cancel,
     CancelWhere, SetGate, Close, Prepare, Linked, Drop, CancelPicked, Tell, ReplaceNext,
     WithdrawNext, Return, Start, Unlock, Finish, DwellEnds, TimerFires, vars, graph
<1> QED  BY <1>1, <1>2, <1>3, <1>4

\* Nothing waits for itself through what it needs, however many prepares built
\* the links and however they nest: prepare links a need only after it has
\* looked whether the need reaches back (reaches), and looks at every depth.
THEOREM NothingNeedsItself == Spec => []NoNeedCycle
<1>1. Init => Acyclic(needs, members)
  BY DEF Init, Acyclic, Shut
<1>2. TypeOK /\ Acyclic(needs, members) /\ [Next]_vars => Acyclic(needs, members)'
  BY AcyclicStep
<1>3. TypeOK /\ Acyclic(needs, members) => NoNeedCycle
  BY AcyclicNoCycle
<1> QED  BY <1>1, <1>2, <1>3, TypeCorrect, PTL DEF Spec


-----------------------------------------------------------------------------
(* The contract with each task. A key is seen through what is on top of the    *)
(* stack: a call of end or prepare is under way only there.                    *)

Current == {"end", "prepare"}
Calm(s) == \A f \in Frames(s) : f.op \notin Current
CallsCurrent == stack # <<>> => Calm(Rest)

\* What a step does to the key k keeps the contract.
Kept(k) == UNCHANGED Task(k)!vars \/ Task(k)!Next

\* No end and no prepare is under way.
Between == ~OnTop("end") /\ ~OnTop("prepare")

LEMMA HeadOfPush ==
  ASSUME NEW e \in Frame, NEW G \in Seq(Frame)
  PROVE  /\ <<e>> \o G # <<>>
         /\ Head(<<e>> \o G) = e /\ Tail(<<e>> \o G) = G
<1>1. Len(<<e>> \o G) = Len(G) + 1 /\ Len(G) \in Nat
  BY ConcatProperties, FramesOfOne, LenProperties
<1>2. <<e>> \o G # <<>> /\ <<e>> \o G \in Seq(Frame)
  BY <1>1, FramesOfOne, ConcatProperties
<1>. QED  BY <1>2, SMT

\* A call pushed above frames that are calm is the one under way.
LEMMA PushCurrent ==
  ASSUME NEW e \in Frame, NEW G \in Seq(Frame), Calm(G), stack' = <<e>> \o G
  PROVE  CallsCurrent' /\ stack' # <<>> /\ Top' = e
<1>1. stack' # <<>> /\ Rest' = G /\ Top' = e
  BY HeadOfPush DEF Rest, Top
<1>2. Calm(Rest)' <=> Calm(G)
  BY <1>1 DEF Calm, Frames
<1>. QED  BY <1>1, <1>2 DEF CallsCurrent

\* A stack that is calm.
LEMMA CalmStack ==
  ASSUME NEW G \in Seq(Frame), Calm(G), stack' = G
  PROVE  CallsCurrent' /\ Between'
<1>1. CASE G = <<>>
  BY <1>1 DEF CallsCurrent, Between, OnTop
<1>2. CASE G # <<>>
  <2>1. /\ Len(G) \in Nat \ {0} /\ Tail(G) \in Seq(Frame)
        /\ Len(Tail(G)) = Len(G) - 1 /\ \A i \in 1 .. Len(Tail(G)) : Tail(G)[i] = G[i + 1]
        /\ Head(G) = G[1]
    BY <1>2, HeadTailProperties, LenProperties, EmptySeq
  <2>2. Head(G) \in Frames(G)
    <3>1. 1 \in 1 .. Len(G)
      BY <2>1
    <3>. QED  BY <2>1, <3>1 DEF Frames
  <2>3. ASSUME NEW i \in 1 .. Len(Tail(G))
        PROVE  Tail(G)[i] \in Frames(G)
    <3>1. i + 1 \in 1 .. Len(G) /\ Tail(G)[i] = G[i + 1]
      BY <2>1
    <3>. QED  BY <3>1 DEF Frames
  <2>4. Calm(Tail(G))
    BY <2>3 DEF Frames, Calm
  <2>5. Rest' = Tail(G) /\ Top' = Head(G)
    BY DEF Rest, Top
  <2>6. Calm(Rest)' <=> Calm(Tail(G))
    BY <2>5 DEF Calm, Frames
  <2>7. Top'.op \notin Current
    BY <2>2, <2>5 DEF Calm
  <2>. QED  BY <2>4, <2>6, <2>7 DEF CallsCurrent, Between, OnTop, Current
<1>. QED  BY <1>1, <1>2

\* Two calm parts make a calm stack.
LEMMA CalmConcat ==
  ASSUME NEW F \in Seq(Frame), NEW G \in Seq(Frame), Calm(F), Calm(G)
  PROVE  F \o G \in Seq(Frame) /\ Calm(F \o G)
BY FramesConcat DEF Calm

\* What a key shows while no end and no prepare of it is under way.
LEMMA ViewBetween ==
  ASSUME NEW k \in Keys, ~Leaving(k), ~Requeued(k)
  PROVE  NodeOf(k) = IF state[k] \in {"absent", "running"} THEN state[k] ELSE "queued"
BY DEF NodeOf

\* A key nothing happens to.
LEMMA Untouched ==
  ASSUME NEW k \in Keys, ~Leaving(k), ~Leaving(k)', NodeOf(k)' = NodeOf(k),
         attempt'[k] = attempt[k], (k \in canceled)' <=> k \in canceled
  PROVE  Kept(k)
<1>1. EndsOf(k)' = EndsOf(k)
  BY DEF EndsOf
<1>. QED  BY <1>1 DEF Kept, Task!vars

\* A key that gets its task.
LEMMA Pushed ==
  ASSUME NEW k \in Keys, ~Leaving(k), ~Leaving(k)',
         NodeOf(k) = "absent", NodeOf(k)' = "queued",
         attempt'[k] = attempt[k], (k \in canceled)' <=> k \in canceled
  PROVE  Kept(k)
<1>1. EndsOf(k)' = EndsOf(k)
  BY DEF EndsOf
<1>. QED  BY <1>1 DEF Kept, Task!Next, Task!Push

\* A task that is not running and ends.
LEMMA Dropped ==
  ASSUME NEW k \in Keys, ~Leaving(k), Leaving(k)', NodeOf(k) = "queued",
         NEW e \in Outcome, Top'.err = e, e # "ok"
  PROVE  Kept(k)
<1>1. EndsOf(k) = [x \in Outcome |-> 0]
  BY DEF EndsOf
<1>2. EndsOf(k)' = [x \in Outcome |-> IF x = e THEN 1 ELSE 0]
  BY DEF EndsOf
<1>3. EndsOf(k)' = [EndsOf(k) EXCEPT ![e] = @ + 1]
  BY <1>1, <1>2
<1>4. NodeOf(k)' = "absent"
  BY DEF NodeOf
<1>5. Task(k)!Drop(e)
  BY <1>3, <1>4 DEF Task!Drop, Task!Ends
<1>. QED  BY <1>5 DEF Kept, Task!Next, Task!Outcome, Outcome

\* A task that has ended is told so.
LEMMA Told ==
  ASSUME NEW k \in Keys, Leaving(k), ~Leaving(k)', Top.err \in Outcome,
         state'[k] = "absent", attempt'[k] = 0, ~(k \in canceled)'
  PROVE  Kept(k)
<1>. DEFINE e == Top.err
<1>1. EndsOf(k) = [x \in Outcome |-> IF x = e THEN 1 ELSE 0]
  BY DEF EndsOf
<1>2. EndsOf(k)' = [x \in Outcome |-> 0]
  BY DEF EndsOf
<1>. HIDE DEF e
<1>3. e \in Outcome
  BY DEF e
<1>4. EndsOf(k)' = [EndsOf(k) EXCEPT ![e] = @ - 1] /\ EndsOf(k)[e] > 0
  BY <1>1, <1>2, <1>3
<1>5. NodeOf(k) = "absent" /\ NodeOf(k)' = "absent"
  BY DEF NodeOf
<1>6. Task(k)!HandOver(e)
  BY <1>4, <1>5 DEF Task!HandOver
<1>. QED  BY <1>3, <1>6 DEF Kept, Task!Next, Task!Outcome, Outcome

LEMMA NoCallsCalm ==
  ASSUME NEW F, NoCalls(F)
  PROVE  Calm(F)
BY DEF NoCalls, Calm, Frames, Calls, Current

LEMMA TopCalm ==
  ASSUME ControlTypeOK, CallsCurrent, stack # <<>>
  PROVE  Rest \in Seq(Frame) /\ Calm(Rest)
BY TopTypes DEF CallsCurrent

\* Nothing is under way, before and after.
LEMMA CalmStep ==
  ASSUME Between, NEW G \in Seq(Frame), Calm(G), stack' = G, UNCHANGED <<attempt, canceled>>,
         \A k \in Keys : \/ state'[k] = state[k]
                         \/ {state[k], state'[k]} \cap {"absent", "running"} = {}
  PROVE  CallsCurrent' /\ \A k \in Keys : Kept(k)
<1>1. CallsCurrent' /\ Between'
  BY CalmStack
<1>2. ASSUME NEW k \in Keys
      PROVE  Kept(k)
  <2>1. ~Leaving(k) /\ ~Requeued(k)
    BY DEF Between, Leaving, Requeued
  <2>2. ~Leaving(k)' /\ ~Requeued(k)'
    BY <1>1 DEF Between, Leaving, Requeued
  <2>3. NodeOf(k)' = NodeOf(k)
    BY <2>1, <2>2 DEF NodeOf
  <2>. QED  BY <2>1, <2>2, <2>3, Untouched
<1>. QED  BY <1>1, <1>2

\* A task that is there and not running is ended on the spot.
LEMMA EndingStep ==
  ASSUME ~OnTop("end"), NEW d \in Keys, NEW e \in Outcome, e # "ok",
         NEW G \in Seq(Frame), Calm(G), stack' = <<Ending(d, e)>> \o G,
         NodeOf(d) = "queued", state'[d] # "absent",
         \A k \in Keys : k # d => ~Requeued(k) /\ state'[k] = state[k],
         UNCHANGED <<attempt, canceled>>
  PROVE  CallsCurrent' /\ \A k \in Keys : Kept(k)
<1>. DEFINE E == Ending(d, e)
<1>1. E \in Frame /\ E.op = "end" /\ E.key = d /\ E.err = e
  BY EndingType DEF Ending
<1>. HIDE DEF E
<1>2. CallsCurrent' /\ stack' # <<>> /\ Top' = E
  BY <1>1, PushCurrent DEF E
<1>3. \A k \in Keys : ~Leaving(k)
  BY DEF Leaving
<1>4. Leaving(d)'
  BY <1>1, <1>2 DEF Leaving, OnTop
<1>5. Kept(d)
  BY <1>1, <1>2, <1>3, <1>4, Dropped
<1>6. ASSUME NEW k \in Keys, k # d
      PROVE  Kept(k)
  <2>1. ~Leaving(k)' /\ ~Requeued(k)'
    BY <1>1, <1>2, <1>6 DEF Leaving, Requeued, OnTop
  <2>2. NodeOf(k)' = NodeOf(k)
    BY <1>3, <1>6, <2>1 DEF NodeOf
  <2>. QED  BY <1>3, <2>1, <2>2, Untouched
<1>. QED  BY <1>2, <1>5, <1>6

\* cancelNode asks a running task to stop, ends one that does not run, and does
\* nothing to one that is gone.
LEMMA CancelStep ==
  ASSUME TypeOK, Between, NEW d \in Keys, NEW G \in Seq(Frame), Calm(G), CancelNode(d, G),
         UNCHANGED <<state, attempt>>
  PROVE  CallsCurrent' /\ \A k \in Keys : Kept(k)
<1>1. \A k \in Keys : ~Leaving(k) /\ ~Requeued(k)
  BY DEF Between, Leaving, Requeued
<1>2. CASE state[d] = "running"
  <2>1. stack' = G /\ canceled' = canceled \cup {d}
    BY <1>2 DEF CancelNode
  <2>2. CallsCurrent' /\ Between'
    BY <2>1, CalmStack
  <2>3. \A k \in Keys : ~Leaving(k)' /\ ~Requeued(k)'
    BY <2>2 DEF Between, Leaving, Requeued
  <2>4. \A k \in Keys : NodeOf(k)' = NodeOf(k)
    BY <1>1, <2>3 DEF NodeOf
  <2>5. ASSUME d \notin canceled
        PROVE  Kept(d)
    <3>1. NodeOf(d) = "running"
      BY <1>1, <1>2 DEF NodeOf
    <3>2. EndsOf(d)' = EndsOf(d)
      BY <1>1, <2>3 DEF EndsOf
    <3>3. Task(d)!Stop
      BY <1>1, <2>1, <2>3, <2>4, <2>5, <3>1, <3>2 DEF Task!Stop
    <3>. QED  BY <3>3 DEF Kept, Task!Next
  <2>6. ASSUME NEW k \in Keys, k # d \/ d \in canceled
        PROVE  Kept(k)
    BY <1>1, <2>1, <2>3, <2>4, <2>6, Untouched
  <2>. QED  BY <2>2, <2>5, <2>6
<1>3. CASE state[d] = "absent"
  <2>. DEFINE E == Ending(d, "canceled")
  <2>1. E \in Frame /\ E.op = "end" /\ E.key = d
    BY EndingType DEF Ending, Outcome
  <2>2. stack' = <<E>> \o G /\ UNCHANGED canceled
    BY <1>3 DEF CancelNode
  <2>. HIDE DEF E
  <2>3. CallsCurrent' /\ stack' # <<>> /\ Top' = E
    BY <2>1, <2>2, PushCurrent
  <2>4. \A k \in Keys : ~Leaving(k)' /\ ~Requeued(k)'
    BY <1>3, <2>1, <2>3 DEF Leaving, Requeued, OnTop
  <2>5. \A k \in Keys : NodeOf(k)' = NodeOf(k)
    BY <1>1, <2>4 DEF NodeOf
  <2>. QED  BY <1>1, <2>2, <2>3, <2>4, <2>5, Untouched
<1>4. CASE state[d] \notin {"absent", "running"}
  <2>1. stack' = <<Ending(d, "canceled")>> \o G /\ UNCHANGED canceled
    BY <1>4 DEF CancelNode
  <2>2. NodeOf(d) = "queued"
    BY <1>1, <1>4 DEF NodeOf
  <2>. QED  BY <1>1, <1>4, <2>1, <2>2, EndingStep DEF Between, Outcome
<1>. QED  BY <1>2, <1>3, <1>4

\* A task is made for a key that has none, or one that waits is prepared again.
LEMMA PreparingStep ==
  ASSUME TypeOK, Between, NEW d \in Keys, NEW G \in Seq(Frame), Calm(G),
         stack' = <<Preparing(d)>> \o G,
         \/ state[d] = "absent" /\ Add(d)
         \/ state[d] = "waiting" /\ UNCHANGED state,
         UNCHANGED <<attempt, canceled>>
  PROVE  CallsCurrent' /\ \A k \in Keys : Kept(k)
<1>. DEFINE E == Preparing(d)
<1>1. E \in Frame /\ E.op = "prepare" /\ E.key = d
  BY PreparingType DEF Preparing
<1>. HIDE DEF E
<1>2. CallsCurrent' /\ stack' # <<>> /\ Top' = E
  BY <1>1, PushCurrent DEF E
<1>3. \A k \in Keys : ~Leaving(k) /\ ~Requeued(k)
  BY DEF Between, Leaving, Requeued
<1>4. \A k \in Keys : ~Leaving(k)' /\ (k # d => ~Requeued(k)')
  BY <1>1, <1>2 DEF Leaving, Requeued, OnTop
<1>5. state'[d] = "waiting" /\ \A k \in Keys : k # d => state'[k] = state[k]
  BY DEF Add, TypeOK, GraphTypeOK
<1>6. NodeOf(d)' = "queued"
  BY <1>4, <1>5 DEF NodeOf
<1>7. ASSUME state[d] = "absent"
      PROVE  Kept(d)
  <2>1. NodeOf(d) = "absent"
    BY <1>7 DEF NodeOf
  <2>. QED  BY <1>3, <1>4, <1>6, <2>1, Pushed
<1>8. ASSUME NEW k \in Keys, k # d
      PROVE  Kept(k)
  <2>1. NodeOf(k)' = NodeOf(k)
    BY <1>3, <1>4, <1>5, <1>8 DEF NodeOf
  <2>. QED  BY <1>3, <1>4, <2>1, Untouched
<1>9. ASSUME state[d] = "waiting"
      PROVE  Kept(d)
  <2>1. NodeOf(d) = "queued"
    BY <1>3, <1>9 DEF NodeOf
  <2>. QED  BY <1>3, <1>4, <1>6, <2>1, Untouched
<1>. QED  BY <1>2, <1>7, <1>8, <1>9

\* What a call of the cascade owes when it is neither end nor prepare.
LEMMA TopBetween ==
  ASSUME NEW op, OnTop(op), op \notin Current
  PROVE  Between
BY DEF OnTop, Between, Current

LEMMA PrepareKeeps ==
  ASSUME TypeOK, QuietStack, WantedInv, CallsCurrent, Prepare
  PROVE  CallsCurrent' /\ \A k \in Keys : Kept(k)
<1>1. stack # <<>> /\ Top.op = "prepare" /\ ControlTypeOK
  BY DEF Prepare, OnTop, TypeOK
<1>2. PICK d \in Keys : d = Top.key
  BY <1>1, TopTypes
<1>3. state' = [state EXCEPT ![d] = "waiting"] /\ UNCHANGED <<attempt, canceled>>
  BY <1>2 DEF Prepare
<1>4. state[d] # "absent" /\ d \notin canceled
  BY <1>1, <1>2 DEF WantedInv, PrepareCurrent, OnTop
<1>5. \A k \in Keys : ~Leaving(k) /\ (k # d => ~Requeued(k))
  BY <1>1, <1>2 DEF Leaving, Requeued, OnTop
<1>6. Requeued(d)
  BY <1>1, <1>2 DEF Requeued, OnTop
<1>7. NodeOf(d) = "queued"
  BY <1>4, <1>5, <1>6 DEF NodeOf
<1>8. state'[d] = "waiting" /\ \A k \in Keys : k # d => state'[k] = state[k]
  BY <1>3 DEF TypeOK, GraphTypeOK
<1>9. Rest \in Seq(Frame) /\ Calm(Rest)
  BY <1>1, TopCalm
<1>10. CASE \E H \in SUBSET Deps[d], S \in SUBSET Members[d] : Proceed(<<Linking(d, H, S)>>)
  <2>1. PICK H \in SUBSET Deps[d], S \in SUBSET Members[d] : Proceed(<<Linking(d, H, S)>>)
    BY <1>10
  <2>2. H \in SUBSET Keys /\ S \in SUBSET Keys
    BY SchedAssumption
  <2>. DEFINE E == Linking(d, H, S)
  <2>3. E \in Frame /\ E.op = "link"
    BY <2>2, LinkingType DEF Linking
  <2>4. stack' = <<E>> \o Rest
    BY <2>1 DEF Proceed
  <2>. HIDE DEF E
  <2>5. CallsCurrent' /\ stack' # <<>> /\ Top' = E
    BY <1>9, <2>3, <2>4, PushCurrent
  <2>6. \A k \in Keys : ~Leaving(k)' /\ ~Requeued(k)'
    BY <2>3, <2>5 DEF Leaving, Requeued, OnTop
  <2>7. \A k \in Keys : NodeOf(k)' = NodeOf(k)
    BY <1>5, <1>7, <1>8, <2>6 DEF NodeOf
  <2>. QED  BY <1>3, <1>5, <2>5, <2>6, <2>7, Untouched
<1>11. CASE Proceed(<<Ending(d, "error")>>)
  <2>1. stack' = <<Ending(d, "error")>> \o Rest
    BY <1>11 DEF Proceed
  <2>. QED  BY <1>1, <1>3, <1>5, <1>7, <1>8, <1>9, <2>1, EndingStep DEF OnTop, Outcome
<1>. QED  BY <1>2, <1>10, <1>11 DEF Prepare

\* Two frames in place of the one on top.
LEMMA PairOver ==
  ASSUME NEW e \in Frame, NEW g \in Frame, NEW R \in Seq(Frame)
  PROVE  <<e, g>> \o R = <<e>> \o (<<g>> \o R)
<1>1. <<e>> \in Seq(Frame) /\ <<g>> \in Seq(Frame)
  OBVIOUS
<1>2. <<e, g>> = <<e>> \o <<g>>
  <2>. DEFINE p == <<e, g>>
              a == <<e>>
              b == <<g>>
  <2>1. p \in Seq(Frame) /\ Len(p) = 2 /\ p[1] = e /\ p[2] = g
    OBVIOUS
  <2>2. a \in Seq(Frame) /\ Len(a) = 1 /\ a[1] = e /\ b \in Seq(Frame) /\ Len(b) = 1 /\ b[1] = g
    OBVIOUS
  <2>. HIDE DEF p, a, b
  <2>3. /\ a \o b \in Seq(Frame) /\ Len(a \o b) = 2
        /\ (a \o b)[1] = e /\ (a \o b)[2] = g
    BY <2>2, ConcatProperties
  <2>4. \A i \in 1 .. 2 : p[i] = (a \o b)[i]
    BY <2>1, <2>3
  <2>5. p = a \o b
    BY <2>1, <2>3, <2>4, SeqEqual
  <2>. QED  BY <2>5 DEF p, a, b
<1>3. \A a, b \in Seq(Frame) : (a \o b) \o R = a \o (b \o R)
  BY ConcatAssociative
<1>. QED  BY <1>1, <1>2, <1>3, Zenon

LEMMA LinkKeeps ==
  ASSUME TypeOK, QuietStack, WantedInv, CallsCurrent, Link
  PROVE  CallsCurrent' /\ \A k \in Keys : Kept(k)
<1>. DEFINE j == Top.key
            more(d) == [Top EXCEPT !.todo = @ \ {d}]
<1>1. /\ Top \in LinkFrame /\ state[j] # "running" /\ stack # <<>> /\ Top.op = "link"
      /\ ControlTypeOK /\ UNCHANGED <<attempt, canceled>>
  BY LinkingWaits DEF Link, OnTop, TypeOK
<1>2. Between
  BY TopBetween DEF Link, Current
<1>3. PICK d \in Top.todo :
        \/ Proceed(<<more(d)>>) /\ UNCHANGED state
        \/ Proceed(<<Ending(j, "error"), more(d)>>) /\ UNCHANGED state
        \/ state[d] = "absent" /\ Add(d) /\ Proceed(<<Preparing(d), more(d)>>)
  BY DEF Link
<1>4. j \in Keys /\ d \in Keys
  BY <1>1 DEF LinkFrame
<1>5. more(d) \in Frame /\ more(d).op = "link"
  BY <1>1 DEF LinkFrame, Frame
<1>6. Rest \in Seq(Frame) /\ Calm(Rest)
  BY <1>1, TopCalm
<1>. DEFINE G == <<more(d)>> \o Rest
<1>. HIDE DEF more
<1>7. G \in Seq(Frame) /\ Calm(G)
  <2>1. <<more(d)>> \in Seq(Frame) /\ Calm(<<more(d)>>)
    BY <1>5, FramesOfOne DEF Calm, Current
  <2>. QED  BY <1>6, <2>1, CalmConcat
<1>8. state[j] # "absent"
  <2>1. Top \in Frames(stack)
    BY <1>1, FramesOfStack
  <2>. QED  BY <1>1, <2>1 DEF WantedInv, LinksPresent
<1>9. \A k \in Keys : ~Leaving(k) /\ ~Requeued(k)
  BY <1>2 DEF Between, Leaving, Requeued
<1>. HIDE DEF j
<1>10. CASE Proceed(<<more(d)>>) /\ UNCHANGED state
  <2>1. stack' = G
    BY <1>10 DEF Proceed
  <2>. QED  BY <1>1, <1>2, <1>7, <1>10, <2>1, CalmStep
<1>11. CASE Proceed(<<Ending(j, "error"), more(d)>>) /\ UNCHANGED state
  <2>1. Ending(j, "error") \in Frame
    BY <1>4, EndingType DEF Outcome
  <2>2. stack' = <<Ending(j, "error")>> \o G
    BY <1>5, <1>6, <1>11, <2>1, PairOver DEF Proceed
  <2>3. NodeOf(j) = "queued"
    BY <1>1, <1>4, <1>8, <1>9 DEF NodeOf
  <2>4. state'[j] # "absent"
    BY <1>8, <1>11
  <2>. QED  BY <1>1, <1>2, <1>4, <1>7, <1>9, <1>11, <2>2, <2>3, <2>4, EndingStep DEF Between, Outcome
<1>12. CASE state[d] = "absent" /\ Add(d) /\ Proceed(<<Preparing(d), more(d)>>)
  <2>1. Preparing(d) \in Frame
    BY <1>4, PreparingType
  <2>2. stack' = <<Preparing(d)>> \o G
    BY <1>5, <1>6, <1>12, <2>1, PairOver DEF Proceed
  <2>. QED  BY <1>1, <1>2, <1>4, <1>7, <1>12, <2>2, PreparingStep
<1>. QED  BY <1>3, <1>10, <1>11, <1>12

LEMMA LinkedKeeps ==
  ASSUME TypeOK, QuietStack, WantedInv, CallsCurrent, Linked \/ Return
  PROVE  CallsCurrent' /\ \A k \in Keys : Kept(k)
<1>1. CASE Linked
  <2>1. /\ Top \in LinkFrame /\ state[Top.key] # "running" /\ stack # <<>> /\ Top.op = "link"
        /\ ControlTypeOK /\ UNCHANGED <<attempt, canceled>>
    BY <1>1, LinkingWaits DEF Linked, OnTop, TypeOK
  <2>2. PICK j \in Keys : j = Top.key
    BY <2>1 DEF LinkFrame
  <2>3. state[j] \notin {"absent", "running"}
    <3>1. Top \in Frames(stack)
      BY <2>1, FramesOfStack
    <3>. QED  BY <2>1, <2>2, <3>1 DEF WantedInv, LinksPresent
  <2>4. Between
    BY <1>1, TopBetween DEF Linked, Current
  <2>5. Rest \in Seq(Frame) /\ Calm(Rest) /\ stack' = Rest
    BY <1>1, <2>1, TopCalm, ConcatEmptySeq DEF Linked, Proceed
  <2>6. state' = state \/ state' = [state EXCEPT ![j] = "ready"]
    BY <1>1, <2>2 DEF Linked
  <2>7. \A k \in Keys : \/ state'[k] = state[k]
                        \/ {state[k], state'[k]} \cap {"absent", "running"} = {}
    BY <2>3, <2>6 DEF TypeOK, GraphTypeOK
  <2>. QED  BY <2>1, <2>4, <2>5, <2>7, CalmStep
<1>2. CASE Return
  <2>1. stack # <<>> /\ ControlTypeOK /\ UNCHANGED <<state, attempt, canceled>> /\ Between
    BY <1>2 DEF Return, TypeOK, graph, Between, OnTop
  <2>2. Rest \in Seq(Frame) /\ Calm(Rest) /\ stack' = Rest
    BY <1>2, <2>1, TopCalm, ConcatEmptySeq DEF Return, Proceed
  <2>. QED  BY <2>1, <2>2, CalmStep
<1>. QED  BY <1>1, <1>2

\* What End leaves of the frames below it is calm when they were.
LEMMA CutCalm ==
  ASSUME NEW s \in Seq(Frame), NEW k \in Keys, Calm(s)
  PROVE  Cut(s, k) \in Seq(Frame) /\ Calm(Cut(s, k))
<1>1. ASSUME NEW f, f.op \notin Current
      PROVE  Without(f, k).op \notin Current
  <2>1. CASE Without(f, k) = f
    BY <1>1, <2>1
  <2>2. CASE Without(f, k) = [f EXCEPT !.op = "gone"]
    BY <1>1, <2>2 DEF Current
  <2>3. CASE Without(f, k) = [f EXCEPT !.todo = @ \ {k}]
    BY <1>1, <2>3
  <2>. QED  BY <2>1, <2>2, <2>3 DEF Without
<1>. QED  BY <1>1, FramesCut DEF Calm

LEMMA EndKeeps ==
  ASSUME TypeOK, WantedInv, CallsCurrent, End
  PROVE  CallsCurrent' /\ \A k \in Keys : Kept(k)
<1>1. Top \in EndFrame /\ stack # <<>> /\ Top.op = "end" /\ ControlTypeOK
  BY TopTypes DEF End, OnTop, TypeOK
<1>2. PICK d \in Keys : d = Top.key
  BY <1>1 DEF EndFrame
<1>3. Rest \in Seq(Frame) /\ Calm(Rest)
  BY <1>1, TopCalm
<1>4. \A k \in Keys : ~Requeued(k) /\ (k # d => ~Leaving(k))
  BY <1>1, <1>2 DEF Leaving, Requeued, OnTop
<1>5. CASE state[d] = "absent"
  <2>1. stack' = Rest /\ UNCHANGED <<state, attempt, canceled>>
    BY <1>2, <1>3, <1>5, ConcatEmptySeq DEF End, Proceed, graph
  <2>2. CallsCurrent' /\ Between'
    BY <1>3, <2>1, CalmStack
  <2>3. \A k \in Keys : ~Leaving(k) /\ ~Leaving(k)' /\ ~Requeued(k)'
    BY <1>2, <1>4, <1>5, <2>2 DEF Leaving, Requeued, Between
  <2>4. \A k \in Keys : NodeOf(k)' = NodeOf(k)
    BY <1>4, <2>1, <2>3 DEF NodeOf
  <2>. QED  BY <2>1, <2>2, <2>3, <2>4, Untouched
<1>6. CASE state[d] # "absent"
  <2>. DEFINE F == Dropping(Wants(d))
              G == Telling(d, Top.err, WantedBy(d), {w \in Keys : d \in needs[w]},
                           {w \in Keys : d \in members[w]})
  <2>1. /\ state' = [state EXCEPT ![d] = "absent"]
        /\ attempt' = [attempt EXCEPT ![d] = 0]
        /\ canceled' = canceled \ {d}
        /\ stack' = F \o G \o Cut(Rest, d)
    BY <1>2, <1>6 DEF End, Cut
  <2>2. F \in Seq(Frame) /\ Calm(F) /\ G \in Seq(Frame) /\ Calm(G)
    <3>1. Wants(d) \in SUBSET Keys /\ WantedBy(d) \in SUBSET Keys /\ Top.err \in Outcome
      BY <1>1 DEF Wants, WantedBy, EndFrame, TypeOK, GraphTypeOK
    <3>2. F \in Seq(Frame) /\ G \in Seq(Frame)
      BY <3>1, DroppingType, TellingType
    <3>3. NoCalls(F) /\ NoCalls(G)
      BY LoopNoCalls
    <3>. QED  BY <3>2, <3>3, NoCallsCalm
  <2>. HIDE DEF F, G
  <2>3. Cut(Rest, d) \in Seq(Frame) /\ Calm(Cut(Rest, d))
    BY <1>3, CutCalm
  <2>4. F \o G \in Seq(Frame) /\ Calm(F \o G)
    BY <2>2, CalmConcat
  <2>5. F \o G \o Cut(Rest, d) \in Seq(Frame) /\ Calm(F \o G \o Cut(Rest, d))
    BY <2>3, <2>4, CalmConcat
  <2>6. CallsCurrent' /\ Between'
    BY <2>1, <2>5, CalmStack
  <2>7. \A k \in Keys : ~Leaving(k)' /\ ~Requeued(k)'
    BY <2>6 DEF Leaving, Requeued, Between
  <2>8. Kept(d)
    <3>1. Leaving(d) /\ Top.err \in Outcome
      BY <1>1, <1>2, <1>6 DEF Leaving, OnTop, EndFrame
    <3>2. state'[d] = "absent" /\ attempt'[d] = 0 /\ ~(d \in canceled)'
      BY <2>1 DEF TypeOK, GraphTypeOK
    <3>. QED  BY <2>7, <3>1, <3>2, Told
  <2>9. ASSUME NEW k \in Keys, k # d
        PROVE  Kept(k)
    <3>1. state'[k] = state[k] /\ attempt'[k] = attempt[k] /\ ((k \in canceled)' <=> k \in canceled)
      BY <2>1, <2>9 DEF TypeOK, GraphTypeOK
    <3>2. NodeOf(k)' = NodeOf(k)
      BY <1>4, <2>7, <2>9, <3>1 DEF NodeOf
    <3>. QED  BY <1>4, <2>7, <2>9, <3>1, <3>2, Untouched
  <2>. QED  BY <2>6, <2>8, <2>9
<1>. QED  BY <1>5, <1>6

LEMMA DropKeeps ==
  ASSUME TypeOK, WantedInv, CallsCurrent, Drop \/ CancelPicked
  PROVE  CallsCurrent' /\ \A k \in Keys : Kept(k)
<1>1. /\ Top \in DropFrame /\ stack # <<>> /\ Between /\ ControlTypeOK
      /\ UNCHANGED <<state, attempt>>
  BY TopTypes DEF Drop, CancelPicked, OnTop, Between, TypeOK
<1>2. Rest \in Seq(Frame) /\ Calm(Rest)
  BY <1>1, TopCalm
<1>3. ASSUME NEW d \in Top.todo
      PROVE  /\ d \in Keys
             /\ Dropping(Top.todo \ {d}) \o Rest \in Seq(Frame) /\ Calm(Dropping(Top.todo \ {d}) \o Rest)
             /\ Canceling(Top.todo \ {d}) \o Rest \in Seq(Frame) /\ Calm(Canceling(Top.todo \ {d}) \o Rest)
  <2>1. d \in Keys /\ Top.todo \ {d} \in SUBSET Keys
    BY <1>1 DEF DropFrame
  <2>. DEFINE F == Dropping(Top.todo \ {d})
              G == Canceling(Top.todo \ {d})
  <2>2. F \in Seq(Frame) /\ G \in Seq(Frame) /\ Calm(F) /\ Calm(G)
    BY <2>1, DroppingType, LoopNoCalls, NoCallsCalm
  <2>. HIDE DEF F, G
  <2>3. F \o Rest \in Seq(Frame) /\ Calm(F \o Rest) /\ G \o Rest \in Seq(Frame) /\ Calm(G \o Rest)
    BY <1>2, <2>2, CalmConcat
  <2>. QED  BY <2>1, <2>3 DEF F, G
<1>4. CASE Drop
  <2>1. PICK d \in Top.todo :
          \/ CancelNode(d, Dropping(Top.todo \ {d}) \o Rest)
          \/ stack' = Dropping(Top.todo \ {d}) \o Rest /\ UNCHANGED canceled
    BY <1>4 DEF Drop
  <2>. DEFINE G == Dropping(Top.todo \ {d}) \o Rest
  <2>2. d \in Keys /\ G \in Seq(Frame) /\ Calm(G)
    BY <1>3
  <2>. HIDE DEF G
  <2>3. CancelNode(d, G) \/ (stack' = G /\ UNCHANGED canceled)
    BY <2>1 DEF G
  <2>. QED  BY <1>1, <2>2, <2>3, CancelStep, CalmStep
<1>5. CASE CancelPicked
  <2>1. PICK d \in Top.todo : CancelNode(d, Canceling(Top.todo \ {d}) \o Rest)
    BY <1>5 DEF CancelPicked
  <2>. DEFINE G == Canceling(Top.todo \ {d}) \o Rest
  <2>2. d \in Keys /\ G \in Seq(Frame) /\ Calm(G)
    BY <1>3
  <2>. HIDE DEF G
  <2>3. CancelNode(d, G)
    BY <2>1 DEF G
  <2>. QED  BY <1>1, <2>2, <2>3, CancelStep
<1>. QED  BY <1>4, <1>5

LEMMA TellKeeps ==
  ASSUME TypeOK, WantedInv, CallsCurrent, Tell
  PROVE  CallsCurrent' /\ \A k \in Keys : Kept(k)
<1>1. /\ Top \in TellFrame /\ stack # <<>> /\ Between /\ ControlTypeOK
      /\ UNCHANGED <<state, attempt, canceled>>
  BY TopTypes DEF Tell, OnTop, Between, TypeOK
<1>2. Rest \in Seq(Frame) /\ Calm(Rest)
  BY <1>1, TopCalm
<1>. DEFINE more(w) == Loop([Top EXCEPT !.todo = @ \ {w}])
<1>3. PICK w \in Top.todo :
        \/ stack' = more(w) \o Rest
        \/ state[w] = "waiting" /\ stack' = <<Ending(w, FailsAs(w))>> \o (more(w) \o Rest)
        \/ state[w] = "waiting" /\ stack' = <<Preparing(w)>> \o (more(w) \o Rest)
  BY DEF Tell
<1>4. w \in Keys
  BY <1>1 DEF TellFrame
<1>. DEFINE G == more(w) \o Rest
<1>5. G \in Seq(Frame) /\ Calm(G)
  <2>. DEFINE f == [Top EXCEPT !.todo = @ \ {w}]
  <2>1. f \in Frame /\ f.op = "tell"
    BY <1>1 DEF TellFrame, Frame
  <2>. HIDE DEF f
  <2>2. Loop(f) \in Seq(Frame) /\ Calm(Loop(f))
    BY <2>1, FramesOfLoop DEF Calm, Current
  <2>3. Loop(f) \o Rest \in Seq(Frame) /\ Calm(Loop(f) \o Rest)
    BY <1>2, <2>2, CalmConcat
  <2>. QED  BY <2>3 DEF f
<1>6. stack' = G \/ (state[w] = "waiting" /\ stack' = <<Ending(w, FailsAs(w))>> \o G)
        \/ (state[w] = "waiting" /\ stack' = <<Preparing(w)>> \o G)
  BY <1>3
<1>. HIDE DEF G
<1>7. \A k \in Keys : ~Leaving(k) /\ ~Requeued(k)
  BY <1>1 DEF Leaving, Requeued, Between
<1>8. CASE stack' = G
  BY <1>1, <1>5, <1>8, CalmStep
<1>9. CASE state[w] = "waiting" /\ stack' = <<Ending(w, FailsAs(w))>> \o G
  <2>1. FailsAs(w) \in Outcome /\ FailsAs(w) # "ok"
    BY DEF FailsAs, Outcome
  <2>2. NodeOf(w) = "queued" /\ state'[w] # "absent"
    BY <1>1, <1>4, <1>7, <1>9 DEF NodeOf
  <2>. QED  BY <1>1, <1>4, <1>5, <1>7, <1>9, <2>1, <2>2, EndingStep DEF Between
<1>10. CASE state[w] = "waiting" /\ stack' = <<Preparing(w)>> \o G
  BY <1>1, <1>4, <1>5, <1>10, PreparingStep
<1>. QED  BY <1>6, <1>8, <1>9, <1>10

LEMMA RequestsKeep ==
  ASSUME TypeOK, WantedInv, CallsCurrent, ReplaceNext \/ WithdrawNext
  PROVE  CallsCurrent' /\ \A k \in Keys : Kept(k)
<1>1. /\ Top \in ReplaceFrame \cup WithdrawFrame /\ stack # <<>> /\ Between /\ ControlTypeOK
      /\ UNCHANGED <<attempt, canceled>>
  BY TopTypes DEF ReplaceNext, WithdrawNext, OnTop, Between, TypeOK
<1>2. Rest \in Seq(Frame) /\ Calm(Rest)
  BY <1>1, TopCalm
<1>3. CASE ReplaceNext
  <2>1. Top \in ReplaceFrame
    BY <1>3, TopTypes DEF ReplaceNext, OnTop, TypeOK
  <2>. DEFINE lost == {k \in Keys : requests[k][Top.source] # NoPriority} \ Top.keep
              more(k) == [Top EXCEPT !.todo = @ \ {k}]
  <2>2. CASE Proceed(Withdrawing(Top.source, lost)) /\ UNCHANGED state
    <3>. DEFINE F == Withdrawing(Top.source, lost)
    <3>1. F \in Seq(Frame) /\ Calm(F)
      BY <2>1, WithdrawingType, LoopNoCalls, NoCallsCalm DEF ReplaceFrame
    <3>. HIDE DEF F
    <3>2. F \o Rest \in Seq(Frame) /\ Calm(F \o Rest)
      BY <1>2, <3>1, CalmConcat
    <3>3. stack' = F \o Rest
      BY <2>2 DEF Proceed, F
    <3>. QED  BY <1>1, <2>2, <3>2, <3>3, CalmStep
  <2>3. ASSUME NEW k \in Top.todo,
               \/ state[k] = "absent" /\ Add(k) /\ Proceed(<<Preparing(k), more(k)>>)
               \/ Proceed(<<more(k)>>) /\ UNCHANGED state
        PROVE  CallsCurrent' /\ \A j \in Keys : Kept(j)
    <3>1. k \in Keys /\ more(k) \in Frame /\ more(k).op = "replace"
      BY <2>1 DEF ReplaceFrame, Frame
    <3>. HIDE DEF more
    <3>. DEFINE G == <<more(k)>> \o Rest
    <3>2. G \in Seq(Frame) /\ Calm(G)
      <4>1. <<more(k)>> \in Seq(Frame) /\ Calm(<<more(k)>>)
        BY <3>1, FramesOfOne DEF Calm, Current
      <4>. QED  BY <1>2, <4>1, CalmConcat
    <3>3. CASE state[k] = "absent" /\ Add(k) /\ Proceed(<<Preparing(k), more(k)>>)
      <4>1. Preparing(k) \in Frame
        BY <3>1, PreparingType
      <4>2. stack' = <<Preparing(k)>> \o G
        BY <1>2, <3>1, <3>3, <4>1, PairOver DEF Proceed
      <4>. QED  BY <1>1, <3>1, <3>2, <3>3, <4>2, PreparingStep
    <3>4. CASE Proceed(<<more(k)>>) /\ UNCHANGED state
      <4>1. stack' = G
        BY <3>4 DEF Proceed
      <4>. QED  BY <1>1, <3>2, <3>4, <4>1, CalmStep
    <3>. QED  BY <2>3, <3>3, <3>4
  <2>. QED  BY <1>3, <2>2, <2>3 DEF ReplaceNext
<1>4. CASE WithdrawNext
  <2>1. Top \in WithdrawFrame /\ UNCHANGED state
    BY <1>4, TopTypes DEF WithdrawNext, OnTop, TypeOK
  <2>2. PICK k \in Top.todo : Proceed(Dropping({k}) \o Withdrawing(Top.source, Top.todo \ {k}))
    BY <1>4 DEF WithdrawNext
  <2>. DEFINE F == Dropping({k}) \o Withdrawing(Top.source, Top.todo \ {k})
  <2>3. F \in Seq(Frame) /\ Calm(F)
    <3>1. {k} \in SUBSET Keys /\ Top.todo \ {k} \in SUBSET Keys /\ Top.source \in Sources
      BY <2>1 DEF WithdrawFrame
    <3>. QED  BY <3>1, DroppingType, WithdrawingType, LoopNoCalls, ConcatNoCalls, NoCallsCalm
  <2>. HIDE DEF F
  <2>4. stack' = F \o Rest
    BY <2>2 DEF F, Proceed
  <2>5. F \o Rest \in Seq(Frame) /\ Calm(F \o Rest)
    BY <1>2, <2>3, CalmConcat
  <2>. QED  BY <1>1, <2>1, <2>4, <2>5, CalmStep
<1>. QED  BY <1>3, <1>4

LEMMA CallsKeep ==
  ASSUME TypeOK, Dispatched, Asking \/ Stopping
  PROVE  CallsCurrent' /\ \A k \in Keys : Kept(k)
<1>1. stack = <<>> /\ Between /\ UNCHANGED attempt
  <2>1. ~locked
    BY DEF Asking, Stopping, Request, Raise, Replace, Adopt, Withdraw, Cancel, CancelWhere,
           SetGate, Close, Call
  <2>2. UNCHANGED attempt
    BY DEF Asking, Stopping, Request, Raise, Replace, Adopt, Withdraw, Cancel, CancelWhere,
           SetGate, Close, graph
  <2>. QED  BY <2>1, <2>2 DEF Dispatched, Between, OnTop
<1>2. <<>> \in Seq(Frame) /\ Calm(<<>>)
  BY FramesOfNone DEF Calm
<1>3. ASSUME UNCHANGED <<stack, state, canceled>>
      PROVE  CallsCurrent' /\ \A k \in Keys : Kept(k)
  BY <1>1, <1>2, <1>3, CalmStep
<1>4. ASSUME NEW k \in Keys, state[k] = "absent", Add(k), stack' = <<Preparing(k)>>, UNCHANGED canceled
      PROVE  CallsCurrent' /\ \A j \in Keys : Kept(j)
  <2>1. Preparing(k) \in Frame
    BY PreparingType
  <2>2. stack' = <<Preparing(k)>> \o <<>>
    BY <1>4, <2>1, FramesOfOne, ConcatEmptySeq
  <2>. QED  BY <1>1, <1>2, <1>4, <2>2, PreparingStep
<1>5. ASSUME NEW F \in Seq(Frame), NoCalls(F), stack' = F, UNCHANGED <<state, canceled>>
      PROVE  CallsCurrent' /\ \A k \in Keys : Kept(k)
  BY <1>1, <1>5, NoCallsCalm, CalmStep
<1>6. ASSUME NEW s \in Sources, NEW p \in Prios, NEW k \in Keys, Request(s, p, k)
      PROVE  CallsCurrent' /\ \A j \in Keys : Kept(j)
  BY <1>3, <1>4, <1>6 DEF Request
<1>7. ASSUME NEW w \in Keys, NEW k \in Keys, Adopt(w, k)
      PROVE  CallsCurrent' /\ \A j \in Keys : Kept(j)
  BY <1>3, <1>4, <1>7 DEF Adopt
<1>8. ASSUME NEW s \in Sources, NEW p \in Prios, NEW K \in Batches, Replace(s, p, K)
      PROVE  CallsCurrent' /\ \A k \in Keys : Kept(k)
  <2>1. K \in SUBSET Keys
    BY SchedAssumption
  <2>2. Replacing(s, p, K, K) \in Frame /\ Replacing(s, p, K, K).op \notin Calls
    BY <2>1, ReplacingType DEF Replacing, Calls
  <2>. DEFINE e == Replacing(s, p, K, K)
  <2>3. <<e>> \in Seq(Frame) /\ NoCalls(<<e>>)
    <3>. HIDE DEF e
    <3>1. e \in Frame /\ e.op \notin Calls
      BY <2>2 DEF e
    <3>. QED  BY <3>1, FramesOfOne DEF NoCalls
  <2>. QED  BY <1>5, <1>8, <2>3 DEF Replace, graph
<1>9. ASSUME NEW s \in Sources, NEW K \in Batches, Withdraw(s, K)
      PROVE  CallsCurrent' /\ \A k \in Keys : Kept(k)
  <2>1. Withdrawing(s, K) \in Seq(Frame) /\ NoCalls(Withdrawing(s, K))
    BY SchedAssumption, WithdrawingType, LoopNoCalls
  <2>. QED  BY <1>5, <1>9, <2>1 DEF Withdraw, graph
<1>10. ASSUME NEW K \in Batches, CancelWhere(K)
       PROVE  CallsCurrent' /\ \A k \in Keys : Kept(k)
  <2>1. Canceling(K) \in Seq(Frame) /\ NoCalls(Canceling(K))
    BY SchedAssumption, DroppingType, LoopNoCalls
  <2>. QED  BY <1>5, <1>10, <2>1 DEF CancelWhere
<1>11. ASSUME NEW k \in Keys, Cancel(k)
       PROVE  CallsCurrent' /\ \A j \in Keys : Kept(j)
  <2>. DEFINE G == <<>>
  <2>1. G \in Seq(Frame) /\ Calm(G) /\ CancelNode(k, G)
    BY <1>2, <1>11 DEF Cancel
  <2>2. UNCHANGED <<state, attempt>>
    BY <1>11 DEF Cancel
  <2>. HIDE DEF G
  <2>. QED  BY <1>1, <2>1, <2>2, CancelStep
<1>12. ASSUME \/ \E s \in Sources, p \in Prios, k \in Keys : Raise(s, p, k)
              \/ \E g \in Gates : SetGate(g)
              \/ Close
       PROVE  CallsCurrent' /\ \A k \in Keys : Kept(k)
  BY <1>3, <1>12 DEF Raise, SetGate, Close, graph
<1>. QED  BY <1>6, <1>7, <1>8, <1>9, <1>10, <1>11, <1>12 DEF Asking, Stopping

LEMMA StartKeeps ==
  ASSUME TypeOK, NEW d \in Keys, Start(d)
  PROVE  CallsCurrent' /\ \A k \in Keys : Kept(k)
<1>1. /\ stack = <<>> /\ stack' = <<>> /\ state' = [state EXCEPT ![d] = "running"]
      /\ UNCHANGED <<attempt, canceled>>
  BY DEF Start
<1>2. state[d] = "ready"
  BY DEF Start, Candidates, Admissible, Foreign
<1>3. \A k \in Keys : ~Leaving(k) /\ ~Requeued(k) /\ ~Leaving(k)' /\ ~Requeued(k)'
  BY <1>1 DEF Leaving, Requeued, OnTop
<1>4. Kept(d)
  <2>1. NodeOf(d) = "queued" /\ NodeOf(d)' = "running"
    BY <1>1, <1>2, <1>3 DEF NodeOf, TypeOK, GraphTypeOK
  <2>2. EndsOf(d)' = EndsOf(d)
    BY <1>3 DEF EndsOf
  <2>3. Task(d)!Start
    BY <1>1, <1>3, <2>1, <2>2 DEF Task!Start
  <2>. QED  BY <2>3 DEF Kept, Task!Next
<1>5. ASSUME NEW k \in Keys, k # d
      PROVE  Kept(k)
  <2>1. NodeOf(k)' = NodeOf(k)
    BY <1>1, <1>3, <1>5 DEF NodeOf, TypeOK, GraphTypeOK
  <2>. QED  BY <1>1, <1>3, <2>1, Untouched
<1>. QED  BY <1>1, <1>4, <1>5 DEF CallsCurrent

\* A task's Run that returned is one of the contract's returns.
LEMMA FinishKeeps ==
  ASSUME TypeOK, Dispatched, NEW d \in Keys, NEW r \in Results, Finish(d, r)
  PROVE  CallsCurrent' /\ \A k \in Keys : Kept(k)
<1>1. stack = <<>> /\ state[d] = "running" /\ UNCHANGED <<state, canceled>>
  BY DEF Finish, Dispatched
<1>2. \A k \in Keys : ~Leaving(k) /\ ~Requeued(k)
  BY <1>1 DEF Leaving, Requeued, OnTop
<1>3. NodeOf(d) = "running" /\ EndsOf(d) = [x \in Outcome |-> 0]
  BY <1>1, <1>2 DEF NodeOf, EndsOf
<1>4. attempt[d] \in Nat /\ MaxAttempts \in Nat /\ d \in DOMAIN attempt
  BY SchedAssumption DEF TypeOK, GraphTypeOK
<1>5. ASSUME NEW E \in Frame, stack' = <<E>>, E.key = d, E.op \in Current,
             \A k \in Keys : k # d => attempt'[k] = attempt[k]
      PROVE  /\ CallsCurrent' /\ stack' # <<>> /\ Top' = E
             /\ \A k \in Keys : k # d => Kept(k)
  <2>1. <<>> \in Seq(Frame) /\ Calm(<<>>) /\ stack' = <<E>> \o <<>>
    BY <1>5, FramesOfNone, FramesOfOne, ConcatEmptySeq DEF Calm
  <2>2. CallsCurrent' /\ stack' # <<>> /\ Top' = E
    BY <2>1, PushCurrent
  <2>3. ASSUME NEW k \in Keys, k # d
        PROVE  Kept(k)
    <3>1. ~Leaving(k)' /\ ~Requeued(k)'
      BY <1>5, <2>2, <2>3 DEF Leaving, Requeued
    <3>2. NodeOf(k)' = NodeOf(k)
      BY <1>1, <1>2, <3>1 DEF NodeOf
    <3>. QED  BY <1>1, <1>2, <1>5, <2>3, <3>1, <3>2, Untouched
  <2>. QED  BY <2>2, <2>3
<1>6. ASSUME NEW e \in Outcome, stack' = <<Ending(d, e)>>, UNCHANGED attempt
      PROVE  CallsCurrent' /\ Task(d)!Ends(e) /\ \A k \in Keys : k # d => Kept(k)
  <2>. DEFINE E == Ending(d, e)
  <2>1. E \in Frame /\ E.op = "end" /\ E.key = d /\ E.err = e
    BY EndingType DEF Ending
  <2>. HIDE DEF E
  <2>2. /\ CallsCurrent' /\ stack' # <<>> /\ Top' = E
        /\ \A k \in Keys : k # d => Kept(k)
    BY <1>5, <1>6, <2>1 DEF Current, E
  <2>3. Leaving(d)' /\ Top'.err = e
    BY <1>1, <2>1, <2>2 DEF Leaving, OnTop
  <2>4. EndsOf(d)' = [x \in Outcome |-> IF x = e THEN 1 ELSE 0]
    BY <2>3 DEF EndsOf
  <2>5. EndsOf(d)' = [EndsOf(d) EXCEPT ![e] = @ + 1]
    BY <1>3, <2>4
  <2>6. NodeOf(d)' = "absent"
    BY <2>3 DEF NodeOf
  <2>. QED  BY <2>2, <2>3, <2>5, <2>6 DEF Task!Ends
<1>7. ASSUME stack' = <<Preparing(d)>>, \A k \in Keys : k # d => attempt'[k] = attempt[k]
      PROVE  /\ CallsCurrent' /\ \A k \in Keys : k # d => Kept(k)
             /\ ~Leaving(d)' /\ NodeOf(d)' = "queued" /\ EndsOf(d)' = EndsOf(d)
  <2>. DEFINE E == Preparing(d)
  <2>1. E \in Frame /\ E.op = "prepare" /\ E.key = d
    BY PreparingType DEF Preparing
  <2>. HIDE DEF E
  <2>2. /\ CallsCurrent' /\ stack' # <<>> /\ Top' = E
        /\ \A k \in Keys : k # d => Kept(k)
    BY <1>5, <1>7, <2>1 DEF Current, E
  <2>3. ~Leaving(d)' /\ Requeued(d)'
    BY <2>1, <2>2 DEF Leaving, Requeued, OnTop
  <2>4. NodeOf(d)' = "queued"
    BY <1>1, <2>3 DEF NodeOf
  <2>5. EndsOf(d)' = EndsOf(d)
    BY <1>2, <2>3 DEF EndsOf
  <2>. QED  BY <2>2, <2>3, <2>4, <2>5
<1>8. CASE d \in canceled
  <2>1. stack' = <<Ending(d, "canceled")>> /\ UNCHANGED attempt
    BY <1>8 DEF Finish
  <2>2. Task(d)!Return(r)
    BY <1>2, <1>3, <1>6, <1>8, <2>1 DEF Task!Return, Outcome
  <2>. QED  BY <1>6, <2>1, <2>2 DEF Kept, Task!Next, Task!Results, Results, Outcome
<1>9. CASE d \notin canceled /\ r = "ok"
  <2>1. stack' = <<Ending(d, "ok")>> /\ UNCHANGED attempt
    BY <1>9 DEF Finish
  <2>2. Task(d)!Return(r)
    BY <1>2, <1>3, <1>6, <1>9, <2>1 DEF Task!Return, Outcome
  <2>. QED  BY <1>6, <2>1, <2>2 DEF Kept, Task!Next, Task!Results, Results, Outcome
<1>10. CASE d \notin canceled /\ r = "yield"
  <2>1. stack' = <<Preparing(d)>> /\ UNCHANGED attempt
    BY <1>10 DEF Finish
  <2>2. Task(d)!Return(r)
    BY <1>1, <1>2, <1>3, <1>7, <1>10, <2>1 DEF Task!Return
  <2>. QED  BY <1>7, <2>1, <2>2 DEF Kept, Task!Next, Task!Results, Results
<1>11. CASE d \notin canceled /\ r = "fail" /\ AttemptsLeft(d)
  <2>1. stack' = <<Preparing(d)>> /\ attempt' = [attempt EXCEPT ![d] = @ + 1] /\ d \in Retryable
    BY <1>11 DEF Finish
  <2>2. attempt'[d] = attempt[d] + 1 /\ \A k \in Keys : k # d => attempt'[k] = attempt[k]
    BY <1>4, <2>1
  <2>3. Task(d)!Return(r)
    BY <1>1, <1>2, <1>3, <1>7, <1>11, <2>1, <2>2 DEF Task!Return, AttemptsLeft
  <2>. QED  BY <1>7, <2>1, <2>2, <2>3 DEF Kept, Task!Next, Task!Results, Results
<1>12. CASE d \notin canceled /\ (r = "fatal" \/ (r = "fail" /\ ~AttemptsLeft(d)))
  <2>1. stack' = <<Ending(d, "error")>> /\ UNCHANGED attempt
    BY <1>12 DEF Finish
  <2>2. ~AttemptsLeft(d) => attempt[d] + 1 >= MaxAttempts
    BY <1>4 DEF AttemptsLeft
  <2>3. Task(d)!Return(r)
    BY <1>2, <1>3, <1>6, <1>12, <2>1, <2>2 DEF Task!Return, Outcome
  <2>. QED  BY <1>6, <2>1, <2>3 DEF Kept, Task!Next, Task!Results, Results, Outcome
<1>. QED  BY <1>8, <1>9, <1>10, <1>11, <1>12 DEF Results

LEMMA ContractStep ==
  ASSUME TypeOK, QuietStack, Dispatched, WantedInv, CallsCurrent, [Next]_vars
  PROVE  CallsCurrent' /\ \A k \in Keys : Kept(k)
<1>1. CASE Asking \/ Stopping
  BY <1>1, CallsKeep
<1>2. CASE Cascade
  BY <1>2, PrepareKeeps, LinkKeeps, LinkedKeeps, EndKeeps, DropKeeps, TellKeeps, RequestsKeep
     DEF Cascade
<1>3. CASE \E k \in Keys : Start(k)
  BY <1>3, StartKeeps
<1>4. CASE \E k \in Keys, r \in Results : Finish(k, r)
  BY <1>4, FinishKeeps
<1>5. CASE Unlock \/ DwellEnds \/ TimerFires \/ UNCHANGED vars
  <2>1. UNCHANGED <<state, attempt, canceled, stack>>
    BY <1>5 DEF Unlock, DwellEnds, TimerFires, vars, graph
  <2>2. CallsCurrent'
    BY <2>1 DEF CallsCurrent, Rest, Calm, Frames
  <2>3. \A k \in Keys : /\ Leaving(k)' = Leaving(k) /\ NodeOf(k)' = NodeOf(k)
                        /\ EndsOf(k)' = EndsOf(k)
    BY <2>1 DEF Leaving, NodeOf, EndsOf, Requeued, OnTop, Top
  <2>4. \A k \in Keys : Kept(k)
    BY <2>1, <2>3 DEF Kept, Task!vars
  <2>. QED  BY <2>2, <2>4
<1>. QED  BY <1>1, <1>2, <1>3, <1>4, <1>5 DEF Next

(* The scheduler's contract with each of its tasks, for every graph they are    *)
(* in: whatever requests, withdrawals, adoptions, ends and cancellations its    *)
(* cascades carry across the key (prepare, end, cancelNode, finish), the task   *)
(* goes from queued to running, leaves that state when its Run returned, ends   *)
(* canceled once it was asked to stop, is retried while attempts are left, and  *)
(* is gone once, with one outcome.                                              *)
THEOREM TasksKeepContract == Spec => KeepsContract /\ \A k \in Keys : Task(k)!Spec
<1>. DEFINE Inv == QuietStack /\ Dispatched /\ WantedInv /\ CallsCurrent
<1>1. Init => Inv
  <2>1. Init => Dispatched /\ WantedInv
    BY DispatchedInit, WantedInit
  <2>2. Init => QuietStack /\ CallsCurrent
    BY DEF Init, QuietStack, CallsCurrent
  <2>. QED  BY <2>1, <2>2
<1>2. TypeOK /\ Inv /\ [Next]_vars => Inv' /\ \A k \in Keys : Kept(k)
  BY QuietInductive, DispatchedStep, WantedInductive, ContractStep
<1>3. Spec => [](TypeOK /\ Inv)
  <2>1. TypeOK /\ Inv /\ [Next]_vars => Inv'
    BY <1>2
  <2>. QED  BY <1>1, <2>1, TypeCorrect, PTL DEF Spec
<1>4. Spec => KeepsContract
  <2>1. TypeOK /\ Inv /\ [Next]_vars =>
          [\A k \in Keys : UNCHANGED Task(k)!vars \/ Task(k)!Next]_vars
    BY <1>2 DEF Kept
  <2>. QED  BY <1>3, <2>1, PTL DEF Spec, KeepsContract
<1>5. ASSUME NEW k \in Keys
      PROVE  Spec => Task(k)!Spec
  <2>1. Init => Task(k)!Init
    BY DEF Init, Task!Init, NodeOf, EndsOf, Leaving, OnTop, Task!Outcome, Outcome
  <2>2. TypeOK /\ Inv /\ [Next]_vars => [Task(k)!Next]_(Task(k)!vars)
    BY <1>2 DEF Kept
  <2>. QED  BY <1>3, <2>1, <2>2, PTL DEF Spec, Task!Spec
<1>. QED  BY <1>4, <1>5

-----------------------------------------------------------------------------
(* What a bulk cancel picked. Between being picked and being cancelled a task   *)
(* meets the cascades of those picked before it.                               *)

\* f will ask k to stop, or end it.
Stops(f, k) == (f.op = "end" /\ f.key = k) \/ (f.op = "cancel" /\ k \in f.todo)

\* f will end k because something it depends on failed, or ends it now.
Fails(f, k) == (f.op = "end" /\ f.key = k) \/ (f.op = "tell" /\ k \in f.todo \cap f.hard)

\* A bulk cancel goes on below.
Bulk == \E f \in Frames(stack) : f.op = "cancel"

\* What a frame may be: it ends a picked task as canceled, prepares again only
\* those that have members, passes no success on while a bulk cancel goes on, and
\* links a task to what it may need.
Fit(f) ==
  /\ f.op = "end" /\ f.key \in doomed => f.err = "canceled"
  /\ f.op \in {"prepare", "link"} /\ f.key \in doomed => Members[f.key] # {}
  /\ f.op \in {"end", "tell"} /\ Bulk => f.err # "ok"
  /\ f.op = "link" => f.hard \subseteq Deps[f.key] /\ f.soft \subseteq Members[f.key]

Named == \A k \in Keys : needs[k] \subseteq Deps[k] /\ members[k] \subseteq Members[k]

\* Each task picked is asked to stop or will be; one without members that has
\* nothing left to wait for will be failed before it could be prepared again.
PickedInv ==
  /\ Named
  /\ doomed \subseteq Live
  /\ \A f \in Frames(stack) : Fit(f)
  /\ \A k \in doomed : k \in canceled \/ \E f \in Frames(stack) : Stops(f, k)
  /\ \A k \in doomed : Members[k] = {} /\ Idle(k) => \E f \in Frames(stack) : Fails(f, k)

LEMMA PickedStep ==
  ASSUME TypeOK, PickedInv, stack # <<>>, NEW F \in Seq(Frame), Proceed(F),
         Named', doomed' = doomed, doomed \subseteq Live', canceled \subseteq canceled',
         \A f \in Frames(F) : Fit(f) /\ (f.op = "cancel" => Top.op = "cancel"),
         \A k \in doomed : Stops(Top, k) => k \in canceled' \/ \E f \in Frames(F) : Stops(f, k),
         \A k \in doomed : Members[k] = {} /\ Idle(k)' =>
           (Idle(k) /\ ~Fails(Top, k)) \/ \E f \in Frames(F) : Fails(f, k)
  PROVE  PickedInv'
<1>1. /\ Frames(stack)' = Frames(F) \cup Frames(Rest)
      /\ Frames(stack) = {Top} \cup Frames(Rest)
  BY PushFrames, FramesOfStack DEF TypeOK
<1>2. Bulk' => Bulk
  BY <1>1 DEF Bulk
<1>3. \A f \in Frames(stack)' : Fit(f)
  BY <1>1 DEF PickedInv
<1>4. \A f \in Frames(stack)' : Fit(f)'
  BY <1>2, <1>3 DEF Fit
<1>5. \A k \in doomed' : k \in canceled' \/ \E f \in Frames(stack)' : Stops(f, k)
  BY <1>1 DEF PickedInv
<1>6. \A k \in doomed' : Members[k] = {} /\ Idle(k)' => \E f \in Frames(stack)' : Fails(f, k)
  BY <1>1 DEF PickedInv
<1>. QED  BY <1>4, <1>5, <1>6 DEF PickedInv, Stops, Fails

\* Nothing but the frames on top changes.
LEMMA PickedStays ==
  ASSUME TypeOK, PickedInv, UNCHANGED <<state, needs, members>>
  PROVE  /\ Named' /\ doomed \subseteq Live'
         /\ \A k \in Keys : Idle(k)' = Idle(k)
BY DEF PickedInv, Named, Live, Idle, Outstanding

\* The frame on top is gone.
LEMMA PickedPop ==
  ASSUME TypeOK, PickedInv, stack # <<>>, Proceed(<<>>),
         Named', doomed' = doomed, doomed \subseteq Live', canceled \subseteq canceled',
         \A k \in doomed : ~Stops(Top, k) /\ ~Fails(Top, k) /\ (Idle(k)' => Idle(k))
  PROVE  PickedInv'
<1>. DEFINE F == <<>>
<1>1. F \in Seq(Frame) /\ Frames(F) = {} /\ Proceed(F)
  BY FramesOfNone
<1>. HIDE DEF F
<1>. QED  BY <1>1, PickedStep

\* The frames on top while nothing was under way; who was picked has been asked
\* to stop by then.
LEMMA PickedSettled ==
  ASSUME TypeOK, WantedInv, PickedInv, stack = <<>>, NEW F \in Seq(Frame), stack' = F,
         UNCHANGED <<needs, members, doomed>>, canceled \subseteq canceled',
         \A k \in doomed : state'[k] = state[k],
         \A f \in Frames(F) :
           /\ f.op \notin {"cancel", "tell", "link"}
           /\ f.op = "prepare" => f.key \notin doomed
           /\ f.op = "end" /\ f.key \in doomed => f.err = "canceled"
  PROVE  PickedInv'
<1>1. doomed \subseteq canceled
  BY FramesOfNone DEF PickedInv
<1>2. \A k \in doomed : state'[k] = "running"
  BY <1>1 DEF WantedInv, Running
<1>3. Frames(stack)' = Frames(F)
  BY DEF Frames
<1>4. Named' /\ doomed' \subseteq Live'
  BY <1>2 DEF PickedInv, Named, Live
<1>5. \A f \in Frames(stack)' : Fit(f)'
  <2>1. ~Bulk'
    BY <1>3 DEF Bulk
  <2>. QED  BY <1>3, <2>1 DEF Fit
<1>6. \A k \in doomed' : ~Idle(k)'
  BY <1>2 DEF Idle
<1>. QED  BY <1>1, <1>4, <1>5, <1>6 DEF PickedInv

\* cancelNode, for one task of a loop.
LEMMA PickedCancel ==
  ASSUME TypeOK, PickedInv, stack # <<>>, Top.op \in {"drop", "cancel"},
         NEW d \in Keys, NEW F \in Seq(Frame), CancelNode(d, F \o Rest),
         UNCHANGED <<state, needs, members, doomed>>,
         \A f \in Frames(F) : f.op = Top.op,
         \A k \in doomed : Stops(Top, k) => k = d \/ \E f \in Frames(F) : Stops(f, k)
  PROVE  PickedInv'
<1>1. Named' /\ doomed \subseteq Live' /\ \A k \in Keys : Idle(k)' = Idle(k)
  BY PickedStays
<1>2. doomed \subseteq Keys /\ \A k : ~Fails(Top, k)
  BY DEF Fails, TypeOK, GraphTypeOK
<1>3. \A f \in Frames(F) : Fit(f) /\ (f.op = "cancel" => Top.op = "cancel")
  BY DEF Fit
<1>4. CASE state[d] = "running"
  <2>1. canceled' = canceled \cup {d} /\ Proceed(F)
    BY <1>4 DEF CancelNode, Proceed
  <2>. QED  BY <1>1, <1>2, <1>3, <2>1, PickedStep
<1>5. CASE state[d] # "running"
  <2>. DEFINE e == Ending(d, "canceled")
              G == <<e>> \o F
  <2>1. e \in Frame /\ e.op = "end" /\ e.key = d /\ e.err = "canceled"
    BY EndingType DEF Outcome, Ending
  <2>2. UNCHANGED canceled /\ stack' = <<e>> \o (F \o Rest) /\ ControlTypeOK
    BY <1>5 DEF CancelNode, TypeOK
  <2>. HIDE DEF e
  <2>3. G \in Seq(Frame) /\ Frames(G) = {e} \cup Frames(F) /\ Proceed(G)
    BY <2>1, <2>2, PushOver
  <2>. HIDE DEF G
  <2>4. \A f \in Frames(G) : Fit(f) /\ (f.op = "cancel" => Top.op = "cancel")
    BY <1>3, <2>1, <2>3 DEF Fit
  <2>5. \A k \in doomed : Stops(Top, k) => \E f \in Frames(G) : Stops(f, k)
    BY <2>1, <2>3 DEF Stops
  <2>. QED  BY <1>1, <1>2, <2>2, <2>3, <2>4, <2>5, PickedStep
<1>. QED  BY <1>4, <1>5

LEMMA LoopsPicked ==
  ASSUME TypeOK, PickedInv, Drop \/ CancelPicked
  PROVE  PickedInv'
<1>1. /\ Top \in DropFrame /\ Top.op \in {"drop", "cancel"} /\ stack # <<>>
      /\ UNCHANGED <<state, needs, members, doomed>>
  BY TopTypes DEF Drop, CancelPicked, OnTop, TypeOK
<1>. DEFINE L(d) == IF Top.op = "drop" THEN Dropping(Top.todo \ {d}) ELSE Canceling(Top.todo \ {d})
<1>2. PICK d \in Top.todo :
        \/ CancelNode(d, L(d) \o Rest)
        \/ Top.op = "drop" /\ Proceed(L(d)) /\ UNCHANGED canceled
  BY DEF Drop, CancelPicked, OnTop, Proceed
<1>3. d \in Keys /\ Top.todo \ {d} \in SUBSET Keys
  BY <1>1 DEF DropFrame
<1>. DEFINE F == L(d)
<1>4. /\ F \in Seq(Frame)
      /\ Frames(F) = IF Top.todo \ {d} = {} THEN {} ELSE {[op |-> Top.op, todo |-> Top.todo \ {d}]}
  BY <1>1, <1>3, DroppingFrames, CancelingFrames
<1>5. CancelNode(d, F \o Rest) \/ (Top.op = "drop" /\ Proceed(F) /\ UNCHANGED canceled)
  BY <1>2
<1>. HIDE DEF F, L
<1>6. \A f \in Frames(F) : f.op = Top.op /\ Fit(f)
  BY <1>1, <1>4 DEF Fit
<1>7. \A k \in doomed : Stops(Top, k) => k = d \/ \E f \in Frames(F) : Stops(f, k)
  <2>. DEFINE f == [op |-> Top.op, todo |-> Top.todo \ {d}]
  <2>1. ASSUME NEW k \in doomed, Stops(Top, k), k # d
        PROVE  Stops(f, k) /\ f \in Frames(F)
    BY <1>1, <1>4, <2>1 DEF Stops
  <2>. QED  BY <2>1
<1>8. CASE CancelNode(d, F \o Rest)
  BY <1>1, <1>3, <1>4, <1>6, <1>7, <1>8, PickedCancel
<1>9. CASE Top.op = "drop" /\ Proceed(F) /\ UNCHANGED canceled
  <2>1. Named' /\ doomed \subseteq Live' /\ \A k \in Keys : Idle(k)' = Idle(k)
    BY <1>1, PickedStays
  <2>2. doomed \subseteq Keys /\ \A k : ~Fails(Top, k) /\ ~Stops(Top, k)
    BY <1>9 DEF Fails, Stops, TypeOK, GraphTypeOK
  <2>. QED  BY <1>1, <1>4, <1>6, <1>9, <2>1, <2>2, PickedStep
<1>. QED  BY <1>5, <1>8, <1>9

LEMMA PreparePicked ==
  ASSUME GroupsPrepare, TypeOK, WantedInv, PickedInv, Prepare
  PROVE  PickedInv'
<1>1. stack # <<>> /\ Top.op = "prepare" /\ ControlTypeOK
  BY DEF Prepare, OnTop, TypeOK
<1>2. PICK k \in Keys : k = Top.key
  BY <1>1, TopTypes
<1>3. state' = [state EXCEPT ![k] = "waiting"] /\ UNCHANGED <<needs, members, canceled, doomed>>
  BY <1>2 DEF Prepare
<1>4. Top \in Frames(stack)
  BY <1>1, FramesOfStack
<1>5. k \in doomed => Members[k] # {}
  BY <1>1, <1>2, <1>4 DEF PickedInv, Fit
<1>6. PICK e \in Frame : Proceed(<<e>>) /\ Fit(e) /\ e.op # "cancel"
  <2>1. CASE \E H \in SUBSET Deps[k], S \in SUBSET Members[k] : Proceed(<<Linking(k, H, S)>>)
    <3>1. PICK H \in SUBSET Deps[k], S \in SUBSET Members[k] : Proceed(<<Linking(k, H, S)>>)
      BY <2>1
    <3>2. H \in SUBSET Keys /\ S \in SUBSET Keys
      BY SchedAssumption
    <3>3. Linking(k, H, S) \in Frame
      BY <3>2, LinkingType
    <3>4. Fit(Linking(k, H, S)) /\ Linking(k, H, S).op # "cancel"
      BY <1>5 DEF Fit, Linking
    <3>. QED  BY <3>1, <3>3, <3>4
  <2>2. CASE k \in Faulty /\ Proceed(<<Ending(k, "error")>>)
    <3>1. k \notin doomed
      BY <1>5, <2>2 DEF GroupsPrepare
    <3>2. Ending(k, "error") \in Frame
      BY EndingType DEF Outcome
    <3>3. Fit(Ending(k, "error")) /\ Ending(k, "error").op # "cancel"
      BY <3>1 DEF Fit, Ending
    <3>. QED  BY <2>2, <3>2, <3>3
  <2>. QED  BY <1>2, <2>1, <2>2 DEF Prepare
<1>. DEFINE F == <<e>>
<1>7. F \in Seq(Frame) /\ Frames(F) = {e}
  BY FramesOfOne
<1>8. Proceed(F)
  BY <1>6
<1>. HIDE DEF F
<1>9. Named'
  BY <1>3 DEF PickedInv, Named
<1>10. doomed \subseteq Live'
  BY <1>3 DEF PickedInv, Live, TypeOK, GraphTypeOK
<1>11. \A j \in Keys : j # k => (Idle(j)' <=> Idle(j))
  BY <1>3 DEF Idle, Outstanding, TypeOK, GraphTypeOK
<1>12. \A j : ~Stops(Top, j) /\ ~Fails(Top, j)
  BY <1>1 DEF Stops, Fails
<1>13. doomed \subseteq Keys
  BY DEF TypeOK, GraphTypeOK
<1>. QED  BY <1>1, <1>3, <1>5, <1>6, <1>7, <1>8, <1>9, <1>10, <1>11, <1>12, <1>13, PickedStep

\* What a task with members needs does not lead back to it.
LEMMA GroupNotReached ==
  ASSUME GroupsPrepare, TypeOK, Named, NEW k \in Keys, Members[k] # {},
         NEW d \in Deps[k] \cup Members[k]
  PROVE  ~Reaches(d, k)
<1>1. d \in Keys /\ LinkTypes(Deps, Members) /\ LinkTypes(needs, members)
  BY SchedAssumption DEF LinkTypes, TypeOK, GraphTypeOK
<1>2. k \notin Reached(Deps, Members, {d})
  BY DEF GroupsPrepare, Closure, Reached, Body, Further, Depth
<1>. DEFINE T == Reached(Deps, Members, {d})
<1>3. d \in T /\ T \in SUBSET Keys /\ Shut(Deps, Members, T)
  BY <1>1, ReachedShut
<1>. HIDE DEF T
<1>4. Shut(needs, members, T)
  BY <1>3 DEF Shut, Named
<1>5. {d} \in SUBSET T
  BY <1>3
<1>6. Reached(needs, members, {d}) \subseteq T
  BY <1>1, <1>3, <1>4, <1>5, ReachedWithin
<1>. QED  BY <1>2, <1>6, ReachesReached DEF T

LEMMA LinkPicked ==
  ASSUME GroupsPrepare, TypeOK, WaitsInv, PickedInv, Link
  PROVE  PickedInv'
<1>1. /\ Top \in LinkFrame /\ stack # <<>> /\ Top.op = "link" /\ ControlTypeOK
      /\ Top.todo \subseteq Top.hard \cup Top.soft
  BY LinkOnTop DEF Link, OnTop, Sound
<1>2. PICK k \in Keys : k = Top.key
  BY <1>1 DEF LinkFrame
<1>3. /\ Top \in Frames(stack) /\ Fit(Top)
      /\ Top.hard \subseteq Deps[k] /\ Top.soft \subseteq Members[k]
      /\ k \in doomed => Members[k] # {}
  BY <1>1, <1>2, FramesOfStack DEF PickedInv, Fit
<1>4. PICK d \in Top.todo : LET m == [Top EXCEPT !.todo = @ \ {d}]
        IN \/ Proceed(<<m>>) /\ UNCHANGED <<state, needs, members>>
           \/ /\ Reaches(d, k)
              /\ Proceed(<<Ending(k, "error"), m>>) /\ UNCHANGED <<state, needs, members>>
           \/ /\ \/ d \in Top.hard /\ needs' = [needs EXCEPT ![k] = @ \cup {d}] /\ UNCHANGED members
                 \/ d \notin Top.hard /\ members' = [members EXCEPT ![k] = @ \cup {d}] /\ UNCHANGED needs
              /\ \/ state[d] = "absent" /\ Add(d) /\ Proceed(<<Preparing(d), m>>)
                 \/ Proceed(<<m>>) /\ UNCHANGED state
  BY <1>2 DEF Link
<1>5. d \in Keys /\ d \in Deps[k] \cup Members[k] /\ (d \notin Top.hard => d \in Members[k])
  BY <1>1, <1>3 DEF LinkFrame
<1>6. PICK m \in Frame : /\ m = [Top EXCEPT !.todo = @ \ {d}]
                         /\ m.op = "link" /\ m.key = k /\ m.hard = Top.hard /\ m.soft = Top.soft
  <2>. DEFINE m == [Top EXCEPT !.todo = @ \ {d}]
  <2>1. m \in LinkFrame
    BY <1>1 DEF LinkFrame
  <2>2. m.op = "link" /\ m.key = k /\ m.hard = Top.hard /\ m.soft = Top.soft
    BY <1>1, <1>2 DEF LinkFrame
  <2>. HIDE DEF m
  <2>3. m \in Frame
    BY <2>1 DEF Frame
  <2>. QED  BY <2>2, <2>3 DEF m
<1>7. Fit(m) /\ m.op # "cancel"
  BY <1>3, <1>6 DEF Fit
<1>8. /\ UNCHANGED <<canceled, doomed>> /\ doomed \subseteq Keys
      /\ \A j : ~Stops(Top, j) /\ ~Fails(Top, j)
  BY <1>1 DEF Link, Stops, Fails, TypeOK, GraphTypeOK
<1>9. CASE Proceed(<<m>>) /\ UNCHANGED <<state, needs, members>>
  <2>. DEFINE F == <<m>>
  <2>1. F \in Seq(Frame) /\ Frames(F) = {m} /\ Proceed(F)
    BY <1>9, FramesOfOne
  <2>. HIDE DEF F
  <2>2. Named' /\ doomed \subseteq Live' /\ \A j \in Keys : Idle(j)' = Idle(j)
    BY <1>9, PickedStays
  <2>. QED  BY <1>1, <1>7, <1>8, <2>1, <2>2, PickedStep
<1>10. CASE /\ Reaches(d, k)
            /\ Proceed(<<Ending(k, "error"), m>>) /\ UNCHANGED <<state, needs, members>>
  <2>. DEFINE e == Ending(k, "error")
              F == <<e, m>>
  <2>1. e \in Frame /\ e.op = "end" /\ e.key = k /\ e.err = "error"
    BY EndingType DEF Outcome, Ending
  <2>. HIDE DEF e
  <2>2. F \in Seq(Frame) /\ Frames(F) = {e, m} /\ Proceed(F)
    BY <1>10, <2>1, FramesOfTwo DEF e
  <2>. HIDE DEF F
  <2>3. k \notin doomed
    BY <1>3, <1>5, <1>10, GroupNotReached DEF PickedInv
  <2>4. \A f \in Frames(F) : Fit(f) /\ f.op # "cancel"
    BY <1>7, <2>1, <2>2, <2>3 DEF Fit
  <2>5. Named' /\ doomed \subseteq Live' /\ \A j \in Keys : Idle(j)' = Idle(j)
    BY <1>10, PickedStays
  <2>. QED  BY <1>1, <1>8, <2>2, <2>4, <2>5, PickedStep
<1>11. CASE /\ \/ d \in Top.hard /\ needs' = [needs EXCEPT ![k] = @ \cup {d}] /\ UNCHANGED members
               \/ d \notin Top.hard /\ members' = [members EXCEPT ![k] = @ \cup {d}] /\ UNCHANGED needs
            /\ \/ state[d] = "absent" /\ Add(d) /\ Proceed(<<Preparing(d), m>>)
               \/ Proceed(<<m>>) /\ UNCHANGED state
  <2>1. /\ \A j \in Keys : Outstanding(j) \subseteq needs'[j] \cup members'[j]
        /\ Named'
    <3>1. CASE d \in Top.hard /\ needs' = [needs EXCEPT ![k] = @ \cup {d}] /\ UNCHANGED members
      BY <1>3, <3>1 DEF Outstanding, PickedInv, Named, TypeOK, GraphTypeOK
    <3>2. CASE d \notin Top.hard /\ members' = [members EXCEPT ![k] = @ \cup {d}] /\ UNCHANGED needs
      BY <1>5, <3>2 DEF Outstanding, PickedInv, Named, TypeOK, GraphTypeOK
    <3>. QED  BY <1>11, <3>1, <3>2
  <2>2. \A j \in doomed : state'[j] = state[j]
    <3>1. CASE state[d] = "absent" /\ Add(d)
      BY <1>5, <1>8, <3>1 DEF Add, PickedInv, Live, TypeOK, GraphTypeOK
    <3>. QED  BY <1>11, <3>1
  <2>3. doomed \subseteq Live' /\ \A j \in doomed : Idle(j)' => Idle(j)
    BY <1>8, <2>1, <2>2 DEF PickedInv, Live, Idle, Outstanding
  <2>4. CASE state[d] = "absent" /\ Proceed(<<Preparing(d), m>>)
    <3>. DEFINE p == Preparing(d)
                F == <<p, m>>
    <3>1. p \in Frame /\ p.op = "prepare" /\ p.key = d
      BY <1>5, PreparingType DEF Preparing
    <3>. HIDE DEF p
    <3>2. F \in Seq(Frame) /\ Frames(F) = {p, m} /\ Proceed(F)
      BY <1>6, <2>4, <3>1, FramesOfTwo DEF p
    <3>. HIDE DEF F
    <3>3. d \notin doomed
      BY <2>4 DEF PickedInv, Live
    <3>4. \A f \in Frames(F) : Fit(f) /\ f.op # "cancel"
      BY <1>7, <3>1, <3>2, <3>3 DEF Fit
    <3>. QED  BY <1>1, <1>8, <2>1, <2>3, <3>2, <3>4, PickedStep
  <2>5. CASE Proceed(<<m>>)
    <3>. DEFINE F == <<m>>
    <3>1. F \in Seq(Frame) /\ Frames(F) = {m} /\ Proceed(F)
      BY <2>5, FramesOfOne
    <3>. HIDE DEF F
    <3>. QED  BY <1>1, <1>7, <1>8, <2>1, <2>3, <3>1, PickedStep
  <2>. QED  BY <1>11, <2>4, <2>5
<1>. QED  BY <1>4, <1>6, <1>9, <1>10, <1>11

LEMMA LinkedPicked ==
  ASSUME TypeOK, PickedInv, Linked \/ Return
  PROVE  PickedInv'
<1>1. stack # <<>> /\ Proceed(<<>>) /\ UNCHANGED <<needs, members, canceled, doomed>>
  BY DEF Linked, Return, OnTop, graph
<1>2. doomed \subseteq Keys
  BY DEF TypeOK, GraphTypeOK
<1>3. state' = state \/ state' = [state EXCEPT ![Top.key] = "ready"]
  BY DEF Linked, Return, graph
<1>4. Named' /\ doomed \subseteq Live' /\ \A k \in Keys : Idle(k)' => Idle(k)
  BY <1>1, <1>3 DEF PickedInv, Named, Live, Idle, Outstanding, TypeOK, GraphTypeOK
<1>5. \A k : ~Stops(Top, k) /\ ~Fails(Top, k)
  BY DEF Linked, Return, OnTop, Stops, Fails
<1>. QED  BY <1>1, <1>2, <1>4, <1>5, PickedPop

\* What End leaves of a frame does for the other tasks what the frame did.
LEMMA WithoutPicked ==
  ASSUME NEW f \in Frame, NEW k \in Keys
  PROVE  /\ Fit(f) => Fit(Without(f, k))
         /\ Without(f, k).op = "cancel" => f.op = "cancel"
         /\ \A j \in Keys : j # k /\ Stops(f, j) => Stops(Without(f, k), j)
         /\ \A j \in Keys : j # k /\ Fails(f, j) => Fails(Without(f, k), j)
<1>. USE DEF Frame, PrepareFrame, LinkFrame, EndFrame, DropFrame, TellFrame, ReplaceFrame,
             WithdrawFrame
<1>1. CASE f.op = "link" /\ f.key = k
  <2>1. Without(f, k).op = "gone"
    BY <1>1 DEF Without
  <2>. QED  BY <1>1, <2>1 DEF Fit, Stops, Fails
<1>2. CASE f.op \in {"drop", "cancel", "withdraw"}
  <2>1. Without(f, k) = [f EXCEPT !.todo = @ \ {k}]
    BY <1>2 DEF Without
  <2>2. Without(f, k).op = f.op /\ Without(f, k).todo = f.todo \ {k}
    BY <1>2, <2>1
  <2>. QED  BY <1>2, <2>2 DEF Fit, Stops, Fails
<1>3. CASE f.op = "tell"
  <2>1. Without(f, k) = [f EXCEPT !.todo = @ \ {k}] /\ f \in TellFrame
    BY <1>3 DEF Without
  <2>2. /\ Without(f, k).op = "tell" /\ Without(f, k).err = f.err
        /\ Without(f, k).todo = f.todo \ {k} /\ Without(f, k).hard = f.hard
    BY <1>3, <2>1
  <2>. QED  BY <1>3, <2>2 DEF Fit, Stops, Fails
<1>4. CASE ~(f.op = "link" /\ f.key = k) /\ f.op \notin {"drop", "cancel", "tell", "withdraw"}
  <2>1. Without(f, k) = f
    BY <1>4 DEF Without
  <2>. QED  BY <2>1
<1>. QED  BY <1>1, <1>2, <1>3, <1>4

LEMMA EndPicked ==
  ASSUME TypeOK, WantedInv, CallsCurrent, PickedInv, End
  PROVE  PickedInv'
<1>1. Top \in EndFrame /\ stack # <<>> /\ Top.op = "end" /\ ControlTypeOK
  BY TopTypes DEF End, OnTop, TypeOK
<1>2. PICK d \in Keys : d = Top.key
  BY <1>1 DEF EndFrame
<1>3. doomed \subseteq Keys /\ doomed \subseteq Live
  BY DEF PickedInv, TypeOK, GraphTypeOK
<1>4. CASE state[d] = "absent"
  <2>1. Proceed(<<>>) /\ UNCHANGED <<state, needs, members, canceled, doomed>>
    BY <1>2, <1>4 DEF End, graph
  <2>2. Named' /\ doomed \subseteq Live' /\ \A k \in Keys : Idle(k)' = Idle(k)
    BY <2>1, PickedStays
  <2>3. \A k \in doomed : ~Stops(Top, k) /\ ~Fails(Top, k)
    BY <1>1, <1>2, <1>3, <1>4 DEF Stops, Fails, Live
  <2>. QED  BY <1>1, <1>3, <2>1, <2>2, <2>3, PickedPop
<1>5. CASE state[d] # "absent"
  <2>. DEFINE H == {w \in Keys : d \in needs[w]}
              F == Dropping(Wants(d))
              G == Telling(d, Top.err, WantedBy(d), H, {w \in Keys : d \in members[w]})
              C == Cut(Rest, d)
  <2>1. /\ state' = [state EXCEPT ![d] = "absent"]
        /\ canceled' = canceled \ {d} /\ doomed' = doomed \ {d}
        /\ stack' = F \o G \o C
        /\ \A k \in Keys : needs'[k] = (IF k = d THEN {} ELSE needs[k]) \ {d}
        /\ \A k \in Keys : members'[k] = (IF k = d THEN {} ELSE members[k]) \ {d}
    <3>1. /\ state' = [state EXCEPT ![d] = "absent"]
          /\ canceled' = canceled \ {d} /\ doomed' = doomed \ {d}
          /\ stack' = F \o G \o C
      BY <1>2, <1>5 DEF End, Cut
    <3>2. /\ needs' = [w \in Keys |-> [needs EXCEPT ![d] = {}][w] \ {d}]
          /\ members' = [w \in Keys |-> [members EXCEPT ![d] = {}][w] \ {d}]
      BY <1>2, <1>5 DEF End
    <3>. HIDE DEF F, G, C
    <3>. QED  BY <3>1, <3>2 DEF TypeOK, GraphTypeOK
  <2>2. Rest \in Seq(Frame) /\ Calm(Rest)
    BY <1>1, TopCalm
  <2>3. /\ Frames(stack) = {Top} \cup Frames(Rest) /\ Frames(stack) \subseteq Frame
    BY <1>1, FramesOfStack
  <2>4. C \in Seq(Frame) /\ Frames(C) = {Without(f, d) : f \in Frames(Rest)}
    BY <2>2, FramesCut
  <2>5. Wants(d) \in SUBSET Keys /\ WantedBy(d) \in SUBSET Keys /\ Top.err \in Outcome /\ H \in SUBSET Keys
    BY <1>1 DEF Wants, WantedBy, EndFrame, TypeOK, GraphTypeOK
  <2>6. F \in Seq(Frame) /\ \A f \in Frames(F) : f.op = "drop"
    BY <2>5, DroppingFrames
  <2>7. /\ G \in Seq(Frame)
        /\ \A f \in Frames(G) : f.op = "tell" /\ f.err = Top.err
        /\ \A k \in WantedBy(d) \cap H : \E f \in Frames(G) : Fails(f, k)
    <3>. DEFINE t == [op |-> "tell", key |-> d, err |-> Top.err, todo |-> WantedBy(d), hard |-> H,
                      soft |-> {w \in Keys : d \in members[w]}]
    <3>1. t \in Frame
      BY <2>5 DEF Frame, TellFrame
    <3>2. G = Loop(t) /\ t.op = "tell" /\ t.err = Top.err /\ t.todo = WantedBy(d) /\ t.hard = H
      BY DEF Telling
    <3>. HIDE DEF t, G, H
    <3>3. G \in Seq(Frame) /\ Frames(G) = IF t.todo = {} THEN {} ELSE {t}
      BY <3>1, <3>2, FramesOfLoop
    <3>. QED  BY <3>2, <3>3 DEF Fails
  <2>. HIDE DEF F, G, C
  <2>8. Frames(stack)' = Frames(F) \cup Frames(G) \cup Frames(C)
    <3>1. F \o G \in Seq(Frame) /\ Frames(F \o G) = Frames(F) \cup Frames(G)
      BY <2>6, <2>7, FramesConcat
    <3>2. Frames(F \o G \o C) = Frames(F \o G) \cup Frames(C)
      BY <2>4, <3>1, FramesConcat
    <3>3. Frames(stack)' = Frames(F \o G \o C)
      BY <2>1 DEF Frames
    <3>. QED  BY <3>1, <3>2, <3>3
  <2>9. /\ Fit(Top)
        /\ \A f \in Frames(Rest) : Fit(f) /\ Fit(Without(f, d)) /\ f \in Frame
    BY <2>3, WithoutPicked DEF PickedInv
  <2>10. Bulk' => Bulk
    <3>1. \A f \in Frames(C) : f.op = "cancel" => Bulk
      BY <2>3, <2>4, WithoutPicked DEF Bulk
    <3>. QED  BY <2>6, <2>7, <2>8, <3>1 DEF Bulk
  <2>11. \A f \in Frames(stack)' : Fit(f)
    <3>1. \A f \in Frames(C) : Fit(f)
      BY <2>4, <2>9
    <3>2. \A f \in Frames(F) : Fit(f)
      BY <2>6 DEF Fit
    <3>3. \A f \in Frames(G) : Fit(f)
      BY <1>1, <2>7, <2>9 DEF Fit
    <3>. QED  BY <2>8, <3>1, <3>2, <3>3
  <2>12. \A f \in Frames(stack)' : Fit(f)'
    BY <2>1, <2>10, <2>11 DEF Fit
  <2>13. Named'
    BY <2>1 DEF PickedInv, Named
  <2>14. doomed' \subseteq Live'
    BY <1>3, <2>1 DEF Live, TypeOK, GraphTypeOK
  <2>15. \A k \in doomed' : k \in canceled' \/ \E f \in Frames(stack)' : Stops(f, k)
    <3> SUFFICES ASSUME NEW k \in doomed', k \notin canceled'
                 PROVE  \E f \in Frames(stack)' : Stops(f, k)
      OBVIOUS
    <3>1. k \in Keys /\ k # d /\ k \in doomed /\ k \notin canceled
      BY <1>3, <2>1
    <3>2. PICK f \in Frames(stack) : Stops(f, k)
      BY <3>1 DEF PickedInv
    <3>3. f \in Frames(Rest) /\ f \in Frame
      BY <1>1, <1>2, <2>3, <3>1, <3>2 DEF Stops
    <3>4. Stops(Without(f, d), k)
      BY <3>1, <3>2, <3>3, WithoutPicked
    <3>. QED  BY <2>4, <2>8, <3>3, <3>4
  <2>16. \A k \in doomed' : Members[k] = {} /\ Idle(k)' => \E f \in Frames(stack)' : Fails(f, k)
    <3> SUFFICES ASSUME NEW k \in doomed', Members[k] = {}, Idle(k)'
                 PROVE  \E f \in Frames(stack)' : Fails(f, k)
      OBVIOUS
    <3>1. k \in Keys /\ k # d /\ k \in doomed
      BY <1>3, <2>1
    <3>2. members[k] = {}
      BY <3>1 DEF PickedInv, Named
    <3>3. state[k] = "waiting" /\ needs[k] \subseteq {d}
      BY <2>1, <3>1 DEF Idle, Outstanding, TypeOK, GraphTypeOK
    <3>4. CASE d \in needs[k]
      <4>1. k \in WantedBy(d) \cap H
        BY <3>1, <3>4 DEF WantedBy, Wants
      <4>. QED  BY <2>7, <2>8, <4>1
    <3>5. CASE d \notin needs[k]
      <4>1. Idle(k)
        BY <3>2, <3>3, <3>5 DEF Idle, Outstanding
      <4>2. PICK f \in Frames(stack) : Fails(f, k)
        BY <3>1, <4>1 DEF PickedInv
      <4>3. f \in Frames(Rest) /\ f \in Frame
        BY <1>1, <1>2, <2>3, <3>1, <4>2 DEF Fails
      <4>4. Fails(Without(f, d), k)
        BY <3>1, <4>2, <4>3, WithoutPicked
      <4>. QED  BY <2>4, <2>8, <4>3, <4>4
    <3>. QED  BY <3>4, <3>5
  <2>. QED  BY <2>12, <2>13, <2>14, <2>15, <2>16 DEF PickedInv, Stops, Fails
<1>. QED  BY <1>4, <1>5

\* A picked task that hears of an end while it waits hears of a failure: the
\* bulk cancel that picked it is still under way.
LEMMA PickedHearsFailure ==
  ASSUME TypeOK, WantedInv, CallsCurrent, PickedInv, OnTop("tell"),
         NEW w \in doomed, state[w] = "waiting"
  PROVE  Top.err # "ok"
<1>1. stack # <<>> /\ Top.op = "tell" /\ ControlTypeOK
  BY DEF OnTop, TypeOK
<1>2. Frames(stack) = {Top} \cup Frames(Rest) /\ Calm(Rest)
  BY <1>1, FramesOfStack, TopCalm
<1>3. w \notin canceled
  BY DEF WantedInv, Running
<1>4. PICK f \in Frames(stack) : Stops(f, w)
  BY <1>3 DEF PickedInv
<1>5. f.op = "cancel"
  BY <1>1, <1>2, <1>4 DEF Stops, Calm, Current
<1>6. Bulk
  BY <1>4, <1>5 DEF Bulk
<1>. QED  BY <1>1, <1>2, <1>6 DEF PickedInv, Fit

LEMMA TellPicked ==
  ASSUME TypeOK, WantedInv, CallsCurrent, PickedInv, Tell
  PROVE  PickedInv'
<1>1. Top \in TellFrame /\ Top.op = "tell" /\ stack # <<>> /\ ControlTypeOK
  BY TopTypes DEF Tell, OnTop, TypeOK
<1>2. UNCHANGED <<state, needs, members, canceled, doomed>> /\ doomed \subseteq Keys
  BY DEF Tell, TypeOK, GraphTypeOK
<1>3. PICK w \in Top.todo :
        LET rest == Loop([Top EXCEPT !.todo = @ \ {w}]) \o Rest
            fails == Top.err # "ok" /\ w \in Top.hard
        IN  \/ state[w] # "waiting" /\ stack' = rest
            \/ state[w] = "waiting" /\ fails /\ stack' = <<Ending(w, FailsAs(w))>> \o rest
            \/ /\ state[w] = "waiting" /\ ~fails /\ Outstanding(w) = {} /\ ~AboutToHear(w, rest)
               /\ stack' = <<Preparing(w)>> \o rest
            \/ state[w] = "waiting" /\ ~fails /\ stack' = rest
  BY DEF Tell
<1>4. w \in Keys
  BY <1>1 DEF TellFrame
<1>5. PICK m \in Frame : /\ m = [Top EXCEPT !.todo = @ \ {w}]
                         /\ m.op = "tell" /\ m.err = Top.err /\ m.todo = Top.todo \ {w}
                         /\ m.hard = Top.hard
  <2>. DEFINE m == [Top EXCEPT !.todo = @ \ {w}]
  <2>1. m \in TellFrame
    BY <1>1 DEF TellFrame
  <2>2. m.op = "tell" /\ m.err = Top.err /\ m.todo = Top.todo \ {w} /\ m.hard = Top.hard
    BY <1>1 DEF TellFrame
  <2>. HIDE DEF m
  <2>3. m \in Frame
    BY <2>1 DEF Frame
  <2>. QED  BY <2>2, <2>3 DEF m
<1>6. PICK L \in Seq(Frame) : L = Loop(m) /\ Frames(L) = IF m.todo = {} THEN {} ELSE {m}
  BY <1>5, FramesOfLoop
<1>7. /\ Frames(stack) = {Top} \cup Frames(Rest) /\ Frames(stack) \subseteq Frame
      /\ Rest \in Seq(Frame) /\ Calm(Rest)
  BY <1>1, FramesOfStack, TopCalm
<1>8. Fit(Top)
  BY <1>7 DEF PickedInv
<1>9. \A f \in Frames(L) : Fit(f) /\ f.op # "cancel"
  BY <1>1, <1>5, <1>6, <1>8 DEF Fit
<1>10. \A j \in Keys : j # w /\ Fails(Top, j) => \E f \in Frames(L) : Fails(f, j)
  <2>1. ASSUME NEW j \in Keys, j # w, Fails(Top, j)
        PROVE  Fails(m, j) /\ m \in Frames(L)
    BY <1>1, <1>5, <1>6, <2>1 DEF Fails
  <2>. QED  BY <2>1
<1>11. \A j : ~Stops(Top, j)
  BY <1>1 DEF Stops
<1>12. Named' /\ doomed \subseteq Live' /\ \A j \in Keys : Idle(j)' = Idle(j)
  BY <1>2, PickedStays
<1>13. w \in doomed /\ state[w] = "waiting" => Top.err # "ok"
  BY <1>1, PickedHearsFailure DEF OnTop
<1>14. ASSUME NEW F \in Seq(Frame), Proceed(F), Frames(L) \subseteq Frames(F),
              \A f \in Frames(F) : Fit(f) /\ f.op # "cancel",
              w \in doomed /\ Idle(w) /\ Fails(Top, w) => \E f \in Frames(F) : Fails(f, w)
       PROVE  PickedInv'
  <2>1. \A k \in doomed : Members[k] = {} /\ Idle(k)' =>
           (Idle(k) /\ ~Fails(Top, k)) \/ \E f \in Frames(F) : Fails(f, k)
    BY <1>2, <1>10, <1>12, <1>14
  <2>. QED  BY <1>1, <1>2, <1>11, <1>12, <1>14, <2>1, PickedStep
<1>15. CASE /\ stack' = L \o Rest
            /\ state[w] # "waiting" \/ ~(Top.err # "ok" /\ w \in Top.hard)
  <2>1. ~(w \in doomed /\ Idle(w) /\ Fails(Top, w))
    BY <1>1, <1>13, <1>15 DEF Idle, Fails
  <2>2. Proceed(L)
    BY <1>15 DEF Proceed
  <2>. QED  BY <1>9, <1>14, <2>1, <2>2
<1>16. CASE /\ state[w] = "waiting" /\ Top.err # "ok"
            /\ stack' = <<Ending(w, FailsAs(w))>> \o (L \o Rest)
  <2>. DEFINE e == Ending(w, FailsAs(w))
  <2>1. e \in Frame /\ e.op = "end" /\ e.key = w /\ e.err = FailsAs(w)
    BY <1>4, EndingType DEF Outcome, Ending, FailsAs
  <2>. HIDE DEF e
  <2>2. PICK F \in Seq(Frame) : Frames(F) = {e} \cup Frames(L) /\ Proceed(F)
    BY <1>1, <1>16, <2>1, PushOver DEF e
  <2>3. Fit(e) /\ e.op # "cancel" /\ Fails(e, w)
    BY <2>1 DEF Fit, FailsAs, Fails
  <2>. QED  BY <1>9, <1>14, <2>2, <2>3
<1>17. CASE /\ state[w] = "waiting" /\ ~(Top.err # "ok" /\ w \in Top.hard)
            /\ Outstanding(w) = {} /\ ~AboutToHear(w, L \o Rest)
            /\ stack' = <<Preparing(w)>> \o (L \o Rest)
  <2>. DEFINE e == Preparing(w)
  <2>1. e \in Frame /\ e.op = "prepare" /\ e.key = w
    BY <1>4, PreparingType DEF Preparing
  <2>. HIDE DEF e
  <2>2. PICK F \in Seq(Frame) : Frames(F) = {e} \cup Frames(L) /\ Proceed(F)
    BY <1>1, <1>17, <2>1, PushOver DEF e
  <2>3. ASSUME w \in doomed, Members[w] = {}
        PROVE  FALSE
    <3>1. PICK f \in Frames(stack) : Fails(f, w)
      BY <1>17, <2>3 DEF PickedInv, Idle
    <3>2. f \in Frames(Rest) /\ f.op = "tell" /\ w \in f.todo \cap f.hard
      BY <1>1, <1>7, <1>13, <1>17, <2>3, <3>1 DEF Fails, Calm, Current
    <3>3. L \o Rest \in Seq(Frame) /\ f \in Frames(L \o Rest)
      BY <1>7, <3>2, FramesConcat
    <3>4. PICK i \in 1 .. Len(L \o Rest) : f = (L \o Rest)[i]
      BY <3>3 DEF Frames
    <3>5. i \in DOMAIN (L \o Rest)
      BY <3>3, <3>4, LenProperties
    <3>. QED  BY <1>17, <3>2, <3>4, <3>5 DEF AboutToHear
  <2>4. Fit(e) /\ e.op # "cancel"
    BY <2>1, <2>3 DEF Fit
  <2>5. ~(w \in doomed /\ Idle(w) /\ Fails(Top, w))
    BY <1>1, <1>13, <1>17 DEF Idle, Fails
  <2>. QED  BY <1>9, <1>14, <2>2, <2>4, <2>5
<1>. QED  BY <1>3, <1>5, <1>6, <1>15, <1>16, <1>17

\* A new task is not one that was picked.
LEMMA NewNotPicked ==
  ASSUME TypeOK, PickedInv, NEW k \in Keys, state[k] = "absent", Add(k)
  PROVE  k \notin doomed /\ \A j \in doomed : state'[j] = state[j]
BY DEF PickedInv, Live, Add, TypeOK, GraphTypeOK

LEMMA RequestsPicked ==
  ASSUME TypeOK, PickedInv, ReplaceNext \/ WithdrawNext
  PROVE  PickedInv'
<1>1. /\ stack # <<>> /\ Top.op \in {"replace", "withdraw"} /\ doomed \subseteq Keys
      /\ UNCHANGED <<needs, members, canceled, doomed>>
  BY DEF ReplaceNext, WithdrawNext, OnTop, TypeOK, GraphTypeOK
<1>2. \A j : ~Stops(Top, j) /\ ~Fails(Top, j)
  BY <1>1 DEF Stops, Fails
<1>3. ASSUME NEW F \in Seq(Frame), Proceed(F), \A f \in Frames(F) : Fit(f) /\ f.op # "cancel",
             \A j \in doomed : state'[j] = state[j]
      PROVE  PickedInv'
  <2>1. Named' /\ doomed \subseteq Live' /\ \A j \in doomed : Idle(j)' = Idle(j)
    BY <1>1, <1>3 DEF PickedInv, Named, Live, Idle, Outstanding
  <2>. QED  BY <1>1, <1>2, <1>3, <2>1, PickedStep
<1>4. CASE ReplaceNext
  <2>. DEFINE more(k) == [Top EXCEPT !.todo = @ \ {k}]
              lost == {k \in Keys : requests[k][Top.source] # NoPriority} \ Top.keep
  <2>1. Top \in ReplaceFrame
    BY <1>1, <1>4, TopTypes DEF ReplaceNext, OnTop, TypeOK
  <2>2. CASE Proceed(Withdrawing(Top.source, lost)) /\ UNCHANGED state
    <3>. DEFINE F == Withdrawing(Top.source, lost)
    <3>1. F \in Seq(Frame) /\ \A f \in Frames(F) : f.op = "withdraw"
      BY <2>1, WithdrawingFrames DEF ReplaceFrame
    <3>2. Proceed(F)
      BY <2>2
    <3>. HIDE DEF F
    <3>3. \A f \in Frames(F) : Fit(f) /\ f.op # "cancel"
      BY <3>1 DEF Fit
    <3>. QED  BY <1>3, <2>2, <3>1, <3>2, <3>3
  <2>3. ASSUME NEW k \in Top.todo,
               \/ state[k] = "absent" /\ Add(k) /\ Proceed(<<Preparing(k), more(k)>>)
               \/ Proceed(<<more(k)>>) /\ UNCHANGED state
        PROVE  PickedInv'
    <3>1. k \in Keys /\ more(k) \in Frame /\ more(k).op = "replace"
      BY <2>1 DEF ReplaceFrame, Frame
    <3>2. CASE state[k] = "absent" /\ Add(k) /\ Proceed(<<Preparing(k), more(k)>>)
      <4>. DEFINE p == Preparing(k)
                  m == more(k)
                  F == <<p, m>>
      <4>1. p \in Frame /\ p.op = "prepare" /\ p.key = k /\ m \in Frame /\ m.op = "replace"
        BY <3>1, PreparingType DEF Preparing
      <4>2. Proceed(F)
        BY <3>2
      <4>. HIDE DEF p, m
      <4>3. F \in Seq(Frame) /\ Frames(F) = {p, m}
        BY <4>1, FramesOfTwo
      <4>. HIDE DEF F
      <4>4. k \notin doomed /\ \A j \in doomed : state'[j] = state[j]
        BY <3>1, <3>2, NewNotPicked
      <4>5. \A f \in Frames(F) : Fit(f) /\ f.op # "cancel"
        BY <4>1, <4>3, <4>4 DEF Fit
      <4>. QED  BY <1>3, <4>2, <4>3, <4>4, <4>5
    <3>3. CASE Proceed(<<more(k)>>) /\ UNCHANGED state
      <4>. DEFINE m == more(k)
                  F == <<m>>
      <4>1. m \in Frame /\ m.op = "replace" /\ Proceed(F)
        BY <3>1, <3>3
      <4>. HIDE DEF m
      <4>2. F \in Seq(Frame) /\ Frames(F) = {m}
        BY <4>1, FramesOfOne
      <4>. HIDE DEF F
      <4>3. \A f \in Frames(F) : Fit(f) /\ f.op # "cancel"
        BY <4>1, <4>2 DEF Fit
      <4>. QED  BY <1>3, <3>3, <4>1, <4>2, <4>3
    <3>. QED  BY <2>3, <3>2, <3>3
  <2>. QED  BY <1>4, <2>2, <2>3 DEF ReplaceNext
<1>5. CASE WithdrawNext
  <2>1. Top \in WithdrawFrame /\ UNCHANGED state
    BY <1>1, <1>5, TopTypes DEF WithdrawNext, OnTop, TypeOK
  <2>2. PICK k \in Top.todo : Proceed(Dropping({k}) \o Withdrawing(Top.source, Top.todo \ {k}))
    BY <1>5 DEF WithdrawNext
  <2>. DEFINE D == Dropping({k})
              W == Withdrawing(Top.source, Top.todo \ {k})
              F == D \o W
  <2>3. {k} \in SUBSET Keys /\ Top.todo \ {k} \in SUBSET Keys /\ Top.source \in Sources
    BY <2>1 DEF WithdrawFrame
  <2>4. D \in Seq(Frame) /\ \A f \in Frames(D) : f.op = "drop"
    BY <2>3, DroppingFrames
  <2>5. W \in Seq(Frame) /\ \A f \in Frames(W) : f.op = "withdraw"
    BY <2>3, WithdrawingFrames
  <2>6. Proceed(F)
    BY <2>2
  <2>. HIDE DEF D, W
  <2>7. F \in Seq(Frame) /\ \A f \in Frames(F) : f.op \in {"drop", "withdraw"}
    BY <2>4, <2>5, FramesConcat
  <2>. HIDE DEF F
  <2>8. \A f \in Frames(F) : Fit(f) /\ f.op # "cancel"
    BY <2>7 DEF Fit
  <2>. QED  BY <1>3, <2>1, <2>6, <2>7, <2>8
<1>. QED  BY <1>4, <1>5

LEMMA CallsPicked ==
  ASSUME TypeOK, Dispatched, WantedInv, WaitsInv, PickedInv, Asking \/ Stopping
  PROVE  PickedInv'
<1>1. stack = <<>> \/ Close
  BY DEF Asking, Stopping, Request, Raise, Replace, Adopt, Withdraw, Cancel, CancelWhere,
         SetGate, Call, Dispatched
<1>2. UNCHANGED <<needs, members>> /\ doomed \subseteq Keys
  BY DEF Asking, Stopping, Request, Raise, Replace, Adopt, Withdraw, Cancel, CancelWhere,
         SetGate, Close, graph, TypeOK, GraphTypeOK
<1>3. ASSUME UNCHANGED <<state, canceled, doomed, stack>>
      PROVE  PickedInv'
  BY <1>2, <1>3 DEF PickedInv, Named, Live, Fit, Bulk, Stops, Fails, Idle, Outstanding, Frames
<1>4. ASSUME NEW k \in Keys, state[k] = "absent", Add(k), stack = <<>>, stack' = <<Preparing(k)>>,
             UNCHANGED <<canceled, doomed>>
      PROVE  PickedInv'
  <2>. DEFINE p == Preparing(k)
              F == <<p>>
  <2>1. p \in Frame /\ p.op = "prepare" /\ p.key = k
    BY PreparingType DEF Preparing
  <2>2. stack' = F
    BY <1>4
  <2>. HIDE DEF p
  <2>3. F \in Seq(Frame) /\ Frames(F) = {p}
    BY <2>1, FramesOfOne
  <2>. HIDE DEF F
  <2>4. k \notin doomed /\ \A j \in doomed : state'[j] = state[j]
    BY <1>4, NewNotPicked
  <2>. QED  BY <1>2, <1>4, <2>1, <2>2, <2>3, <2>4, PickedSettled
<1>5. ASSUME NEW F \in Seq(Frame), stack = <<>>, stack' = F, UNCHANGED <<state, canceled, doomed>>,
             \A f \in Frames(F) : f.op \in {"replace", "withdraw"}
      PROVE  PickedInv'
  BY <1>2, <1>5, PickedSettled
<1>6. ASSUME NEW s \in Sources, NEW p \in Prios, NEW k \in Keys, Request(s, p, k)
      PROVE  PickedInv'
  BY <1>1, <1>3, <1>4, <1>6 DEF Request, Close, Call, Dispatched
<1>7. ASSUME NEW w \in Keys, NEW k \in Keys, Adopt(w, k)
      PROVE  PickedInv'
  BY <1>1, <1>3, <1>4, <1>7 DEF Adopt, Close, Call, Dispatched
<1>8. ASSUME NEW s \in Sources, NEW p \in Prios, NEW K \in Batches, Replace(s, p, K)
      PROVE  PickedInv'
  <2>. DEFINE e == Replacing(s, p, K, K)
              F == <<e>>
  <2>1. e \in Frame /\ e.op = "replace"
    BY SchedAssumption, ReplacingType DEF Replacing
  <2>2. stack' = F /\ stack = <<>> /\ UNCHANGED <<state, canceled, doomed>>
    BY <1>8 DEF Replace, Call, Dispatched, graph
  <2>. HIDE DEF e
  <2>3. F \in Seq(Frame) /\ Frames(F) = {e}
    BY <2>1, FramesOfOne
  <2>. HIDE DEF F
  <2>. QED  BY <1>5, <2>1, <2>2, <2>3
<1>9. ASSUME NEW s \in Sources, NEW K \in Batches, Withdraw(s, K)
      PROVE  PickedInv'
  <2>. DEFINE F == Withdrawing(s, K)
  <2>1. F \in Seq(Frame) /\ \A f \in Frames(F) : f.op = "withdraw"
    BY SchedAssumption, WithdrawingFrames
  <2>2. stack' = F /\ stack = <<>> /\ UNCHANGED <<state, canceled, doomed>>
    BY <1>9 DEF Withdraw, Call, Dispatched, graph
  <2>. HIDE DEF F
  <2>. QED  BY <1>5, <2>1, <2>2
<1>10. ASSUME NEW k \in Keys, Cancel(k)
       PROVE  PickedInv'
  <2>1. stack = <<>> /\ UNCHANGED <<state, doomed>> /\ CancelNode(k, <<>>)
    BY <1>10 DEF Cancel, Call, Dispatched
  <2>2. CASE state[k] = "running"
    <3>. DEFINE F == <<>>
    <3>1. F \in Seq(Frame) /\ Frames(F) = {} /\ stack' = F /\ canceled \subseteq canceled'
      BY <2>1, <2>2, FramesOfNone DEF CancelNode
    <3>. HIDE DEF F
    <3>. QED  BY <1>2, <2>1, <3>1, PickedSettled
  <2>3. CASE state[k] # "running"
    <3>. DEFINE e == Ending(k, "canceled")
                F == <<e>>
    <3>1. e \in Frame /\ e.op = "end" /\ e.key = k /\ e.err = "canceled"
      BY EndingType DEF Outcome, Ending
    <3>. HIDE DEF e
    <3>2. F \in Seq(Frame) /\ Frames(F) = {e}
      BY <3>1, FramesOfOne
    <3>3. F \o <<>> = F /\ stack' = F /\ UNCHANGED canceled
      BY <2>1, <2>3, <3>2, ConcatEmptySeq DEF CancelNode, e
    <3>. HIDE DEF F
    <3>. QED  BY <1>2, <2>1, <3>1, <3>2, <3>3, PickedSettled
  <2>. QED  BY <2>2, <2>3
<1>11. ASSUME NEW K \in Batches, CancelWhere(K)
       PROVE  PickedInv'
  <2>1. /\ stack = <<>> /\ doomed' = doomed \cup K /\ stack' = Canceling(K) /\ K \subseteq Live
        /\ K # {} /\ UNCHANGED <<state, canceled>>
    BY <1>11 DEF CancelWhere, Call, Dispatched
  <2>2. K \in SUBSET Keys
    BY SchedAssumption
  <2>3. Frames(stack)' = {[op |-> "cancel", todo |-> K]}
    <3>1. Frames(Canceling(K)) = {[op |-> "cancel", todo |-> K]}
      BY <2>1, <2>2, CancelingFrames
    <3>. QED  BY <2>1, <3>1 DEF Frames
  <2>4. doomed \subseteq canceled
    BY <2>1, FramesOfNone DEF PickedInv
  <2>5. \A k \in Keys : ~Idle(k)
    BY <2>1, FramesOfNone DEF WaitsInv
  <2>6. Named' /\ doomed' \subseteq Live' /\ \A k \in Keys : ~Idle(k)'
    BY <1>2, <2>1, <2>5 DEF PickedInv, Named, Live, Idle, Outstanding
  <2>7. \A f \in Frames(stack)' : Fit(f)'
    BY <2>3 DEF Fit
  <2>8. \A k \in doomed' : k \in canceled' \/ \E f \in Frames(stack)' : Stops(f, k)
    BY <2>1, <2>3, <2>4 DEF Stops
  <2>. QED  BY <1>2, <2>1, <2>2, <2>6, <2>7, <2>8 DEF PickedInv, Stops
<1>12. ASSUME \/ \E s \in Sources, p \in Prios, k \in Keys : Raise(s, p, k)
              \/ \E g \in Gates : SetGate(g)
              \/ Close
       PROVE  PickedInv'
  BY <1>3, <1>12 DEF Raise, SetGate, Close, graph
<1>. QED  BY <1>6, <1>7, <1>8, <1>9, <1>10, <1>11, <1>12 DEF Asking, Stopping

LEMMA RunsPicked ==
  ASSUME TypeOK, WantedInv, Dispatched, PickedInv,
         \/ \E k \in Keys : Start(k)
         \/ \E k \in Keys, r \in Results : Finish(k, r)
  PROVE  PickedInv'
<1>1. stack = <<>> /\ UNCHANGED <<needs, members, canceled, doomed>>
  BY DEF Start, Finish, Dispatched
<1>2. doomed \subseteq canceled /\ canceled \subseteq Running
  BY <1>1, FramesOfNone DEF PickedInv, WantedInv
<1>3. ASSUME NEW k \in Keys, Start(k)
      PROVE  PickedInv'
  <2>1. state[k] = "ready" /\ state' = [state EXCEPT ![k] = "running"] /\ stack' = <<>>
    BY <1>1, <1>3 DEF Start, Candidates, Foreign, Admissible
  <2>2. \A j \in doomed : state'[j] = state[j]
    BY <1>2, <2>1 DEF Running, TypeOK, GraphTypeOK
  <2>. DEFINE F == <<>>
  <2>3. F \in Seq(Frame) /\ Frames(F) = {} /\ stack' = F
    BY <2>1, FramesOfNone
  <2>. HIDE DEF F
  <2>. QED  BY <1>1, <2>2, <2>3, PickedSettled
<1>4. ASSUME NEW k \in Keys, NEW r \in Results, Finish(k, r)
      PROVE  PickedInv'
  <2>1. UNCHANGED state
    BY <1>4 DEF Finish
  <2>2. ASSUME NEW e \in Frame, stack' = <<e>>, e.key = k,
               \/ e.op = "end" /\ e.err = "canceled"
               \/ e.op \in {"end", "prepare"} /\ k \notin canceled
        PROVE  PickedInv'
    <3>. DEFINE F == <<e>>
    <3>1. F \in Seq(Frame) /\ Frames(F) = {e} /\ stack' = F
      BY <2>2, FramesOfOne
    <3>. HIDE DEF F
    <3>2. /\ e.op \notin {"cancel", "tell", "link"}
          /\ e.op = "prepare" => e.key \notin doomed
          /\ e.op = "end" /\ e.key \in doomed => e.err = "canceled"
      BY <1>2, <2>2
    <3>. QED  BY <1>1, <2>1, <3>1, <3>2, PickedSettled
  <2>3. ASSUME stack' = <<Preparing(k)>>, k \notin canceled
        PROVE  PickedInv'
    <3>1. Preparing(k) \in Frame /\ Preparing(k).key = k /\ Preparing(k).op = "prepare"
      BY PreparingType DEF Preparing
    <3>. QED  BY <2>2, <2>3, <3>1
  <2>4. ASSUME NEW x \in Outcome, stack' = <<Ending(k, x)>>, x = "canceled" \/ k \notin canceled
        PROVE  PickedInv'
    <3>1. Ending(k, x) \in Frame /\ Ending(k, x).key = k /\ Ending(k, x).op = "end" /\ Ending(k, x).err = x
      BY EndingType DEF Ending
    <3>. QED  BY <2>2, <2>4, <3>1
  <2>. QED  BY <1>4, <2>3, <2>4 DEF Finish, Outcome
<1>. QED  BY <1>3, <1>4

LEMMA PickedInductive ==
  ASSUME GroupsPrepare, TypeOK, Dispatched, WantedInv, WaitsInv, CallsCurrent, PickedInv,
         [Next]_vars
  PROVE  PickedInv'
<1>1. CASE Asking \/ Stopping
  BY <1>1, CallsPicked
<1>2. CASE Cascade
  BY <1>2, PreparePicked, LinkPicked, LinkedPicked, EndPicked, LoopsPicked, TellPicked,
     RequestsPicked DEF Cascade
<1>3. CASE (\E k \in Keys : Start(k)) \/ (\E k \in Keys, r \in Results : Finish(k, r))
  BY <1>3, RunsPicked
<1>4. CASE Unlock \/ DwellEnds \/ TimerFires \/ UNCHANGED vars
  <2>1. UNCHANGED <<graph, stack>>
    BY <1>4 DEF Unlock, DwellEnds, TimerFires, vars
  <2>. QED  BY <2>1
            DEF graph, PickedInv, Named, Live, Fit, Bulk, Stops, Fails, Idle, Outstanding, Frames
<1>. QED  BY <1>1, <1>2, <1>3, <1>4 DEF Next

\* A picked task leaves the graph by an end that says canceled.
LEMMA PickedEnds ==
  ASSUME TypeOK, PickedInv, [Next]_vars, NEW k \in doomed, state[k] # "absent", state'[k] = "absent"
  PROVE  Top.err = "canceled"
<1>1. k \in Keys
  BY DEF TypeOK, GraphTypeOK
<1>2. End
  <2>1. Asking \/ Stopping => state' = state \/ \E j \in Keys : state[j] = "absent" /\ Add(j)
    BY DEF Asking, Stopping, Request, Raise, Replace, Adopt, Withdraw, Cancel,
           CancelWhere, SetGate, Close, graph
  <2>2. Link \/ Drop \/ CancelPicked \/ Tell \/ ReplaceNext \/ WithdrawNext \/ Return
          => state' = state \/ \E j : state[j] = "absent" /\ Add(j)
    BY DEF Link, Drop, CancelPicked, Tell, ReplaceNext, WithdrawNext, Return, graph
  <2>3. Prepare \/ Linked \/ (\E j \in Keys : Start(j))
          => state' = state \/ \E j, x : state' = [state EXCEPT ![j] = x] /\ x # "absent"
    <3>1. Prepare => state' = [state EXCEPT ![Top.key] = "waiting"]
      BY DEF Prepare
    <3>2. Linked => state' = state \/ state' = [state EXCEPT ![Top.key] = "ready"]
      BY DEF Linked
    <3>3. ASSUME NEW j \in Keys, Start(j)
          PROVE  state' = [state EXCEPT ![j] = "running"]
      BY <3>3 DEF Start
    <3>. QED  BY <3>1, <3>2, <3>3
  <2>4. Unlock \/ DwellEnds \/ TimerFires \/ UNCHANGED vars
          \/ (\E j \in Keys, r \in Results : Finish(j, r)) => state' = state
    BY DEF Unlock, DwellEnds, TimerFires, Finish, graph, vars
  <2>5. state' # state /\ ~(\E j : state[j] = "absent" /\ Add(j))
          /\ ~(\E j, x : state' = [state EXCEPT ![j] = x] /\ x # "absent")
    BY <1>1 DEF Add, TypeOK, GraphTypeOK
  <2>. QED  BY <2>1, <2>2, <2>3, <2>4, <2>5 DEF Next, Cascade
<1>3. stack # <<>> /\ Top.op = "end" /\ ControlTypeOK
  BY <1>2 DEF End, OnTop, TypeOK
<1>4. Top.key = k
  <2>1. state' = state \/ state' = [state EXCEPT ![Top.key] = "absent"]
    BY <1>2 DEF End, graph
  <2>. QED  BY <1>1, <2>1 DEF TypeOK, GraphTypeOK
<1>5. Top \in Frames(stack)
  BY <1>3, FramesOfStack
<1>. QED  BY <1>3, <1>4, <1>5 DEF PickedInv, Fit

(* Who was picked by a bulk cancel ends canceled, in whatever order the picked  *)
(* are cancelled and whatever the cascades of the first do to the others: a     *)
(* picked task that fails with one it depends on is told so too (CancelWhere,   *)
(* end, notify), and none is prepared again but those that have members.        *)
THEOREM PickedAreCanceled == ASSUME GroupsPrepare PROVE Spec => PickedEndsCanceled
<1>. DEFINE Inv == QuietStack /\ Dispatched /\ WantedInv /\ WaitsInv /\ CallsCurrent /\ PickedInv
<1>1. Init => Inv
  <2>1. Init => Dispatched /\ WantedInv /\ WaitsInv
    BY DispatchedInit, WantedInit, WaitsInit
  <2>2. Init => QuietStack /\ CallsCurrent
    BY DEF Init, QuietStack, CallsCurrent
  <2>3. Init => PickedInv
    BY FramesOfNone DEF Init, PickedInv, Named
  <2>. QED  BY <2>1, <2>2, <2>3
<1>2. TypeOK /\ Inv /\ [Next]_vars => Inv'
  BY QuietInductive, DispatchedStep, WantedInductive, WaitsInductive, ContractStep, PickedInductive
<1>3. TypeOK /\ Inv /\ [Next]_vars =>
        [\A k \in doomed : state[k] # "absent" /\ state'[k] = "absent" => Top.err = "canceled"]_vars
  BY PickedEnds
<1>. QED  BY <1>1, <1>2, <1>3, TypeCorrect, PTL DEF Spec, PickedEndsCanceled
=============================================================================
