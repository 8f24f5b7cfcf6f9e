---------------------------- MODULE MCSchedGraph -----------------------------
(* A group with a member, and three tasks that may need each other in a circle,*)
(* two of them created by a need; the group may adopt the third.               *)
EXTENDS Sched, TLC
CONSTANTS g, a, b, c, x, none, s1
KeysV == {g, a, b, c}
ContextV == (g :> none) @@ (a :> x) @@ (b :> x) @@ (c :> x)
DepsV == (g :> {}) @@ (a :> {b}) @@ (b :> {c}) @@ (c :> {a})
MembersV == (g :> {a}) @@ (a :> {}) @@ (b :> {}) @@ (c :> {})
ChildrenV == (g :> {c}) @@ (a :> {}) @@ (b :> {}) @@ (c :> {})
BatchesV == {{}, {g}, {c}, {a, c}, {g, a}}
CapacityV == (x :> 2)
GatesV == {KeysV, {b}}
ASSUME GroupsPrepare
==============================================================================
