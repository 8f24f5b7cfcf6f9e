--------------------------- MODULE MCSchedDispatch ---------------------------
(* Two models: two tasks of one, which exclude each other and one of which     *)
(* needs a task of the other; that task may be created, tried again, and adopt *)
(* the first. The gate may leave only it open.                                 *)
EXTENDS Sched, TLC
CONSTANTS a, b, c, x, y, none, s1
KeysV == {a, b, c}
ContextV == (a :> x) @@ (b :> x) @@ (c :> y)
DepsV == (a :> {}) @@ (b :> {c}) @@ (c :> {})
MembersV == [k \in KeysV |-> {}]
ChildrenV == (a :> {}) @@ (b :> {}) @@ (c :> {a})
BatchesV == {{k} : k \in KeysV}
CapacityV == (x :> 2) @@ (y :> 1)
GatesV == {KeysV, {c}}
==============================================================================
