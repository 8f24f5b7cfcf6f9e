-------------------------- MODULE MCSchedWindDown ----------------------------
(* Nobody cancels by hand here: two sources ask for tasks and take back what   *)
(* they asked for, while one of the tasks runs.                                *)
EXTENDS Sched, TLC
CONSTANTS a, b, x, none, s1, s2
KeysV == {a, b}
ContextV == [k \in KeysV |-> x]
DepsV == (a :> {b}) @@ (b :> {})
NothingV == [k \in KeysV |-> {}]
CapacityV == (x :> 1)
BatchesV == {{a}, {b}}
==============================================================================
