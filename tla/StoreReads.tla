----------------------------- MODULE StoreReads ------------------------------
(* What a read of the store promises its caller, whatever serves it: rows no   *)
(* older than the last write that had returned when the read was called, and   *)
(* none that was never committed. Between two reads that overlap a write the   *)
(* newer value may come first: the store is a regular register, not an atomic  *)
(* one. StoreCache implements this.                                            *)
EXTENDS Naturals

CONSTANTS
  Cell,   \* what is read and written as one: a row, or rows always written together
  Key,    \* the calls that read: a method of Store with its arguments
  Reads,  \* the cells each of them reads
  Writer, Reader,
  None

VARIABLES
  ver,     \* writes committed to each cell
  settled, \* the newest of them whose write method has returned
  writes,  \* each writer's write under way: the version it committed of each
           \* cell it changed, of none when there is no write
  reads    \* each reader's call: its key, settled when it was called, and what
           \* it was given

vars == <<ver, settled, writes, reads>>

NoWrite == [c \in {} |-> 0]
NoRead == [pc |-> "idle", key |-> None, floor |-> None, got |-> None]

Init ==
  /\ ver = [c \in Cell |-> 0] /\ settled = ver
  /\ writes = [w \in Writer |-> NoWrite]
  /\ reads = [r \in Reader |-> NoRead]

Commit(w, cells) ==
  /\ writes[w] = NoWrite
  /\ ver' = [c \in Cell |-> IF c \in cells THEN ver[c] + 1 ELSE ver[c]]
  /\ writes' = [writes EXCEPT ![w] = [c \in cells |-> ver[c] + 1]]
  /\ UNCHANGED <<settled, reads>>

\* Its write method returns.
Settle(w) ==
  /\ writes[w] # NoWrite
  /\ settled' = [c \in Cell |->
       IF c \in DOMAIN writes[w] /\ writes[w][c] > settled[c] THEN writes[w][c] ELSE settled[c]]
  /\ writes' = [writes EXCEPT ![w] = NoWrite]
  /\ UNCHANGED <<ver, reads>>

Call(r, k) ==
  /\ reads[r].pc = "idle"
  /\ reads' = [reads EXCEPT ![r] =
       [pc |-> "asked", key |-> k, floor |-> [c \in Reads[k] |-> settled[c]], got |-> None]]
  /\ UNCHANGED <<ver, settled, writes>>

Answer(r, v) ==
  /\ reads[r].pc = "asked"
  /\ \A c \in Reads[reads[r].key] : reads[r].floor[c] <= v[c] /\ v[c] <= ver[c]
  /\ reads' = [reads EXCEPT ![r] =
       [pc |-> "given", key |-> reads[r].key, floor |-> reads[r].floor, got |-> v]]
  /\ UNCHANGED <<ver, settled, writes>>

\* The caller has its answer, or the database's error.
Leave(r) ==
  /\ reads[r].pc # "idle"
  /\ reads' = [reads EXCEPT ![r] = NoRead]
  /\ UNCHANGED <<ver, settled, writes>>

Committed == UNION {0..ver[c] : c \in Cell}

Next ==
  \/ \E w \in Writer : \/ writes[w] = NoWrite /\ \E cells \in SUBSET Cell : Commit(w, cells)
                      \/ Settle(w)
  \/ \E r \in Reader :
       \/ \E k \in Key : Call(r, k)
       \/ reads[r].pc = "asked" /\ \E v \in [Reads[reads[r].key] -> Committed] : Answer(r, v)
       \/ Leave(r)

Spec == Init /\ [][Next]_vars
==============================================================================
