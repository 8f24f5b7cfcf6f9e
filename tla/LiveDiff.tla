------------------------------- MODULE LiveDiff -------------------------------
(* The patches of live updates (src/backend/internal/live/diff.go, and the      *)
(* frontend's applyOps, src/frontend/src/api/live.ts). A JSON value is a scalar, *)
(* an object (a function from some keys to values) or an array (a sequence). An *)
(* object's "id" key is a scalar. The operations of a patch on different keys of *)
(* one object come in any order in the code; here in some order.                *)
EXTENDS Integers, Sequences, SequencesExt, FiniteSets

Scalar(x) == [type |-> "scalar", scalar |-> x]
Object(f) == [type |-> "object", object |-> f]
Array(s) == [type |-> "array", array |-> s]

Set(path, v) == [op |-> "set", path |-> path, value |-> v]
Del(path) == [op |-> "del", path |-> path]
Arr(path, items) == [op |-> "arr", path |-> path, items |-> items]

\* An item of an "arr": elements start+1..end of the array there was, or a new one.
Run(start, end) == [run |-> <<start, end>>]
Literal(v) == [run |-> <<0, 0>>, v |-> v]
------------------------------------------------------------------------------
\* elementIDs: every element is an object with an id, and no two the same.
Keyed(s) ==
  /\ \A i \in DOMAIN s : s[i].type = "object" /\ "id" \in DOMAIN s[i].object
  /\ \A i, j \in DOMAIN s : s[i].object["id"] = s[j].object["id"] => i = j

IdOf(e) == e.object["id"]

\* ref: element i (of 1..n) is carried over, in the run before it if it follows.
Carry(items, i) ==
  IF items # <<>> /\ Last(items).run[2] = i - 1 /\ Last(items).run[1] < i - 1
    THEN Append(Front(items), Run(Last(items).run[1], i))
    ELSE Append(items, Run(i - 1, i))

\* By identity: what has not changed is carried over, wherever it is now.
KeyedItems(prev, next) ==
  FoldLeft(LAMBDA items, e :
             LET same == {i \in DOMAIN prev : prev[i] = e}
             IN IF same # {} THEN Carry(items, CHOOSE i \in same : TRUE)
                ELSE Append(items, Literal(e)),
           <<>>, next)

\* By position: the elements both begin with, what is new, those both end with.
PlainItems(prev, next) ==
  LET least == IF Len(prev) < Len(next) THEN Len(prev) ELSE Len(next)
      Begin(n) == \A i \in 1..n : prev[i] = next[i]
      pre == CHOOSE n \in 0..least : Begin(n) /\ (n < least => ~Begin(n + 1))
      End(n) == \A i \in 0..(n - 1) : prev[Len(prev) - i] = next[Len(next) - i]
      suf == CHOOSE n \in 0..(least - pre) : End(n) /\ (n < least - pre => ~End(n + 1))
      kept == FoldLeft(Carry, <<>>, [i \in 1..pre |-> i])
      new == [i \in 1..(Len(next) - pre - suf) |-> Literal(next[pre + i])]
  IN FoldLeft(Carry, kept \o new, [i \in 1..suf |-> Len(prev) - suf + i])

SameShape(prev, next) ==
  /\ Len(prev) = Len(next)
  /\ Keyed(prev) /\ Keyed(next) => \A i \in DOMAIN prev : IdOf(prev[i]) = IdOf(next[i])

RECURSIVE DiffInto(_, _, _)

DiffObject(path, prev, next) ==
  FlattenSeq([i \in 1..Cardinality(DOMAIN prev \ DOMAIN next) |->
    <<Del(Append(path, SetToSeq(DOMAIN prev \ DOMAIN next)[i]))>>])
  \o FlattenSeq([i \in 1..Cardinality(DOMAIN next) |->
    LET k == SetToSeq(DOMAIN next)[i] IN
    IF k \notin DOMAIN prev THEN <<Set(Append(path, k), next[k])>>
    ELSE DiffInto(Append(path, k), prev[k], next[k])])

DiffArray(path, prev, next) ==
  IF SameShape(prev, next)
    THEN FlattenSeq([i \in DOMAIN next |-> DiffInto(Append(path, i), prev[i], next[i])])
  ELSE IF Keyed(prev) /\ Keyed(next)
    THEN <<Arr(path, KeyedItems(prev, next))>>
    ELSE <<Arr(path, PlainItems(prev, next))>>

\* diffInto: the operations that turn prev, at path, into next.
DiffInto(path, prev, next) ==
  IF next.type # prev.type THEN <<Set(path, next)>>
  ELSE IF next.type = "object" THEN DiffObject(path, prev.object, next.object)
  ELSE IF next.type = "array" THEN DiffArray(path, prev.array, next.array)
  ELSE IF next = prev THEN <<>> ELSE <<Set(path, next)>>

Diff(prev, next) == DiffInto(<<>>, prev, next)
------------------------------------------------------------------------------
\* applyAt, where the path ends.
ApplyHere(node, op) ==
  IF op.op = "set" THEN op.value
  ELSE Array(FlattenSeq([i \in DOMAIN op.items |->
         LET it == op.items[i] IN
         IF it.run[1] < it.run[2] THEN SubSeq(node.array, it.run[1] + 1, it.run[2]) ELSE <<it.v>>]))

RECURSIVE ApplyAt(_, _, _)

\* applyAt, at a depth of the operation's path.
ApplyAt(node, op, depth) ==
  LET key == op.path[depth + 1]
      f == IF node.type = "array" THEN node.array ELSE node.object
      Below == ApplyAt(f[key], op, depth + 1)
      \* The value there was is not looked at where the path ends with a "set".
      here == IF depth + 1 = Len(op.path) /\ op.op = "set" THEN op.value ELSE Below
  IN
  IF depth = Len(op.path) THEN ApplyHere(node, op)
  ELSE IF node.type = "array" THEN Array([f EXCEPT ![key] = here])
  ELSE IF op.op = "del" /\ depth + 1 = Len(op.path)
    THEN Object([k \in DOMAIN f \ {key} |-> f[k]])
    ELSE Object([k \in DOMAIN f \cup {key} |-> IF k = key THEN here ELSE f[k]])

\* applyOps: a patch applied to the value a page has.
Apply(doc, ops) == FoldLeft(LAMBDA d, op : ApplyAt(d, op, 0), doc, ops)
==============================================================================
