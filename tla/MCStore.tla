------------------------------ MODULE MCStore --------------------------------
(* A book with its row and two chapters, in tables of their own; writes to one *)
(* table and to several, that name their book, name none, or report that       *)
(* anything may have changed.                                                  *)
EXTENDS StoreMemos, TLC
CONSTANTS row, ch1, ch2, kBook, kText, b1, v1, v2, r1, r2, w1, w2

TableOfV == row :> "books" @@ ch1 :> "chapters" @@ ch2 :> "paragraph_audio"
BookOfV == row :> b1 @@ ch1 :> b1 @@ ch2 :> b1
ReadsV == kBook :> {row} @@ kText :> {row, ch2}
BookKeyV == b1 :> kBook
MemoKeyV == "voices" :> (b1 :> kBook) @@ "ready" :> (b1 :> kText)
MemoTablesV == "voices" :> {"books"} @@ "ready" :> {"books", "chapters", "paragraph_audio"}
WriteV ==
  { [cells |-> {row}, tables |-> {"books"}, scope |-> None],
    [cells |-> {ch1}, tables |-> {"chapters"}, scope |-> None],
    [cells |-> {ch2}, tables |-> {"paragraph_audio"}, scope |-> b1],
    [cells |-> {ch1, ch2}, tables |-> {"chapters", "paragraph_audio"}, scope |-> b1],
    [cells |-> {ch2}, tables |-> {AllTables}, scope |-> None] }
NarrationTablesV == <<"chapters", "paragraph_audio">>
LaterV == <<"voices", "ready">>
AsksV == {<<"voices", b1>>, <<"ready", b1>>, <<"narration", b1>>}
Swaps == Permutations({r1, r2}) \cup Permutations({w1, w2}) \cup Permutations({v1, v2})
\* Bounds. The narrations and the memos share only the database and the
\* generations, so a run is about one or the other and writes what it reads; a
\* narration is asked for with two voices among one write, and one memo is asked
\* for; two readers overlap one write, or one reader two.
Written == FoldFunction(+, 0, ver)
KeysUsed == {op[r].key : r \in {q \in Reader : op[q].pc # "idle"}}
            \cup {narration[b].key : b \in {x \in Book : narration[x] # None}}
Narrations == /\ entries = [k \in Key |-> None] /\ call = [r \in Reader |-> NoCall]
              /\ ver[row] = 0
              /\ \A r \in Reader : op[r].pc = "idle" \/ op[r].kind = "narration"
              /\ Written < 2 \/ Cardinality(KeysUsed) <= 1
Memos == /\ narration = [b \in Book |-> None]
         /\ ver[ch1] = 0 /\ ver[row] <= 1
         /\ \E m \in Memo : /\ \A r \in Reader : op[r].pc = "idle" \/ op[r].kind = m
                          /\ \A n \in Memo \ {m} : \A b \in Book : memo[n][b] = None
Apart == /\ Narrations \/ Memos
         /\ Written + Cardinality({r \in Reader : op[r].pc # "idle"}) <= 3
==============================================================================
