------------------------------- MODULE MCClips -------------------------------
(* A small instance of Clips: two paragraphs of a book that come to say the   *)
(* same, or each other's, lines.                                               *)
EXTENDS Clips, TLC

CONSTANTS p1, p2, t1, t2, r1, r2

MCPara == {p1, p2}
MCText == {t1, t2}
MCReading == {r1, r2}
Alike == Permutations(MCPara) \cup Permutations(MCText)

\* Bound: of enqueues and regenerations between reading their paragraph and
\* pushing it, pushes waiting for a running task to end, a "Clear generation" and
\* a sweep, one is in progress at a time; while a paragraph's edit is yet to
\* invalidate its audio, none that is not of that paragraph; and while both tasks
\* run, none but before the last upset and while both are to say the same.
InProgress == {x \in Para \X (1..3) : <<listed[x[1]], regen[x[1]], task[x[1]].again>>[x[2]] # None}
Upkeep == (IF clearing THEN 1 ELSE 0) + (IF sweep.key # None THEN 1 ELSE 0)
OneAtATime ==
  /\ Cardinality(InProgress) + Upkeep <= 1
  /\ \A p \in untold : untold = {p} /\ Upkeep = 0 /\ \A x \in InProgress : x[1] = p
  /\ \/ InProgress = {} /\ Upkeep = 0
     \/ \E p \in Para : ~Running(p)
     \/ left > 0 /\ says[p1] = says[p2]

\* Bound: everything is read as r1 until the first upset; what is said, and has a
\* file, differs in its text or in its reading, not in both. While it is in the
\* reading nothing is cleared or swept, and nothing is in progress while both
\* tasks run.
InPlay == {says[p] : p \in Para} \cup {k \in Key : file[k] # 0}
OneText == \E t \in Text : \A k \in InPlay : k.text = t
OneReading == \E r \in Reading : \A k \in InPlay : k.reading = r
OneDifference ==
  /\ left = MaxUpsets => \A p \in Para : says[p].reading = r1
  /\ \/ OneReading
     \/ /\ OneText /\ Upkeep = 0
        /\ InProgress = {} \/ \E p \in Para : ~Running(p)

\* Bound: a word alignment is under way, or has failed, only while all paragraphs
\* say the same, nothing else is in progress and there was no upset yet.
WordsKnown ==
  /\ aligning = {}
  /\ \A p \in Para : row[p].words = row[p].clip
  /\ \A k \in Key : orphan[k].words = orphan[k].clip
AlignedEarly == WordsKnown \/ (OneReading /\ OneText /\ InProgress = {} /\ left = MaxUpsets)

Apart == OneAtATime /\ OneDifference /\ AlignedEarly
==============================================================================
