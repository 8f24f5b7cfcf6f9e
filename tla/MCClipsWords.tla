---------------------------- MODULE MCClipsWords ----------------------------
(* The word alignment of a render against the one that replaces it: one        *)
(* paragraph, one regeneration, and alignments that take their time.           *)
EXTENDS Clips

CONSTANTS p1, t1, r1

MCPara == {p1}
MCText == {t1}
MCReading == {r1}
==============================================================================
