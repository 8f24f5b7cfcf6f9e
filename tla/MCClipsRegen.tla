----------------------------- MODULE MCClipsRegen -----------------------------
(* One paragraph, asked for by its reader's lookahead and regenerated while its *)
(* task runs.                                                                   *)
EXTENDS Clips

CONSTANTS p1, t1, r1

MCPara == {p1}
MCText == {t1}
MCReading == {r1}
==============================================================================
