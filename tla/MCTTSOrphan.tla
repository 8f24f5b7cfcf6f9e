----------------------------- MODULE MCTTSOrphan -----------------------------
(* Two calls, one caller of Restart beside the watchdog, and process ids for   *)
(* an orphan, the worker known to the manager and the next.                    *)
EXTENDS TTSWorker, TLC
CONSTANTS c1, c2, w1, w2, w3
CallsV == {c1, c2}
WorkersV == {w1, w2, w3}
==============================================================================
