---------------------------- MODULE MC_RunNotices ---------------------------
(* Small instances of RunNotices: one row, one person who wants to hear of   *)
(* everything and one who only wants bad news.                               *)
EXTENDS RunNotices, TLC

CONSTANTS u1, u2, w1, w2, f1

OneRun  == {1}
WantsAll == [u \in Users |-> Events]
WantsSome == [u \in Users |-> IF u = u1 THEN Events ELSE {"scan_failed", "scan_cancelled"}]
=============================================================================
