--------------------------- MODULE MCRecordQueue ----------------------------
(* RecordQueue with two tabs and three calls, one of them refused.         *)
EXTENDS RecordQueue, TLC

CONSTANTS p1, p2, c1, c2, bad

MCPages == {p1, p2}
MCCalls == {c1, c2, bad}
MCBad == {bad}

=============================================================================
