--------------------------- MODULE MCWorldService ---------------------------
(* WorldService on one job and two reads, for TLC.                           *)
EXTENDS WorldService, TLC

CONSTANTS j1, r1, r2

OneJob == {j1}
TwoReads == {r1, r2}

\* One client makes both reads, another the job.
ReadsInTurn == [c \in {j1, r1, r2} |-> IF c = r2 THEN r1 ELSE Stop]
\* Each call has a client of its own.
AllAtOnce == [c \in {j1, r1, r2} |-> Stop]

\* Commits to each World's log.  The second's stands where the first's began.
TwoThenNone == [w \in 0..2 |-> IF w = 1 THEN 2 ELSE 0]
TwoThenOne == [w \in 0..2 |-> IF w = 1 THEN 2 ELSE 1]

\* The two reads are interchangeable when neither waits for the other.
CallSymmetry == Permutations(TwoReads)

=============================================================================
