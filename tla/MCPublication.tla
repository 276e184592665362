--------------------------- MODULE MCPublication ---------------------------
(* Small instances of Publication for TLC.                                 *)
EXTENDS Publication

CONSTANTS p1, p2

Twice == [p \in Procs |-> 1]
Both == [p \in Procs |-> IF p = p1 THEN 1 ELSE 2]
Finds(a, b) == [r \in Runs |-> IF r = 1 THEN a ELSE b]

\* Two processes execute one run, or two runs of one recording.  Run 2 finds
\* an event of run 1 again, or the same event under another hypothesis
\* (1 and 3 have one fingerprint), or nothing.
MCInputs ==
    { [runOf |-> Twice, found |-> Finds({1}, {})],
      [runOf |-> Both, found |-> Finds({1, 2}, {2})],
      [runOf |-> Both, found |-> Finds({1}, {3})],
      [runOf |-> Both, found |-> Finds({1}, {})] }

MCFingerprint == [h \in Hyps |-> IF h = 3 THEN 1 ELSE h]
=============================================================================
