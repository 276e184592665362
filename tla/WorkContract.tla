---------------------------- MODULE WorkContract ----------------------------
(***************************************************************************)
(* What the durable work ledger promises its clients, without leases,      *)
(* clocks, fencing or maintenance passes.  Jobs with dependencies are run  *)
(* to one of three ends; one commit may move several jobs at once.         *)
(***************************************************************************)
EXTENDS Naturals

CONSTANT Items

VARIABLE job    \* [Items -> [phase, up, req, tries, max]]

Ended == {"won", "waived", "lost"}
Phases == {"none", "waiting", "offered", "out"} \cup Ended

Over(j, i) == j[i].phase \in Ended
Good(j, i) == j[i].phase \in {"won", "waived"}

\* Every dependency of job i has ended, the required ones well.
Cleared(j, i) == /\ \A u \in j[i].up : Over(j, u)
                 /\ \A u \in j[i].req : Good(j, u)

Init == \A i \in Items : job[i].phase = "none" /\ job[i].tries = 0

\* Nobody's policy changes once it is in the ledger.
SamePolicy(j, k, i) ==
    j[i].up = k[i].up /\ j[i].req = k[i].req /\ j[i].max = k[i].max

\* A job enters: it waits, is offered when nothing holds it back, or is lost.
Enter(j, k, i) ==
    /\ j[i].phase = "none" /\ k[i].tries = 0
    /\ k[i].phase \in {"waiting", "offered", "lost"}

\* A job is handed to one worker.  Its previous try, if any, is over; the
\* number of tries is bounded.
Hand(j, k, i) ==
    /\ j[i].phase \in {"waiting", "offered", "out"} /\ k[i].phase = "out"
    /\ k[i].tries = j[i].tries + 1 /\ k[i].tries <= k[i].max

\* A job moves on without a new try.
Move(j, k, i) ==
    /\ k[i].tries = j[i].tries
    /\ \/ j[i].phase = "waiting" /\ k[i].phase \in {"offered", "waived", "lost"}
       \/ j[i].phase = "offered" /\ k[i].phase \in {"waived", "lost"}
       \/ /\ j[i].phase = "out"
          /\ k[i].phase \in {"offered", "won", "waived", "lost"}
          /\ k[i].phase = "offered" => k[i].tries < k[i].max

\* One commit: every job stays or takes one of the steps above, at most one
\* is handed out and at most one won, nothing is offered, handed out or won
\* before it is cleared, and nothing waits that has nothing to wait for.
Commit(j, k) ==
    /\ \A i \in Items : \/ k[i] = j[i]
                        \/ Enter(j, k, i)
                        \/ (Hand(j, k, i) \/ Move(j, k, i)) /\ SamePolicy(j, k, i)
    /\ \A i, h \in Items : Hand(j, k, i) /\ Hand(j, k, h) => i = h
    /\ \A i, h \in Items : k[i].phase = "won" /\ k[h].phase = "won"
                           /\ k[i] # j[i] /\ k[h] # j[h] => i = h
    /\ \A i \in Items : k[i].phase \in {"offered", "out", "won"} => Cleared(k, i)
    /\ \A i \in Items : k[i].phase = "waiting" =>
                           \E u \in k[i].up : ~Over(k, u)

Next == job' # job /\ Commit(job, job')

Spec == Init /\ [][Next]_job
=============================================================================
