-------------------------- MODULE MCInferenceCalls --------------------------
(* Small instances of InferenceCalls for TLC.                              *)
EXTENDS InferenceCalls

CONSTANTS p1, p2, k1, k2, g, h

\* One process and two parts in a batch, where h is a response that is valid
\* but does not enrich, or one that abstains; two processes that execute one
\* part at the same time, where h is invalid; and an endpoint that has
\* forgotten what it answered.
MCInputs ==
    { [procs |-> {p1}, parts |-> {k1, k2}, valid |-> {g, h}, enriches |-> e,
       abstains |-> e \ {g}, replays |-> TRUE] :
          e \in {{g}, {g, h}} }
    \cup
    { [procs |-> ps, parts |-> {k1}, valid |-> {g}, enriches |-> {g},
       abstains |-> {}, replays |-> ps = {p1, p2}] : ps \in {{p1}, {p1, p2}} }
=============================================================================
