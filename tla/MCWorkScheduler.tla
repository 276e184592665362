-------------------------- MODULE MCWorkScheduler --------------------------
(* Small instances of WorkScheduler for TLC.                               *)
EXTENDS WorkScheduler, TLC

MCNever == 100

P(i, up, req, expiry, max) ==
    [item |-> i, up |-> up, req |-> req, expiry |-> expiry, max |-> max]

\* A diamond cut to three items: 1 and 2 feed 3; 3 requires 1 and tolerates
\* the failure of 2, which runs once and has a hard expiry.
JoinBatches ==
    { << P(1, {}, {}, MCNever, 2), P(2, {}, {}, 2, 1) >>,
      << P(3, {1, 2}, {1}, MCNever, 1) >> }

\* A chain in one batch, each link REQUIRED, and a conflicting replay of 2.
ChainBatches ==
    { << P(1, {}, {}, MCNever, 2), P(2, {1}, {1}, MCNever, 1),
         P(3, {2}, {2}, MCNever, 1) >>,
      << P(2, {}, {}, MCNever, 1) >> }

\* Item 2 requires item 1; both have the same hard expiry.
ExpiryBatches == { << P(1, {}, {}, 1, 1), P(2, {1}, {1}, 1, 1) >> }

Symmetry == Permutations(Workers)
=============================================================================
