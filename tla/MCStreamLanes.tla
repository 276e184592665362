--------------------------- MODULE MCStreamLanes ---------------------------
(* Small instances of StreamLanes for TLC.                                 *)
EXTENDS StreamLanes, TLC

\* One item, nothing happens around the runtime.
Quiet == [ready |-> {1}, providers |-> Providers, admits |-> {}, cancels |-> {},
          closes |-> {}, attempts |-> 1, restarts |-> 0, stalls |-> 0,
          faults |-> 0, raises |-> 0, peers |-> 0]

OneProvider == [Quiet EXCEPT !.providers = {"provider1"}]

\* Three items through lanes of capacity one; a close with work in hand, and
\* a second close; a cancelling close; a cancel that races an admission, a
\* recovery and a retry; storage errors, a stalled renewer and another runtime;
\* a second close after a drain that may have raised; a crash or a close, and a
\* new runtime; an optional item under pressure.
LaneScripts == {
    [OneProvider EXCEPT !.ready = {1, 2, 3}],
    [OneProvider EXCEPT !.ready = {1, 2}, !.closes = {"now", "graceful"}],
    [Quiet EXCEPT !.ready = {1, 2}, !.closes = {"graceful"}],
    [Quiet EXCEPT !.closes = {"cancel"}],
    [Quiet EXCEPT !.attempts = 2, !.raises = 1, !.cancels = {1},
                  !.admits = {<<1, FALSE>>}],
    [Quiet EXCEPT !.attempts = 2, !.closes = {"graceful"}, !.faults = 1,
                  !.stalls = 1, !.peers = 1],
    [OneProvider EXCEPT !.closes = {"graceful", "cancel"}, !.faults = 1],
    [Quiet EXCEPT !.attempts = 2, !.restarts = 1, !.closes = {"now"}],
    [OneProvider EXCEPT !.ready = {1, 2}, !.admits = {<<2, TRUE>>}]}
=============================================================================
