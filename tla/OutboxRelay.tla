---------------------------- MODULE OutboxRelay ----------------------------
(***************************************************************************)
(* At-least-once delivery of committed messages: the relay of              *)
(* queue/outbox.py over the delivery tables of adapters/sqlite_outbox.py   *)
(* (primary completions) and adapters/sqlite_stream_delivery.py (window    *)
(* results and finalizations), which run the same statements, into the     *)
(* idempotent sink.                                                        *)
(*                                                                         *)
(* claim, sink.publish and acknowledge (or record_failure) are three       *)
(* transactions on two databases; a relay may die, or stall past its       *)
(* lease, between any two.  Every relay has the same worker id, so a claim *)
(* is told from another only by its epoch.  claim alone sets attempt_count *)
(* and lease_epoch, each to its old value plus one, so `epoch' is both.    *)
(*                                                                         *)
(* No thread polls.  An operator's run makes a delivery pass: deliver_once *)
(* again and again until it finds nothing due, its budget is spent or it   *)
(* raises (local_outbox_delivery.py, _relay_local_stream_outbox).  What is *)
(* left then, a failed publish included, waits for the next run.           *)
(*                                                                         *)
(* Stored times are kept relative to the clock: `lease' and `wait' are the *)
(* ticks until lease_expires_at and next_attempt_at.  An operation reads   *)
(* `now' before it waits for the database lock: it runs s ticks late.      *)
(***************************************************************************)
EXTENDS Integers, FiniteSets

CONSTANTS
    Messages,       \* outbox rows, numbered in claim order
    Relays,         \* relay processes
    MaxAttempts,    \* max_attempts of the retry policy
    LeaseDuration,  \* ticks
    BaseDelay,      \* base_delay_seconds, in ticks
    MaxDelay,       \* max_delay_seconds, in ticks
    Skew,           \* bound on s, the wait for the lock
    MaxCrashes,     \* bound on relay crashes
    ClockRuns,      \* FALSE: the store's clock is a constant
    None

VARIABLES
    row,      \* outbox joined with its deliveries
    sink,     \* rows of delivered_outbox_messages, per message
    claim,    \* what each relay has in hand
    running,  \* whether the relay is in the middle of a delivery pass
    crashes

vars == <<row, sink, claim, running, crashes>>

-----------------------------------------------------------------------------
Settled == {"DELIVERED", "DEAD_LETTER"}

\* NEW: in the outbox, without a delivery row yet.
Statuses == {"ABSENT", "NEW", "PENDING", "LEASED", "RETRY_WAIT"} \cup Settled
Longest == IF LeaseDuration < MaxDelay THEN MaxDelay ELSE LeaseDuration
Ticks == (-Skew)..Longest
Row == [status: Statuses, epoch: 0..MaxAttempts, lease: Ticks, wait: Ticks]
Claims == [m: Messages, epoch: 1..MaxAttempts, stage: {"claimed", "published", "failed"}]
Lags == 0..Skew

ASSUME MessagesAssumption == Messages \subseteq Nat /\ IsFiniteSet(Messages)
ASSUME RelaysAssumption == None \notin Claims
ASSUME BoundsAssumption ==
    /\ MaxAttempts \in Nat \ {0} /\ LeaseDuration \in Nat \ {0}
    /\ BaseDelay \in Nat /\ MaxDelay \in Nat /\ BaseDelay <= MaxDelay
    /\ Skew \in Nat /\ MaxCrashes \in Nat /\ ClockRuns \in BOOLEAN

\* delay_after: bounded exponential.
DelayAfter(n) ==
    LET d == BaseDelay * 2^(n - 1) IN IF d < MaxDelay THEN d ELSE MaxDelay

\* Mutants: one attempt too many, one too few.
ExhaustedEarly(x) == x.epoch + 1 >= MaxAttempts
ExhaustedLate(x) == x.epoch > MaxAttempts

Exhausted(x) == x.epoch >= MaxAttempts

\* The row x is given up or put back, to be tried again w ticks from now.
Unlease(x, w) ==
    [x EXCEPT !.status = IF Exhausted(x) THEN "DEAD_LETTER" ELSE "RETRY_WAIT",
              !.lease = 0, !.wait = IF Exhausted(x) THEN 0 ELSE w]

\* _discover: an outbox row without a delivery row gets one.
Discover(x, s) ==
    IF x.status = "NEW" THEN [x EXCEPT !.status = "PENDING", !.wait = -s] ELSE x

\* Mutant: only the final attempt's lease expires.
ExpireLeaseOnLastAttempt(x, s) ==
    IF x.status = "LEASED" /\ x.lease <= -s /\ Exhausted(x) THEN Unlease(x, -s) ELSE x

\* _expire_leases, on one row.
ExpireLease(x, s) ==
    IF x.status = "LEASED" /\ x.lease <= -s THEN Unlease(x, -s) ELSE x

\* _reconcile: discovery, then expiry.
Reconciled(s) == [m \in Messages |-> ExpireLease(Discover(row[m], s), s)]
Expired(s) == [m \in Messages |-> ExpireLease(row[m], s)]

-----------------------------------------------------------------------------
(* Operations.                                                             *)

\* A commit leaves a message.  _insert_outbox adds the delivery row at once;
\* the primary completion leaves that to the relay.
Enqueue(m, known) ==
    /\ row[m].status = "ABSENT"
    /\ row' = [row EXCEPT ![m].status = IF known THEN "PENDING" ELSE "NEW"]
    /\ UNCHANGED <<sink, claim, running, crashes>>

\* A run starts a pass; the stream composition reconciles its store first.
BeginPass(p, s, reconciles) ==
    /\ ~running[p]
    /\ running' = [running EXCEPT ![p] = TRUE]
    /\ row' = IF reconciles THEN Reconciled(s) ELSE row
    /\ UNCHANGED <<sink, claim, crashes>>

\* Mutant: a settled message is claimed again.
EligibleIfNotLeased(x, s) ==
    x.status \notin {"ABSENT", "NEW", "LEASED"} /\ x.wait <= -s

Eligible(x, s) == x.status \in {"PENDING", "RETRY_WAIT"} /\ x.wait <= -s

\* claim: reconcile, then lease the first message that is due.
Claim(p, s) ==
    LET r == Reconciled(s) IN
    \E m \in Messages :
        /\ running[p] /\ claim[p] = None
        /\ Eligible(r[m], s)
        /\ \A n \in Messages : n < m => ~Eligible(r[n], s)
        /\ row' = [r EXCEPT ![m].status = "LEASED", ![m].epoch = @ + 1,
                            ![m].lease = LeaseDuration - s]
        /\ claim' = [claim EXCEPT ![p] = [m |-> m, epoch |-> r[m].epoch + 1,
                                          stage |-> "claimed"]]
        /\ UNCHANGED <<sink, running, crashes>>

\* claim finds nothing due: what it reconciled is committed and the pass ends.
ClaimNothing(p, s) ==
    /\ running[p] /\ claim[p] = None
    /\ \A m \in Messages : ~Eligible(Reconciled(s)[m], s)
    /\ row' = Reconciled(s)
    /\ running' = [running EXCEPT ![p] = FALSE]
    /\ UNCHANGED <<sink, claim, crashes>>

\* Mutant: the sink stores what it is given.
StoredAgain(m) == sink[m] + 1

\* The sink keeps one row per outbox id.
Stored(m) == IF sink[m] = 0 THEN 1 ELSE sink[m]

Publish(p) ==
    /\ claim[p] # None /\ claim[p].stage = "claimed"
    /\ sink' = [sink EXCEPT ![claim[p].m] = Stored(claim[p].m)]
    /\ claim' = [claim EXCEPT ![p].stage = "published"]
    /\ UNCHANGED <<row, running, crashes>>

\* The sink raises, before or after it stored the message.
PublishFails(p, stored) ==
    /\ claim[p] # None /\ claim[p].stage = "claimed"
    /\ sink' = IF stored THEN [sink EXCEPT ![claim[p].m] = Stored(claim[p].m)] ELSE sink
    /\ claim' = [claim EXCEPT ![p].stage = "failed"]
    /\ UNCHANGED <<row, running, crashes>>

\* Mutant: the epoch is not compared; every relay has the same worker id.
FenceByWorker(x, c) == x.status = "LEASED"

\* _require_current_fence, _require_delivery_fence.
FenceHolds(x, c) == x.status = "LEASED" /\ x.epoch = c.epoch

\* acknowledge: expiry first, then the fence.  `more' is FALSE where the budget
\* of the pass, max_delivery_attempts, is spent.
Acknowledge(p, s, more) ==
    /\ claim[p] # None /\ claim[p].stage = "published"
    /\ LET m == claim[p].m
           r == Expired(s)
       IN  /\ FenceHolds(r[m], claim[p])
           /\ row' = [r EXCEPT ![m].status = "DELIVERED", ![m].lease = 0, ![m].wait = 0]
    /\ claim' = [claim EXCEPT ![p] = None]
    /\ running' = [running EXCEPT ![p] = more]
    /\ UNCHANGED <<sink, crashes>>

\* record_failure: the same, into RETRY_WAIT or DEAD_LETTER.
RecordFailure(p, s, more) ==
    /\ claim[p] # None /\ claim[p].stage = "failed"
    /\ LET m == claim[p].m
           r == Expired(s)
       IN  /\ FenceHolds(r[m], claim[p])
           /\ row' = [r EXCEPT ![m] = Unlease(@, DelayAfter(@.epoch) - s)]
    /\ claim' = [claim EXCEPT ![p] = None]
    /\ running' = [running EXCEPT ![p] = more]
    /\ UNCHANGED <<sink, crashes>>

\* A stale fence raises: the transaction, its expiry included, is undone and
\* the pass ends.
FenceRaises(p, s) ==
    /\ claim[p] # None /\ claim[p].stage # "claimed"
    /\ ~FenceHolds(Expired(s)[claim[p].m], claim[p])
    /\ claim' = [claim EXCEPT ![p] = None]
    /\ running' = [running EXCEPT ![p] = FALSE]
    /\ UNCHANGED <<row, sink, crashes>>

Crash(p) ==
    /\ running[p] /\ crashes < MaxCrashes
    /\ crashes' = crashes + 1
    /\ claim' = [claim EXCEPT ![p] = None]
    /\ running' = [running EXCEPT ![p] = FALSE]
    /\ UNCHANGED <<row, sink>>

\* Time passes; a time Skew or more ticks ago is past for everyone.
Sooner(t) == IF t > -Skew THEN t - 1 ELSE t
Tick ==
    /\ ClockRuns
    /\ row' = [m \in Messages |->
                 [row[m] EXCEPT
                    !.lease = IF row[m].status = "LEASED" THEN Sooner(@) ELSE @,
                    !.wait = IF row[m].status \in {"PENDING", "RETRY_WAIT"}
                             THEN Sooner(@) ELSE @]]
    /\ row' # row
    /\ UNCHANGED <<sink, claim, running, crashes>>

Init ==
    /\ row = [m \in Messages |-> [status |-> "ABSENT", epoch |-> 0, lease |-> 0, wait |-> 0]]
    /\ sink = [m \in Messages |-> 0]
    /\ claim = [p \in Relays |-> None]
    /\ running = [p \in Relays |-> FALSE]
    /\ crashes = 0

\* deliver_once: a poll, then publish and the answer to the store.
Poll(p) == \E s \in Lags : Claim(p, s) \/ ClaimNothing(p, s)
Finish(p) ==
    \/ Publish(p) \/ \E b \in BOOLEAN : PublishFails(p, b)
    \/ \E s \in Lags, more \in BOOLEAN :
          Acknowledge(p, s, more) \/ RecordFailure(p, s, more)
    \/ \E s \in Lags : FenceRaises(p, s)

Next ==
    \/ \E m \in Messages, b \in BOOLEAN : Enqueue(m, b)
    \/ \E p \in Relays, s \in Lags, b \in BOOLEAN : BeginPass(p, s, b)
    \/ \E p \in Relays : Poll(p) \/ Finish(p) \/ Crash(p)
    \/ Tick

Spec == Init /\ [][Next]_vars

\* A pass that runs goes on (its loop does not wait, the sink answers or raises
\* within its busy timeout) and the clock, if it runs, goes on.  Nothing is
\* assumed of the operators who start passes.
FairSpec ==
    /\ Spec /\ WF_vars(Tick)
    /\ \A p \in Relays : WF_vars(Poll(p)) /\ WF_vars(Finish(p))

-----------------------------------------------------------------------------
(* Properties.                                                             *)

\* Type invariant; no message is attempted more than max_attempts times.
TypeOK ==
    /\ row \in [Messages -> Row] /\ sink \in [Messages -> Nat]
    /\ claim \in [Relays -> Claims \cup {None}] /\ crashes \in 0..MaxCrashes
    /\ running \in [Relays -> BOOLEAN]

\* Nothing is acknowledged that the sink does not hold, and the sink holds
\* nothing twice: "The sink is only acknowledged after its publish call
\* succeeds", and a publish repeated after a crash or a lost answer is
\* recognised by its outbox id.
DeliveredOnce ==
    \A m \in Messages :
        /\ row[m].status = "DELIVERED" => sink[m] = 1
        /\ sink[m] <= 1
        /\ sink[m] = 1 => row[m].epoch > 0

\* Nobody gives a message up early: a dead letter has used its attempts up,
\* counting those that ended in a crash, a lapse or a lost answer.
DeadLettersAreSpent ==
    \A m \in Messages : row[m].status = "DEAD_LETTER" => row[m].epoch = MaxAttempts

\* Only the relay that published under the row's current lease turns it into
\* DELIVERED, whatever relays that stalled, lapsed or restarted under the same
\* worker id do (acknowledge; DEAD_LETTER is also reached by expiry).
AnsweredByHolder ==
    [][\A m \in Messages : row[m].status = "LEASED" /\ row'[m].status = "DELIVERED" =>
          \E p \in Relays :
              /\ claim[p] = [m |-> m, epoch |-> row[m].epoch, stage |-> "published"]
              /\ claim'[p] = None]_vars

\* DELIVERED and DEAD_LETTER are final: no claim, expiry sweep, late answer or
\* new enqueue touches a settled delivery row again.
SettledIsFinal ==
    [][\A m \in Messages : row[m].status \in Settled => row'[m] = row[m]]_vars

\* Deliveries are run again and again: an assumption about the operators, since
\* no code of the repository does it.
PassesGoOn == []<>(\E p \in Relays : running[p])

\* If delivery passes go on being run, every committed message ends: delivered,
\* or in the dead letters after its last attempt, although a pass stops at the
\* first message that is not due, at its budget, at a stale fence or in a crash.
\* It is about the primary store, whose clock is the host's; with the constant
\* clock of the stream composition (local_composition.py:2803) it fails.
EveryMessageSettles ==
    PassesGoOn =>
        \A m \in Messages : row[m].status # "ABSENT" ~> row[m].status \in Settled
=============================================================================
