--------------------------- MODULE WorkScheduler ---------------------------
(***************************************************************************)
(* The durable work ledger of adapters/sqlite_work_scheduler.py: the       *)
(* work_items, work_dependencies and work_attempts tables, and every       *)
(* operation of SQLiteWorkScheduler that changes them.                     *)
(*                                                                         *)
(* Each operation of the code is one BEGIN IMMEDIATE transaction, so each  *)
(* is one action here, built as a function from the table before to the    *)
(* table after.  An exception rolls the transaction back: it is a guard    *)
(* that fails.  What is NOT atomic is the clock: an operation reads `now'  *)
(* before it waits for the database lock, so it may run with a `now' that  *)
(* is up to Skew ticks old and that is older than a committed neighbour's. *)
(*                                                                         *)
(* A fencing token is a fresh uuid4 per claim.  One claim bumps the epoch  *)
(* once, so the pair (item, epoch) stands for the token.                   *)
(***************************************************************************)
EXTENDS Integers, Sequences, FiniteSets

CONSTANTS
    Items,          \* work item ids; numbers, because SQL orders rows by id
    Workers,        \* worker ids
    Batches,        \* the plan_many argument sequences clients submit
    LeaseDuration,  \* lease_duration_seconds
    RetryDelays,    \* the retry_delay_seconds workers ask for
    Skew,           \* how stale `now' may be: the lock wait, in ticks
    MaxClock,       \* bound on the clock
    PlanHorizon,    \* bound: nothing is planned after this time
    DirectStates,   \* the states clients ask cancel, skip, invalidate for
    Never,          \* execution_expiry_at IS NULL: a time nobody reaches
    NoWorker,       \* leased_by IS NULL
    NoLease         \* a worker without a capability

VARIABLES
    row,    \* the work_items table joined with its dependencies and attempts
    held,   \* the WorkLease capability each worker process has in memory
    clock   \* wall-clock time of the host

vars == <<row, held, clock>>

-----------------------------------------------------------------------------
(* Data.                                                                   *)

TerminalStates == {"SUCCEEDED", "FAILED_PERMANENT", "SKIPPED_POLICY",
                   "SKIPPED_NOT_NEEDED", "CANCELLED", "EXPIRED", "INVALIDATED"}
SuccessfulStates == {"SUCCEEDED", "SKIPPED_POLICY", "SKIPPED_NOT_NEEDED"}
ActiveStates == {"LEASED", "RUNNING"}
States == {"ABSENT", "PLANNED", "READY", "RETRY_WAIT"}
            \cup ActiveStates \cup TerminalStates
Outcomes == {"ACTIVE", "SUCCEEDED", "FAILED_RETRYABLE", "FAILED_PERMANENT",
             "ABANDONED", "CANCELLED", "EXPIRED", "INVALIDATED", "SKIPPED"}

\* A work plan with its dependency edges: `up' are the upstream ids, `req'
\* those of criticality REQUIRED (DEGRADABLE and OPTIONAL act alike here).
PlanRecord == [item: Items, up: SUBSET Items, req: SUBSET Items,
               expiry: Nat, max: Nat \ {0}]

\* Times an operation can store: a lease or a retry reaches past the clock.
Times == Nat

Row == [state: States, up: SUBSET Items, req: SUBSET Items, expiry: Nat,
        max: Nat \ {0}, created: Times, torn: BOOLEAN, epoch: Nat,
        attempt: Nat, leasedBy: Workers \cup {NoWorker}, leaseExp: Times,
        retryAt: Times, log: Seq(Outcomes)]

Lease == [item: Items, worker: Workers, epoch: Nat, exp: Times]

ASSUME ItemsAssumption == Items \subseteq Nat /\ IsFiniteSet(Items)
ASSUME WorkersAssumption == NoWorker \notin Workers /\ NoLease \notin Lease
ASSUME BatchesAssumption ==
    /\ Batches \subseteq Seq(PlanRecord)
    /\ \A b \in Batches : \A k \in 1..Len(b) :
          b[k].req \subseteq b[k].up /\ b[k].item \notin b[k].up
ASSUME DirectAssumption == DirectStates \subseteq
    {"CANCELLED", "INVALIDATED", "SKIPPED_POLICY", "SKIPPED_NOT_NEEDED"}
ASSUME TimeAssumption ==
    /\ LeaseDuration \in Nat \ {0}
    /\ RetryDelays \subseteq Nat
    /\ Skew \in Nat /\ MaxClock \in Nat /\ PlanHorizon \in Nat
    /\ Never \in Nat

AbsentRow == [state |-> "ABSENT", up |-> {}, req |-> {}, expiry |-> Never,
              max |-> 1, created |-> 0, torn |-> FALSE, epoch |-> 0,
              attempt |-> 0, leasedBy |-> NoWorker, leaseExp |-> 0,
              retryAt |-> 0, log |-> << >>]

Terminal(r, i) == r[i].state \in TerminalStates
Successful(r, i) == r[i].state \in SuccessfulStates
Active(r, i) == r[i].state \in ActiveStates

\* checked_now = _checked_now(now), read before BEGIN IMMEDIATE.
ReadNow == {t \in 0..MaxClock : clock - Skew <= t /\ t <= clock}

-----------------------------------------------------------------------------
(* One row.                                                                *)

\* _finish_attempt: close the ACTIVE attempt the row's lease names.
FinishAttempt(x, outcome) == [x EXCEPT !.log[Len(x.log)] = outcome]

\* _set_terminal: the lease and the retry time go, the state is final.
SetTerminal(x, state) ==
    [x EXCEPT !.state = state, !.leasedBy = NoWorker, !.leaseExp = 0,
              !.retryAt = 0]

\* Release a claim without finishing the item.
Release(x, state, retryAt) ==
    [x EXCEPT !.state = state, !.leasedBy = NoWorker, !.leaseExp = 0,
              !.retryAt = retryAt]

-----------------------------------------------------------------------------
(* Readiness: _advance_planned_item and the worklist around it.            *)

Downstream(r, S) == {d \in Items : r[d].up \cap S # {}}

\* Mutant: only an upstream that failed in this very pass counts.
RequiredFailureThisPassOnly(r, X, d) ==
    /\ r[d].state = "PLANNED"
    /\ \A u \in r[d].up : Terminal(r, u) \/ u \in X
    /\ \E u \in r[d].req : u \in X

\* _advance_planned_item would fail d, once the items of X have failed.
RequiredFailure(r, X, d) ==
    /\ r[d].state = "PLANNED"
    /\ \A u \in r[d].up : Terminal(r, u) \/ u \in X
    /\ \E u \in r[d].req : u \in X \/ ~Successful(r, u)

\* X holds every item that _refresh_planned_for_work_ids(seeds) would fail.
CascadeClosed(r, seeds, X) ==
    \A d \in Items :
        /\ d \in seeds \/ r[d].up \cap X # {}
        /\ RequiredFailure(r, X, d)
        => d \in X

\* The worklist fails the least such set: a failed item queues its
\* downstream items, and an item is left alone until all its upstreams end.
Cascade(r, seeds) ==
    {d \in Items : \A X \in SUBSET Items : CascadeClosed(r, seeds, X) => d \in X}

\* _refresh_planned_for_work_ids.  The write stamps updated_at = now; a row
\* whose updated_at precedes its created_at no longer loads: it is torn.
Refresh(r, now, seeds) ==
    LET failed  == Cascade(r, seeds)
        visited == seeds \cup Downstream(r, failed)
        ready   == {d \in visited \ failed :
                        /\ r[d].state = "PLANNED"
                        /\ \A u \in r[d].up : Terminal(r, u) \/ u \in failed}
    IN  IF failed \cup ready = {} THEN r ELSE
        [i \in Items |->
            IF i \in failed
            THEN [SetTerminal(r[i], "FAILED_PERMANENT")
                    EXCEPT !.torn = now < r[i].created]
            ELSE IF i \in ready
            THEN [r[i] EXCEPT !.state = "READY", !.torn = now < r[i].created]
            ELSE r[i]]

-----------------------------------------------------------------------------
(* Due state: _maintain and its parts.  S is the set of rows the SELECT    *)
(* ranges over: every item, or the one item of an exact reconciliation.    *)

\* Mutant: the SELECT forgets completed_at IS NULL.
DueEvenIfCompleted(r, now, S) ==
    {i \in S : r[i].state # "ABSENT" /\ r[i].expiry <= now}

Due(r, now, S) ==
    {i \in S : /\ r[i].state \notin TerminalStates \cup {"ABSENT"}
               /\ r[i].expiry <= now}

ExpireRow(x) ==
    SetTerminal(IF x.state \in ActiveStates THEN FinishAttempt(x, "EXPIRED")
                                            ELSE x,
                "EXPIRED")

ExpireRows(r, S) == [i \in Items |-> IF i \in S THEN ExpireRow(r[i]) ELSE r[i]]

\* _expire_hard_deadlines.
ExpireHardDeadlines(r, now, S) ==
    LET due == Due(r, now, S)
    IN  IF due = {} THEN r
        ELSE Refresh(ExpireRows(r, due), now, Downstream(r, due))

\* ORDER BY execution_expiry_at, work_item_id.
ExpiresBefore(r, e, d) ==
    r[e].expiry < r[d].expiry \/ (r[e].expiry = r[d].expiry /\ e < d)

\* _expire_hard_deadlines loads its rows up front.  When expiring an earlier
\* row fails a later one by cascade, _set_terminal of the later one finds
\* completed_at set and raises WorkStateError; a torn row fails to load.
ExpiryRaises(r, now, S) ==
    \E d \in Due(r, now, S) :
        \/ r[d].torn
        \/ LET earlier == {e \in Due(r, now, S) : ExpiresBefore(r, e, d)}
           IN  d \in Cascade(ExpireRows(r, earlier), Downstream(r, earlier))

\* Mutants: a lease is taken back one tick early; only started work is.
LeaseLapsedEarly(x, now) == x.state \in ActiveStates /\ x.leaseExp <= now + 1
LeaseLapsedIfStarted(x, now) == x.state = "RUNNING" /\ x.leaseExp <= now

\* The SELECT of _recover_expired_leases.
LeaseLapsed(x, now) == x.state \in ActiveStates /\ x.leaseExp <= now

\* Mutant: one attempt too many.
AttemptsExceeded(x) == x.attempt > x.max

\* No attempt is left: the negation of item.attempt < item.max_attempts.
AttemptsExhausted(x) == x.attempt >= x.max

\* _recover_expired_leases.
RecoverExpiredLeases(r, now, S) ==
    LET lapsed    == {i \in S : LeaseLapsed(r[i], now)}
        exhausted == {i \in lapsed : AttemptsExhausted(r[i])}
        released  == [i \in Items |->
                        LET x == FinishAttempt(r[i], "ABANDONED")
                        IN  IF i \in exhausted
                            THEN SetTerminal(x, "FAILED_PERMANENT")
                            ELSE IF i \in lapsed
                            THEN Release(x, "READY", 0)
                            ELSE r[i]]
    IN  IF lapsed = {} THEN r
        ELSE Refresh(released, now, Downstream(r, exhausted))

\* The UPDATE of _maintain that wakes RETRY_WAIT rows.
WakeRetries(r, now) ==
    LET woken == {i \in Items : r[i].state = "RETRY_WAIT" /\ r[i].retryAt <= now}
    IN  IF woken = {} THEN r
        ELSE [i \in Items |-> IF i \in woken THEN Release(r[i], "READY", 0)
                                             ELSE r[i]]

\* _maintain(refresh_all_planned=False).
Maintain(r, now) ==
    WakeRetries(
        RecoverExpiredLeases(ExpireHardDeadlines(r, now, Items), now, Items),
        now)

\* The two exact-item steps that _direct_terminal begins with.
SettleItem(r, now, i) ==
    RecoverExpiredLeases(ExpireHardDeadlines(r, now, {i}), now, {i})

\* _reconcile_exact_due_state.
ReconcileExactDueState(r, now, i) ==
    LET q == SettleItem(r, now, i)
    IN  IF q # r /\ Terminal(q, i) THEN Refresh(q, now, Downstream(q, {i}))
                                   ELSE q

\* Mutant: the transition forgets its downstream items.
SettleNothing(r, now, i) == r

\* The tail of succeed, a permanent fail and _direct_terminal: item i has
\* just become terminal in r.
SettleDownstream(r, now, i) == Refresh(r, now, Downstream(r, {i}))

-----------------------------------------------------------------------------
(* Operations.                                                             *)

Planned(r, i) == r[i].state # "ABSENT"

PolicyOf(r, i) == [item |-> i, up |-> r[i].up, req |-> r[i].req,
                   expiry |-> r[i].expiry, max |-> r[i].max]

BatchItems(b) == {b[k].item : k \in 1..Len(b)}

\* _plan_in_transaction accepts entry k: an exact replay of a loadable row, or
\* a new item whose upstreams are stored or stand earlier in the batch.
EntryAccepted(r, b, k) ==
    LET p == b[k] IN
    IF Planned(r, p.item)
    THEN ~r[p.item].torn /\ PolicyOf(r, p.item) = p
    ELSE /\ \A u \in p.up : Planned(r, u) \/ \E j \in 1..(k-1) : b[j].item = u
         /\ \A j \in 1..(k-1) : b[j].item = p.item => b[j] = p

\* INSERT of entry k's row, created_at = the client's clock reading.
InsertedRow(p, now) ==
    [AbsentRow EXCEPT !.state = "PLANNED", !.up = p.up, !.req = p.req,
                      !.expiry = p.expiry, !.max = p.max, !.created = now]

InsertBatch(r, b, now) ==
    [i \in Items |->
        IF i \in BatchItems(b) /\ ~Planned(r, i)
        THEN InsertedRow(b[CHOOSE k \in 1..Len(b) : b[k].item = i], now)
        ELSE r[i]]

\* plan and plan_many (plan is a batch of one).
PlanMany(b, now) ==
    /\ now <= PlanHorizon
    /\ \A k \in 1..Len(b) : EntryAccepted(row, b, k)
    /\ row' = Refresh(InsertBatch(row, b, now), now, BatchItems(b))
    /\ UNCHANGED <<held, clock>>

ClaimedRow(x, w, now, state) ==
    [x EXCEPT !.state = state, !.epoch = @ + 1, !.attempt = @ + 1,
              !.leasedBy = w, !.leaseExp = now + LeaseDuration,
              !.torn = FALSE, !.log = Append(@, "ACTIVE")]

\* claim (start = FALSE) and claim_and_start (start = TRUE) that find READY
\* work.  The row is loaded after the UPDATE stamps updated_at = now, so a
\* row created after `now' raises and the claim rolls back.
Claim(w, i, start, now) ==
    LET r == Maintain(row, now) IN
    /\ held[w] = NoLease
    /\ ~ExpiryRaises(row, now, Items)
    /\ r[i].state = "READY"
    /\ r[i].created <= now
    /\ row' = [r EXCEPT ![i] = ClaimedRow(r[i], w, now,
                                  IF start THEN "RUNNING" ELSE "LEASED")]
    /\ held' = [held EXCEPT ![w] = [item |-> i, worker |-> w,
                                    epoch |-> r[i].epoch + 1,
                                    exp |-> now + LeaseDuration]]
    /\ UNCHANGED clock

\* A claim whose item is not READY returns None; its maintenance commits.
ClaimNothing(now) ==
    LET r == Maintain(row, now) IN
    /\ ~ExpiryRaises(row, now, Items)
    /\ \E i \in Items : r[i].state # "READY"
    /\ row' = r
    /\ UNCHANGED <<held, clock>>

\* reconcile.
Reconcile(now) ==
    /\ ~ExpiryRaises(row, now, Items)
    /\ row' = Refresh(Maintain(row, now), now, Items)
    /\ UNCHANGED <<held, clock>>

\* Mutant: any unexpired lease on the item will do.
SomeLeaseIsLive(r, lease, now) ==
    LET x == r[lease.item] IN
    x.state \in ActiveStates /\ x.leaseExp > now /\ x.expiry > now

\* _require_lease.
LeaseIsLive(r, lease, now) ==
    LET x == r[lease.item] IN
    /\ x.state \in ActiveStates
    /\ x.epoch = lease.epoch
    /\ x.leasedBy = lease.worker
    /\ x.leaseExp = lease.exp
    /\ x.leaseExp > now
    /\ x.expiry > now

\* A worker acts on the capability it holds.  Its own clock readings do not
\* go back: it got the capability at exp - LeaseDuration.
Presents(w, now) ==
    /\ held[w] # NoLease
    /\ now >= held[w].exp - LeaseDuration

\* start; a second start of a RUNNING item returns the item.
Start(w, now) ==
    /\ Presents(w, now)
    /\ LeaseIsLive(row, held[w], now)
    /\ row[held[w].item].state = "LEASED"
    /\ row' = [row EXCEPT ![held[w].item].state = "RUNNING"]
    /\ UNCHANGED <<held, clock>>

\* heartbeat.  The renewed capability reaches the worker, or the commit is
\* reported as failed and the worker keeps the old one.
Heartbeat(w, now, delivered) ==
    /\ Presents(w, now)
    /\ LeaseIsLive(row, held[w], now)
    /\ row' = [row EXCEPT ![held[w].item].leaseExp = now + LeaseDuration]
    /\ held' = IF delivered
               THEN [held EXCEPT ![w].exp = now + LeaseDuration]
               ELSE held
    /\ UNCHANGED clock

\* succeed.
Succeed(w, now) ==
    /\ Presents(w, now)
    /\ LeaseIsLive(row, held[w], now)
    /\ row[held[w].item].state = "RUNNING"
    /\ LET i == held[w].item
           r == [row EXCEPT ![i] =
                    SetTerminal(FinishAttempt(@, "SUCCEEDED"), "SUCCEEDED")]
           q == SettleDownstream(r, now, i)
       IN  /\ ~ExpiryRaises(q, now, Items)
           /\ row' = Maintain(q, now)
    /\ held' = [held EXCEPT ![w] = NoLease]
    /\ UNCHANGED clock

\* will_retry of fail.
WillRetry(x, retryable, retryAt) ==
    retryable /\ ~AttemptsExhausted(x) /\ retryAt < x.expiry

\* fail that ends in RETRY_WAIT: nothing else is maintained.
FailRetry(w, now, delay) ==
    /\ Presents(w, now)
    /\ LeaseIsLive(row, held[w], now)
    /\ WillRetry(row[held[w].item], TRUE, now + delay)
    /\ row' = [row EXCEPT ![held[w].item] =
                  Release(FinishAttempt(@, "FAILED_RETRYABLE"),
                          "RETRY_WAIT", now + delay)]
    /\ held' = [held EXCEPT ![w] = NoLease]
    /\ UNCHANGED clock

\* fail that ends in FAILED_PERMANENT.
FailPermanent(w, now, retryable, delay) ==
    /\ Presents(w, now)
    /\ LeaseIsLive(row, held[w], now)
    /\ ~WillRetry(row[held[w].item], retryable, now + delay)
    /\ LET i == held[w].item
           r == [row EXCEPT ![i] =
                    SetTerminal(FinishAttempt(@, "FAILED_PERMANENT"),
                                "FAILED_PERMANENT")]
           q == SettleDownstream(r, now, i)
       IN  /\ ~ExpiryRaises(q, now, Items)
           /\ row' = Maintain(q, now)
    /\ held' = [held EXCEPT ![w] = NoLease]
    /\ UNCHANGED clock

\* start, heartbeat, succeed or fail with a capability that is not live:
\* WorkFenceError, after a transaction of its own settles the exact item.
Fenced(w, now) ==
    /\ Presents(w, now)
    /\ ~LeaseIsLive(row, held[w], now)
    /\ row' = ReconcileExactDueState(row, now, held[w].item)
    /\ held' = [held EXCEPT ![w] = NoLease]
    /\ UNCHANGED clock

\* Mutant: the item state is stored as the attempt outcome.
DirectOutcomeIsState(state) == state

\* cancel, skip and invalidate, with the outcome of the revoked attempt.
DirectOutcome(state) ==
    IF state \in {"CANCELLED", "INVALIDATED"} THEN state ELSE "SKIPPED"

\* _direct_terminal.  A terminal item returns unchanged or raises.
DirectTerminal(i, state, now) ==
    LET settled == SettleItem(row, now, i)
        x == settled[i]
        r == [settled EXCEPT ![i] =
                SetTerminal(IF x.state \in ActiveStates
                            THEN FinishAttempt(x, DirectOutcome(state)) ELSE x,
                            state)]
        q == SettleDownstream(r, now, i)
    IN  /\ Planned(row, i) /\ ~row[i].torn
        /\ row[i].created <= now
        /\ ~Terminal(settled, i)
        /\ ~ExpiryRaises(q, now, Items)
        /\ row' = Maintain(q, now)
        /\ UNCHANGED <<held, clock>>

\* A worker process dies or abandons its task: its capability is gone.
WorkerCrash(w) ==
    /\ held[w] # NoLease
    /\ held' = [held EXCEPT ![w] = NoLease]
    /\ UNCHANGED <<row, clock>>

Tick ==
    /\ clock < MaxClock
    /\ clock' = clock + 1
    /\ UNCHANGED <<row, held>>

-----------------------------------------------------------------------------
Init ==
    /\ row = [i \in Items |-> AbsentRow]
    /\ held = [w \in Workers |-> NoLease]
    /\ clock = 0

Next ==
    \/ Tick
    \/ \E w \in Workers : WorkerCrash(w)
    \/ \E now \in ReadNow, b \in Batches : PlanMany(b, now)
    \/ \E now \in ReadNow : Reconcile(now)
    \/ \E now \in ReadNow : ClaimNothing(now)
    \/ \E now \in ReadNow, i \in Items, state \in DirectStates :
          DirectTerminal(i, state, now)
    \/ \E now \in ReadNow, w \in Workers, i \in Items, start \in BOOLEAN :
          Claim(w, i, start, now)
    \/ \E now \in ReadNow, w \in Workers : Start(w, now)
    \/ \E now \in ReadNow, w \in Workers, delivered \in BOOLEAN :
          Heartbeat(w, now, delivered)
    \/ \E now \in ReadNow, w \in Workers : Succeed(w, now)
    \/ \E now \in ReadNow, w \in Workers, delay \in RetryDelays :
          FailRetry(w, now, delay)
    \/ \E now \in ReadNow, w \in Workers, delay \in RetryDelays,
          retryable \in BOOLEAN : FailPermanent(w, now, retryable, delay)
    \/ \E now \in ReadNow, w \in Workers : Fenced(w, now)

Spec == Init /\ [][Next]_vars

\* Fairness: time passes, and the service keeps calling reconcile (its
\* recovery loop) with a current clock.  Workers owe nothing: they may crash.
\* The second conjunct is WF_vars(Reconcile(clock)) with its ENABLED written
\* out: a reconcile that would change a row, and does not raise, is owed.
ReconcileOwed ==
    /\ ~ExpiryRaises(row, clock, Items)
    /\ Refresh(Maintain(row, clock), clock, Items) # row

FairSpec ==
    /\ Spec
    /\ WF_vars(Tick)
    /\ []<>~ReconcileOwed \/ []<><<Reconcile(clock)>>_vars
-----------------------------------------------------------------------------
(* Properties.                                                             *)

\* Type invariant: every table column and every capability has its type.
TypeOK ==
    /\ row \in [Items -> Row]
    /\ held \in [Workers -> Lease \cup {NoLease}]
    /\ clock \in Nat

\* The attempts table and the work item agree (_finish_attempt matches the
\* open attempt, claim appends one): one attempt per claim epoch, never more
\* than max_attempts, the last one open exactly while a lease is out, and a
\* SUCCEEDED attempt exactly under a SUCCEEDED item.
LedgerAgrees(x) ==
    /\ x.attempt = x.epoch /\ Len(x.log) = x.attempt /\ x.attempt <= x.max
    /\ \A k \in 1..Len(x.log) :
          /\ x.log[k] = "ACTIVE" <=> k = Len(x.log) /\ x.state \in ActiveStates
          /\ x.log[k] = "SUCCEEDED" => k = Len(x.log) /\ x.state = "SUCCEEDED"
    /\ x.state = "SUCCEEDED" => x.attempt > 0 /\ x.log[x.attempt] = "SUCCEEDED"
    /\ x.state \in ActiveStates \cup {"RETRY_WAIT"} => x.attempt > 0
    /\ x.state \in {"READY", "RETRY_WAIT"} => x.attempt < x.max
    /\ x.state \in ActiveStates <=> x.leasedBy # NoWorker
    /\ x.state \in {"ABSENT", "PLANNED"} => x.attempt = 0

AttemptLedger == \A i \in Items : LedgerAgrees(row[i])

\* Work is offered or executed only when every upstream item is terminal and
\* every REQUIRED one ended successfully (_advance_planned_item).
Unblocked(r, i) ==
    /\ \A u \in r[i].up : Terminal(r, u)
    /\ \A u \in r[i].req : Successful(r, u)

DependenciesHonoured ==
    \A i \in Items :
        row[i].state \in {"READY", "RETRY_WAIT", "SUCCEEDED"} \cup ActiveStates
          \/ row[i].attempt > 0
        => Unblocked(row, i)

\* Incremental readiness is never behind: no committed state leaves a PLANNED
\* row whose upstreams have all ended.  _maintain skips the full scan of
\* PLANNED rows because "direct predecessor transitions below keep readiness
\* current"; reconcile's repair finds nothing to do.
ReadinessCurrent ==
    \A i \in Items : row[i].state = "PLANNED" =>
        \E u \in row[i].up : ~Terminal(row, u)

\* A lease excludes: no two workers hold unexpired capabilities for one item,
\* whatever order their delayed claims, renewals and recoveries commit in.
ExclusiveExecution ==
    \A v, w \in Workers :
        /\ v # w
        /\ held[v] # NoLease /\ held[w] # NoLease
        /\ held[v].item = held[w].item
        => held[v].exp <= clock \/ held[w].exp <= clock

\* A terminal row is final: no operation, late callback or maintenance pass
\* changes it (completed_at IS NULL in _set_terminal).
TerminalIsFinal ==
    [][\A i \in Items : Terminal(row, i) => row'[i] = row[i]]_vars

\* Only an operation under a live lease records a success: when an item
\* becomes SUCCEEDED it was RUNNING under a lease that had not lapsed at the
\* time the operation read (at most Skew before the commit, so by the host's
\* clock the lease may just have ended), some worker held its newest epoch
\* with the row's own lease end, and that worker gives the capability up.
SuccessIsFenced ==
    [][\A i \in Items :
         row'[i].state = "SUCCEEDED" /\ row[i].state # "SUCCEEDED" =>
            /\ row[i].state = "RUNNING" /\ row[i].leaseExp + Skew > clock
            /\ \E w \in Workers :
                /\ held[w] # NoLease /\ held'[w] = NoLease
                /\ held[w].item = i /\ held[w].epoch = row[i].epoch
                /\ held[w].exp = row[i].leaseExp
                /\ \A v \in Workers : held[v] # NoLease /\ held[v].item = i
                        => held[v].epoch <= held[w].epoch]_vars

\* The lease, or the wait for a retry, reaches past the end of modelled time:
\* the worker claimed late or has renewed to the end, the retry was put off.
OutlastsClock(i) ==
    \/ Active(row, i) /\ row[i].leaseExp > MaxClock
    \/ row[i].state = "RETRY_WAIT" /\ row[i].retryAt > MaxClock

\* No work is stranded: an item that is out on a lease, or waits to be
\* retried, is offered again or ends (_recover_expired_leases, _maintain),
\* unless it is renewed for ever.  A worker may die or fall silent at any time
\* and may renew as often as it likes; one that renews to the end of time keeps
\* its item, as it does in the code, and is exempt by OutlastsClock.
NoWorkStranded ==
    \A i \in Items :
        Active(row, i) \/ row[i].state = "RETRY_WAIT"
          ~> row[i].state = "READY" \/ Terminal(row, i) \/ OutlastsClock(i)

\* Hard expiry is honoured: an item past execution_expiry_at ends.
HardExpiryHonoured ==
    \A i \in Items :
        (Planned(row, i) /\ row[i].expiry <= clock) ~> Terminal(row, i)

-----------------------------------------------------------------------------
(* The contract.                                                           *)

PhaseOf(state) ==
    CASE state = "ABSENT" -> "none"
      [] state = "PLANNED" -> "waiting"
      [] state \in {"READY", "RETRY_WAIT"} -> "offered"
      [] state \in ActiveStates -> "out"
      [] state = "SUCCEEDED" -> "won"
      [] state \in {"SKIPPED_POLICY", "SKIPPED_NOT_NEEDED"} -> "waived"
      [] OTHER -> "lost"

Contract == INSTANCE WorkContract WITH
    job <- [i \in Items |-> [phase |-> PhaseOf(row[i].state), up |-> row[i].up,
                             req |-> row[i].req, tries |-> row[i].attempt,
                             max |-> row[i].max]]

\* The ledger implements its contract: whatever leases, stale clocks and
\* maintenance passes do, a client sees jobs that are handed to one worker at
\* a time, never early, never more often than allowed, never left waiting for
\* nothing, and that end once.
ImplementsContract == Contract!Spec

=============================================================================
