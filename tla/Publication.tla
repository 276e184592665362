---------------------------- MODULE Publication ----------------------------
(***************************************************************************)
(* How a canonical run becomes public.  A process that executes a run      *)
(* (application/canonical/local_composition.py) reads the event registry   *)
(* of its recording, prepares stable event identities and one completion   *)
(* command from it, and hands the command to                               *)
(* CanonicalActionPublishWorkCoordinator (durable_work.py).  The           *)
(* coordinator fences the commit with a work item of the work ledger;      *)
(* SQLitePrimaryCompletionRepository commits identities, publications,     *)
(* completion, outbox rows and run state in one transaction of ANOTHER     *)
(* database.  A process may die between any two transactions, and the      *)
(* operator then runs the command again.                                   *)
(*                                                                         *)
(* The work ledger is module WorkScheduler; its actions are conjoined with *)
(* the coordinator's steps.  All runs of the model share one recording,    *)
(* hence one registry partition.                                           *)
(*                                                                         *)
(* A command is content-addressed, and so is its work item.  (run,         *)
(* generation) stands for both digests: the rest of a command follows from *)
(* the registry at that generation.                                        *)
(***************************************************************************)
EXTENDS Integers, FiniteSets

CONSTANTS
    Procs,          \* processes, each executing one run
    Runs,           \* run ids, as numbers: one per run key
    Hyps,           \* event hypotheses, as numbers: their canonical order
    Inputs,         \* who executes which run, and what the runs find
    Fingerprint,    \* semantic_fingerprint_sha256 of a hypothesis
    MaxAttempts,    \* CANONICAL_ACTION_PUBLISH_WORK_MAX_ATTEMPTS
    LeaseDuration,  \* CANONICAL_ACTION_PUBLISH_WORK_LEASE_SECONDS
    Skew,           \* how old `now' may be when its transaction runs
    MaxClock,       \* bound on the clock
    MaxCrashes,     \* bound on process deaths
    None

VARIABLES
    input,              \* one of Inputs
    row, held, clock,   \* the work ledger, see WorkScheduler
    run,                \* primary_runs: status of each run
    completion,         \* primary_completions: the command of each run
    registry,           \* the partition with its identities and assignments
    op,                 \* what each process is about to do
    crashes

repo == <<input, run, completion, registry>>
work == <<row, held, clock>>
vars == <<input, row, held, clock, run, completion, registry, op,
          crashes>>

ASSUME PublicationAssumption ==
    /\ Runs \subseteq Nat /\ IsFiniteSet(Runs) /\ Hyps \subseteq Nat
    /\ Inputs \subseteq [runOf: [Procs -> Runs], found: [Runs -> SUBSET Hyps]]
    /\ MaxAttempts \in Nat \ {0} /\ LeaseDuration \in Nat \ {0}
    /\ Skew \in Nat /\ MaxClock \in Nat

\* NULL is no process, no event, no command and no lease.
ASSUME NoneAssumption ==
    /\ None \notin Procs
    /\ None \notin [hyp: Hyps, gen: Nat]
    /\ \A F \in SUBSET Hyps :
          None \notin [run: Runs, gen: Nat, fence: Nat, new: SUBSET F,
                       assigned: [F -> [hyp: Hyps, gen: Nat]]]
    /\ None \notin [item: Nat, worker: Procs, epoch: Nat, exp: Nat]

\* The run a process executes, and the hypotheses a run ends with (none is
\* NO_EVENTS).  Inference evidence is durable: every execution of a run
\* selects the same outputs.
RunOf(p) == input.runOf[p]
Found(r) == input.found[r]

\* A run bumps the generation at most once, when it completes.  A command at
\* MaxGeneration is of a completed run: it gets no further than Get.
MaxGeneration == Cardinality(Runs)
Generations == 0..(MaxGeneration - 1)
ItemOf(c) == c.run * MaxGeneration + c.gen
Items == {ItemOf([run |-> r, gen |-> g]) : r \in Runs, g \in Generations}
Never == MaxClock + 1

WS == INSTANCE WorkScheduler WITH
    Workers <- Procs, Batches <- {}, RetryDelays <- {}, DirectStates <- {},
    PlanHorizon <- MaxClock,
    NoWorker <- None, NoLease <- None

\* _action_publish_plan.
PlanOf(c) == [item |-> ItemOf(c), up |-> {}, req |-> {}, expiry |-> Never,
              max |-> MaxAttempts]

-----------------------------------------------------------------------------
(* Event identity: identity_registry.py.                                   *)

\* The allocator derives an event id from the hypothesis and the generation.
Events == [hyp: Hyps, gen: 1..MaxGeneration]

Registry == [gen: 0..MaxGeneration, fence: 1..(MaxGeneration + 1),
             identities: SUBSET Events, assigned: [Hyps -> Events \cup {None}],
             published: SUBSET Events, outbox: SUBSET (Runs \X Hyps)]

EmptyRegistry == [gen |-> 0, fence |-> 1, identities |-> {},
                  assigned |-> [h \in Hyps |-> None], published |-> {},
                  outbox |-> {}]

\* ExactFingerprintEventIdentityResolver: the identities h may stand for, in
\* a batch whose earlier new hypotheses have just been given theirs.
Matches(reg, new, h) ==
    {e \in reg.identities : Fingerprint[e.hyp] = Fingerprint[h]}
      \cup {[hyp |-> g, gen |-> reg.gen + 1] :
                g \in {g \in new : g < h /\ Fingerprint[g] = Fingerprint[h]}}

NewHyps(reg, r) == {h \in Found(r) : reg.assigned[h] = None}

\* prepare_initial_action_event_publications raises when an assignment is
\* REUSED; CREATED (no match) and AMBIGUOUS (several) get a new event.
Reuses(reg, r) ==
    \E h \in NewHyps(reg, r) : Cardinality(Matches(reg, NewHyps(reg, r), h)) = 1

\* EventIdentityRegistryService.prepare_batch on a snapshot, and the command
\* built from it.
Prepare(reg, r) ==
    [run |-> r, gen |-> reg.gen, fence |-> reg.fence,
     new |-> NewHyps(reg, r),
     assigned |-> [h \in Found(r) |->
                     IF reg.assigned[h] # None THEN reg.assigned[h]
                     ELSE [hyp |-> h, gen |-> reg.gen + 1]]]

\* The command of a run that ends in NO_EVENTS reads no registry.
EmptyCommand(r) == [run |-> r, gen |-> 0, fence |-> 0, new |-> {},
                    assigned |-> [h \in {} |-> None]]

IsCommand(c, r) ==
    /\ DOMAIN c = {"run", "gen", "fence", "new", "assigned"}
    /\ c.run = r /\ c.gen \in 0..MaxGeneration
    /\ c.fence \in 0..(MaxGeneration + 1)
    /\ c.new \subseteq Found(r) /\ c.assigned \in [Found(r) -> Events]

-----------------------------------------------------------------------------
(* Processes.                                                              *)

Steps == {"idle", "begin", "snapshot", "get", "plan", "tidy", "inspect",
          "ready", "claim", "start", "beat", "commit", "succeed", "done"}

\* recovering: the coordinator reconciles a completion that exists.
IsOp(o, r) ==
    /\ DOMAIN o = {"step", "cmd", "recovering"}
    /\ o.step \in Steps /\ o.recovering \in BOOLEAN
    /\ o.cmd = None \/ IsCommand(o.cmd, r)

Idle == [step |-> "idle", cmd |-> None, recovering |-> FALSE]

At(p, step) == op[p].step = step
Goto(p, step) == op' = [op EXCEPT ![p].step = step]

\* An exception ends the invocation; the operator may start another one.
Raise(p) ==
    /\ op' = [op EXCEPT ![p] = Idle]
    /\ held' = [held EXCEPT ![p] = None]
    /\ UNCHANGED <<row, clock, repo, crashes>>

Reconciling(c) == [step |-> "plan", cmd |-> c, recovering |-> TRUE]

\* recovered = completion_repository.get(run_id).
Lookup(p) ==
    /\ At(p, "idle")
    /\ op' = [op EXCEPT ![p] =
                IF completion[RunOf(p)] # None
                THEN Reconciling(completion[RunOf(p)])
                ELSE [Idle EXCEPT !.step = "begin"]]
    /\ UNCHANGED <<work, repo, crashes>>

\* begin_run inserts the row or replays it; resume raises on a closed run.
BeginRun(p) ==
    /\ At(p, "begin")
    /\ IF run[RunOf(p)] # "CLOSED"
       THEN /\ run' = [run EXCEPT ![RunOf(p)] = "RUNNING"]
            /\ Goto(p, "snapshot")
            /\ UNCHANGED <<work, input, completion, registry, crashes>>
       ELSE Raise(p)

\* The pipeline has run: snapshot the registry and prepare the command.
Snapshot(p) ==
    LET r == RunOf(p) IN
    /\ At(p, "snapshot")
    /\ IF Found(r) # {} /\ Reuses(registry, r)
       THEN Raise(p)
       ELSE /\ op' = [op EXCEPT ![p].step = "get", ![p].cmd =
                         IF Found(r) = {} THEN EmptyCommand(r)
                                          ELSE Prepare(registry, r)]
            /\ UNCHANGED <<work, repo, crashes>>

\* existing = repository.get(run_id), in the coordinator's _commit_checked.
Get(p) ==
    LET c == completion[RunOf(p)] IN
    /\ At(p, "get")
    /\ IF c = None
       THEN Goto(p, "plan") /\ UNCHANGED <<work, repo, crashes>>
       ELSE IF c = op[p].cmd
       THEN /\ op' = [op EXCEPT ![p] = Reconciling(c)]
            /\ UNCHANGED <<work, repo, crashes>>
       ELSE Raise(p)

\* scheduler.plan.  created_at is the run's started_at, a constant.
Plan(p) ==
    /\ At(p, "plan")
    /\ WS!PlanMany(<<PlanOf(op[p].cmd)>>, 0)
    /\ op' = [op EXCEPT ![p] =
                IF op[p].recovering THEN [@ EXCEPT !.step = "tidy"]
                ELSE IF row[ItemOf(op[p].cmd)].state = "SUCCEEDED" THEN Idle
                ELSE [@ EXCEPT !.step = "ready"]]
    /\ UNCHANGED <<repo, crashes>>

\* scheduler.reconcile, in reconcile ("tidy") and in _claim_ready ("ready").
Maintain(p, now) ==
    /\ At(p, "tidy") \/ At(p, "ready")
    /\ WS!Reconcile(now)
    /\ Goto(p, IF At(p, "tidy") THEN "inspect" ELSE "claim")
    /\ UNCHANGED <<repo, crashes>>

\* _active_lease: the worker id is a function of the work item, so the lease
\* that is stored in the row is anybody's who reconciles the item.
StoredLease(i) == [item |-> i, worker |-> row[i].leasedBy,
                   epoch |-> row[i].epoch, exp |-> row[i].leaseExp]

\* item = scheduler.get(...) and the branches of reconcile on its state.
Inspect(p) ==
    LET i == ItemOf(op[p].cmd)
        s == row[i].state
    IN  /\ At(p, "inspect")
        /\ \/ /\ s = "SUCCEEDED"
              /\ Goto(p, "done")
              /\ UNCHANGED <<work, repo, crashes>>
           \/ /\ s \in WS!ActiveStates
              /\ held' = [held EXCEPT ![p] = StoredLease(i)]
              /\ Goto(p, IF s = "LEASED" THEN "start" ELSE "beat")
              /\ UNCHANGED <<row, clock, repo, crashes>>
           \/ /\ s = "READY"
              /\ Goto(p, "ready")
              /\ UNCHANGED <<work, repo, crashes>>
           \/ /\ s \notin {"SUCCEEDED", "READY"} \cup WS!ActiveStates
              /\ Raise(p)

\* scheduler.claim.  reconcile does not call start after its own claim: it
\* tests the state it read before it claimed.
Claim(p, now) ==
    /\ At(p, "claim")
    /\ \/ /\ WS!Claim(p, ItemOf(op[p].cmd), FALSE, now)
          /\ Goto(p, IF op[p].recovering THEN "beat" ELSE "start")
       \/ /\ WS!Maintain(row, now)[ItemOf(op[p].cmd)].state # "READY"
          /\ WS!ClaimNothing(now)
          /\ op' = [op EXCEPT ![p] = Idle]
    /\ UNCHANGED <<repo, crashes>>

\* WorkFenceError: the capability is gone, the item is settled, it raises.
Fenced(p, now) ==
    /\ op[p].step \in {"start", "beat", "succeed"}
    /\ WS!Fenced(p, now)
    /\ op' = [op EXCEPT ![p] = Idle]
    /\ UNCHANGED <<repo, crashes>>

Start(p, now) ==
    /\ At(p, "start")
    /\ \/ WS!Start(p, now)
       \/ /\ WS!Presents(p, now) /\ WS!LeaseIsLive(row, held[p], now)
          /\ row[held[p].item].state = "RUNNING"
          /\ UNCHANGED work
    /\ Goto(p, "beat")
    /\ UNCHANGED <<repo, crashes>>

\* Mutant: the work item is ended before the repository commits.
BeatThenSucceed(p, now) ==
    /\ At(p, "beat")
    /\ WS!Heartbeat(p, now, TRUE)
    /\ Goto(p, "succeed")
    /\ UNCHANGED <<repo, crashes>>

Beat(p, now) ==
    /\ At(p, "beat")
    /\ WS!Heartbeat(p, now, TRUE)
    /\ Goto(p, IF op[p].recovering THEN "succeed" ELSE "commit")
    /\ UNCHANGED <<repo, crashes>>

-----------------------------------------------------------------------------
(* The completion transaction: _commit_checked of the repository.          *)

\* Mutant: the partition is compared by what a hypothesis was assigned only.
FenceIgnored(c) == \A h \in c.new : registry.assigned[h] = None

\* The expected generation and fence are those of the partition.
FenceCurrent(c) == c.gen = registry.gen /\ c.fence = registry.fence

\* _insert_identity, _insert_assignment, _verify_assignment and
\* _insert_or_verify_publication find nothing that conflicts.
Consistent(c) ==
    /\ \A h \in c.new : /\ c.assigned[h] \notin registry.identities
                        /\ registry.assigned[h] = None
    /\ \A h \in Found(c.run) \ c.new : registry.assigned[h] = c.assigned[h]

\* Mutant: an outbox row for every assignment, the replayed ones included.
OutboxForAll(c) == {<<c.run, h>> : h \in Found(c.run)}

\* One outbox row for each assignment that is new.
OutboxOf(c) == {<<c.run, h>> : h \in c.new}

\* Mutant: assignments are replaced, the replayed ones included.
ApplyReplaces(c) ==
    [gen |-> IF c.new = {} THEN registry.gen ELSE c.gen + 1,
     fence |-> IF c.new = {} THEN registry.fence ELSE registry.fence + 1,
     identities |-> registry.identities \cup {c.assigned[h] : h \in c.new},
     assigned |-> [h \in Hyps |-> IF h \in Found(c.run)
                                  THEN [hyp |-> h, gen |-> c.gen + 1]
                                  ELSE registry.assigned[h]],
     published |-> registry.published \cup {c.assigned[h] : h \in Found(c.run)},
     outbox |-> registry.outbox \cup OutboxOf(c)]

\* _apply_identity_and_publications, and the outbox rows.
Apply(c) ==
    [gen |-> IF c.new = {} THEN registry.gen ELSE c.gen + 1,
     fence |-> IF c.new = {} THEN registry.fence ELSE registry.fence + 1,
     identities |-> registry.identities \cup {c.assigned[h] : h \in c.new},
     assigned |-> [h \in Hyps |-> IF h \in c.new THEN c.assigned[h]
                                  ELSE registry.assigned[h]],
     published |-> registry.published \cup {c.assigned[h] : h \in Found(c.run)},
     outbox |-> registry.outbox \cup OutboxOf(c)]

\* The transaction commits.  An error of COMMIT itself is resolved by reading
\* the completion back (_recover_uncertain_commit); when that read fails too,
\* the process raises although the facts are there (reported = FALSE).
Commit(p, reported) ==
    LET c == op[p].cmd IN
    /\ At(p, "commit")
    /\ completion[c.run] = None
    /\ run[c.run] = "RUNNING"
    /\ Found(c.run) # {} => FenceCurrent(c) /\ Consistent(c)
    /\ completion' = [completion EXCEPT ![c.run] = c]
    /\ run' = [run EXCEPT ![c.run] = "CLOSED"]
    /\ registry' = IF Found(c.run) = {} THEN registry ELSE Apply(c)
    /\ op' = [op EXCEPT ![p] = IF reported THEN [@ EXCEPT !.step = "succeed"]
                                           ELSE Idle]
    /\ held' = [held EXCEPT ![p] = IF reported THEN @ ELSE None]
    /\ UNCHANGED <<row, clock, input, crashes>>

\* The run is complete: a replay of the same command, or RUN_CONFLICT.
CommitReplay(p) ==
    LET c == completion[op[p].cmd.run] IN
    /\ At(p, "commit")
    /\ c # None
    /\ IF c = op[p].cmd
       THEN Goto(p, "succeed") /\ UNCHANGED <<work, repo, crashes>>
       ELSE Raise(p)

\* STALE_IDENTITY or RUN_CONFLICT: everything is rolled back.
CommitStale(p) ==
    LET c == op[p].cmd IN
    /\ At(p, "commit")
    /\ completion[c.run] = None
    /\ Found(c.run) # {} /\ ~(FenceCurrent(c) /\ Consistent(c))
    /\ Raise(p)

Succeed(p, now) ==
    /\ At(p, "succeed")
    /\ \/ /\ WS!Succeed(p, now)
          /\ Goto(p, "done")
          /\ UNCHANGED <<repo, crashes>>
       \/ \* WorkStateError: only running work can succeed.
          /\ WS!Presents(p, now) /\ WS!LeaseIsLive(row, held[p], now)
          /\ row[held[p].item].state # "RUNNING"
          /\ Raise(p)

\* The command is run again after it returned.
Again(p) == At(p, "done") /\ Raise(p)

Crash(p) ==
    /\ op[p].step \notin {"idle", "done"}
    /\ crashes < MaxCrashes
    /\ crashes' = crashes + 1
    /\ op' = [op EXCEPT ![p] = Idle]
    /\ held' = [held EXCEPT ![p] = None]
    /\ UNCHANGED <<row, clock, repo>>

Tick == WS!Tick /\ UNCHANGED <<repo, op, crashes>>

-----------------------------------------------------------------------------
Init ==
    /\ WS!Init
    /\ input \in Inputs
    /\ run = [r \in Runs |-> "NONE"]
    /\ completion = [r \in Runs |-> None]
    /\ registry = EmptyRegistry
    /\ op = [p \in Procs |-> Idle]
    /\ crashes = 0

\* One step of an invocation; none of them is enabled once it has returned.
Step(p) ==
    \/ Lookup(p) \/ BeginRun(p) \/ Snapshot(p) \/ Get(p) \/ Plan(p)
    \/ Inspect(p) \/ CommitReplay(p) \/ CommitStale(p)
    \/ \E reported \in BOOLEAN : Commit(p, reported)
    \/ \E now \in WS!ReadNow :
          \/ Maintain(p, now) \/ Claim(p, now) \/ Start(p, now)
          \/ Beat(p, now) \/ Succeed(p, now) \/ Fenced(p, now)

Next == Tick \/ \E p \in Procs : Step(p) \/ Again(p) \/ Crash(p)

Spec == Init /\ [][Next]_vars

\* Time passes, and an operator whose command failed runs it again.  The last
\* conjunct is WF_vars(Step(p)) written out: Step(p) is enabled until the
\* invocation has returned, and it is what changes op[p] without a crash.
Moves(p) == ~At(p, "done") /\ op'[p] # op[p] /\ crashes' = crashes

FairSpec ==
    /\ Spec
    /\ WF_vars(Tick)
    /\ \A p \in Procs : []<>At(p, "done") \/ []<><<Moves(p)>>_vars
-----------------------------------------------------------------------------
(* Properties.                                                             *)

\* Type invariant: both databases and every process have their types.
TypeOK ==
    /\ WS!TypeOK
    /\ input \in Inputs
    /\ run \in [Runs -> {"NONE", "RUNNING", "CLOSED"}]
    /\ DOMAIN completion = Runs
    /\ \A r \in Runs : completion[r] = None \/ IsCommand(completion[r], r)
    /\ registry \in Registry
    /\ DOMAIN op = Procs /\ \A p \in Procs : IsOp(op[p], RunOf(p))
    /\ crashes \in 0..MaxCrashes

\* The two databases never contradict each other: work that SUCCEEDED is the
\* work of the command the run completed with.  The coordinator asserts it
\* ("publication work succeeded without authoritative primary completion").
SuccessHasCompletion ==
    \A r \in Runs, g \in Generations :
        row[ItemOf([run |-> r, gen |-> g])].state = "SUCCEEDED" =>
            completion[r] # None /\ completion[r].gen = g

\* No event is created twice: however runs race for the partition, events of
\* one recording have different fingerprints, each new one is published, and
\* the generation counts the completions that created events (the compare
\* and swap of _apply_identity_and_publications).
EventsAreUnique ==
    /\ \A d, e \in registry.identities :
          Fingerprint[d.hyp] = Fingerprint[e.hyp] => d = e
    /\ registry.published = registry.identities
    /\ registry.gen = Cardinality({r \in Runs : completion[r] # None
                                                /\ completion[r].new # {}})
    /\ registry.fence = registry.gen + 1

\* Each assignment is announced exactly once, by the run that made it,
\* whatever is replayed by that run or by others (_insert_outbox).
AnnouncedOnce ==
    \A h \in Hyps : Cardinality({r \in Runs : <<r, h>> \in registry.outbox})
                      = IF registry.assigned[h] = None THEN 0 ELSE 1

\* A completion keeps its facts: what it assigned stays assigned and
\* published, whatever later runs commit, so that it can be loaded again
\* (_verify_committed_closure).
CompletionsHold ==
    \A r \in Runs : completion[r] # None =>
        /\ run[r] = "CLOSED"
        /\ \A h \in Found(r) :
              /\ registry.assigned[h] = completion[r].assigned[h]
              /\ registry.assigned[h] \in registry.published

\* The work item of the command that an execution of r prepares now.
PresentItem(r) ==
    row[ItemOf([run |-> r, gen |-> IF Found(r) = {} THEN 0 ELSE registry.gen])]

\* The events of r were published by another run under other hypotheses, or
\* its present work item has used up its attempts.
Blocked(r) ==
    \/ Reuses(registry, r)
    \/ PresentItem(r).state = "FAILED_PERMANENT" /\ PresentItem(r).attempt = MaxAttempts

\* The lease of the present work item ends after the modelled time.
OutlastsClock(r) ==
    PresentItem(r).state \in WS!ActiveStates /\ PresentItem(r).leaseExp > MaxClock

\* A run that is executed again is not lost to crashes, stale registry
\* snapshots or lapsed leases: from some time on it is complete, or blocked for
\* one of the reasons above, or under a lease that cannot lapse in modelled
\* time.  A lapsed lease that nobody recovers is no excuse.
RunsPublish ==
    \A p \in Procs : <>[](\/ completion[RunOf(p)] # None
                          \/ Blocked(RunOf(p)) \/ OutlastsClock(RunOf(p)))

\* "Make an existing primary completion visible as succeeded durable work":
\* a reconciliation that reaches succeed under a live lease records success.
\* It is the repair of the window in which the completion has committed and
\* the work ledger does not know yet.
ReconcileSucceeds ==
    [][\A p \in Procs :
         At(p, "succeed") /\ op[p].recovering /\ Moves(p)
           /\ WS!LeaseIsLive(row, held[p], clock)
         => row'[ItemOf(op[p].cmd)].state = "SUCCEEDED"]_vars

=============================================================================
