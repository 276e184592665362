-------------------------- MODULE StreamScheduler --------------------------
(***************************************************************************)
(* One recording on the streaming path: the expected-window ledger of      *)
(* adapters/sqlite_stream_work_ledger.py, the composition over it in       *)
(* application/canonical/stream_scheduler.py, the atomic publications of   *)
(* adapters/sqlite_stream_delivery.py and the claims that the finalizer of *)
(* application/canonical/local_stream_finalization.py makes.               *)
(*                                                                         *)
(* One transaction is one action.  The operations of the composition are   *)
(* NOT one transaction: append, publish, seal, gate, recover and complete  *)
(* each run several, and a process may die between any two.  op[p] is the  *)
(* place of process p in such an operation, with what it has read so far.  *)
(*                                                                         *)
(* Execution rows live in the work scheduler of module WorkScheduler.      *)
(* They appear here through what WorkContract shows of them, plus the      *)
(* fence (epoch, holder, renewal) and the stored result; a lease may lapse *)
(* at any time.                                                            *)
(***************************************************************************)
EXTENDS Naturals, FiniteSets

CONSTANTS
    Procs,        \* processes, each with a scheduler instance and a worker
    WorkerOf,     \* [Procs -> worker ids]: a restarted worker keeps its id
    NumWindows,   \* bound: windows a planner may declare
    MaxBatch,     \* bound: new windows in one append
    Topology,     \* [stage -> upstream stages] of one window's DAG
    Payloads,     \* terminal evidence a worker may present
    MaxAttempts,  \* max_attempts of every stream plan
    MaxRenewals,  \* bound on lease renewals of one item
    MaxCrashes,   \* bound on process crashes
    None          \* NULL

VARIABLES
    plan,      \* the stream_plans row
    declared,  \* number of expected_windows rows; ordinals are 0..declared-1
    member,    \* expected_windows.terminal_member_json
    work,      \* stream_work_plans rows: publication, evidence, pending
    exec,      \* the execution rows of the work scheduler
    outbox,    \* ordinals in stream_delivery_outbox
    owner,     \* who owns the backpressure controller
    op,        \* what each process is in the middle of
    cap,       \* the StreamWorkLease each process holds
    crashes    \* crashes so far

vars == <<plan, declared, member, work, exec, outbox, owner, op, cap, crashes>>
ledger == <<plan, declared, member, work, exec, outbox, owner>>

-----------------------------------------------------------------------------
(* Data.                                                                   *)

Windows == 0..(NumWindows - 1)
Stages == DOMAIN Topology
Reduction(n) == <<n, "WINDOW_REDUCTION">>
Final == <<NumWindows, "FINALIZATION">>
WindowItems(n) == {n} \X Stages
Items == (Windows \X Stages) \cup {Final}

\* The ordinal of a finalization message is the number of windows.
Ordinals == 0..NumWindows

ASSUME ProcsAssumption == Procs # {} /\ IsFiniteSet(Procs) /\ None \notin Procs
ASSUME WorkerAssumption == DOMAIN WorkerOf = Procs /\ \A p \in Procs : WorkerOf[p] # None
ASSUME TopologyAssumption ==
    /\ "WINDOW_REDUCTION" \in Stages /\ "FINALIZATION" \notin Stages
    /\ \A s \in Stages : Topology[s] \subseteq Stages \ {"WINDOW_REDUCTION"}
ASSUME BoundsAssumption ==
    /\ NumWindows \in Nat \ {0} /\ MaxBatch \in Nat \ {0}
    /\ MaxAttempts \in Nat \ {0} /\ MaxRenewals \in Nat /\ MaxCrashes \in Nat
ASSUME PayloadAssumption == None \notin Payloads

Plan == [eos: BOOLEAN, sealed: BOOLEAN, size: 0..NumWindows,
         export: BOOLEAN, closed: BOOLEAN]

\* A pending terminal carries the epoch of the lease that wrote it.
Intent == [ev: Payloads, epoch: 1..MaxAttempts]
Work == [pub: {"ABSENT", "GATED", "PENDING", "PUBLISHED"},
         evidence: Payloads \cup {None}, pending: Intent \cup {None}]

ActiveStates == {"LEASED", "RUNNING"}
TerminalStates == {"SUCCEEDED", "FAILED_PERMANENT"}
ExecStates == {"ABSENT", "PLANNED", "READY", "RETRY_WAIT"}
                \cup ActiveStates \cup TerminalStates
WorkerIds == {WorkerOf[p] : p \in Procs}
Exec == [state: ExecStates, epoch: 0..MaxAttempts, by: WorkerIds \cup {None},
         renewal: 0..MaxRenewals, result: Payloads \cup {None}]
Lease == [item: Items, epoch: 1..MaxAttempts, renewal: 0..MaxRenewals]

\* NULL is no intent and no lease either.
ASSUME NoneAssumption == None \notin Intent /\ None \notin Lease

\* Where a process is: rows it is about to project, intents it read, the
\* declarations it counted, the evidence it is completing with.
Steps == {"down", "idle", "admitted", "read", "project", "publish", "sealing",
          "closing", "recover", "accept", "stored", "succeeded"}
NoIntents == [i \in Items |-> None]
At(step) == [step |-> step, rows |-> {}, intents |-> NoIntents, count |-> 0,
             ev |-> None]
Op == [step: Steps, rows: SUBSET Items,
       intents: [Items -> Payloads \cup {None}], count: 0..NumWindows,
       ev: Payloads \cup {None}]

\* Upstream work: the window DAG is DEGRADABLE, the edges of finalization to
\* the reductions of the sealed windows are REQUIRED.
Upstream(i) ==
    IF i = Final THEN {Reduction(n) : n \in 0..(plan.size - 1)}
                 ELSE {<<i[1], s>> : s \in Topology[i[2]]}

Terminal(e, i) == e[i].state \in TerminalStates

\* Mutant: one terminal upstream is enough.
SettleOnAny(e) ==
    [i \in Items |->
        IF e[i].state = "PLANNED"
             /\ (Upstream(i) = {} \/ \E u \in Upstream(i) : Terminal(e, u))
        THEN [e[i] EXCEPT !.state = "READY"] ELSE e[i]]

\* What _refresh_downstream_for_upstreams leaves behind.  One pass is enough:
\* only finalization can be failed by an upstream, and it has no downstream.
Settle(e) ==
    [i \in Items |->
        IF e[i].state = "PLANNED" /\ \A u \in Upstream(i) : Terminal(e, u)
        THEN [e[i] EXCEPT !.state =
                IF i = Final /\ \E u \in Upstream(i) : e[u].state # "SUCCEEDED"
                THEN "FAILED_PERMANENT" ELSE "READY"]
        ELSE e[i]]

Idle(p) == op[p].step = "idle"
Goto(p, o) == op' = [op EXCEPT ![p] = o]
Done(p) == Goto(p, At("idle"))

-----------------------------------------------------------------------------
(* Declaring windows and publishing their work.                            *)

\* __init__: register the plan, take the backpressure controller, recover.
Open(p) ==
    /\ op[p].step = "down"
    /\ owner' = p
    /\ Goto(p, At("recover"))
    /\ UNCHANGED <<plan, declared, member, work, exec, outbox, cap, crashes>>

\* The reads and the admission of _append_window_batch.  The backlog
\* projection raises on work without execution, and the controller's new
\* state is saved under the owner fence: a superseded instance is refused.
\* Whether pressure admits the batch is the environment's choice.
Admit(p) ==
    /\ Idle(p) /\ cap[p] = None
    /\ owner = p /\ declared < NumWindows
    /\ \A i \in Items : work[i].pub \in {"PENDING", "PUBLISHED"} =>
          exec[i].state # "ABSENT"
    /\ Goto(p, [At("admitted") EXCEPT !.count = declared])
    /\ UNCHANGED <<ledger, cap, crashes>>

\* Mutant: EOS does not close the plan to appends.
AppendAllowedAfterEos(p) == ~plan.sealed /\ declared = op[p].count

\* append_windows accepts ordinals that continue the table it finds.
AppendAllowed(p) == ~plan.eos /\ ~plan.sealed /\ declared = op[p].count

\* append_windows: the declarations and their PENDING work, atomically.
Append(p, k) ==
    LET rows == UNION {WindowItems(n) : n \in declared..(declared + k - 1)} IN
    /\ op[p].step = "admitted"
    /\ AppendAllowed(p)
    /\ declared + k <= NumWindows
    /\ declared' = declared + k
    /\ work' = [i \in Items |->
                  IF i \in rows THEN [work[i] EXCEPT !.pub = "PENDING"] ELSE work[i]]
    /\ Goto(p, [At("read") EXCEPT !.rows = rows])
    /\ UNCHANGED <<plan, member, exec, outbox, owner, cap, crashes>>

\* Another instance appended the same ordinals, or EOS came first: raise.
AppendRaises(p) ==
    /\ op[p].step = "admitted" /\ ~AppendAllowed(p)
    /\ Done(p)
    /\ UNCHANGED <<ledger, cap, crashes>>

\* An append of windows that are all known: no admission, nothing inserted.
Replay(p) ==
    /\ Idle(p) /\ cap[p] = None /\ declared > 0
    /\ Goto(p, [At("read") EXCEPT !.rows = UNION {WindowItems(n) : n \in 0..(declared - 1)}])
    /\ UNCHANGED <<ledger, cap, crashes>>

\* Mutant: rows are marked PUBLISHED before they are projected.
ReadRowsToPublish(p) ==
    LET rows == {i \in op[p].rows : work[i].pub = "PENDING"} IN
    /\ op[p].step = "read"
    /\ Goto(p, IF rows = {} THEN At("idle") ELSE [At("publish") EXCEPT !.rows = rows])
    /\ UNCHANGED <<ledger, cap, crashes>>

\* work_plans_for_ids or pending_publication_work_rows: keep PENDING rows.
ReadRows(p) ==
    LET rows == {i \in op[p].rows : work[i].pub = "PENDING"} IN
    /\ op[p].step = "read"
    /\ Goto(p, IF rows = {} THEN At("idle") ELSE [At("project") EXCEPT !.rows = rows])
    /\ UNCHANGED <<ledger, cap, crashes>>

NewExec == [state |-> "PLANNED", epoch |-> 0, by |-> None, renewal |-> 0,
            result |-> None]

\* _publish_work_rows, first half: plan_many inserts what is not there yet.
Project(p) ==
    LET rows == op[p].rows IN
    /\ op[p].step = "project"
    /\ \A i \in rows : \A u \in Upstream(i) : exec[u].state # "ABSENT" \/ u \in rows
    /\ exec' = Settle([i \in Items |->
                  IF i \in rows /\ exec[i].state = "ABSENT" THEN NewExec ELSE exec[i]])
    /\ Goto(p, [op[p] EXCEPT !.step = "publish"])
    /\ UNCHANGED <<plan, declared, member, work, outbox, owner, cap, crashes>>

\* _publish_work_rows, second half: mark_published_many.
Publish(p) ==
    /\ op[p].step = "publish"
    /\ work' = [i \in Items |->
                  IF i \in op[p].rows THEN [work[i] EXCEPT !.pub = "PUBLISHED"] ELSE work[i]]
    /\ Done(p)
    /\ UNCHANGED <<plan, declared, member, exec, outbox, owner, cap, crashes>>

-----------------------------------------------------------------------------
(* End of stream: EOS, seal, export barrier, finalization gate.            *)

\* set_planner_eos, the last transaction of seal.
SetPlannerEos(p) ==
    /\ Idle(p) /\ cap[p] = None /\ ~plan.eos
    /\ plan' = [plan EXCEPT !.eos = TRUE]
    /\ UNCHANGED <<declared, member, work, exec, outbox, owner, op, cap, crashes>>

\* finalize_eos reads the declarations first ...
SealRead(p) ==
    /\ Idle(p) /\ cap[p] = None /\ ~plan.sealed
    /\ Goto(p, [At("sealing") EXCEPT !.count = declared])
    /\ UNCHANGED <<ledger, cap, crashes>>

\* Mutant: the seal trusts the declarations read earlier.
SealOfStaleDeclarations(p) == plan.eos

\* ... and store_seal_and_finalization compares them with the table.
SealMatches(p) == plan.eos /\ declared = op[p].count

SealStore(p) ==
    /\ op[p].step = "sealing"
    /\ IF SealMatches(p) /\ ~plan.sealed
       THEN /\ plan' = [plan EXCEPT !.sealed = TRUE, !.size = op[p].count]
            /\ work' = [work EXCEPT ![Final].pub = "GATED"]
       ELSE UNCHANGED <<plan, work>>
    /\ Done(p)
    /\ UNCHANGED <<declared, member, exec, outbox, owner, cap, crashes>>

\* mark_export_barrier_complete.
MarkExportBarrier(p) ==
    /\ Idle(p) /\ cap[p] = None /\ ~plan.export
    /\ plan' = [plan EXCEPT !.export = TRUE]
    /\ UNCHANGED <<declared, member, work, exec, outbox, owner, op, cap, crashes>>

\* Every declared window has its terminal member.
GateMembers == \A n \in 0..(declared - 1) : member[n] # None

\* close_finalization_gate checks seal, members and export barrier ...
GateRead(p) ==
    /\ Idle(p) /\ cap[p] = None
    /\ plan.sealed /\ ~plan.closed /\ GateMembers /\ plan.export
    /\ Goto(p, At("closing"))
    /\ UNCHANGED <<ledger, cap, crashes>>

\* ... and store_closure_and_open_finalization opens it; recover follows.
GateStore(p) ==
    /\ op[p].step = "closing"
    /\ plan' = [plan EXCEPT !.closed = TRUE]
    /\ work' = [work EXCEPT ![Final].pub = IF @ = "GATED" THEN "PENDING" ELSE @]
    /\ Goto(p, At("recover"))
    /\ UNCHANGED <<declared, member, exec, outbox, owner, cap, crashes>>

\* publish_recording_finalization: one result per declared window is there.
PublishFinalization(p) ==
    /\ Idle(p) /\ cap[p] = None
    /\ plan.sealed /\ plan.closed /\ plan.export /\ GateMembers
    /\ \A n \in 0..(declared - 1) : n \in outbox
    /\ declared \notin outbox
    /\ outbox' = outbox \cup {declared}
    /\ UNCHANGED <<plan, declared, member, work, exec, owner, op, cap, crashes>>

-----------------------------------------------------------------------------
(* Executing work.                                                         *)

\* Mutant: a READY item is claimed although an upstream fact is missing.
ClaimWithoutFacts(i) == i = Final => declared \in outbox

\* _claim_ready_lease waits for the accepted evidence of every upstream item;
\* finalization is claimed once its message is stored.
FactsPresent(i) ==
    IF i = Final THEN declared \in outbox
                 ELSE \A u \in Upstream(i) : work[u].evidence # None

\* claim and claim_and_start.
Claim(p, i, start) ==
    /\ Idle(p) /\ cap[p] = None
    /\ work[i].pub = "PUBLISHED" /\ FactsPresent(i)
    /\ exec[i].state = "READY"
    /\ exec' = [exec EXCEPT ![i].state = IF start THEN "RUNNING" ELSE "LEASED",
                            ![i].epoch = @ + 1, ![i].by = WorkerOf[p],
                            ![i].renewal = 0]
    /\ cap' = [cap EXCEPT ![p] = [item |-> i, epoch |-> exec[i].epoch + 1,
                                  renewal |-> 0]]
    /\ UNCHANGED <<plan, declared, member, work, outbox, owner, op, crashes>>

\* _require_lease, as the fence of store_pending_terminal and succeed.
Live(p) ==
    LET x == exec[cap[p].item] IN
    /\ x.state \in ActiveStates
    /\ x.epoch = cap[p].epoch /\ x.by = WorkerOf[p] /\ x.renewal = cap[p].renewal

\* resume_owned_active: heartbeat and start under the stored fence.  Two
\* renewals within one clock tick leave the same expiry: fresh is FALSE.
ResumeOwnedActive(p, i, fresh) ==
    LET r == exec[i].renewal + (IF fresh THEN 1 ELSE 0) IN
    /\ Idle(p) /\ cap[p] = None
    /\ work[i].pub = "PUBLISHED" /\ exec[i].state \in ActiveStates
    /\ exec[i].by = WorkerOf[p]
    /\ r <= MaxRenewals
    /\ exec' = [exec EXCEPT ![i].state = "RUNNING", ![i].renewal = r]
    /\ cap' = [cap EXCEPT ![p] = [item |-> i, epoch |-> exec[i].epoch, renewal |-> r]]
    /\ UNCHANGED <<plan, declared, member, work, outbox, owner, op, crashes>>

\* start.
Start(p) ==
    /\ Idle(p) /\ cap[p] # None /\ Live(p)
    /\ exec[cap[p].item].state = "LEASED"
    /\ exec' = [exec EXCEPT ![cap[p].item].state = "RUNNING"]
    /\ UNCHANGED <<plan, declared, member, work, outbox, owner, op, cap, crashes>>

\* heartbeat of work in flight.
Heartbeat(p) ==
    /\ Idle(p) /\ cap[p] # None /\ Live(p)
    /\ cap[p].renewal < MaxRenewals
    /\ exec' = [exec EXCEPT ![cap[p].item].renewal = @ + 1]
    /\ cap' = [cap EXCEPT ![p].renewal = @ + 1]
    /\ UNCHANGED <<plan, declared, member, work, outbox, owner, op, crashes>>

\* Mutant: one attempt too many.
AttemptsRemainOffByOne(i) == exec[i].epoch <= MaxAttempts

AttemptsRemain(i) == exec[i].epoch < MaxAttempts

\* fail_retryable: refused on the last attempt.
FailRetryable(p) ==
    /\ Idle(p) /\ cap[p] # None /\ Live(p)
    /\ AttemptsRemain(cap[p].item)
    /\ exec' = [exec EXCEPT ![cap[p].item].state = "RETRY_WAIT",
                            ![cap[p].item].by = None]
    /\ cap' = [cap EXCEPT ![p] = None]
    /\ UNCHANGED <<plan, declared, member, work, outbox, owner, op, crashes>>

\* The scheduler's maintenance: a lease lapses, a retry wakes.
LeaseLapses(i) ==
    /\ exec[i].state \in ActiveStates
    /\ exec' = Settle([exec EXCEPT ![i].by = None, ![i].state =
                  IF AttemptsRemain(i) THEN "READY" ELSE "FAILED_PERMANENT"])
    /\ UNCHANGED <<plan, declared, member, work, outbox, owner, op, cap, crashes>>

RetryWakes(i) ==
    /\ exec[i].state = "RETRY_WAIT"
    /\ exec' = [exec EXCEPT ![i].state = "READY"]
    /\ UNCHANGED <<plan, declared, member, work, outbox, owner, op, cap, crashes>>

-----------------------------------------------------------------------------
(* complete: an intent, the execution's success, the acceptance.           *)

\* Mutant: an intent overwrites any other.
IntentAlwaysWritten(i, ev, epoch) == TRUE

\* store_pending_terminal keeps an equal intent and replaces an older one.
IntentWritable(i, ev, epoch) ==
    LET q == work[i].pending IN
    q # None => q = [ev |-> ev, epoch |-> epoch] \/ q.epoch < epoch

StorePendingTerminal(p, ev) ==
    LET i == cap[p].item IN
    /\ Idle(p) /\ cap[p] # None
    /\ work[i].evidence = None /\ Live(p)
    /\ IntentWritable(i, ev, cap[p].epoch)
    /\ work' = [work EXCEPT ![i].pending = [ev |-> ev, epoch |-> cap[p].epoch]]
    /\ Goto(p, [At("stored") EXCEPT !.ev = ev])
    /\ UNCHANGED <<plan, declared, member, exec, outbox, owner, cap, crashes>>

\* succeed of the execution; a stale fence or an unstarted item raises.
CompleteSucceed(p) ==
    LET i == cap[p].item IN
    /\ op[p].step = "stored"
    /\ Live(p) /\ exec[i].state = "RUNNING"
    /\ exec' = Settle([exec EXCEPT ![i].state = "SUCCEEDED", ![i].by = None,
                                   ![i].result = op[p].ev])
    /\ Goto(p, [op[p] EXCEPT !.step = "succeeded"])
    /\ UNCHANGED <<plan, declared, member, work, outbox, owner, cap, crashes>>

CompleteRaises(p) ==
    /\ op[p].step = "stored"
    /\ ~(Live(p) /\ exec[cap[p].item].state = "RUNNING")
    /\ Done(p)
    /\ cap' = [cap EXCEPT ![p] = None]
    /\ UNCHANGED <<ledger, crashes>>

\* accept_pending_terminal finds the intent it expects.
Acceptable(i, ev) ==
    /\ work[i].evidence = None
    /\ work[i].pending # None /\ work[i].pending.ev = ev
    /\ \A n \in Windows : i = Reduction(n) => member[n] \in {None, ev}

\* Mutant: the window's member is forgotten.
AcceptWithoutMember(i, ev) ==
    /\ work' = [work EXCEPT ![i].evidence = ev, ![i].pending = None]
    /\ UNCHANGED member

\* It promotes the intent and, for a reduction, the window's member.
Accept(i, ev) ==
    /\ work' = [work EXCEPT ![i].evidence = ev, ![i].pending = None]
    /\ member' = [n \in Windows |-> IF i = Reduction(n) THEN ev ELSE member[n]]

\* Evidence accepted already, a changed intent: nothing to do, or raise.
CompleteAccept(p) ==
    LET i == cap[p].item IN
    /\ op[p].step = "succeeded"
    /\ IF Acceptable(i, op[p].ev) THEN Accept(i, op[p].ev)
                                  ELSE UNCHANGED <<work, member>>
    /\ Done(p)
    /\ cap' = [cap EXCEPT ![p] = None]
    /\ UNCHANGED <<plan, declared, exec, outbox, owner, crashes>>

\* commit_window_reduction: success, evidence, member, result and outbox
\* message in one transaction.  Its fence ignores renewals, and nothing
\* refreshes downstream work.
CommitWindowReduction(p, n, ev) ==
    LET i == Reduction(n)
        x == exec[i] IN
    /\ Idle(p) /\ cap[p] # None /\ cap[p].item = i
    /\ x.state = "RUNNING" /\ x.epoch = cap[p].epoch /\ x.by = WorkerOf[p]
    /\ n \notin outbox
    /\ work[i].pending # None => work[i].pending.ev = ev
    /\ member[n] \in {None, ev}
    /\ exec' = [exec EXCEPT ![i].state = "SUCCEEDED", ![i].by = None,
                            ![i].result = ev]
    /\ work' = [work EXCEPT ![i].evidence = ev, ![i].pending = None]
    /\ member' = [member EXCEPT ![n] = ev]
    /\ outbox' = outbox \cup {n}
    /\ cap' = [cap EXCEPT ![p] = None]
    /\ UNCHANGED <<plan, declared, owner, op, crashes>>

\* A worker gives its capability up: its operation raised, or it timed out.
Abandon(p) ==
    /\ Idle(p) /\ cap[p] # None
    /\ cap' = [cap EXCEPT ![p] = None]
    /\ UNCHANGED <<ledger, op, crashes>>

-----------------------------------------------------------------------------
(* recover.                                                                *)

\* _recover_terminal_acceptances reads every pending row ...
RecoverRead(p) ==
    /\ op[p].step = "recover" \/ (Idle(p) /\ cap[p] = None)
    /\ Goto(p, [At("accept") EXCEPT !.intents =
                  [i \in Items |-> IF work[i].pending = None THEN None
                                   ELSE work[i].pending.ev]])
    /\ UNCHANGED <<ledger, cap, crashes>>

\* The execution's result is the intent that was read.
IntentBinds(i, ev) == exec[i].result = ev

\* Mutant: recovery leaves every intent to the worker that wrote it.
RecoverSkips(p, i) ==
    /\ op[p].step = "accept" /\ op[p].intents[i] # None
    /\ Goto(p, [op[p] EXCEPT !.intents[i] = None])
    /\ UNCHANGED <<ledger, cap, crashes>>

\* ... and takes them one by one: execution not ended, skip; bound to the
\* intent, accept; otherwise the whole recovery raises.
RecoverAccept(p, i) ==
    LET ev == op[p].intents[i] IN
    /\ op[p].step = "accept" /\ ev # None
    /\ \/ /\ exec[i].state # "SUCCEEDED"
          /\ UNCHANGED <<work, member>>
       \/ /\ exec[i].state = "SUCCEEDED" /\ IntentBinds(i, ev)
          /\ \/ Acceptable(i, ev) /\ Accept(i, ev)
             \/ work[i].evidence = ev /\ UNCHANGED <<work, member>>
    /\ Goto(p, [op[p] EXCEPT !.intents[i] = None])
    /\ UNCHANGED <<plan, declared, exec, outbox, owner, cap, crashes>>

RecoverRaises(p, i) ==
    LET ev == op[p].intents[i] IN
    /\ op[p].step = "accept" /\ ev # None
    /\ exec[i].state = "SUCCEEDED"
    /\ ~IntentBinds(i, ev) \/ ~(Acceptable(i, ev) \/ work[i].evidence = ev)
    /\ Done(p)
    /\ UNCHANGED <<ledger, cap, crashes>>

\* Mutant: recovery ends with the intents.
RecoverWithoutRows(p) ==
    /\ op[p].step = "accept" /\ op[p].intents = NoIntents
    /\ Done(p)
    /\ UNCHANGED <<ledger, cap, crashes>>

\* Then the PENDING rows are published.
RecoverRows(p) ==
    /\ op[p].step = "accept" /\ op[p].intents = NoIntents
    /\ Goto(p, [At("read") EXCEPT !.rows = Items])
    /\ UNCHANGED <<ledger, cap, crashes>>

\* A process dies, wherever it is.
Crash(p) ==
    /\ op[p].step # "down" /\ crashes < MaxCrashes
    /\ crashes' = crashes + 1
    /\ Goto(p, At("down"))
    /\ cap' = [cap EXCEPT ![p] = None]
    /\ UNCHANGED ledger

-----------------------------------------------------------------------------
Init ==
    /\ plan = [eos |-> FALSE, sealed |-> FALSE, size |-> 0, export |-> FALSE,
               closed |-> FALSE]
    /\ declared = 0
    /\ member = [n \in Windows |-> None]
    /\ work = [i \in Items |-> [pub |-> "ABSENT", evidence |-> None, pending |-> None]]
    /\ exec = [i \in Items |-> [NewExec EXCEPT !.state = "ABSENT"]]
    /\ outbox = {}
    /\ owner = None
    /\ op = [p \in Procs |-> At("down")]
    /\ cap = [p \in Procs |-> None]
    /\ crashes = 0

Planning(p) ==
    \/ Open(p) \/ Admit(p) \/ AppendRaises(p) \/ Replay(p)
    \/ \E k \in 1..MaxBatch : Append(p, k)
    \/ SetPlannerEos(p) \/ SealRead(p) \/ SealStore(p) \/ MarkExportBarrier(p)
    \/ GateRead(p) \/ GateStore(p) \/ PublishFinalization(p)

Executing(p) ==
    \/ \E i \in Items, b \in BOOLEAN : Claim(p, i, b) \/ ResumeOwnedActive(p, i, b)
    \/ Start(p) \/ Heartbeat(p) \/ FailRetryable(p) \/ Abandon(p)
    \/ \E ev \in Payloads : StorePendingTerminal(p, ev)
    \/ CompleteSucceed(p) \/ CompleteRaises(p) \/ CompleteAccept(p)
    \/ \E n \in Windows, ev \in Payloads : CommitWindowReduction(p, n, ev)

Recovering(p) ==
    \/ RecoverRead(p) \/ RecoverRows(p)
    \/ \E i \in Items : RecoverAccept(p, i) \/ RecoverRaises(p, i)
    \/ ReadRows(p) \/ Project(p) \/ Publish(p)

Next ==
    \/ \E p \in Procs : Planning(p) \/ Executing(p) \/ Recovering(p) \/ Crash(p)
    \/ \E i \in Items : LeaseLapses(i) \/ RetryWakes(i)

Spec == Init /\ [][Next]_vars

\* Fairness: every process that is down is started again (Open recovers), a
\* live one runs the operation it is in to its end, and it calls recover time
\* and again between other operations, as drain_ready and execute do.
\* Workers owe nothing else: they may stall, and leases lapse.
Progress(p) ==
    \/ Open(p) \/ RecoverRows(p) \/ ReadRows(p) \/ Project(p) \/ Publish(p)
    \/ \E i \in Items : RecoverAccept(p, i) \/ RecoverRaises(p, i)
    \/ AppendRaises(p) \/ (\E k \in 1..MaxBatch : Append(p, k))
    \/ SealStore(p) \/ GateStore(p)
    \/ CompleteSucceed(p) \/ CompleteRaises(p) \/ CompleteAccept(p) \/ Abandon(p)

FairSpec == Spec /\ \A p \in Procs : WF_vars(Progress(p)) /\ SF_vars(RecoverRead(p))

-----------------------------------------------------------------------------
(* Properties.                                                             *)

\* Type invariant.
TypeOK ==
    /\ plan \in Plan /\ declared \in 0..NumWindows
    /\ member \in [Windows -> Payloads \cup {None}]
    /\ work \in [Items -> Work] /\ exec \in [Items -> Exec]
    /\ outbox \subseteq Ordinals /\ owner \in Procs \cup {None}
    /\ op \in [Procs -> Op] /\ cap \in [Procs -> Lease \cup {None}]
    /\ crashes \in 0..MaxCrashes

\* The two ledgers never disagree about a terminal fact, whoever crashed
\* between the transactions of complete: accepted evidence is the result the
\* execution ended with; a success that is not accepted yet still has the
\* intent that binds to it, so recover can finish the job; evidence and
\* intent never coexist (the startup audit of _verify_storage refuses that).
LedgersAgree ==
    \A i \in Items :
        /\ work[i].evidence # None =>
              /\ exec[i].state = "SUCCEEDED" /\ exec[i].result = work[i].evidence
              /\ work[i].pending = None
        /\ exec[i].state = "SUCCEEDED" /\ work[i].evidence = None =>
              work[i].pending # None /\ work[i].pending.ev = exec[i].result

\* A window's member is the accepted evidence of its reduction, and a result
\* in the outbox is a member (_verify_existing_window_member,
\* _verify_terminal_replay).
MembersAreEvidence ==
    /\ \A n \in Windows : member[n] = work[Reduction(n)].evidence
    /\ \A n \in outbox : n < declared => member[n] # None

\* Finalization comes last: its work is planned, or its message stored, only
\* for a sealed plan whose seal counts every declared window, each with its
\* terminal member, and after the export barrier -- although the gate reads
\* all of this in transactions of their own, before it opens.
FinalizationIsLast ==
    /\ plan.sealed => plan.eos /\ plan.size = declared
    /\ work[Final].pub \in {"PENDING", "PUBLISHED"} \/ exec[Final].state # "ABSENT"
         \/ (plan.sealed /\ declared \in outbox) =>
            /\ plan.sealed /\ plan.closed /\ plan.export
            /\ \A n \in 0..(declared - 1) : member[n] # None

\* Work is visible to workers only after its execution exists, and execution
\* exists only for declared work (PENDING until projected, then PUBLISHED).
PublicationOrder ==
    \A i \in Items :
        /\ work[i].pub = "PUBLISHED" => exec[i].state # "ABSENT"
        /\ exec[i].state # "ABSENT" => work[i].pub \in {"PENDING", "PUBLISHED"}
        /\ i # Final => (work[i].pub # "ABSENT" <=> i[1] < declared)

\* An item is handed out only when the accepted evidence of every upstream
\* item is there to build its result from.
CausalInputs ==
    \A i \in Items : exec[i].epoch > 0 =>
        \A u \in Upstream(i) : work[u].evidence # None

\* Facts are final: evidence, members, messages, EOS, seal and closure never
\* change once stored, and EOS freezes the set of windows.
FactsAreFinal ==
    [][/\ \A i \in Items : work[i].evidence # None => work'[i].evidence = work[i].evidence
       /\ \A n \in Windows : member[n] # None => member'[n] = member[n]
       /\ outbox \subseteq outbox'
       /\ plan.sealed => plan'.sealed /\ plan'.size = plan.size
       /\ plan.eos => plan'.eos /\ declared' = declared
       /\ plan.closed => plan'.closed]_vars

\* A committed success is eventually an accepted fact: whatever step complete
\* died in, recovery promotes the intent without a second execution.
SuccessIsAccepted ==
    \A i \in Items : exec[i].state = "SUCCEEDED" ~> work[i].evidence # None

\* Declared work is eventually published, although the process that declared
\* it may die before it projects or publishes it.
DeclaredIsPublished ==
    \A i \in Items : work[i].pub = "PENDING" ~> work[i].pub = "PUBLISHED"

\* How an execution row looks to the work contract.
PhaseOf(state) ==
    CASE state = "ABSENT" -> "none"
      [] state = "PLANNED" -> "waiting"
      [] state \in {"READY", "RETRY_WAIT"} -> "offered"
      [] state \in ActiveStates -> "out"
      [] state = "SUCCEEDED" -> "won"
      [] OTHER -> "lost"

JobOf(i) ==
    LET up == IF exec[i].state = "ABSENT" THEN {} ELSE Upstream(i) IN
    [phase |-> PhaseOf(exec[i].state), up |-> up,
     req |-> IF i = Final THEN up ELSE {}, tries |-> exec[i].epoch,
     max |-> MaxAttempts]

Contract == INSTANCE WorkContract WITH job <- [i \in Items |-> JobOf(i)]

\* The executions of a recording stay within the work contract -- handed out
\* one at a time, never before their upstreams, never too often, never left
\* waiting for nothing -- although commit_window_reduction ends them with
\* SQL of its own that bypasses the scheduler's readiness refresh.
UsesContract == Contract!Spec

\* An execution never fails for good without terminal evidence in the stream
\* ledger.  fail_retryable: "pre-terminal execution cannot exhaust attempts
\* without typed stream evidence".
ExhaustionHasEvidence ==
    \A i \in Items : exec[i].state = "FAILED_PERMANENT" => work[i].evidence # None
=============================================================================
