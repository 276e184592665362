--------------------------- MODULE InferenceCalls ---------------------------
(***************************************************************************)
(* One inference call of a canonical run, split into parts.  The runner    *)
(* (application/canonical/runner.py) declares a barrier over the parts and *)
(* executes them as asyncio tasks; each task makes attempts through the    *)
(* orchestrator (inference/orchestrator.py), which records intent, raw     *)
(* bytes, terminal and selection in the evidence ledger and sends requests *)
(* to the provider in microbatches.  The completed parts are submitted to  *)
(* the barrier and reduced once (inference/call_barrier.py).               *)
(*                                                                         *)
(* Every identity is derived from content: two processes, or one process   *)
(* and its restarted self, speak of the same attempts.  (part, attempt)    *)
(* stands for inference id, request id and idempotency key; one barrier    *)
(* and one selection policy are modelled.                                  *)
(***************************************************************************)
EXTENDS Integers, FiniteSets

CONSTANTS
    Procs,        \* processes that execute the run
    Parts,        \* parts of the call plan
    Bytes,        \* raw provider responses
    Inputs,       \* which processes and parts, and what the bytes are worth
    MaxAttempts,  \* CanonicalExecutionPolicy.max_attempts
    MaxBatch,     \* max_batch_size of the microbatch dispatcher
    MaxFaults,    \* bound on crashes, interrupts, timeouts and refusals
    None

VARIABLES
    input,        \* one of Inputs
    evidence,     \* the ledger: intent, raw, terminal, selection, lineage
    barrier,      \* barrier tables: declared, completion, member, reduction
    proc,         \* what each process does
    task,         \* the task of each part in each process
    bucket,       \* the queue of the microbatch dispatcher and its timer
    faults

vars == <<input, evidence, barrier, proc, task, bucket, faults>>

Attempts == 1..MaxAttempts
Statuses == {"SUCCEEDED", "RETRYABLE", "PERMANENT", "CANCELLED"}

\* ModelInference: how an attempt ended, and the raw bytes it refers to.
Outcomes == [status: Statuses, raw: Bytes \cup {None}]

\* valid: bytes the strict parser accepts; enriches: those of them whose
\* claims become accepted lineage; abstains: those that abstain; replays: the
\* endpoint answers a repeated idempotency key with the bytes it gave before.
Input == [procs: SUBSET Procs, parts: SUBSET Parts, valid: SUBSET Bytes,
          enriches: SUBSET Bytes, abstains: SUBSET Bytes, replays: BOOLEAN]

Evidence == [intent: [Parts -> SUBSET Attempts],
             raw: [Parts -> [Attempts -> Bytes \cup {None}]],
             terminal: [Parts -> [Attempts -> Outcomes \cup {None}]],
             selection: [Parts -> Attempts \cup {None}],
             lineage: SUBSET Parts]

Completion == [att: Attempts, status: Statuses]

\* StageStatus of a barrier member is a function of the terminal's status.
Barrier == [declared: {"NONE", "GENERIC", "DEFINED"},
            completion: [Parts -> Completion \cup {None}],
            member: [Parts -> Statuses \cup {None}],
            reduction: [Parts -> Attempts] \cup {None}]

\* None stands for an absent row or value, and is none of the values.
ASSUME InferenceAssumption ==
    /\ Inputs \subseteq Input /\ IsFiniteSet(Procs)
    /\ MaxAttempts \in Nat \ {0} /\ MaxBatch \in Nat \ {0}
    /\ MaxFaults \in Nat
    /\ None \notin Bytes /\ None \notin Outcomes /\ None \notin Attempts
    /\ None \notin Completion /\ None \notin Statuses
    /\ None \notin [Parts -> Attempts]

Phases == {"create", "define", "bind", "up", "reduce", "stopping", "over"}
Steps == {"look", "intent", "append", "gate", "queued", "expired", "flying", "persist",
          "lineage", "complete", "member", "end", "raised", "gone"}

\* out: the outcome in hand; grp: the batch, once it has left the bucket;
\* late: cancelled after the provider was called.
Task == [step: Steps, att: Attempts, out: Outcomes \cup {None},
         grp: SUBSET Parts, late: BOOLEAN]

Fresh == [step |-> "look", att |-> 1, out |-> None, grp |-> {}, late |-> FALSE]

NoFault == UNCHANGED <<input, faults>>
Fault == faults < MaxFaults /\ faults' = faults + 1 /\ UNCHANGED input

Fail(status) == [status |-> status, raw |-> None]

-----------------------------------------------------------------------------
(* The evidence ledger.                                                    *)

Terminal(k, a) == evidence.terminal[k][a]
Raw(k, a) == evidence.raw[k][a]

\* Mutant: raw bytes that were stored for the request are not looked at.
RetainsAny(k, a, o) == TRUE

\* _validate_terminal: "terminal must retain already-persisted raw provider
\* bytes".
Retains(k, a, o) == Raw(k, a) \in {None, o.raw}

\* Mutant: a terminal replaces the one another process stored.
StorableOver(k, a, o) == Retains(k, a, o)

\* _append_cached_terminal, for an attempt that has no terminal yet.
Storable(k, a, o) == Terminal(k, a) = None /\ Retains(k, a, o)

\* append_terminal, or append_terminal_and_selection for a success: the first
\* success is selected, in the same transaction.
WithTerminal(k, a, o) ==
    [evidence EXCEPT !.terminal[k][a] = o,
                     !.selection[k] = IF @ = None /\ o.status = "SUCCEEDED"
                                      THEN a ELSE @]

\* append (raw bytes): one response for one request, in keeping with a
\* terminal that is already there.
RawAccepted(k, a, b) ==
    /\ Raw(k, a) \in {None, b}
    /\ Terminal(k, a) # None => Terminal(k, a).raw = b

-----------------------------------------------------------------------------
(* Tasks.                                                                  *)

At(p, k, step) == p \in input.procs /\ k \in input.parts
                    /\ proc[p] \in {"up", "stopping"} /\ task[p][k].step = step

\* Between two awaits a task does not yield to the event loop.  The first
\* attempt awaits the capabilities before it looks, later ones before intent.
Busy(t) == \/ t.step \in {"append", "lineage", "complete", "member"}
           \/ t.step = "intent" /\ t.att = 1
           \/ t.step = "persist" /\ t.grp = {}

Yields(p, ks) == \A j \in input.parts \ ks : ~Busy(task[p][j])

\* A task goes on by itself unless its cancellation is due.
Runs(p, k) == /\ proc[p] = "up" \/ task[p][k].late \/ Busy(task[p][k])
              /\ Yields(p, {k})

Set(p, k, t) == task' = [task EXCEPT ![p][k] = t]
Goto(p, k, step) == Set(p, k, [task[p][k] EXCEPT !.step = step])

\* Mutant: one attempt less.
LastAttemptEarly(a) == a >= MaxAttempts - 1

LastAttempt(a) == a = MaxAttempts

\* What _orchestrate_call_part does with terminal o of an attempt of part k,
\* where the ledger is e: after a success it goes on with the selected attempt,
\* this one or another.  A task that was cancelled during a shared provider
\* call ends.
After(t, k, o, e) ==
    LET a == e.selection[k] IN
    IF t.late THEN [t EXCEPT !.step = "gone"]
    ELSE IF o.status = "SUCCEEDED"
    THEN [t EXCEPT !.step = "lineage", !.att = a, !.out = e.terminal[k][a]]
    ELSE IF o.status = "PERMANENT" \/ LastAttempt(t.att)
    THEN [t EXCEPT !.step = "complete", !.out = o]
    ELSE [t EXCEPT !.step = "intent", !.att = @ + 1, !.out = None, !.grp = {}]

\* The first attempt looks for a selected output of an earlier delivery.
Look(p, k) ==
    LET a == evidence.selection[k] IN
    /\ At(p, k, "look") /\ Runs(p, k)
    /\ IF a # None
       THEN Set(p, k, After([Fresh EXCEPT !.att = a], k, Terminal(k, a), evidence))
       ELSE Goto(p, k, "intent")
    /\ NoFault /\ UNCHANGED <<evidence, barrier, proc, bucket>>

\* Mutant: the terminal of an earlier delivery is not looked for.
NoExistingTerminal(k, a) == None

ExistingTerminal(k, a) == Terminal(k, a)

\* append_intent of a new row or of the same one, and what comes before the
\* gate: an attempt that has its terminal already is not repeated, and a success
\* without a selection is selected now.  (These calls are one step: a terminal
\* another process stores between them could as well have been there before,
\* since its intent was, and it comes with its selection.)
Resume(p, k) ==
    LET t == task[p][k]
        o == ExistingTerminal(k, t.att)
        recorded == [evidence EXCEPT !.intent[k] = @ \cup {t.att}]
    IN  /\ evidence' = IF o # None /\ o.status = "SUCCEEDED"
                       THEN [recorded EXCEPT !.selection[k] =
                                IF @ = None THEN t.att ELSE @]
                       ELSE recorded
        /\ Set(p, k, IF o = None THEN [t EXCEPT !.step = "gate"]
                     ELSE After(t, k, o, evidence'))

\* get_intent: the times of a row that exists are taken over.
Intent(p, k) ==
    /\ At(p, k, "intent") /\ Runs(p, k)
    /\ IF task[p][k].att \in evidence.intent[k]
       THEN Resume(p, k)
       ELSE Goto(p, k, "append") /\ UNCHANGED evidence
    /\ NoFault /\ UNCHANGED <<barrier, proc, bucket>>

\* append_intent, with times of its own: a row that another process has
\* appended meanwhile is a conflict, unless the times are the same.
AppendIntent(p, k) ==
    /\ At(p, k, "append") /\ Runs(p, k)
    /\ \/ Resume(p, k)
       \/ /\ task[p][k].att \in evidence.intent[k]
          /\ Goto(p, k, "raised") /\ UNCHANGED evidence
    /\ NoFault /\ UNCHANGED <<barrier, proc, bucket>>

\* The execution gate times out or refuses.
GateFails(p, k) ==
    /\ At(p, k, "gate") /\ Runs(p, k)
    /\ Fault
    /\ Set(p, k, [task[p][k] EXCEPT !.step = "persist", !.out = Fail("RETRYABLE")])
    /\ UNCHANGED <<evidence, barrier, proc, bucket>>

-----------------------------------------------------------------------------
(* _BoundedMicrobatchDispatcher.                                           *)

\* Parts of p whose bucket has just become a batch.
Launch(p, q) == [j \in Parts |-> IF j \in q
                                 THEN [task[p][j] EXCEPT !.step = "queued", !.grp = q]
                                 ELSE task[p][j]]

\* dispatch: a full bucket is flushed at once, the first member of a bucket
\* starts the timer.
Enqueue(p, k) ==
    LET q == bucket[p].queue \cup {k} IN
    /\ At(p, k, "gate") /\ Runs(p, k)
    /\ IF Cardinality(q) = MaxBatch
       THEN /\ task' = [task EXCEPT ![p] = Launch(p, q)]
            /\ bucket' = [bucket EXCEPT ![p] = [queue |-> {}, timer |-> FALSE]]
       ELSE /\ Goto(p, k, "queued")
            /\ bucket' = [bucket EXCEPT ![p] = [queue |-> q, timer |-> TRUE]]
    /\ NoFault /\ UNCHANGED <<evidence, barrier, proc>>

\* _flush_after_delay.
TimerFires(p) ==
    /\ bucket[p].timer /\ Yields(p, {})
    /\ task' = [task EXCEPT ![p] = Launch(p, bucket[p].queue)]
    /\ bucket' = [bucket EXCEPT ![p] = [queue |-> {}, timer |-> FALSE]]
    /\ NoFault /\ UNCHANGED <<evidence, barrier, proc>>

\* Members of batch g that are in a given step.
Members(p, g, step) == {k \in g : At(p, k, step) /\ task[p][k].grp = g}
Aboard(p, g) == Members(p, g, "flying")
Answered(p, g) == {k \in Aboard(p, g) : task[p][k].out # None}
Batches(p) == {task[p][k].grp : k \in input.parts} \ {{}}

\* Give every task of a set the next step, and an outcome where it has none.
Resolve(p, ks, step, o) ==
    task' = [task EXCEPT ![p] = [k \in Parts |->
        IF k \in ks THEN [task[p][k] EXCEPT !.step = step, !.out = o[k]]
                    ELSE task[p][k]]]

\* _flush: the members that have not left are sent together.
TakeOff(p, g) ==
    /\ Members(p, g, "queued") # {} /\ Yields(p, {})
    /\ Resolve(p, Members(p, g, "queued"), "flying", [k \in Parts |-> None])
    /\ NoFault /\ UNCHANGED <<evidence, barrier, proc, bucket>>

\* The batch is past its deadline when its turn comes.
BatchExpires(p, g) ==
    /\ Members(p, g, "queued") # {} /\ Yields(p, {})
    /\ Fault
    /\ Resolve(p, Members(p, g, "queued"), "expired",
               [k \in Parts |-> Fail("RETRYABLE")])
    /\ UNCHANGED <<evidence, barrier, proc, bucket>>

\* The deadline passes, or the adapter raises, while answers are missing: every
\* member fails retryably, those with an answer too.
BatchTimesOut(p, g) ==
    /\ Answered(p, g) # Aboard(p, g) /\ Yields(p, {})
    /\ Fault
    /\ Resolve(p, Aboard(p, g), "persist", [k \in Parts |-> Fail("RETRYABLE")])
    /\ UNCHANGED <<evidence, barrier, proc, bucket>>

Answers(k, a) == IF input.replays /\ Raw(k, a) # None THEN {Raw(k, a)} ELSE Bytes

\* The adapter stores the raw bytes of a member before it parses them, while
\* others of the batch may still be out.
Answer(p, k) ==
    LET t == task[p][k] IN
    /\ At(p, k, "flying") /\ t.out = None /\ Yields(p, {})
    /\ \E b \in Answers(k, t.att) :
          IF RawAccepted(k, t.att, b)
          THEN /\ evidence' = [evidence EXCEPT !.raw[k][t.att] = b]
               /\ Set(p, k, [t EXCEPT !.out =
                     [status |-> IF b \in input.valid THEN "SUCCEEDED"
                                                      ELSE "PERMANENT",
                      raw |-> b]])
          ELSE /\ Set(p, k, [t EXCEPT !.out = Fail("PERMANENT")])
               /\ UNCHANGED evidence
    /\ NoFault /\ UNCHANGED <<barrier, proc, bucket>>

\* The provider refuses, for the moment or for good.
Refusal(p, k) ==
    /\ At(p, k, "flying") /\ task[p][k].out = None /\ Yields(p, {})
    /\ Fault
    /\ \E s \in {"RETRYABLE", "PERMANENT"} :
          Set(p, k, [task[p][k] EXCEPT !.out = Fail(s)])
    /\ UNCHANGED <<evidence, barrier, proc, bucket>>

\* Every member has its answer: the futures are set.
Settle(p, g) ==
    /\ Aboard(p, g) # {} /\ Answered(p, g) = Aboard(p, g) /\ Yields(p, {})
    /\ Resolve(p, Aboard(p, g), "persist", [k \in Parts |-> task[p][k].out])
    /\ NoFault /\ UNCHANGED <<evidence, barrier, proc, bucket>>

-----------------------------------------------------------------------------
(* Outcomes become evidence.                                               *)

\* The outcome of the gate or of the dispatcher is at hand.
Ready(p, k) == (At(p, k, "persist") \/ At(p, k, "expired")) /\ Runs(p, k)

Persist(p, k) ==
    LET t == task[p][k] IN
    /\ Ready(p, k)
    /\ Storable(k, t.att, t.out)
    /\ evidence' = WithTerminal(k, t.att, t.out)
    /\ Set(p, k, After(t, k, t.out, evidence'))
    /\ NoFault /\ UNCHANGED <<barrier, proc, bucket>>

\* The attempt has a terminal of another process, or raw bytes the outcome
\* does not refer to: InferenceLedgerError ends the task.  The same terminal is
\* replayed, if its measured latency is the same too.
PersistAgain(p, k) ==
    LET t == task[p][k] IN
    /\ Ready(p, k)
    /\ ~Storable(k, t.att, t.out)
    /\ \/ Goto(p, k, "raised")
       \/ /\ Terminal(k, t.att) = t.out
          /\ Set(p, k, After(t, k, t.out, evidence))
    /\ NoFault /\ UNCHANGED <<evidence, barrier, proc, bucket>>

\* _build_selected_part_lineage: parsed claims, selected output and enriched
\* output in one transaction; a rejection leaves the part invalid.
Lineage(p, k) ==
    /\ At(p, k, "lineage") /\ Runs(p, k)
    /\ evidence' = IF task[p][k].out.raw \in input.enriches
                   THEN [evidence EXCEPT !.lineage = @ \cup {k}] ELSE evidence
    /\ Goto(p, k, "complete")
    /\ NoFault /\ UNCHANGED <<barrier, proc, bucket>>

\* append_completion, the first transaction of submit_part_terminal: a
\* replay, or a conflict with a different final completion.
Complete(p, k) ==
    LET t == task[p][k]
        c == [att |-> t.att, status |-> t.out.status]
    IN  /\ At(p, k, "complete") /\ Runs(p, k)
        /\ IF barrier.completion[k] \in {None, c}
           THEN /\ barrier' = [barrier EXCEPT !.completion[k] = c]
                /\ Goto(p, k, "member")
           ELSE /\ Goto(p, k, "raised")
                /\ UNCHANGED barrier
        /\ NoFault /\ UNCHANGED <<evidence, proc, bucket>>

\* submit_member, the second one.
SubmitMember(p, k) ==
    LET s == task[p][k].out.status IN
    /\ At(p, k, "member") /\ Runs(p, k)
    /\ IF barrier.completion[k].status = s /\ barrier.member[k] \in {None, s}
       THEN /\ barrier' = [barrier EXCEPT !.member[k] = s]
            /\ Goto(p, k, "end")
       ELSE /\ Goto(p, k, "raised")
            /\ UNCHANGED barrier
    /\ NoFault /\ UNCHANGED <<evidence, proc, bucket>>

-----------------------------------------------------------------------------
(* Cancellation.                                                           *)

\* Where a task can be cancelled: it waits for the provider's capabilities,
\* for the gate, in the bucket, or for the provider.
CancelEarly(p, k) ==
    /\ At(p, k, "look") \/ (At(p, k, "intent") /\ task[p][k].att > 1)
    /\ Goto(p, k, "gone")
    /\ UNCHANGED <<evidence, bucket>>

\* A CANCELLED terminal is stored, if the ledger takes it.  A member of the
\* bucket leaves it, and stops the timer when it was the last.
CancelWaiting(p, k) ==
    LET t == task[p][k]
        q == bucket[p].queue \ {k}
    IN  /\ At(p, k, "gate") \/ At(p, k, "queued") \/ At(p, k, "expired")
        /\ evidence' = IF Storable(k, t.att, Fail("CANCELLED"))
                       THEN WithTerminal(k, t.att, Fail("CANCELLED"))
                       ELSE evidence
        /\ bucket' = [bucket EXCEPT ![p] =
                        [queue |-> q, timer |-> @.timer /\ q # {}]]
        /\ Goto(p, k, "gone")

\* Once a shared provider call has started, cancellation is deferred.
CancelFlying(p, k) ==
    /\ At(p, k, "flying") \/ At(p, k, "persist")
    /\ ~task[p][k].late
    /\ Set(p, k, [task[p][k] EXCEPT !.late = TRUE])
    /\ UNCHANGED <<evidence, bucket>>

Cancel(p, k) ==
    /\ proc[p] = "stopping"
    /\ Yields(p, {})
    /\ CancelEarly(p, k) \/ CancelWaiting(p, k) \/ CancelFlying(p, k)
    /\ NoFault /\ UNCHANGED <<barrier, proc>>

-----------------------------------------------------------------------------
(* Processes.                                                              *)

Enter(p, phase) == proc' = [proc EXCEPT ![p] = phase]
AllFresh == [k \in Parts |-> Fresh]
EmptyBucket == [queue |-> {}, timer |-> FALSE]

\* declare: create_barrier, then append_definition; both are replayed.
CreateBarrier(p) ==
    /\ p \in input.procs /\ proc[p] = "create"
    /\ barrier' = [barrier EXCEPT !.declared =
                     IF @ = "NONE" THEN "GENERIC" ELSE @]
    /\ Enter(p, "define")
    /\ NoFault /\ UNCHANGED <<evidence, task, bucket>>

\* Mutant: a definition that exists is compared with its time of creation.
DefineOnce(p) ==
    /\ p \in input.procs /\ proc[p] = "define"
    /\ Enter(p, IF barrier.declared = "DEFINED" THEN "over" ELSE "bind")
    /\ NoFault /\ UNCHANGED <<evidence, barrier, task, bucket>>

\* get_definition: one that exists is returned, whenever it was created.
Define(p) ==
    /\ p \in input.procs /\ proc[p] = "define"
    /\ Enter(p, IF barrier.declared = "DEFINED" THEN "up" ELSE "bind")
    /\ NoFault /\ UNCHANGED <<evidence, barrier, task, bucket>>

\* append_definition: one that another process has appended meanwhile is a
\* conflict, unless created_at is the same.
AppendDefinition(p) ==
    /\ p \in input.procs /\ proc[p] = "bind"
    /\ \/ /\ barrier' = [barrier EXCEPT !.declared = "DEFINED"]
          /\ Enter(p, "up")
       \/ /\ barrier.declared = "DEFINED"
          /\ Enter(p, "over") /\ UNCHANGED barrier
    /\ NoFault /\ UNCHANGED <<evidence, task, bucket>>

\* _execute_call_plan_parts: an exception of one task cancels the others.
Abort(p) ==
    /\ proc[p] = "up" /\ Yields(p, {})
    /\ \E k \in input.parts : At(p, k, "raised")
    /\ Enter(p, "stopping")
    /\ NoFault /\ UNCHANGED <<evidence, barrier, task, bucket>>

\* The operator interrupts the run.
Interrupt(p) ==
    /\ p \in input.procs /\ proc[p] = "up" /\ Yields(p, {})
    /\ Fault
    /\ Enter(p, "stopping")
    /\ UNCHANGED <<evidence, barrier, task, bucket>>

Quiet(p) == \A k \in input.parts : task[p][k].step \in {"end", "raised", "gone"}

Leave(p) ==
    /\ Enter(p, "over")
    /\ task' = [task EXCEPT ![p] = AllFresh]
    /\ bucket' = [bucket EXCEPT ![p] = EmptyBucket]

\* gather has waited for every task; the exception is raised.
Stopped(p) ==
    /\ proc[p] = "stopping" /\ Quiet(p)
    /\ Leave(p)
    /\ NoFault /\ UNCHANGED <<evidence, barrier>>

\* _derive_state: the barrier is CLOSED when every member has succeeded.
Closed == \A k \in input.parts : barrier.member[k] = "SUCCEEDED"

\* The parts claim, all of them, or abstain, all of them.
Unanimous == \A j, k \in input.parts :
                Raw(j, evidence.selection[j]) \in input.abstains <=>
                Raw(k, evidence.selection[k]) \in input.abstains

\* Every part has ended: the run reduces the call, or ends INCOMPLETE or
\* INVALID_OUTPUT.  reduce returns a reduction that exists.
Reduce(p) ==
    /\ proc[p] = "up" /\ \A k \in input.parts : At(p, k, "end")
    /\ IF Closed /\ input.parts \subseteq evidence.lineage
             /\ Unanimous /\ barrier.reduction = None
       THEN Enter(p, "reduce") /\ UNCHANGED <<task, bucket>>
       ELSE Leave(p)
    /\ NoFault /\ UNCHANGED <<evidence, barrier>>

\* append_reduction.  Next to one that another process has appended meanwhile
\* it raises, or replays it where reduced_at is the same: the run ends.
AppendReduction(p) ==
    /\ proc[p] = "reduce"
    /\ barrier' = [barrier EXCEPT !.reduction =
                     IF @ # None THEN @
                     ELSE [k \in Parts |-> IF k \in input.parts
                                           THEN barrier.completion[k].att ELSE 1]]
    /\ Leave(p)
    /\ NoFault /\ UNCHANGED evidence

\* The run is executed again.
Rerun(p) ==
    /\ p \in input.procs /\ proc[p] = "over"
    /\ Enter(p, "create")
    /\ NoFault /\ UNCHANGED <<evidence, barrier, task, bucket>>

Crash(p) ==
    /\ p \in input.procs /\ proc[p] # "over"
    /\ Fault
    /\ Leave(p)
    /\ UNCHANGED <<evidence, barrier>>

-----------------------------------------------------------------------------
Init ==
    /\ input \in Inputs
    /\ evidence = [intent |-> [k \in Parts |-> {}],
                   raw |-> [k \in Parts |-> [a \in Attempts |-> None]],
                   terminal |-> [k \in Parts |-> [a \in Attempts |-> None]],
                   selection |-> [k \in Parts |-> None],
                   lineage |-> {}]
    /\ barrier = [declared |-> "NONE", completion |-> [k \in Parts |-> None],
                  member |-> [k \in Parts |-> None], reduction |-> None]
    /\ proc = [p \in Procs |-> "over"]
    /\ task = [p \in Procs |-> AllFresh]
    /\ bucket = [p \in Procs |-> EmptyBucket]
    /\ faults = 0

StepOf(p) ==
    \/ Rerun(p) \/ CreateBarrier(p) \/ Define(p) \/ AppendDefinition(p)
    \/ Abort(p) \/ Interrupt(p) \/ Stopped(p)
    \/ Reduce(p) \/ AppendReduction(p) \/ Crash(p) \/ TimerFires(p)
    \/ \E g \in Batches(p) : \/ TakeOff(p, g) \/ BatchExpires(p, g)
                            \/ BatchTimesOut(p, g) \/ Settle(p, g)
    \/ \E k \in Parts :
          \/ Look(p, k) \/ Intent(p, k) \/ AppendIntent(p, k)
          \/ GateFails(p, k) \/ Enqueue(p, k)
          \/ Answer(p, k) \/ Refusal(p, k) \/ Persist(p, k)
          \/ PersistAgain(p, k) \/ Lineage(p, k) \/ Complete(p, k)
          \/ SubmitMember(p, k) \/ Cancel(p, k)

Next == \E p \in Procs : StepOf(p)

Spec == Init /\ [][Next]_vars

\* A process keeps going, and a run that ended is executed again.  Some step
\* of a process is always enabled, so this is WF of its steps without faults.
Moves(p) == (proc'[p] # proc[p] \/ task'[p] # task[p]) /\ faults' = faults

FairSpec ==
    Spec /\ \A p \in Procs : []<>(p \notin input.procs) \/ []<><<Moves(p)>>_vars

-----------------------------------------------------------------------------
(* Properties.                                                             *)

\* Type invariant.
TypeOK ==
    /\ input \in Inputs
    /\ evidence.intent \in [Parts -> SUBSET Attempts]
    /\ \A k \in Parts, a \in Attempts :
          /\ Raw(k, a) \in Bytes \cup {None}
          /\ Terminal(k, a) \in Outcomes \cup {None}
    /\ evidence.selection \in [Parts -> Attempts \cup {None}]
    /\ evidence.lineage \subseteq Parts
    /\ barrier \in Barrier
    /\ proc \in [Procs -> Phases]
    /\ \A p \in Procs, k \in Parts : task[p][k] \in Task
    /\ bucket \in [Procs -> [queue: SUBSET Parts, timer: BOOLEAN]]
    /\ faults \in 0..MaxFaults

\* The evidence of an attempt is a chain (append_intent, append,
\* append_terminal): a terminal has its intent and refers to the raw bytes
\* stored for its request, a success rests on bytes the parser accepts, and a
\* further attempt is made only after one that failed retryably - whatever
\* was interrupted, timed out or raced in between.
EvidenceChain ==
    \A k \in Parts, a \in Attempts :
       /\ Terminal(k, a) # None =>
             /\ a \in evidence.intent[k]
             /\ Raw(k, a) \in {None, Terminal(k, a).raw}
             /\ Terminal(k, a).status = "SUCCEEDED" =>
                   Raw(k, a) \in input.valid
       /\ a + 1 \in evidence.intent[k] =>
             /\ Terminal(k, a) # None
             /\ Terminal(k, a).status \in {"RETRYABLE", "CANCELLED"}

\* Evidence ledger and barrier tables tell one story of a part: the completion
\* is the selected success, or the last failure of a part without a selection
\* (submit_part_terminal, failure_is_final), after all of its attempts unless
\* the failure is permanent; a member repeats its completion;
\* and what was reduced are selected outputs with accepted lineage, no
\* abstention among claims.
OneOutcome ==
    /\ \A k \in Parts :
          LET s == evidence.selection[k]
              c == barrier.completion[k]
          IN  /\ s # None => Terminal(k, s).status = "SUCCEEDED"
              /\ c # None =>
                    /\ Terminal(k, c.att) # None
                    /\ Terminal(k, c.att).status = c.status
                    /\ s = (IF c.status = "SUCCEEDED" THEN c.att ELSE None)
                    /\ c.status \in {"RETRYABLE", "CANCELLED"} => c.att = MaxAttempts
              /\ barrier.member[k] # None =>
                    c # None /\ barrier.member[k] = c.status
    /\ barrier.reduction # None =>
          \A k \in input.parts :
             /\ evidence.selection[k] = barrier.reduction[k]
             /\ k \in evidence.lineage
             /\ \A j \in input.parts : Raw(k, barrier.reduction[k]) \in input.abstains
                                     => Raw(j, barrier.reduction[j]) \in input.abstains

Keeps(old, new) == old # None => new = old

\* No process, late answer or repeated run changes a fact that was stored:
\* the tables are append-only and every write replays or conflicts.
FactsAreFinal ==
    [][/\ \A k \in Parts :
             /\ \A a \in Attempts : /\ Keeps(Raw(k, a), Raw(k, a)')
                                    /\ Keeps(Terminal(k, a), Terminal(k, a)')
             /\ Keeps(evidence.selection[k], evidence.selection'[k])
             /\ Keeps(barrier.completion[k], barrier.completion'[k])
             /\ Keeps(barrier.member[k], barrier.member'[k])
       /\ Keeps(barrier.reduction, barrier.reduction')
      ]_<<evidence, barrier>>

\* A run that is repeated after a crash or an interrupt does not send a
\* request to the provider again when its attempt has ended or the call has a
\* selected output ("Existing accepted raw evidence prevents a new logical
\* call", BLUEPRINT.md).  Two processes may both ask: so only for one.
SettledNotRepeated ==
    [][Cardinality(input.procs) = 1 =>
         \A p \in input.procs, k \in input.parts :
            task[p][k].step # "flying" /\ task'[p][k].step = "flying" =>
               Terminal(k, task[p][k].att) = None /\ evidence.selection[k] = None
      ]_vars

\* The call has a reduction, a final failure, a selected output whose lineage
\* was rejected, or parts that disagree: a repeated run ends the same way.
Settled ==
    \/ barrier.reduction # None
    \/ \E k \in input.parts :
          barrier.completion[k] # None
            /\ (barrier.completion[k].status # "SUCCEEDED" \/ k \notin evidence.lineage)
    \/ Closed /\ ~Unanimous

\* Where the endpoint answers a repeated idempotency key with the same bytes,
\* a call settles after finitely many crashes, interrupts, timeouts and
\* conflicts, if the run is executed again when it ends.
CallsSettle == input.replays => <>[]Settled

=============================================================================
