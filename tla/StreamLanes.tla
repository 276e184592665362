---------------------------- MODULE StreamLanes ----------------------------
(***************************************************************************)
(* The bounded runtime lanes of queue/stream_runtime.py: one instance of   *)
(* BoundedStreamWorkQueues, its ingress, provider, publish and recovery    *)
(* threads, the renewal thread of every claimed lease, and the client      *)
(* threads that call admit, cancel and close.                              *)
(*                                                                         *)
(* The ledger underneath is reduced to what the lanes see of it (module    *)
(* WorkScheduler models it in full): the state of an item, the epoch of    *)
(* its last claim, and whether that lease is still live.  One step is one  *)
(* region under self._lock, one ledger transaction, one queue operation or *)
(* the outcome of one callback; a check is one step with the operation it  *)
(* guards where nothing another thread does between them makes a           *)
(* difference.  Counters and telemetry are left out.                       *)
(***************************************************************************)
EXTENDS Integers, Sequences, FiniteSets

CONSTANTS
    Works,              \* work item ids; numbers: recovery offers them in order
    OptionalStage,      \* the items whose stage is one of optional_stages
    Providers,          \* the provider worker threads
    Publishers,         \* the publish worker threads
    IngressCapacity, ProviderCapacity, PublishCapacity,
    WatermarkPercent,   \* optional_shed_watermark, in percent
    MaxAttempts,        \* bound on max_attempts of the items
    Scripts             \* what may happen around the runtime: see Script

\* A script: the items that are ready at first (the others have ended), their
\* max_attempts, the provider threads configured, the calls clients may make
\* (each once), and bounds on how often the process is restarted, a lease
\* lapses under a running renewer, a ledger call raises a storage error, a
\* callback raises, and another runtime claims an item.
CloseModes == {"cancel", "graceful", "now"}
Script == [ready: SUBSET Works, providers: SUBSET Providers,
           admits: SUBSET (Works \X BOOLEAN),
           cancels: SUBSET Works, closes: SUBSET CloseModes,
           attempts: 1..MaxAttempts, restarts: Nat, stalls: Nat, faults: Nat,
           raises: Nat, peers: Nat]

ASSUME WorksAssumption == Works \subseteq Nat \ {0} /\ IsFiniteSet(Works)
ASSUME ThreadsAssumption ==
    /\ IsFiniteSet(Providers) /\ IsFiniteSet(Publishers)
    /\ Providers \cap Publishers = {}
    /\ "ingress" \notin Providers \cup Publishers
ASSUME CapacityAssumption ==
    /\ IngressCapacity \in Nat \ {0}
    /\ ProviderCapacity \in Nat \ {0}
    /\ PublishCapacity \in Nat \ {0}
    /\ WatermarkPercent \in 1..100
ASSUME ScriptsAssumption == MaxAttempts \in Nat \ {0} /\ Scripts \subseteq Script

VARIABLES
    job,        \* the ledger rows
    closed,     \* _closed
    stop,       \* _stop
    ingress, provider, publish,     \* the three queues
    scheduled,  \* _scheduled_work_ids
    cancelReq,  \* _cancel_requested_ids
    optional,   \* _optional_work_ids
    shed,       \* _shed_optional_ids
    beat,       \* the renewer of each claim, and its membership in _heartbeats
    hand,       \* what each worker thread does, and with which work
    offer,      \* the admissions in progress: recovery, a client, the closer
    canc,       \* a client in cancel
    closer,     \* a client in close, and one that calls it again
    left        \* what is left of the script

sets == <<scheduled, cancelReq, optional, shed>>
queues == <<ingress, provider, publish>>
clients == <<offer, canc, closer>>
vars == <<job, closed, stop, queues, sets, beat, hand, clients, left>>

-----------------------------------------------------------------------------
(* Data.                                                                   *)

TerminalStates == {"SUCCEEDED", "FAILED_PERMANENT", "CANCELLED"}
States == {"READY", "RUNNING", "RETRY_WAIT"} \cup TerminalStates
Reasons == {"none", "RETRY", "PERMANENT", "RUNTIME_SHUTDOWN"}

\* A WorkLeaseClaim: the item and the epoch that stands for its fence.
Claims == Works \X (1..MaxAttempts)

\* The renewer of a claim: running and not yet in _heartbeats, running and in
\* it, ended by its own error, stopped.
Beats == {"none", "new", "alive", "error", "stopped"}

Workers == {"ingress"} \cup Providers \cup Publishers
Offerers == {"recovery", "client", "closer"}

Idle == [at |-> "wait", work |-> 0, epoch |-> 0, why |-> "none"]
Fresh == [t \in Workers |-> IF t \in Providers \ left.providers
                            THEN [Idle EXCEPT !.at = "done"] ELSE Idle]
NoCancel == [at |-> "idle", work |-> 0, tracked |-> FALSE]
NotClosing == [at |-> "none", mode |-> "none", ids |-> {}, left |-> {},
               again |-> "none"]

Terminal(w) == job[w].state \in TerminalStates
Cancelled(w) == w \in cancelReq
ClaimOf(t) == <<hand[t].work, hand[t].epoch>>

Holding(t, at) == hand[t].at = at
Goes(t, at) == hand' = [hand EXCEPT ![t].at = at]
Takes(t, at, w, e) == hand' = [hand EXCEPT ![t] = [Idle EXCEPT !.at = at,
                                                   !.work = w, !.epoch = e]]
Rests(t) == hand' = [hand EXCEPT ![t] = Idle]
Offers(o, todo) == offer' = [offer EXCEPT ![o] = todo]
Closing(at) == closer.at = at
CloserGoes(at) == closer' = [closer EXCEPT !.at = at]

Spends(what) == left[what] > 0 /\ left' = [left EXCEPT ![what] = @ - 1]
Makes(call, x) == x \in left[call] /\ left' = [left EXCEPT ![call] = @ \ {x}]
LedgerRaises == Spends("faults") /\ UNCHANGED job

-----------------------------------------------------------------------------
(* The ledger, as the lanes use it.                                        *)

Row(state, epoch) == [state |-> state, epoch |-> epoch, live |-> FALSE,
                      by |-> "none"]

\* _recover_expired_leases, for one row.
Settled(x) ==
    IF x.state = "RUNNING" /\ ~x.live
    THEN IF x.epoch < left.attempts
         THEN Row("READY", x.epoch)
         ELSE Row("FAILED_PERMANENT", x.epoch)
    ELSE x

\* reconcile, and the maintenance every claim and terminal transition runs.
\* The default retry_delay_seconds is 0: a retry is due at once.
Maintain(j) ==
    [w \in Works |-> IF j[w].state = "RETRY_WAIT"
                     THEN Row("READY", j[w].epoch) ELSE Settled(j[w])]

\* claim_and_start of an item that maintenance leaves READY.
Started(x, by) == [x EXCEPT !.state = "RUNNING", !.epoch = @ + 1,
                            !.live = TRUE, !.by = by]

\* _require_lease.
LeaseIsLive(w, e) ==
    job[w].state = "RUNNING" /\ job[w].epoch = e /\ job[w].live

\* succeed, or fail, under lease <<w, e>>.  A lost fence raises, after the
\* exact row is settled.
Answered(w, e, state) ==
    IF ~LeaseIsLive(w, e) THEN [job EXCEPT ![w] = Settled(@)]
    ELSE IF state = "RETRY_WAIT" THEN [job EXCEPT ![w] = Row(state, e)]
    ELSE Maintain([job EXCEPT ![w] = Row(state, e)])

\* The state fail leaves: will_retry is retryable and an attempt is left.
FailedState(e, why) ==
    IF why # "PERMANENT" /\ e < left.attempts THEN "RETRY_WAIT"
                                            ELSE "FAILED_PERMANENT"

\* cancel: a row that already ended otherwise raises.
CancelRaises(w) == Settled(job[w]).state \in TerminalStates \ {"CANCELLED"}
CancelInLedger(w) ==
    job' = IF job[w].state = "CANCELLED" THEN job
           ELSE Maintain([job EXCEPT ![w] = Row("CANCELLED", job[w].epoch)])

-----------------------------------------------------------------------------
(* The tracking sets and the renewers.                                     *)

\* The three discards that end a notification.
Dropped(S) ==
    /\ scheduled' = scheduled \ S
    /\ optional' = optional \ S
    /\ shed' = shed \ S

\* _LeaseHeartbeat.stop: an error it met stays visible.
Stopped(c) == [beat EXCEPT ![c] = IF @ = "error" THEN "error" ELSE "stopped"]
Errored(c) == beat[c] = "error"
Renewing(c) == beat[c] \in {"new", "alive"}

-----------------------------------------------------------------------------
(* Worker threads: common steps.                                           *)

\* A worker whose get times out after _stop is set leaves its loop.  One that
\* entered get before may still be given an entry.
ThreadExit(t) ==
    /\ Holding(t, "wait") /\ stop
    /\ Goes(t, "done")
    /\ UNCHANGED <<job, closed, stop, queues, sets, beat, clients, left>>

\* Mutant: the id of a notification whose claim was not won is kept.
FinishKeepsId(t) ==
    /\ Holding(t, "fin")
    /\ Dropped(IF hand[t].epoch = 0 THEN {} ELSE {hand[t].work})
    /\ cancelReq' = cancelReq \ {hand[t].work}
    /\ beat' = IF hand[t].epoch = 0 THEN beat
                                    ELSE [beat EXCEPT ![ClaimOf(t)] = "none"]
    /\ Rests(t)
    /\ UNCHANGED <<job, closed, stop, queues, clients, left>>

\* _finish_scheduled (alone or in _cancelled_finish) and the finally block,
\* which stops the renewer the thread still owns.
Finish(t) ==
    /\ Holding(t, "fin")
    /\ Dropped({hand[t].work})
    /\ cancelReq' = cancelReq \ {hand[t].work}
    /\ beat' = IF hand[t].epoch = 0 THEN beat
                                    ELSE [beat EXCEPT ![ClaimOf(t)] = "none"]
    /\ Rests(t)
    /\ UNCHANGED <<job, closed, stop, queues, clients, left>>

\* _fail_claim.  Every error of the ledger is swallowed.
FailClaim(t) ==
    LET e == hand[t].epoch IN
    /\ Holding(t, "fail")
    /\ \/ /\ job' = Answered(hand[t].work, e, FailedState(e, hand[t].why))
          /\ UNCHANGED left
       \/ LedgerRaises
    /\ Goes(t, "fin")
    /\ UNCHANGED <<closed, stop, queues, sets, beat, clients>>

\* A callback raises: the renewer is stopped, then the claim is failed.
CallbackRaises(t, why) ==
    /\ Holding(t, "run") /\ Spends("raises")
    /\ beat' = Stopped(ClaimOf(t))
    /\ hand' = [hand EXCEPT ![t].at = "fail", ![t].why = why]
    /\ UNCHANGED <<job, closed, stop, queues, sets, clients>>

-----------------------------------------------------------------------------
(* _run_ingress.                                                           *)

IngressGet ==
    /\ Holding("ingress", "wait") /\ ingress # << >>
    /\ Takes("ingress", "put", Head(ingress), 0)
    /\ ingress' = Tail(ingress)
    /\ UNCHANGED <<job, closed, stop, provider, publish, sets, beat, clients, left>>

\* The check for a cancellation and _put_provider, which repeats it under the
\* lock; while the queue is full the thread sleeps and tries again.
PutProvider ==
    LET w == hand["ingress"].work IN
    /\ Holding("ingress", "put")
    /\ \/ /\ stop \/ Cancelled(w)
          /\ Goes("ingress", "fin")
          /\ UNCHANGED provider
       \/ /\ ~stop /\ ~Cancelled(w)
          /\ Len(provider) < ProviderCapacity
          /\ provider' = Append(provider, w)
          /\ Rests("ingress")
    /\ UNCHANGED <<job, closed, stop, ingress, publish, sets, beat, clients, left>>

-----------------------------------------------------------------------------
(* _run_provider.                                                          *)

ProviderGet(t) ==
    /\ Holding(t, "wait") /\ provider # << >>
    /\ Takes(t, "claim", Head(provider), 0)
    /\ provider' = Tail(provider)
    /\ UNCHANGED <<job, closed, stop, ingress, publish, sets, beat, clients, left>>

\* claim_and_start, and the renewer that starts with the lease.
ClaimAndStart(t) ==
    LET w == hand[t].work
        j == Maintain(job)
        e == j[w].epoch + 1
    IN  /\ Holding(t, "claim")
        /\ ~Cancelled(w) /\ j[w].state = "READY"
        /\ job' = [j EXCEPT ![w] = Started(@, "lanes")]
        /\ beat' = [beat EXCEPT ![<<w, e>>] = "new"]
        /\ Takes(t, "track", w, e)
        /\ UNCHANGED <<closed, stop, queues, sets, clients, left>>

\* The notification was cancelled, the ledger has nothing to claim, or raises,
\* before or after its commit: a claim that took effect is left to its lease.
NoClaim(t) ==
    LET w == hand[t].work
        j == Maintain(job)
        done == IF j[w].state = "READY"
                THEN [j EXCEPT ![w] = Started(@, "lanes")] ELSE j
    IN  /\ Holding(t, "claim")
        /\ \/ Cancelled(w) /\ UNCHANGED <<job, left>>
           \/ /\ ~Cancelled(w) /\ j[w].state # "READY"
              /\ job' = j /\ UNCHANGED left
           \/ ~Cancelled(w) /\ Spends("faults") /\ job' \in {job, done}
        /\ Goes(t, "fin")
        /\ UNCHANGED <<closed, stop, queues, sets, beat, clients>>

\* Mutant: the race with close is overlooked.
TrackBlindly(t) ==
    /\ Holding(t, "track")
    /\ beat' = [beat EXCEPT ![ClaimOf(t)] = IF @ = "new" THEN "alive" ELSE @]
    /\ Goes(t, "run")
    /\ UNCHANGED <<job, closed, stop, queues, sets, clients, left>>

\* _track_heartbeat: a renewer made while close ran is stopped by its maker.
TrackHeartbeat(t) ==
    LET c == ClaimOf(t) IN
    /\ Holding(t, "track")
    /\ beat' = IF stop THEN Stopped(c)
               ELSE [beat EXCEPT ![c] = IF @ = "new" THEN "alive" ELSE @]
    /\ Goes(t, "run")
    /\ UNCHANGED <<job, closed, stop, queues, sets, clients, left>>

\* provider_executor returns.  A result whose lease is in doubt, or whose item
\* was cancelled, is dropped.
ProviderReturns(t) ==
    /\ Holding(t, "run")
    /\ Goes(t, IF Errored(ClaimOf(t)) \/ Cancelled(hand[t].work)
               THEN "fin" ELSE "put")
    /\ UNCHANGED <<job, closed, stop, queues, sets, beat, clients, left>>

PutRefused(t) == stop \/ Cancelled(hand[t].work) \/ Errored(ClaimOf(t))

\* Mutant: a full lane is waited out, whatever happens meanwhile.
PutPublishBlindly(t) ==
    /\ Holding(t, "put")
    /\ Len(publish) < PublishCapacity
    /\ publish' = Append(publish, ClaimOf(t))
    /\ Rests(t)
    /\ UNCHANGED <<job, closed, stop, ingress, provider, sets, beat, clients, left>>

\* _put_publish: the renewer goes along with the task.
PutPublish(t) ==
    /\ Holding(t, "put")
    /\ \/ /\ PutRefused(t)
          /\ Goes(t, "refused")
          /\ UNCHANGED publish
       \/ /\ ~PutRefused(t)
          /\ Len(publish) < PublishCapacity
          /\ publish' = Append(publish, ClaimOf(t))
          /\ Rests(t)
    /\ UNCHANGED <<job, closed, stop, ingress, provider, sets, beat, clients, left>>

\* The put was refused: by a cancellation, by a lost lease, or by a shutdown,
\* which fails the claim as retryable.
Refused(t) ==
    /\ Holding(t, "refused")
    /\ IF Cancelled(hand[t].work) \/ Errored(ClaimOf(t))
       THEN Goes(t, "fin") /\ UNCHANGED beat
       ELSE /\ beat' = Stopped(ClaimOf(t))
            /\ hand' = [hand EXCEPT ![t].at = "fail",
                                    ![t].why = "RUNTIME_SHUTDOWN"]
    /\ UNCHANGED <<job, closed, stop, queues, sets, clients, left>>

-----------------------------------------------------------------------------
(* _run_publish.                                                           *)

PublishGet(t) ==
    /\ Holding(t, "wait") /\ publish # << >>
    /\ Takes(t, "check", Head(publish)[1], Head(publish)[2])
    /\ publish' = Tail(publish)
    /\ UNCHANGED <<job, closed, stop, ingress, provider, sets, beat, clients, left>>

\* The two checks, and the call of publisher.
PublishCheck(t) ==
    /\ Holding(t, "check")
    /\ Goes(t, IF Cancelled(hand[t].work) \/ Errored(ClaimOf(t))
               THEN "fin" ELSE "run")
    /\ UNCHANGED <<job, closed, stop, queues, sets, beat, clients, left>>

\* publisher returns.  An error of the renewer, met before its thread is
\* joined, or a cancellation forbids to claim success.
PublisherReturns(t) ==
    LET doubt == Errored(ClaimOf(t)) \/ Cancelled(hand[t].work) IN
    /\ Holding(t, "run")
    /\ beat' = IF doubt THEN beat ELSE Stopped(ClaimOf(t))
    /\ Goes(t, IF doubt THEN "fin" ELSE "succeed")
    /\ UNCHANGED <<job, closed, stop, queues, sets, clients, left>>

\* succeed.  A storage error may come before or after the commit.
Succeed(t) ==
    LET won == Answered(hand[t].work, hand[t].epoch, "SUCCEEDED") IN
    /\ Holding(t, "succeed")
    /\ \/ job' = won /\ UNCHANGED left
       \/ Spends("faults") /\ job' \in {job, won}
    /\ Goes(t, "fin")
    /\ UNCHANGED <<closed, stop, queues, sets, beat, clients>>

-----------------------------------------------------------------------------
(* Renewal, time, and the other runtime.                                   *)

\* A heartbeat that raises: the fence is lost (the exact row is settled), or
\* the storage failed.  One that renews leaves a live lease live.
HeartbeatFails(c) ==
    /\ Renewing(c)
    /\ \/ /\ ~LeaseIsLive(c[1], c[2])
          /\ job' = [job EXCEPT ![c[1]] = Settled(@)]
          /\ UNCHANGED left
       \/ LedgerRaises
    /\ beat' = [beat EXCEPT ![c] = "error"]
    /\ UNCHANGED <<closed, stop, queues, sets, hand, clients>>

\* A lease runs out: nobody renews it, or its renewer is held up too long.
Lapse(w) ==
    /\ job[w].state = "RUNNING" /\ job[w].live
    /\ IF job[w].by = "lanes" /\ Renewing(<<w, job[w].epoch>>)
       THEN Spends("stalls") ELSE UNCHANGED left
    /\ job' = [job EXCEPT ![w].live = FALSE]
    /\ UNCHANGED <<closed, stop, queues, sets, beat, hand, clients>>

\* Another runtime on the same ledger claims an item, and ends its attempt.
PeerClaim(w) ==
    LET j == Maintain(job) IN
    /\ j[w].state = "READY" /\ Spends("peers")
    /\ job' = [j EXCEPT ![w] = Started(@, "peer")]
    /\ UNCHANGED <<closed, stop, queues, sets, beat, hand, clients>>

PeerAnswers(w) ==
    /\ job[w].state = "RUNNING" /\ job[w].live /\ job[w].by = "peer"
    /\ \/ job' = Answered(w, job[w].epoch, "SUCCEEDED")
       \/ job' = Answered(w, job[w].epoch, FailedState(job[w].epoch, "RETRY"))
    /\ UNCHANGED <<closed, stop, queues, sets, beat, hand, clients, left>>

-----------------------------------------------------------------------------
(* Admission: admit, recover and _admit_ready.                             *)

\* _recovery_ready_limit.
ReadyLimit == IngressCapacity + ProviderCapacity + PublishCapacity
                + Cardinality(left.providers) + Cardinality(Publishers)

\* ready_for_run: the first READY items in dispatch order.
ReadyForRun(j) ==
    LET ready  == {w \in Works : j[w].state = "READY"}
        nth(k) == CHOOSE w \in ready : Cardinality({v \in ready : v < w}) = k - 1
    IN  [k \in {i \in 1..Cardinality(ready) : i <= ReadyLimit} |->
            [work |-> nth(k), ready |-> TRUE]]

\* recover: reconcile and the READY slice, which is then offered item by item.
\* Its caller is the recovery thread or a close that drains.  (The two ledger
\* calls are one step: whatever commits between them runs the same
\* maintenance, or leaves its item out of the slice as it would before it.)
Recover(o) ==
    LET j == Maintain(job) IN
    /\ offer[o] = << >> /\ ~stop
    /\ \/ o = "recovery" /\ UNCHANGED closer
       \/ o = "closer" /\ Closing("drain") /\ CloserGoes("drained?")
    /\ job' = j
    /\ Offers(o, ReadyForRun(j))
    /\ UNCHANGED <<closed, stop, queues, sets, beat, hand, canc, left>>

\* A ledger call of recover raises.  The recovery thread only records it; a
\* close that drains lets it out, with _closed set and _stop not.
DrainRaises ==
    /\ Closing("drain") /\ LedgerRaises
    /\ CloserGoes("raised")
    /\ UNCHANGED <<closed, stop, queues, sets, beat, hand, offer, canc>>

\* admit: the row is read after the lock is released.
Admit(w, opt) ==
    /\ offer["client"] = << >> /\ Makes("admits", <<w, opt>>)
    /\ optional' = IF opt THEN optional \cup {w} ELSE optional
    /\ IF w \in scheduled \/ closed THEN UNCHANGED offer
       ELSE Offers("client", << [work |-> w, ready |-> job[w].state = "READY"] >>)
    /\ UNCHANGED <<job, closed, stop, queues, scheduled, cancelReq, shed, beat,
                   hand, canc, closer>>

Full == \/ Len(publish) >= PublishCapacity
        \/ Len(provider) >= ProviderCapacity
        \/ Len(ingress) >= IngressCapacity

\* _optional_pressure.
OptionalPressure ==
    \/ Len(ingress) * 100 >= IngressCapacity * WatermarkPercent
    \/ Len(provider) * 100 >= ProviderCapacity * WatermarkPercent
    \/ Len(publish) * 100 >= PublishCapacity * WatermarkPercent

IsOptional(w) == w \in optional \cup OptionalStage

\* Mutant: a recovery does not look whether the item is already on its way.
StatusNoDuplicate(o, x) ==
    CASE x.work \in scheduled /\ o = "client" -> "DUPLICATE"
      [] stop \/ (closed /\ o = "client") -> "CLOSED"
      [] ~x.ready -> "NOT_READY"
      [] IsOptional(x.work) /\ OptionalPressure -> "SHED_OPTIONAL"
      [] Full -> "FULL"
      [] OTHER -> "ACCEPTED"

\* The outcome of _admit_ready, in the order of its early returns.
Status(o, x) ==
    CASE x.work \in scheduled -> "DUPLICATE"
      [] stop \/ (closed /\ o = "client") -> "CLOSED"
      [] ~x.ready -> "NOT_READY"
      [] IsOptional(x.work) /\ OptionalPressure -> "SHED_OPTIONAL"
      [] Full -> "FULL"
      [] OTHER -> "ACCEPTED"

\* _admit_ready of the next item.  A full lane ends a recovery pass.
AdmitReady(o) ==
    LET x == Head(offer[o])
        w == x.work
        status == Status(o, x)
        offered == status \in {"SHED_OPTIONAL", "FULL", "ACCEPTED"}
    IN  /\ offer[o] # << >>
        /\ Offers(o, IF status = "FULL" THEN << >> ELSE Tail(offer[o]))
        /\ optional' = IF status = "NOT_READY" THEN optional \ {w}
                       ELSE IF offered /\ IsOptional(w) THEN optional \cup {w}
                       ELSE optional
        /\ shed' = IF status = "SHED_OPTIONAL" THEN shed \cup {w}
                   ELSE IF offered \/ status = "NOT_READY" THEN shed \ {w}
                   ELSE shed
        /\ IF status = "ACCEPTED"
           THEN /\ ingress' = Append(ingress, w)
                /\ scheduled' = scheduled \cup {w}
           ELSE UNCHANGED <<ingress, scheduled>>
        /\ UNCHANGED <<job, closed, stop, provider, publish, cancelReq, beat,
                       hand, canc, closer, left>>

-----------------------------------------------------------------------------
(* cancel.                                                                 *)

CancelBegin(w) ==
    /\ canc.at = "idle" /\ Makes("cancels", w)
    /\ canc' = [at |-> "ledger", work |-> w, tracked |-> w \in scheduled]
    /\ cancelReq' = IF w \in scheduled THEN cancelReq \cup {w} ELSE cancelReq
    /\ UNCHANGED <<job, closed, stop, queues, scheduled, optional, shed, beat,
                   hand, offer, closer>>

\* The ledger refuses (the item ended otherwise) or fails: the request goes.
CancelFails ==
    /\ canc.at = "ledger"
    /\ \/ CancelRaises(canc.work) /\ UNCHANGED <<job, left>>
       \/ LedgerRaises
    /\ cancelReq' = IF canc.tracked THEN cancelReq \ {canc.work} ELSE cancelReq
    /\ canc' = NoCancel
    /\ UNCHANGED <<closed, stop, queues, scheduled, optional, shed, beat, hand,
                   offer, closer>>

CancelCommits ==
    /\ canc.at = "ledger" /\ ~CancelRaises(canc.work)
    /\ CancelInLedger(canc.work)
    /\ canc' = [canc EXCEPT !.at = "drop"]
    /\ UNCHANGED <<closed, stop, queues, sets, beat, hand, offer, closer, left>>

CancelDrops ==
    /\ canc.at = "drop"
    /\ Dropped({canc.work})
    /\ cancelReq' = IF canc.tracked THEN cancelReq ELSE cancelReq \ {canc.work}
    /\ canc' = NoCancel
    /\ UNCHANGED <<job, closed, stop, queues, beat, hand, offer, closer, left>>

-----------------------------------------------------------------------------
(* close.                                                                  *)

\* A close that cancels marks what is scheduled or shed (_mark_cancel_pending)
\* before it stops the threads; a graceful one drains first.
Close(mode) ==
    LET ids == IF mode = "cancel" THEN scheduled \cup shed ELSE {} IN
    /\ ~closed /\ Makes("closes", mode)
    /\ closed' = TRUE
    /\ cancelReq' = cancelReq \cup ids
    /\ closer' = [at |-> IF mode = "graceful" THEN "drain" ELSE "stop",
                  mode |-> mode, ids |-> ids, left |-> ids, again |-> "none"]
    /\ UNCHANGED <<job, stop, queues, scheduled, optional, shed, beat, hand,
                   offer, canc>>

\* close of a runtime that was closed before, whatever the first call is at: it
\* stops nothing, and joins the threads if it waits.
CloseAgain(mode) ==
    /\ closed /\ closer.again # "join" /\ Makes("closes", mode)
    /\ closer' = [closer EXCEPT !.again = IF mode = "now" THEN "returned" ELSE "join"]
    /\ UNCHANGED <<job, closed, stop, queues, sets, beat, hand, offer, canc>>

\* Nothing is queued, tracked or in a thread's hands.
RuntimeIdle ==
    /\ scheduled = {} /\ ingress = << >> /\ provider = << >> /\ publish = << >>
    /\ \A t \in Workers : hand[t].at \in {"wait", "done"}

\* _is_drained, after the drain loop's recover.
IsDrained ==
    /\ Closing("drained?") /\ offer["closer"] = << >>
    /\ CloserGoes(IF RuntimeIdle /\ \A w \in Works : Terminal(w)
                  THEN "stop" ELSE "drain")
    /\ UNCHANGED <<job, closed, stop, queues, sets, beat, hand, offer, canc, left>>

SetStop ==
    /\ Closing("stop")
    /\ stop' = TRUE
    /\ CloserGoes(IF closer.mode = "cancel" THEN "ledger" ELSE "beats")
    /\ UNCHANGED <<job, closed, queues, sets, beat, hand, offer, canc, left>>

\* _cancel_admitted_work: one transaction per item, errors are recorded.
CancelAdmitted(w) ==
    /\ Closing("ledger") /\ w \in closer.left
    /\ \/ CancelRaises(w) /\ UNCHANGED <<job, left>>
       \/ ~CancelRaises(w) /\ CancelInLedger(w) /\ UNCHANGED left
       \/ LedgerRaises
    /\ closer' = [closer EXCEPT !.left = @ \ {w}]
    /\ UNCHANGED <<closed, stop, queues, sets, beat, hand, offer, canc>>

\* _discard_queue, one entry; the queues are emptied in this order.
DiscardEntry ==
    /\ Closing("ledger") /\ closer.left = {}
    /\ \/ /\ ingress # << >>
          /\ Dropped({Head(ingress)}) /\ ingress' = Tail(ingress)
          /\ UNCHANGED <<provider, publish, beat>>
       \/ /\ ingress = << >> /\ provider # << >>
          /\ Dropped({Head(provider)}) /\ provider' = Tail(provider)
          /\ UNCHANGED <<ingress, publish, beat>>
       \/ /\ ingress = << >> /\ provider = << >> /\ publish # << >>
          /\ Dropped({Head(publish)[1]}) /\ publish' = Tail(publish)
          /\ beat' = [beat EXCEPT ![Head(publish)] = "none"]
          /\ UNCHANGED <<ingress, provider>>
    /\ UNCHANGED <<job, closed, stop, cancelReq, hand, clients, left>>

\* The end of _discard_pending_notifications.
DiscardEnd ==
    /\ Closing("ledger") /\ closer.left = {}
    /\ ingress = << >> /\ provider = << >> /\ publish = << >>
    /\ Dropped(closer.ids)
    /\ CloserGoes("beats")
    /\ UNCHANGED <<job, closed, stop, queues, cancelReq, beat, hand, offer, canc, left>>

\* _stop_all_heartbeats: those in _heartbeats.  A close that does not wait
\* returns.
StopAllHeartbeats ==
    /\ Closing("beats")
    /\ beat' = [c \in Claims |-> IF beat[c] = "alive" THEN "stopped" ELSE beat[c]]
    /\ CloserGoes(IF closer.mode = "now" THEN "closed" ELSE "join")
    /\ UNCHANGED <<job, closed, stop, queues, sets, hand, offer, canc, left>>

\* _join_workers returns, in the first close or in a later one.
ThreadsEnded ==
    (\A t \in Workers : Holding(t, "done")) /\ offer["recovery"] = << >> /\ stop

JoinWorkers ==
    /\ Closing("join") /\ ThreadsEnded
    /\ CloserGoes("closed")
    /\ UNCHANGED <<job, closed, stop, queues, sets, beat, hand, offer, canc, left>>

JoinAgain ==
    /\ closer.again = "join" /\ ThreadsEnded
    /\ closer' = [closer EXCEPT !.again = "returned"]
    /\ UNCHANGED <<job, closed, stop, queues, sets, beat, hand, offer, canc, left>>

-----------------------------------------------------------------------------
(* The process.                                                            *)

\* The process dies, or a closed runtime is followed by a new one: all that
\* is left is the ledger.
Reopen ==
    /\ Spends("restarts")
    /\ closed' = FALSE /\ stop' = FALSE
    /\ ingress' = << >> /\ provider' = << >> /\ publish' = << >>
    /\ scheduled' = {} /\ cancelReq' = {} /\ optional' = {} /\ shed' = {}
    /\ beat' = [c \in Claims |-> "none"]
    /\ hand' = Fresh
    /\ offer' = [o \in Offerers |-> << >>]
    /\ canc' = NoCancel
    /\ closer' = NotClosing
    /\ UNCHANGED job

Init ==
    /\ left \in Scripts
    /\ job = [w \in Works |-> Row(IF w \in left.ready THEN "READY"
                                                      ELSE "SUCCEEDED", 0)]
    /\ closed = FALSE /\ stop = FALSE
    /\ ingress = << >> /\ provider = << >> /\ publish = << >>
    /\ scheduled = {} /\ cancelReq = {} /\ optional = {} /\ shed = {}
    /\ beat = [c \in Claims |-> "none"]
    /\ hand = Fresh
    /\ offer = [o \in Offerers |-> << >>]
    /\ canc = NoCancel
    /\ closer = NotClosing

ProviderStep(t) ==
    \/ ProviderGet(t) \/ ClaimAndStart(t) \/ NoClaim(t) \/ TrackHeartbeat(t)
    \/ ProviderReturns(t) \/ PutPublish(t) \/ Refused(t)

PublisherStep(t) ==
    PublishGet(t) \/ PublishCheck(t) \/ PublisherReturns(t) \/ Succeed(t)

\* One step of a worker thread.
WorkerStep(t) ==
    \/ t = "ingress" /\ (IngressGet \/ PutProvider)
    \/ t \in Providers /\ ProviderStep(t)
    \/ t \in Publishers /\ PublisherStep(t)
    \/ FailClaim(t) \/ Finish(t) \/ ThreadExit(t)

OfferStep(o) == Recover(o) \/ AdmitReady(o)

\* The closes in progress; the first calls recover as the offerer "closer".
CloseStep ==
    \/ DrainRaises \/ IsDrained \/ SetStop
    \/ \E w \in Works : CancelAdmitted(w)
    \/ DiscardEntry \/ DiscardEnd \/ StopAllHeartbeats \/ JoinWorkers \/ JoinAgain
    \/ OfferStep("closer")

\* A client in admit or cancel.
ClientStep == AdmitReady("client") \/ CancelFails \/ CancelCommits \/ CancelDrops

Next ==
    \/ \E t \in Workers : WorkerStep(t)
    \/ \E t \in Providers \cup Publishers, why \in {"RETRY", "PERMANENT"} :
          CallbackRaises(t, why)
    \/ \E c \in Claims : HeartbeatFails(c)
    \/ \E w \in Works : Lapse(w) \/ PeerClaim(w) \/ PeerAnswers(w)
    \/ OfferStep("recovery")
    \/ \E w \in Works, opt \in BOOLEAN : Admit(w, opt)
    \/ \E w \in Works : CancelBegin(w)
    \/ \E mode \in CloseModes : Close(mode) \/ CloseAgain(mode)
    \/ ClientStep
    \/ CloseStep
    \/ Reopen

Spec == Init /\ [][Next]_vars

\* Fairness.  Every thread runs and callbacks return, a call a client has
\* begun goes on, the recovery thread polls, and a lease nobody renews runs
\* out.  Nobody is obliged to admit, cancel, close or reopen, and a renewer
\* may be slow to notice a lost fence.
FairSpec ==
    /\ Spec
    /\ \A t \in Workers : WF_vars(WorkerStep(t))
    /\ WF_vars(OfferStep("recovery"))
    /\ WF_vars(ClientStep)
    /\ WF_vars(CloseStep) /\ WF_vars(JoinAgain)
    /\ \A w \in Works : WF_vars(Lapse(w))

-----------------------------------------------------------------------------
(* Properties.                                                             *)

\* How many queue entries and threads hold a notification of w.
Holders(w) ==
    LET entries(q) == Cardinality({k \in DOMAIN q : q[k] = w})
    IN  entries(ingress) + entries(provider)
        + entries([k \in DOMAIN publish |-> publish[k][1]])
        + Cardinality({t \in Workers : hand[t].work = w})

\* Type invariant; the lanes stay within their capacities.
TypeOK ==
    /\ job \in [Works -> [state: States, epoch: 0..MaxAttempts, live: BOOLEAN,
                          by: {"none", "lanes", "peer"}]]
    /\ closed \in BOOLEAN /\ stop \in BOOLEAN
    /\ ingress \in Seq(Works) /\ Len(ingress) <= IngressCapacity
    /\ provider \in Seq(Works) /\ Len(provider) <= ProviderCapacity
    /\ publish \in Seq(Claims) /\ Len(publish) <= PublishCapacity
    /\ scheduled \subseteq Works /\ cancelReq \subseteq Works
    /\ optional \subseteq Works /\ shed \subseteq Works
    /\ beat \in [Claims -> Beats]
    /\ \A t \in Workers : hand[t].work \in Works \cup {0}
                          /\ hand[t].epoch \in 0..MaxAttempts
                          /\ hand[t].why \in Reasons

\* While the runtime works, _scheduled_work_ids and the lanes agree: an item
\* in it is in exactly one queue or one thread's hands, any other in none
\* (but for an item that was durably cancelled, whose id cancel releases at
\* once).  A lost id would be refused as DUPLICATE for ever; a second
\* notification would be executed again.
ScheduledIsHeld ==
    ~stop => \A w \in Works : job[w].state # "CANCELLED" =>
                Holders(w) = IF w \in scheduled THEN 1 ELSE 0

\* "an intentionally slow provider or publisher cannot be recovered and
\* executed a second time by this service": no two threads are in callbacks
\* of one item, although its lease may lapse, be recovered and be offered
\* again while the first callback runs, and although cancel releases the id.
ExclusiveCallbacks ==
    \A s, t \in Providers \cup Publishers :
        s # t /\ Holding(s, "run") /\ Holding(t, "run")
        => hand[s].work # hand[t].work

\* A stopped runtime releases its leases: once close has been through
\* _stop_all_heartbeats nothing renews, but for a claim that raced it and
\* whose thread is about to stop its own renewer in _track_heartbeat.
RenewersReleased ==
    closer.at \in {"join", "closed"} =>
        \A c \in Claims : Renewing(c) =>
            \E t \in Providers : Holding(t, "track") /\ ClaimOf(t) = c

\* A full lane or a lost notification delays work and loses none: while the
\* runtime is not stopped, every item ends.
WorkEnds == \A w \in Works : ~Terminal(w) ~> Terminal(w) \/ stop

\* A close comes to its end: no thread waits for another on a full queue once
\* the runtime stops.  The first close returns unless its drain raises, and a
\* close that is repeated, before or after the first has returned, returns with
\* it.  After a drain that raised, _closed is set and _stop is not: a repeated
\* close then joins threads that nobody stops, and is exempt here.
CloseReturns ==
    /\ closed ~> closer.at \in {"closed", "raised"} \/ ~closed
    /\ closer.again = "join" ~> closer.again # "join" \/ closer.at = "raised"
=============================================================================
