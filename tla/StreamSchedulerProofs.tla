----------------------- MODULE StreamSchedulerProofs -----------------------
(***************************************************************************)
(* Proofs about StreamScheduler for every number of processes and windows, *)
(* every window DAG and every bound.                                       *)
(*                                                                         *)
(* The operations of the composition span several transactions, so the     *)
(* invariant says what each process may rely on in the middle of one       *)
(* (OpOK), and the proof that it may is the same for every other process:  *)
(* execution rows only move forward (RowStep), publications and facts are  *)
(* never taken back, and no other worker replaces the intent of a lease    *)
(* that is still active (WorkStep).  Readiness is kept by Settle alone: a  *)
(* commit that bypasses it ends reductions only, and nothing but the       *)
(* finalization waits for a reduction, whose own row is never PLANNED at   *)
(* rest because its gate opens after every reduction has succeeded.        *)
(*                                                                         *)
(* The same step relation, with at most one row handed out and one won,    *)
(* makes every transaction a commit of WorkContract.                       *)
(***************************************************************************)
EXTENDS StreamScheduler, Integers, TLAPS

WorkItems == Windows \X Stages
Visible == {"PENDING", "PUBLISHED"}
Begun == {"READY", "RETRY_WAIT", "SUCCEEDED"} \cup ActiveStates

\* The upstream items of a window's item; no plan changes them.
Up(i) == {<<i[1], s>> : s \in Topology[i[2]]}

-----------------------------------------------------------------------------
(* The invariant.                                                          *)

ExecOK(x) ==
    /\ x.state \in {"ABSENT", "PLANNED"} => x.epoch = 0
    /\ x.state \in {"READY", "RETRY_WAIT"} => x.epoch < MaxAttempts
    /\ x.state \in ActiveStates => x.epoch > 0

UpstreamEnded(e, i) == \A u \in Up(i) : Terminal(e, u)

ReadyOK(e, i) ==
    /\ e[i].state \in Begun => UpstreamEnded(e, i)
    /\ e[i].state = "PLANNED" => ~UpstreamEnded(e, i)

TableOK(e) ==
    /\ e \in [Items -> Exec]
    /\ \A i \in Items : ExecOK(e[i])
    /\ \A i \in WorkItems : ReadyOK(e, i)
    /\ e[Final].state # "PLANNED"

Agree(x, w) ==
    /\ w.evidence # None =>
          /\ x.state = "SUCCEEDED" /\ x.result = w.evidence
          /\ w.pending = None
    /\ x.state = "SUCCEEDED" /\ w.evidence = None =>
          w.pending # None /\ w.pending.ev = x.result

PublicationOK(i, x, w, d) ==
    /\ w.pub = "PUBLISHED" => x.state # "ABSENT"
    /\ x.state # "ABSENT" => w.pub \in Visible
    /\ i # Final => (w.pub # "ABSENT" <=> i[1] < d)

OutboxOK == \A n \in outbox : n < declared \/ (plan.sealed /\ n = declared)

CausalOK ==
    \A i \in WorkItems : exec[i].epoch > 0 =>
        \A u \in Up(i) : work[u].evidence # None

MembersIn(m, d) == \A n \in 0..(d - 1) : m[n] # None

\* A capability is never ahead of its row.
CapOK(c, e) == c # None => c.epoch <= e[c.item].epoch

\* What a process relies on in the middle of an operation.
OpOK(o, c, w, e, P, m, d) ==
    /\ o.step \in {"project", "publish"} => \A j \in o.rows : w[j].pub \in Visible
    /\ o.step = "publish" => \A j \in o.rows : e[j].state # "ABSENT"
    /\ o.step = "closing" => P.sealed /\ P.export /\ MembersIn(m, d)
    /\ o.step = "stored" =>
          /\ c # None
          /\ e[c.item].epoch = c.epoch /\ e[c.item].state \in ActiveStates =>
                /\ w[c.item].evidence = None /\ w[c.item].pending # None
                /\ w[c.item].pending.ev = o.ev /\ w[c.item].pending.epoch = c.epoch
    /\ o.step = "succeeded" =>
          /\ c # None
          /\ e[c.item].state = "SUCCEEDED" /\ e[c.item].result = o.ev

Facts ==
    /\ TableOK(exec)
    /\ \A i \in Items : Agree(exec[i], work[i])
    /\ \A i \in Items : PublicationOK(i, exec[i], work[i], declared)
    /\ MembersAreEvidence /\ OutboxOK /\ FinalizationIsLast /\ CausalOK

ProcsOK ==
    \A p \in Procs : /\ CapOK(cap[p], exec)
                     /\ OpOK(op[p], cap[p], work, exec, plan, member, declared)

StreamInv == TypeOK /\ Facts /\ ProcsOK

-----------------------------------------------------------------------------
(* Items.                                                                  *)

LEMMA ItemsAre ==
    /\ Items = WorkItems \cup {Final} /\ Final \notin WorkItems
    /\ \A i \in WorkItems : i[1] \in Windows /\ i[2] \in Stages /\ i = <<i[1], i[2]>>
    /\ Windows \subseteq Nat /\ NumWindows \notin Windows
  <1>1. Windows \subseteq Nat /\ NumWindows \notin Windows
    BY BoundsAssumption DEF Windows
  <1>2. Final \notin WorkItems
    BY <1>1 DEF Final, WorkItems
  <1> QED
    BY <1>1, <1>2 DEF Items, WorkItems

LEMMA UpIs ==
    ASSUME NEW i \in WorkItems
    PROVE  /\ i \in Items /\ i # Final /\ Upstream(i) = Up(i) /\ Up(i) \subseteq WorkItems
           /\ \A n \in Windows : Reduction(n) \notin Up(i)
  <1>1. i \in Items /\ i # Final /\ i[1] \in Windows /\ i[2] \in Stages
    BY ItemsAre
  <1>2. Topology[i[2]] \subseteq Stages \ {"WINDOW_REDUCTION"}
    BY <1>1, TopologyAssumption
  <1>3. Upstream(i) = Up(i)
    BY <1>1 DEF Upstream, Up
  <1> QED
    BY <1>1, <1>2, <1>3 DEF Up, WorkItems, Reduction

LEMMA ReductionIs ==
    ASSUME NEW n \in Windows
    PROVE  /\ Reduction(n) \in WorkItems /\ Reduction(n) \in Items
           /\ Reduction(n) # Final /\ Reduction(n)[1] = n
           /\ \A k \in Windows : Reduction(k) = Reduction(n) => k = n
  <1>1. Reduction(n) \in WorkItems
    BY TopologyAssumption DEF Reduction, WorkItems
  <1> QED
    BY <1>1, ItemsAre DEF Reduction

-----------------------------------------------------------------------------
(* Execution rows.                                                         *)

StateSet == {"ABSENT", "PLANNED", "READY", "RETRY_WAIT", "LEASED", "RUNNING",
             "SUCCEEDED", "FAILED_PERMANENT"}

LEMMA StatesAre ==
    /\ ExecStates = StateSet
    /\ ActiveStates = {"LEASED", "RUNNING"}
    /\ TerminalStates = {"SUCCEEDED", "FAILED_PERMANENT"}
  BY DEF ExecStates, StateSet, ActiveStates, TerminalStates

Row(s, n, b, r, v) == [state |-> s, epoch |-> n, by |-> b, renewal |-> r, result |-> v]

LEMMA RowIs ==
    ASSUME NEW s, NEW n, NEW b, NEW r, NEW v
    PROVE  /\ Row(s, n, b, r, v).state = s /\ Row(s, n, b, r, v).epoch = n
           /\ Row(s, n, b, r, v).by = b /\ Row(s, n, b, r, v).renewal = r
           /\ Row(s, n, b, r, v).result = v
           /\ s \in ExecStates /\ n \in 0..MaxAttempts /\ b \in WorkerIds \cup {None}
              /\ r \in 0..MaxRenewals /\ v \in Payloads \cup {None}
              => Row(s, n, b, r, v) \in Exec
  BY DEF Row, Exec

LEMMA ExecIs ==
    ASSUME NEW x \in Exec
    PROVE  /\ x.state \in ExecStates /\ x.epoch \in 0..MaxAttempts
           /\ x.by \in WorkerIds \cup {None} /\ x.renewal \in 0..MaxRenewals
           /\ x.result \in Payloads \cup {None}
           /\ x.epoch \in Nat /\ x.renewal \in Nat
           /\ x = Row(x.state, x.epoch, x.by, x.renewal, x.result)
           /\ \A s : [x EXCEPT !.state = s] = Row(s, x.epoch, x.by, x.renewal, x.result)
  BY BoundsAssumption DEF Exec, Row

WithState(z, t) == [z EXCEPT !.state = t]
WithEpoch(z, t) == [z EXCEPT !.epoch = t]
WithHolder(z, t) == [z EXCEPT !.by = t]
WithRenewal(z, t) == [z EXCEPT !.renewal = t]
WithResult(z, t) == [z EXCEPT !.result = t]

LEMMA RowFields ==
    ASSUME NEW s, NEW n, NEW b, NEW r, NEW v, NEW t
    PROVE  /\ WithState(Row(s, n, b, r, v), t) = Row(t, n, b, r, v)
           /\ WithEpoch(Row(s, n, b, r, v), t) = Row(s, t, b, r, v)
           /\ WithHolder(Row(s, n, b, r, v), t) = Row(s, n, t, r, v)
           /\ WithRenewal(Row(s, n, b, r, v), t) = Row(s, n, b, t, v)
           /\ WithResult(Row(s, n, b, r, v), t) = Row(s, n, b, r, t)
  BY DEF Row, WithState, WithEpoch, WithHolder, WithRenewal, WithResult

Put(e, i, y) == [e EXCEPT ![i] = y]

LEMMA PutIs ==
    ASSUME NEW e \in [Items -> Exec], NEW i \in Items, NEW y \in Exec
    PROVE  /\ Put(e, i, y) \in [Items -> Exec] /\ Put(e, i, y)[i] = y
           /\ \A j \in Items : j # i => Put(e, i, y)[j] = e[j]
  BY DEF Put

\* The updates of one row, field by field.
Handing(e, i, s, n, b, r) ==
    [e EXCEPT ![i].state = s, ![i].epoch = n, ![i].by = b, ![i].renewal = r]
Resuming(e, i, s, r) == [e EXCEPT ![i].state = s, ![i].renewal = r]
Moving(e, i, s) == [e EXCEPT ![i].state = s]
Renewing(e, i, r) == [e EXCEPT ![i].renewal = r]
Releasing(e, i, s, b) == [e EXCEPT ![i].state = s, ![i].by = b]
Lapsing(e, i, b, s) == [e EXCEPT ![i].by = b, ![i].state = s]
Ending(e, i, s, b, v) == [e EXCEPT ![i].state = s, ![i].by = b, ![i].result = v]

LEMMA HandingIs ==
    ASSUME NEW e \in [Items -> Exec], NEW i \in Items, NEW s, NEW n, NEW b, NEW r
    PROVE  Handing(e, i, s, n, b, r) = Put(e, i, Row(s, n, b, r, e[i].result))
  <1> DEFINE x == e[i]
  <1>1. x = Row(x.state, x.epoch, x.by, x.renewal, x.result)
    BY ExecIs
  <1>2. Handing(e, i, s, n, b, r) = Put(e, i, WithRenewal(WithHolder(WithEpoch(WithState(x, s), n), b), r))
    BY DEF Put, Handing, WithState, WithEpoch, WithHolder, WithRenewal
  <1> HIDE DEF x
  <1>3. WithState(x, s) = Row(s, x.epoch, x.by, x.renewal, x.result)
    BY <1>1, RowFields
  <1>4. WithEpoch(WithState(x, s), n) = Row(s, n, x.by, x.renewal, x.result)
    BY <1>3, RowFields
  <1>5. WithHolder(WithEpoch(WithState(x, s), n), b) = Row(s, n, b, x.renewal, x.result)
    BY <1>4, RowFields
  <1>6. WithRenewal(WithHolder(WithEpoch(WithState(x, s), n), b), r) = Row(s, n, b, r, x.result)
    BY <1>5, RowFields
  <1> QED
    BY <1>2, <1>6 DEF x

LEMMA ResumingIs ==
    ASSUME NEW e \in [Items -> Exec], NEW i \in Items, NEW s, NEW r
    PROVE  Resuming(e, i, s, r)
              = Put(e, i, Row(s, e[i].epoch, e[i].by, r, e[i].result))
  <1> DEFINE x == e[i]
  <1>1. x = Row(x.state, x.epoch, x.by, x.renewal, x.result)
    BY ExecIs
  <1>2. Resuming(e, i, s, r) = Put(e, i, WithRenewal(WithState(x, s), r))
    BY DEF Put, Resuming, WithState, WithRenewal
  <1> HIDE DEF x
  <1>3. WithState(x, s) = Row(s, x.epoch, x.by, x.renewal, x.result)
    BY <1>1, RowFields
  <1>4. WithRenewal(WithState(x, s), r) = Row(s, x.epoch, x.by, r, x.result)
    BY <1>3, RowFields
  <1> QED
    BY <1>2, <1>4 DEF x

LEMMA MovingIs ==
    ASSUME NEW e \in [Items -> Exec], NEW i \in Items, NEW s
    PROVE  Moving(e, i, s)
              = Put(e, i, Row(s, e[i].epoch, e[i].by, e[i].renewal, e[i].result))
  <1> DEFINE x == e[i]
  <1>1. x = Row(x.state, x.epoch, x.by, x.renewal, x.result)
    BY ExecIs
  <1>2. Moving(e, i, s) = Put(e, i, WithState(x, s))
    BY DEF Put, Moving, WithState
  <1> HIDE DEF x
  <1>3. WithState(x, s) = Row(s, x.epoch, x.by, x.renewal, x.result)
    BY <1>1, RowFields
  <1> QED
    BY <1>2, <1>3 DEF x

LEMMA RenewingIs ==
    ASSUME NEW e \in [Items -> Exec], NEW i \in Items, NEW r
    PROVE  Renewing(e, i, r)
              = Put(e, i, Row(e[i].state, e[i].epoch, e[i].by, r, e[i].result))
  <1> DEFINE x == e[i]
  <1>1. x = Row(x.state, x.epoch, x.by, x.renewal, x.result)
    BY ExecIs
  <1>2. Renewing(e, i, r) = Put(e, i, WithRenewal(x, r))
    BY DEF Put, Renewing, WithRenewal
  <1> HIDE DEF x
  <1>3. WithRenewal(x, r) = Row(x.state, x.epoch, x.by, r, x.result)
    BY <1>1, RowFields
  <1> QED
    BY <1>2, <1>3 DEF x

LEMMA ReleasingIs ==
    ASSUME NEW e \in [Items -> Exec], NEW i \in Items, NEW s, NEW b
    PROVE  Releasing(e, i, s, b)
              = Put(e, i, Row(s, e[i].epoch, b, e[i].renewal, e[i].result))
  <1> DEFINE x == e[i]
  <1>1. x = Row(x.state, x.epoch, x.by, x.renewal, x.result)
    BY ExecIs
  <1>2. Releasing(e, i, s, b) = Put(e, i, WithHolder(WithState(x, s), b))
    BY DEF Put, Releasing, WithState, WithHolder
  <1> HIDE DEF x
  <1>3. WithState(x, s) = Row(s, x.epoch, x.by, x.renewal, x.result)
    BY <1>1, RowFields
  <1>4. WithHolder(WithState(x, s), b) = Row(s, x.epoch, b, x.renewal, x.result)
    BY <1>3, RowFields
  <1> QED
    BY <1>2, <1>4 DEF x

LEMMA LapsingIs ==
    ASSUME NEW e \in [Items -> Exec], NEW i \in Items, NEW b, NEW s
    PROVE  Lapsing(e, i, b, s)
              = Put(e, i, Row(s, e[i].epoch, b, e[i].renewal, e[i].result))
  <1> DEFINE x == e[i]
  <1>1. x = Row(x.state, x.epoch, x.by, x.renewal, x.result)
    BY ExecIs
  <1>2. Lapsing(e, i, b, s) = Put(e, i, WithState(WithHolder(x, b), s))
    BY DEF Put, Lapsing, WithHolder, WithState
  <1> HIDE DEF x
  <1>3. WithHolder(x, b) = Row(x.state, x.epoch, b, x.renewal, x.result)
    BY <1>1, RowFields
  <1>4. WithState(WithHolder(x, b), s) = Row(s, x.epoch, b, x.renewal, x.result)
    BY <1>3, RowFields
  <1> QED
    BY <1>2, <1>4 DEF x

LEMMA EndingIs ==
    ASSUME NEW e \in [Items -> Exec], NEW i \in Items, NEW s, NEW b, NEW v
    PROVE  Ending(e, i, s, b, v) = Put(e, i, Row(s, e[i].epoch, b, e[i].renewal, v))
  <1> DEFINE x == e[i]
  <1>1. x = Row(x.state, x.epoch, x.by, x.renewal, x.result)
    BY ExecIs
  <1>2. Ending(e, i, s, b, v) = Put(e, i, WithResult(WithHolder(WithState(x, s), b), v))
    BY DEF Put, Ending, WithState, WithHolder, WithResult
  <1> HIDE DEF x
  <1>3. WithState(x, s) = Row(s, x.epoch, x.by, x.renewal, x.result)
    BY <1>1, RowFields
  <1>4. WithHolder(WithState(x, s), b) = Row(s, x.epoch, b, x.renewal, x.result)
    BY <1>3, RowFields
  <1>5. WithResult(WithHolder(WithState(x, s), b), v) = Row(s, x.epoch, b, x.renewal, v)
    BY <1>4, RowFields
  <1> QED
    BY <1>2, <1>5 DEF x

\* What one execution row may do in one transaction.
Entered(x, y) == x.state = "ABSENT" /\ y.state \in {"PLANNED", "READY"} /\ y.epoch = 0
Woken(x, y) == /\ x.state \in {"PLANNED", "RETRY_WAIT"} /\ y.state = "READY"
               /\ y.epoch = x.epoch
Served(x, y) == /\ x.state \in ActiveStates /\ y.epoch = x.epoch
                /\ y.state \in ActiveStates \cup {"READY", "RETRY_WAIT", "FAILED_PERMANENT"}
Handed(x, y) == x.state = "READY" /\ y.state \in ActiveStates /\ y.epoch = x.epoch + 1
Won(x, y) == x.state \in ActiveStates /\ y.state = "SUCCEEDED" /\ y.epoch = x.epoch

\* Rows enter in G, are handed out in H and won in S.
RowStep(x, y, i, G, H, S) ==
    \/ y = x \/ Woken(x, y) \/ Served(x, y)
    \/ Entered(x, y) /\ i \in G
    \/ Handed(x, y) /\ i \in H
    \/ Won(x, y) /\ i \in S

TableStep(e, f, G, H, S) == \A i \in Items : RowStep(e[i], f[i], i, G, H, S)

\* Rows never go back: what every other process relies on.
LEMMA RowAdvances ==
    ASSUME NEW x \in Exec, NEW y \in Exec, ExecOK(x), NEW i, NEW G, NEW H, NEW S,
           RowStep(x, y, i, G, H, S)
    PROVE  /\ x.state # "ABSENT" => y.state # "ABSENT"
           /\ x.state \in TerminalStates => y = x
           /\ x.epoch <= y.epoch
           /\ y.state \in ActiveStates /\ y.epoch = x.epoch => x.state \in ActiveStates
           /\ y.state = "SUCCEEDED" => y = x \/ (Won(x, y) /\ i \in S)
           /\ y.state # "ABSENT" => x.state # "ABSENT" \/ i \in G
           /\ y.epoch > 0 => x.epoch > 0 \/ i \in H
  <1>1. /\ x.state \in StateSet /\ y.state \in StateSet
        /\ x.epoch \in Nat /\ y.epoch \in Nat
    BY ExecIs, StatesAre
  <1>2. x.state = "ABSENT" => x.epoch = 0
    BY DEF ExecOK
  <1>3. CASE y = x
    BY <1>1, <1>3
  <1>4. CASE Woken(x, y)
    BY <1>1, <1>4, StatesAre DEF Woken
  <1>5. CASE Served(x, y)
    BY <1>1, <1>5, StatesAre DEF Served
  <1>6. CASE Entered(x, y) /\ i \in G
    BY <1>1, <1>2, <1>6, StatesAre DEF Entered
  <1>7. CASE Handed(x, y) /\ i \in H
    BY <1>1, <1>7, StatesAre DEF Handed
  <1>8. CASE Won(x, y) /\ i \in S
    BY <1>1, <1>8, StatesAre DEF Won
  <1> QED
    BY <1>3, <1>4, <1>5, <1>6, <1>7, <1>8 DEF RowStep

-----------------------------------------------------------------------------
(* Settle.                                                                 *)

\* The finalization has nothing left to wait for.
FinalUnblocked(e) ==
    e[Final].state = "PLANNED" => \A u \in Upstream(Final) : e[u].state = "SUCCEEDED"

ReadyRow(x) == Row("READY", x.epoch, x.by, x.renewal, x.result)

LEMMA ReadyRowIs ==
    ASSUME NEW x \in Exec
    PROVE  [x EXCEPT !.state = "READY"] = ReadyRow(x) /\ ReadyRow(x) \in Exec
  <1>1. [x EXCEPT !.state = "READY"] = ReadyRow(x)
    BY ExecIs DEF ReadyRow
  <1>2. "READY" \in ExecStates
    BY StatesAre DEF StateSet
  <1>3. /\ x.epoch \in 0..MaxAttempts /\ x.by \in WorkerIds \cup {None}
        /\ x.renewal \in 0..MaxRenewals /\ x.result \in Payloads \cup {None}
    BY ExecIs
  <1> QED
    BY <1>1, <1>2, <1>3, RowIs DEF ReadyRow

LEMMA SettleRows ==
    ASSUME NEW g \in [Items -> Exec], FinalUnblocked(g)
    PROVE  /\ Settle(g) \in [Items -> Exec]
           /\ \A i \in WorkItems :
                 Settle(g)[i] = IF g[i].state = "PLANNED" /\ UpstreamEnded(g, i)
                                THEN ReadyRow(g[i]) ELSE g[i]
           /\ Settle(g)[Final] = IF g[Final].state = "PLANNED"
                                 THEN ReadyRow(g[Final]) ELSE g[Final]
  <1> DEFINE f == Settle(g)
  <1>1. ASSUME NEW i \in WorkItems
        PROVE  /\ f[i] = IF g[i].state = "PLANNED" /\ UpstreamEnded(g, i)
                         THEN ReadyRow(g[i]) ELSE g[i]
               /\ f[i] \in Exec
    <2>1. i \in Items /\ i # Final /\ Upstream(i) = Up(i)
      BY UpIs
    <2>2. f[i] = IF g[i].state = "PLANNED" /\ UpstreamEnded(g, i)
                 THEN [g[i] EXCEPT !.state = "READY"] ELSE g[i]
      BY <2>1 DEF Settle, UpstreamEnded
    <2>3. g[i] \in Exec
      BY <2>1
    <2>4. /\ [g[i] EXCEPT !.state = "READY"] = ReadyRow(g[i])
          /\ ReadyRow(g[i]) \in Exec
      BY <2>3, ReadyRowIs
    <2> QED
      BY <2>2, <2>3, <2>4
  <1>2. /\ f[Final] = IF g[Final].state = "PLANNED" THEN ReadyRow(g[Final]) ELSE g[Final]
        /\ f[Final] \in Exec
    <2>1. Final \in Items
      BY ItemsAre
    <2>2. g[Final].state = "PLANNED" =>
             \A u \in Upstream(Final) : Terminal(g, u) /\ g[u].state = "SUCCEEDED"
      BY StatesAre DEF FinalUnblocked, Terminal
    <2>3. f[Final] = IF g[Final].state = "PLANNED"
                     THEN [g[Final] EXCEPT !.state = "READY"] ELSE g[Final]
      BY <2>1, <2>2 DEF Settle
    <2>4. g[Final] \in Exec
      BY <2>1
    <2>5. /\ [g[Final] EXCEPT !.state = "READY"] = ReadyRow(g[Final])
          /\ ReadyRow(g[Final]) \in Exec
      BY <2>4, ReadyRowIs
    <2> QED
      BY <2>3, <2>4, <2>5
  <1>3. f = [i \in Items |-> f[i]]
    BY DEF Settle
  <1>4. \A i \in Items : f[i] \in Exec
    BY <1>1, <1>2, ItemsAre
  <1> HIDE DEF f
  <1>5. f \in [Items -> Exec]
    BY <1>3, <1>4
  <1> QED
    BY <1>1, <1>2, <1>5 DEF f

\* Settle leaves every row's ends alone and nothing waiting for nothing.
LEMMA SettleTable ==
    ASSUME NEW g \in [Items -> Exec], FinalUnblocked(g),
           \A i \in Items : ExecOK(g[i]),
           \A i \in WorkItems : g[i].state \in Begun => UpstreamEnded(g, i)
    PROVE  TableOK(Settle(g))
  <1> DEFINE f == Settle(g)
  <1>1. /\ f \in [Items -> Exec]
        /\ \A i \in Items : \/ f[i] = g[i]
                            \/ g[i].state = "PLANNED" /\ f[i] = ReadyRow(g[i])
        /\ \A i \in WorkItems :
              f[i] = IF g[i].state = "PLANNED" /\ UpstreamEnded(g, i)
                     THEN ReadyRow(g[i]) ELSE g[i]
        /\ f[Final] = IF g[Final].state = "PLANNED" THEN ReadyRow(g[Final]) ELSE g[Final]
    BY SettleRows, ItemsAre
  <1>2. \A i \in Items : ReadyRow(g[i]).state = "READY" /\ ReadyRow(g[i]).epoch = g[i].epoch
    BY RowIs DEF ReadyRow
  <1> HIDE DEF f
  <1>3. \A i \in Items : Terminal(f, i) <=> Terminal(g, i)
    BY <1>1, <1>2, StatesAre DEF Terminal
  <1>4. \A i \in WorkItems : UpstreamEnded(f, i) <=> UpstreamEnded(g, i)
    BY <1>3, UpIs, ItemsAre DEF UpstreamEnded
  <1>5. ASSUME NEW i \in Items
        PROVE  ExecOK(f[i])
    <2>1. CASE f[i] = g[i]
      BY <2>1
    <2>2. CASE g[i].state = "PLANNED" /\ f[i] = ReadyRow(g[i])
      <3>1. g[i].epoch = 0
        BY <2>2 DEF ExecOK
      <3> QED
        BY <1>2, <2>2, <3>1, BoundsAssumption, StatesAre DEF ExecOK
    <2> QED
      BY <1>1, <2>1, <2>2
  <1>6. ASSUME NEW i \in WorkItems
        PROVE  ReadyOK(f, i)
    <2>1. i \in Items
      BY ItemsAre
    <2>2. CASE g[i].state = "PLANNED" /\ UpstreamEnded(g, i)
      BY <1>1, <1>2, <1>4, <2>1, <2>2 DEF ReadyOK
    <2>3. CASE ~(g[i].state = "PLANNED" /\ UpstreamEnded(g, i))
      <3>1. f[i] = g[i]
        BY <1>1, <2>3
      <3> QED
        BY <1>4, <2>3, <3>1 DEF ReadyOK
    <2> QED
      BY <2>2, <2>3
  <1>7. f[Final].state # "PLANNED"
    BY <1>1, <1>2, ItemsAre
  <1> QED
    BY <1>1, <1>5, <1>6, <1>7 DEF TableOK, f

\* Settle adds nothing to a step but rows that wake.
LEMMA SettleStep ==
    ASSUME NEW e, NEW g \in [Items -> Exec], FinalUnblocked(g),
           NEW G, NEW H, NEW S, TableStep(e, g, G, H, S)
    PROVE  TableStep(e, Settle(g), G, H, S)
  <1> DEFINE f == Settle(g)
  <1>1. \A i \in Items : \/ f[i] = g[i]
                         \/ g[i].state = "PLANNED" /\ f[i] = ReadyRow(g[i])
    BY SettleRows, ItemsAre
  <1>2. \A i \in Items : ReadyRow(g[i]).state = "READY" /\ ReadyRow(g[i]).epoch = g[i].epoch
    BY RowIs DEF ReadyRow
  <1> HIDE DEF f
  <1>3. ASSUME NEW i \in Items
        PROVE  RowStep(e[i], f[i], i, G, H, S)
    <2>1. RowStep(e[i], g[i], i, G, H, S)
      BY DEF TableStep
    <2>2. CASE f[i] = g[i]
      BY <2>1, <2>2
    <2>3. CASE g[i].state = "PLANNED" /\ f[i] = ReadyRow(g[i])
      <3>1. g[i] = e[i] \/ (Entered(e[i], g[i]) /\ i \in G)
        BY <2>1, <2>3, StatesAre DEF RowStep, Woken, Served, Handed, Won
      <3>2. f[i].state = "READY" /\ f[i].epoch = g[i].epoch
        BY <1>2, <2>3
      <3> QED
        BY <2>3, <3>1, <3>2 DEF RowStep, Woken, Entered
    <2> QED
      BY <1>1, <2>2, <2>3
  <1> QED
    BY <1>3 DEF TableStep, f

-----------------------------------------------------------------------------
(* What one transaction does to everything the other processes rely on.    *)

\* Nothing that is visible is withdrawn, and no intent of an active lease is
\* replaced or accepted.
WorkStep(v, w, y) ==
    /\ v.pub \in Visible => w.pub \in Visible
    /\ y.state \in ActiveStates =>
          /\ w.evidence = v.evidence
          /\ w.pending = v.pending \/ v.pending = None \/ v.pending.epoch < y.epoch

FactsKept ==
    /\ \A i \in Items : work[i].evidence # None => work'[i].evidence = work[i].evidence
    /\ \A n \in Windows : member[n] # None => member'[n] = member[n]
    /\ outbox \subseteq outbox'
    /\ plan.sealed => plan'.sealed /\ plan'.size = plan.size
    /\ plan.eos => plan'.eos /\ declared' = declared
    /\ plan.closed => plan'.closed

Forward(G, H, S) ==
    /\ TableStep(exec, exec', G, H, S)
    /\ \A i \in Items : WorkStep(work[i], work'[i], exec'[i])
    /\ FactsKept
    /\ plan.export => plan'.export

AtMostOne(X) == \A i, j \in X : i = j

StepGoal ==
    /\ StreamInv'
    /\ \E G, H, S \in SUBSET Items : AtMostOne(H) /\ AtMostOne(S) /\ Forward(G, H, S)

LEMMA LeaseIs ==
    ASSUME NEW c \in Lease
    PROVE  /\ c # None => c.item \in Items
           /\ c.item \in Items /\ c.epoch \in 1..MaxAttempts /\ c.epoch \in Nat
           /\ c.renewal \in 0..MaxRenewals /\ c.renewal \in Nat
  BY BoundsAssumption DEF Lease

LEMMA CapKept ==
    ASSUME StreamInv, exec' \in [Items -> Exec], NEW G, NEW H, NEW S, Forward(G, H, S),
           NEW c \in Lease \cup {None}, CapOK(c, exec)
    PROVE  CapOK(c, exec')
  <1> SUFFICES ASSUME c # None
               PROVE  c.epoch <= exec'[c.item].epoch
    BY DEF CapOK
  <1>1. c.item \in Items /\ c.epoch \in Nat
    BY LeaseIs
  <1>2. c.epoch <= exec[c.item].epoch
    BY DEF CapOK
  <1>3. /\ exec[c.item] \in Exec /\ exec'[c.item] \in Exec /\ ExecOK(exec[c.item])
        /\ RowStep(exec[c.item], exec'[c.item], c.item, G, H, S)
    BY <1>1 DEF StreamInv, Facts, TableOK, Forward, TableStep
  <1>4. exec[c.item].epoch <= exec'[c.item].epoch
    BY <1>3, RowAdvances
  <1> QED
    BY <1>1, <1>2, <1>3, <1>4, ExecIs

LEMMA OpKept ==
    ASSUME StreamInv, TypeOK', NEW G, NEW H, NEW S, Forward(G, H, S),
           NEW o \in Op, NEW c \in Lease \cup {None}, CapOK(c, exec),
           OpOK(o, c, work, exec, plan, member, declared)
    PROVE  OpOK(o, c, work', exec', plan', member', declared')
  <1>1. \A i \in Items :
           /\ exec[i] \in Exec /\ exec'[i] \in Exec /\ ExecOK(exec[i])
           /\ RowStep(exec[i], exec'[i], i, G, H, S)
           /\ WorkStep(work[i], work'[i], exec'[i])
    BY DEF StreamInv, Facts, TableOK, TypeOK, Forward, TableStep
  <1>2. \A i \in Items :
           /\ exec[i].state # "ABSENT" => exec'[i].state # "ABSENT"
           /\ exec[i].state \in TerminalStates => exec'[i] = exec[i]
           /\ exec[i].epoch <= exec'[i].epoch
           /\ exec'[i].state \in ActiveStates /\ exec'[i].epoch = exec[i].epoch
                => exec[i].state \in ActiveStates
    BY <1>1, RowAdvances
  <1>3. o.rows \subseteq Items
    BY DEF Op
  <1>4. c # None => c.item \in Items /\ c.epoch \in Nat
    BY LeaseIs
  <1>5. o.step \in {"project", "publish"} => \A j \in o.rows : work'[j].pub \in Visible
    BY <1>1, <1>3 DEF OpOK, WorkStep
  <1>6. o.step = "publish" => \A j \in o.rows : exec'[j].state # "ABSENT"
    BY <1>2, <1>3 DEF OpOK
  <1>7. ASSUME o.step = "closing"
        PROVE  plan'.sealed /\ plan'.export /\ MembersIn(member', declared')
    <2>1. plan.sealed /\ plan.export /\ MembersIn(member, declared)
      BY <1>7 DEF OpOK
    <2>2. plan.eos
      BY <2>1 DEF StreamInv, Facts, FinalizationIsLast
    <2>3. declared' = declared /\ plan'.sealed /\ plan'.export
      BY <2>1, <2>2 DEF Forward, FactsKept
    <2>4. 0..(declared - 1) \subseteq Windows
      BY BoundsAssumption DEF StreamInv, TypeOK, Windows
    <2>5. \A n \in Windows : member[n] # None => member'[n] = member[n]
      BY DEF Forward, FactsKept
    <2> QED
      BY <2>1, <2>3, <2>4, <2>5 DEF MembersIn
  <1>8. ASSUME o.step = "stored"
        PROVE  /\ c # None
               /\ exec'[c.item].epoch = c.epoch /\ exec'[c.item].state \in ActiveStates =>
                     /\ work'[c.item].evidence = None /\ work'[c.item].pending # None
                     /\ work'[c.item].pending.ev = o.ev
                     /\ work'[c.item].pending.epoch = c.epoch
    <2>1. c # None
      BY <1>8 DEF OpOK
    <2> SUFFICES ASSUME exec'[c.item].epoch = c.epoch, exec'[c.item].state \in ActiveStates
                 PROVE  /\ work'[c.item].evidence = None /\ work'[c.item].pending # None
                        /\ work'[c.item].pending.ev = o.ev
                        /\ work'[c.item].pending.epoch = c.epoch
      BY <2>1
    <2>2. c.item \in Items /\ c.epoch \in Nat
      BY <1>4, <2>1
    <2>3. c.epoch <= exec[c.item].epoch
      BY <2>1 DEF CapOK
    <2>4. exec[c.item].epoch = c.epoch
      BY <1>1, <1>2, <2>2, <2>3, ExecIs
    <2>5. exec[c.item].state \in ActiveStates
      BY <1>2, <2>2, <2>4
    <2>6. /\ work[c.item].evidence = None /\ work[c.item].pending # None
          /\ work[c.item].pending.ev = o.ev /\ work[c.item].pending.epoch = c.epoch
      BY <1>8, <2>4, <2>5 DEF OpOK
    <2>7. ~(work[c.item].pending.epoch < exec'[c.item].epoch)
      BY <2>2, <2>6
    <2> QED
      BY <1>1, <2>2, <2>6, <2>7 DEF WorkStep
  <1>9. ASSUME o.step = "succeeded"
        PROVE  /\ c # None
               /\ exec'[c.item].state = "SUCCEEDED" /\ exec'[c.item].result = o.ev
    <2>1. c # None /\ exec[c.item].state = "SUCCEEDED" /\ exec[c.item].result = o.ev
      BY <1>9 DEF OpOK
    <2> QED
      BY <1>2, <1>4, <2>1, StatesAre
  <1> QED
    BY <1>5, <1>6, <1>7, <1>8, <1>9 DEF OpOK

\* Process q is where it was, or where the invariant wants it.
Settled(q) ==
    \/ op'[q] = op[q] /\ cap'[q] = cap[q]
    \/ /\ CapOK(cap'[q], exec')
       /\ OpOK(op'[q], cap'[q], work', exec', plan', member', declared')

LEMMA Conclude ==
    ASSUME StreamInv, TypeOK', Facts', \A q \in Procs : Settled(q),
           NEW G \in SUBSET Items, NEW H \in SUBSET Items, NEW S \in SUBSET Items,
           AtMostOne(H), AtMostOne(S), Forward(G, H, S)
    PROVE  StepGoal
  <1>1. ASSUME NEW q \in Procs
        PROVE  /\ CapOK(cap'[q], exec')
               /\ OpOK(op'[q], cap'[q], work', exec', plan', member', declared')
    <2>1. CASE op'[q] = op[q] /\ cap'[q] = cap[q]
      <3>1. /\ op[q] \in Op /\ cap[q] \in Lease \cup {None}
            /\ CapOK(cap[q], exec)
            /\ OpOK(op[q], cap[q], work, exec, plan, member, declared)
        BY DEF StreamInv, TypeOK, ProcsOK
      <3>2. exec' \in [Items -> Exec]
        BY DEF TypeOK
      <3>3. CapOK(cap[q], exec')
        BY <3>1, <3>2, CapKept
      <3>4. OpOK(op[q], cap[q], work', exec', plan', member', declared')
        BY <3>1, OpKept
      <3> QED
        BY <2>1, <3>3, <3>4
    <2> QED
      BY <2>1 DEF Settled
  <1>2. ProcsOK'
    BY <1>1 DEF ProcsOK
  <1> QED
    BY <1>2 DEF StepGoal, StreamInv

\* A transaction that writes nothing of the ledgers.
LEMMA QuietStep ==
    ASSUME StreamInv, TypeOK', \A q \in Procs : Settled(q),
           UNCHANGED <<plan, declared, member, work, exec, outbox>>
    PROVE  StepGoal
  <1>1. Facts'
    <2>1. MembersAreEvidence' /\ OutboxOK' /\ FinalizationIsLast' /\ CausalOK'
      BY DEF StreamInv, Facts, MembersAreEvidence, OutboxOK, FinalizationIsLast, CausalOK
    <2> QED
      BY <2>1 DEF StreamInv, Facts
  <1>2. Forward({}, {}, {})
    BY DEF Forward, TableStep, RowStep, WorkStep, FactsKept
  <1> QED
    BY <1>1, <1>2, Conclude DEF AtMostOne

\* A transaction of the work scheduler: rows enter for visible work, are handed
\* out once the facts they build on are there, and are won with the result the
\* stream ledger expects.
LEMMA SchedulerStep ==
    ASSUME StreamInv, TypeOK', \A q \in Procs : Settled(q),
           UNCHANGED <<plan, declared, member, work, outbox>>,
           TableOK(exec)', NEW G \in SUBSET Items, NEW H \in SUBSET Items,
           NEW S \in SUBSET Items, AtMostOne(H), AtMostOne(S),
           TableStep(exec, exec', G, H, S),
           \A i \in G : work[i].pub \in Visible,
           \A i \in H \cap WorkItems : \A u \in Up(i) : work[u].evidence # None,
           \A i \in S : Agree(exec'[i], work[i])
    PROVE  StepGoal
  <1>1. \A i \in Items :
           /\ exec[i].state # "ABSENT" => exec'[i].state # "ABSENT"
           /\ exec[i].state \in TerminalStates => exec'[i] = exec[i]
           /\ exec'[i].state = "SUCCEEDED" => exec'[i] = exec[i] \/ i \in S
           /\ exec'[i].state # "ABSENT" => exec[i].state # "ABSENT" \/ i \in G
           /\ exec'[i].epoch > 0 => exec[i].epoch > 0 \/ i \in H
    <2>1. \A i \in Items :
             /\ exec[i] \in Exec /\ exec'[i] \in Exec /\ ExecOK(exec[i])
             /\ RowStep(exec[i], exec'[i], i, G, H, S)
      BY DEF StreamInv, Facts, TableOK, TypeOK, TableStep
    <2> QED
      BY <2>1, RowAdvances
  <1>2. \A i \in Items : Agree(exec'[i], work'[i])
    <2>1. ASSUME NEW i \in Items, i \notin S
          PROVE  Agree(exec'[i], work[i])
      BY <1>1, <2>1, StatesAre DEF StreamInv, Facts, Agree
    <2> QED
      BY <2>1
  <1>3. \A i \in Items : PublicationOK(i, exec'[i], work'[i], declared')
    BY <1>1 DEF StreamInv, Facts, PublicationOK
  <1>4. MembersAreEvidence' /\ OutboxOK'
    BY DEF StreamInv, Facts, MembersAreEvidence, OutboxOK
  <1>5. FinalizationIsLast'
    <2>1. exec'[Final].state # "ABSENT" =>
             exec[Final].state # "ABSENT" \/ work[Final].pub \in Visible
      BY <1>1, ItemsAre
    <2> QED
      BY <2>1 DEF StreamInv, Facts, FinalizationIsLast, Visible
  <1>6. CausalOK'
    BY <1>1, ItemsAre DEF StreamInv, Facts, CausalOK
  <1>7. Facts'
    BY <1>2, <1>3, <1>4, <1>5, <1>6 DEF Facts
  <1>8. Forward(G, H, S)
    BY DEF Forward, WorkStep, FactsKept
  <1> QED
    BY <1>7, <1>8, Conclude

LEMMA ExecStep ==
    ASSUME StreamInv, TypeOK', \A q \in Procs : Settled(q),
           UNCHANGED <<plan, declared, member, work, outbox>>,
           TableOK(exec)', NEW G \in SUBSET Items, NEW H \in SUBSET Items, AtMostOne(H),
           TableStep(exec, exec', G, H, {}),
           \A i \in G : work[i].pub \in Visible,
           \A i \in H \cap WorkItems : \A u \in Up(i) : work[u].evidence # None
    PROVE  StepGoal
  <1>1. /\ {} \in SUBSET Items /\ AtMostOne({})
        /\ \A i \in {} : Agree(exec'[i], work[i])
    BY DEF AtMostOne
  <1> QED
    BY <1>1, SchedulerStep

-----------------------------------------------------------------------------
(* Operations: where a process goes.                                       *)

LEMMA AtIs ==
    ASSUME NEW s \in Steps
    PROVE  At(s) \in Op /\ At(s).step = s
  BY BoundsAssumption DEF At, Op, NoIntents

LEMMA AtRowsIs ==
    ASSUME NEW s \in Steps, NEW R \in SUBSET Items
    PROVE  /\ [At(s) EXCEPT !.rows = R] \in Op
           /\ [At(s) EXCEPT !.rows = R].step = s /\ [At(s) EXCEPT !.rows = R].rows = R
  BY BoundsAssumption DEF At, Op, NoIntents

LEMMA AtCountIs ==
    ASSUME NEW s \in Steps, NEW k \in 0..NumWindows
    PROVE  [At(s) EXCEPT !.count = k] \in Op /\ [At(s) EXCEPT !.count = k].step = s
  <1>1. [At(s) EXCEPT !.count = k] =
           [step |-> s, rows |-> {}, intents |-> NoIntents, count |-> k, ev |-> None]
    BY DEF At
  <1> QED
    BY <1>1 DEF Op, NoIntents

LEMMA AtEvIs ==
    ASSUME NEW s \in Steps, NEW v \in Payloads
    PROVE  /\ [At(s) EXCEPT !.ev = v] \in Op
           /\ [At(s) EXCEPT !.ev = v].step = s /\ [At(s) EXCEPT !.ev = v].ev = v
  BY BoundsAssumption DEF At, Op, NoIntents

LEMMA AtIntentsIs ==
    ASSUME NEW s \in Steps, NEW t \in [Items -> Payloads \cup {None}]
    PROVE  [At(s) EXCEPT !.intents = t] \in Op /\ [At(s) EXCEPT !.intents = t].step = s
  BY BoundsAssumption DEF At, Op, NoIntents

\* The steps in which a process relies on nothing.
Carefree == Steps \ {"project", "publish", "closing", "stored", "succeeded"}

LEMMA CarefreeOK ==
    ASSUME NEW o, o.step \in Carefree, NEW c, NEW w, NEW e, NEW P, NEW m, NEW d
    PROVE  OpOK(o, c, w, e, P, m, d)
  BY DEF OpOK, Carefree

LEMMA GotoIs ==
    ASSUME TypeOK, NEW p \in Procs, NEW o \in Op, Goto(p, o)
    PROVE  /\ op' \in [Procs -> Op] /\ op'[p] = o
           /\ \A q \in Procs : q # p => op'[q] = op[q]
  BY DEF TypeOK, Goto

LEMMA DropIs ==
    ASSUME TypeOK, NEW p \in Procs, cap' = [cap EXCEPT ![p] = None]
    PROVE  /\ cap' \in [Procs -> Lease \cup {None}] /\ cap'[p] = None
           /\ \A q \in Procs : q # p => cap'[q] = cap[q]
  BY DEF TypeOK

\* A process that goes where it relies on nothing, keeping or dropping its
\* capability.
LEMMA CarefreeSettled ==
    ASSUME StreamInv, NEW p \in Procs, NEW o \in Op, o.step \in Carefree, Goto(p, o),
           UNCHANGED cap \/ cap' = [cap EXCEPT ![p] = None], UNCHANGED exec
    PROVE  /\ op' \in [Procs -> Op] /\ cap' \in [Procs -> Lease \cup {None}]
           /\ \A q \in Procs : Settled(q)
  <1>1. TypeOK
    BY DEF StreamInv
  <1>2. /\ op' \in [Procs -> Op] /\ op'[p] = o
        /\ \A q \in Procs : q # p => op'[q] = op[q]
    BY <1>1, GotoIs
  <1>3. /\ cap' \in [Procs -> Lease \cup {None}] /\ cap'[p] \in {None, cap[p]}
        /\ \A q \in Procs : q # p => cap'[q] = cap[q]
    BY <1>1, DropIs DEF TypeOK
  <1>4. CapOK(cap'[p], exec')
    BY <1>3 DEF CapOK, StreamInv, ProcsOK
  <1>5. OpOK(op'[p], cap'[p], work', exec', plan', member', declared')
    BY <1>2, CarefreeOK
  <1> QED
    BY <1>2, <1>3, <1>4, <1>5 DEF Settled

LEMMA QuietGoto ==
    ASSUME StreamInv, NEW p \in Procs, NEW o \in Op, o.step \in Carefree, Goto(p, o),
           UNCHANGED cap \/ cap' = [cap EXCEPT ![p] = None],
           UNCHANGED <<plan, declared, member, work, exec, outbox>>,
           owner' \in Procs \cup {None}, crashes' \in 0..MaxCrashes
    PROVE  StepGoal
  <1>1. /\ op' \in [Procs -> Op] /\ cap' \in [Procs -> Lease \cup {None}]
        /\ \A q \in Procs : Settled(q)
    BY CarefreeSettled
  <1>2. TypeOK'
    BY <1>1 DEF StreamInv, TypeOK
  <1> QED
    BY <1>1, <1>2, QuietStep

LEMMA TypesHold ==
    ASSUME StreamInv
    PROVE  /\ TypeOK /\ owner \in Procs \cup {None} /\ crashes \in 0..MaxCrashes
           /\ \A p \in Procs : /\ op[p] \in Op /\ op[p].rows \subseteq Items
                               /\ op[p].intents \in [Items -> Payloads \cup {None}]
                               /\ op[p].count \in 0..NumWindows
                               /\ op[p].ev \in Payloads \cup {None}
                               /\ cap[p] \in Lease \cup {None}
           /\ \A i \in Items : /\ work[i] \in Work /\ exec[i] \in Exec
                               /\ ExecOK(exec[i]) /\ Agree(exec[i], work[i])
                               /\ PublicationOK(i, exec[i], work[i], declared)
           /\ declared \in 0..NumWindows /\ declared \in Nat
  <1>1. TypeOK /\ Facts
    BY DEF StreamInv
  <1>2. \A p \in Procs : op[p] \in Op /\ cap[p] \in Lease \cup {None}
    BY <1>1 DEF TypeOK
  <1>3. \A p \in Procs : /\ op[p].rows \subseteq Items
                         /\ op[p].intents \in [Items -> Payloads \cup {None}]
                         /\ op[p].count \in 0..NumWindows
                         /\ op[p].ev \in Payloads \cup {None}
    BY <1>2 DEF Op
  <1>4. declared \in 0..NumWindows /\ declared \in Nat
    BY <1>1, BoundsAssumption DEF TypeOK
  <1> QED
    BY <1>1, <1>2, <1>3, <1>4 DEF TypeOK, Facts, TableOK

LEMMA StepNames ==
    /\ {"down", "idle", "admitted", "read", "sealing", "recover", "accept"}
          \subseteq Carefree
    /\ Carefree \subseteq Steps
    /\ {"project", "publish", "closing", "stored", "succeeded"} \subseteq Steps
  BY DEF Carefree, Steps

\* The rows of declared windows are items.
LEMMA RowsOfWindows ==
    ASSUME NEW a \in Nat, NEW b \in Int, b < NumWindows
    PROVE  /\ UNION {WindowItems(n) : n \in a..b} \subseteq WorkItems
           /\ \A i \in WorkItems : i \in UNION {WindowItems(n) : n \in a..b}
                 <=> a <= i[1] /\ i[1] <= b
  <1>1. a..b \subseteq Windows
    BY BoundsAssumption DEF Windows
  <1>2. \A n \in Windows : WindowItems(n) \subseteq WorkItems
    BY DEF WindowItems, WorkItems
  <1>3. \A i \in WorkItems : \A n : i \in WindowItems(n) <=> i[1] = n
    BY ItemsAre DEF WindowItems
  <1>4. \A i \in WorkItems : i[1] \in Nat
    BY ItemsAre
  <1> QED
    BY <1>1, <1>2, <1>3, <1>4

-----------------------------------------------------------------------------
(* Transactions that only read the ledgers.                                *)

LEMMA OpenOK ==
    ASSUME StreamInv, NEW p \in Procs, Open(p)
    PROVE  StepGoal
  BY TypesHold, AtIs, StepNames, QuietGoto DEF Open

LEMMA AdmitOK ==
    ASSUME StreamInv, NEW p \in Procs, Admit(p)
    PROVE  StepGoal
  <1>1. /\ [At("admitted") EXCEPT !.count = declared] \in Op
        /\ [At("admitted") EXCEPT !.count = declared].step \in Carefree
    BY TypesHold, AtCountIs, StepNames
  <1> QED
    BY <1>1, TypesHold, QuietGoto DEF Admit, ledger

LEMMA AppendRaisesOK ==
    ASSUME StreamInv, NEW p \in Procs, AppendRaises(p)
    PROVE  StepGoal
  BY TypesHold, AtIs, StepNames, QuietGoto DEF AppendRaises, Done, ledger

LEMMA ReplayOK ==
    ASSUME StreamInv, NEW p \in Procs, Replay(p)
    PROVE  StepGoal
  <1> DEFINE R == UNION {WindowItems(n) : n \in 0..(declared - 1)}
             o == [At("read") EXCEPT !.rows = R]
  <1>1. R \in SUBSET Items
    <2>1. declared - 1 \in Int /\ declared - 1 < NumWindows
      BY TypesHold, BoundsAssumption
    <2> QED
      BY <2>1, RowsOfWindows, ItemsAre
  <1> HIDE DEF R
  <1>2. o \in Op /\ o.step \in Carefree
    BY <1>1, AtRowsIs, StepNames
  <1>3. Goto(p, o) /\ UNCHANGED <<ledger, cap, crashes>>
    BY DEF Replay, R
  <1> HIDE DEF o
  <1> QED
    BY <1>2, <1>3, TypesHold, QuietGoto DEF ledger

LEMMA ReadRowsOK ==
    ASSUME StreamInv, NEW p \in Procs, ReadRows(p)
    PROVE  StepGoal
  <1> DEFINE R == {i \in op[p].rows : work[i].pub = "PENDING"}
             o == [At("project") EXCEPT !.rows = R]
  <1>1. R \in SUBSET Items
    BY TypesHold
  <1>2. UNCHANGED <<ledger, cap, crashes>>
    BY DEF ReadRows
  <1>3. CASE R = {}
    <2>1. Goto(p, At("idle"))
      BY <1>3 DEF ReadRows
    <2> QED
      BY <1>2, <2>1, TypesHold, AtIs, StepNames, QuietGoto DEF ledger
  <1>4. CASE R # {}
    <2>1. Goto(p, o)
      BY <1>4 DEF ReadRows
    <2>2. \A j \in R : work[j].pub \in Visible
      BY DEF Visible
    <2> HIDE DEF R
    <2>3. o \in Op /\ o.step = "project" /\ o.rows = R
      BY <1>1, AtRowsIs, StepNames
    <2> HIDE DEF o
    <2>4. /\ op' \in [Procs -> Op] /\ op'[p] = o
          /\ \A q \in Procs : q # p => op'[q] = op[q]
      BY <2>1, <2>3, TypesHold, GotoIs
    <2>5. TypeOK'
      BY <1>2, <2>4, TypesHold DEF TypeOK, ledger
    <2>6. OpOK(op'[p], cap'[p], work', exec', plan', member', declared')
      BY <1>2, <2>2, <2>3, <2>4 DEF OpOK, ledger
    <2>7. CapOK(cap'[p], exec')
      BY <1>2 DEF StreamInv, ProcsOK, ledger
    <2>8. \A q \in Procs : Settled(q)
      BY <1>2, <2>4, <2>6, <2>7 DEF Settled
    <2> QED
      BY <1>2, <2>5, <2>8, QuietStep DEF ledger
  <1> QED
    BY <1>3, <1>4

LEMMA SealReadOK ==
    ASSUME StreamInv, NEW p \in Procs, SealRead(p)
    PROVE  StepGoal
  <1>1. /\ [At("sealing") EXCEPT !.count = declared] \in Op
        /\ [At("sealing") EXCEPT !.count = declared].step \in Carefree
    BY TypesHold, AtCountIs, StepNames
  <1> QED
    BY <1>1, TypesHold, QuietGoto DEF SealRead, ledger

LEMMA GateReadOK ==
    ASSUME StreamInv, NEW p \in Procs, GateRead(p)
    PROVE  StepGoal
  <1>1. UNCHANGED <<ledger, cap, crashes>> /\ Goto(p, At("closing"))
    BY DEF GateRead
  <1>2. plan.sealed /\ plan.export /\ MembersIn(member, declared)
    BY DEF GateRead, GateMembers, MembersIn
  <1>3. At("closing") \in Op /\ At("closing").step = "closing"
    BY AtIs, StepNames
  <1>4. /\ op' \in [Procs -> Op] /\ op'[p] = At("closing")
        /\ \A q \in Procs : q # p => op'[q] = op[q]
    BY <1>1, <1>3, TypesHold, GotoIs
  <1>5. TypeOK'
    BY <1>1, <1>4, TypesHold DEF TypeOK, ledger
  <1>6. OpOK(op'[p], cap'[p], work', exec', plan', member', declared')
    BY <1>1, <1>2, <1>3, <1>4 DEF OpOK, ledger
  <1>7. CapOK(cap'[p], exec')
    BY <1>1 DEF StreamInv, ProcsOK, ledger
  <1>8. \A q \in Procs : Settled(q)
    BY <1>1, <1>4, <1>6, <1>7 DEF Settled
  <1> QED
    BY <1>1, <1>5, <1>8, QuietStep DEF ledger

LEMMA CompleteRaisesOK ==
    ASSUME StreamInv, NEW p \in Procs, CompleteRaises(p)
    PROVE  StepGoal
  BY TypesHold, AtIs, StepNames, QuietGoto DEF CompleteRaises, Done, ledger

LEMMA RecoverReadOK ==
    ASSUME StreamInv, NEW p \in Procs, RecoverRead(p)
    PROVE  StepGoal
  <1> DEFINE t == [i \in Items |-> IF work[i].pending = None THEN None
                                   ELSE work[i].pending.ev]
             o == [At("accept") EXCEPT !.intents = t]
  <1>1. Goto(p, o) /\ UNCHANGED <<ledger, cap, crashes>>
    BY DEF RecoverRead
  <1>2. \A i \in Items : work[i].pending # None => work[i].pending.ev \in Payloads
    BY TypesHold DEF Work, Intent
  <1>3. t \in [Items -> Payloads \cup {None}]
    BY <1>2
  <1> HIDE DEF t
  <1>4. o \in Op /\ o.step \in Carefree
    BY <1>3, AtIntentsIs, StepNames
  <1> HIDE DEF o
  <1> QED
    BY <1>1, <1>4, TypesHold, QuietGoto DEF ledger

LEMMA RecoverRowsOK ==
    ASSUME StreamInv, NEW p \in Procs, RecoverRows(p)
    PROVE  StepGoal
  <1>1. /\ [At("read") EXCEPT !.rows = Items] \in Op
        /\ [At("read") EXCEPT !.rows = Items].step \in Carefree
    BY AtRowsIs, StepNames
  <1> QED
    BY <1>1, TypesHold, QuietGoto DEF RecoverRows, ledger

LEMMA RecoverRaisesOK ==
    ASSUME StreamInv, NEW p \in Procs, NEW i \in Items, RecoverRaises(p, i)
    PROVE  StepGoal
  BY TypesHold, AtIs, StepNames, QuietGoto DEF RecoverRaises, Done, ledger

LEMMA CrashOK ==
    ASSUME StreamInv, NEW p \in Procs, Crash(p)
    PROVE  StepGoal
  <1>1. crashes' \in 0..MaxCrashes
    BY TypesHold, BoundsAssumption DEF Crash
  <1> QED
    BY <1>1, TypesHold, AtIs, StepNames, QuietGoto DEF Crash, ledger

LEMMA AbandonOK ==
    ASSUME StreamInv, NEW p \in Procs, Abandon(p)
    PROVE  StepGoal
  <1>1. cap' = [cap EXCEPT ![p] = None] /\ UNCHANGED <<ledger, op, crashes>>
    BY DEF Abandon
  <1>2. op[p].step = "idle"
    BY DEF Abandon, Idle
  <1>3. /\ cap' \in [Procs -> Lease \cup {None}] /\ cap'[p] = None
        /\ \A q \in Procs : q # p => cap'[q] = cap[q]
    BY <1>1, TypesHold, DropIs
  <1>4. TypeOK'
    BY <1>1, <1>3, TypesHold DEF TypeOK, ledger
  <1>5. /\ CapOK(cap'[p], exec')
        /\ OpOK(op'[p], cap'[p], work', exec', plan', member', declared')
    BY <1>1, <1>2, <1>3, CarefreeOK, StepNames DEF CapOK
  <1>6. \A q \in Procs : Settled(q)
    BY <1>1, <1>3, <1>5 DEF Settled
  <1> QED
    BY <1>1, <1>4, <1>6, QuietStep DEF ledger

-----------------------------------------------------------------------------
(* Transactions of the work scheduler.                                     *)

\* One begun row moves on: what the others waited for has not come undone.
LEMMA OneRow ==
    ASSUME StreamInv, NEW i \in Items, NEW y \in Exec, ExecOK(y),
           exec[i].state \in Begun, y.state \in Begun \cup TerminalStates,
           NEW H \in SUBSET Items, NEW S \in SUBSET Items,
           RowStep(exec[i], y, i, {}, H, S),
           NEW f, f = Put(exec, i, y)
    PROVE  /\ f \in [Items -> Exec] /\ TableStep(exec, f, {}, H, S)
           /\ f[i] = y /\ \A j \in Items : j # i => f[j] = exec[j]
           /\ \A j \in Items : ExecOK(f[j])
           /\ \A j \in WorkItems : f[j].state \in Begun => UpstreamEnded(f, j)
           /\ f[Final].state # "PLANNED" /\ FinalUnblocked(f)
           /\ y.state \notin TerminalStates \/ (\E n \in Windows : i = Reduction(n))
                => TableOK(f)
  <1>1. TypeOK /\ TableOK(exec) /\ exec \in [Items -> Exec]
    BY DEF StreamInv, Facts, TableOK
  <1>2. /\ f \in [Items -> Exec] /\ f[i] = y
        /\ \A j \in Items : j # i => f[j] = exec[j]
    BY <1>1, PutIs
  <1>3. TableStep(exec, f, {}, H, S)
    BY <1>2 DEF TableStep, RowStep
  <1>4. \A j \in Items : ExecOK(f[j])
    BY <1>1, <1>2 DEF TableOK
  <1>5. exec[i] \in Exec /\ ExecOK(exec[i])
    BY <1>1 DEF TableOK
  <1>6. exec[i].state \in TerminalStates => y = exec[i]
    BY <1>5, RowAdvances
  <1>7. \A j \in Items : Terminal(exec, j) => Terminal(f, j)
    BY <1>2, <1>6 DEF Terminal
  <1>8. \A j \in WorkItems : UpstreamEnded(exec, j) => UpstreamEnded(f, j)
    BY <1>7, UpIs, ItemsAre DEF UpstreamEnded
  <1>9. ASSUME NEW j \in WorkItems, f[j].state \in Begun
        PROVE  UpstreamEnded(f, j)
    <2>1. exec[j].state \in Begun
      BY <1>2, <1>9, ItemsAre
    <2> QED
      BY <1>1, <1>8, <2>1 DEF TableOK, ReadyOK
  <1>10. y.state # "PLANNED" /\ f[Final].state # "PLANNED"
    <2>1. y.state # "PLANNED"
      BY StatesAre DEF Begun
    <2> QED
      BY <1>1, <1>2, <2>1, ItemsAre DEF TableOK
  <1>11. ASSUME y.state \notin TerminalStates \/ (\E n \in Windows : i = Reduction(n)),
                NEW j \in WorkItems, f[j].state = "PLANNED"
         PROVE  ~UpstreamEnded(f, j)
    <2>1. exec[j].state = "PLANNED"
      BY <1>2, <1>10, <1>11, ItemsAre
    <2>2. PICK u \in Up(j) : ~Terminal(exec, u)
      BY <1>1, <2>1 DEF TableOK, ReadyOK, UpstreamEnded
    <2>3. u \in Items /\ \A n \in Windows : u # Reduction(n)
      BY <2>2, UpIs, ItemsAre
    <2>4. ~Terminal(f, u)
      BY <1>2, <1>11, <2>2, <2>3 DEF Terminal
    <2> QED
      BY <2>2, <2>4 DEF UpstreamEnded
  <1> QED
    BY <1>2, <1>3, <1>4, <1>9, <1>10, <1>11 DEF TableOK, ReadyOK, FinalUnblocked

\* The same transaction, with the process that asked for it.
LEMMA OneRowStep ==
    ASSUME StreamInv, NEW i \in Items, NEW y \in Exec, ExecOK(y),
           exec[i].state \in Begun, y.state \in Begun,
           NEW H \in SUBSET Items, AtMostOne(H), RowStep(exec[i], y, i, {}, H, {}),
           \A j \in H \cap WorkItems : \A u \in Up(j) : work[u].evidence # None,
           exec' = Put(exec, i, y), y.state \notin TerminalStates,
           cap' \in [Procs -> Lease \cup {None}], \A q \in Procs : Settled(q),
           UNCHANGED <<plan, declared, member, work, outbox, owner, op, crashes>>
    PROVE  StepGoal
  <1>1. TableOK(exec') /\ TableStep(exec, exec', {}, H, {})
    <2>1. {} \in SUBSET Items
      OBVIOUS
    <2> QED
      BY <2>1, OneRow
  <1>2. TypeOK'
    BY <1>1, TypesHold DEF TypeOK, TableOK
  <1>3. /\ {} \in SUBSET Items /\ TableOK(exec)'
        /\ \A j \in {} : work[j].pub \in Visible
    BY <1>1
  <1> QED
    BY <1>1, <1>2, <1>3, ExecStep

\* What a capability's fence says of its row.
LEMMA LiveIs ==
    ASSUME StreamInv, NEW p \in Procs, cap[p] # None, Live(p)
    PROVE  /\ cap[p] \in Lease /\ cap[p].item \in Items
           /\ exec[cap[p].item] \in Exec /\ ExecOK(exec[cap[p].item])
           /\ exec[cap[p].item].state \in ActiveStates
           /\ exec[cap[p].item].state \in Begun
           /\ exec[cap[p].item].epoch = cap[p].epoch
           /\ exec[cap[p].item].renewal = cap[p].renewal
  <1>1. cap[p] \in Lease
    BY TypesHold
  <1>2. cap[p].item \in Items
    BY <1>1, LeaseIs
  <1> QED
    BY <1>1, <1>2, TypesHold DEF Live, Begun

\* A worker between operations relies on its capability alone.
LEMMA IdleSettled ==
    ASSUME StreamInv, NEW p \in Procs, Idle(p), UNCHANGED op,
           CapOK(cap'[p], exec'), \A q \in Procs : q # p => cap'[q] = cap[q]
    PROVE  \A q \in Procs : Settled(q)
  <1>1. OpOK(op'[p], cap'[p], work', exec', plan', member', declared')
    BY CarefreeOK, StepNames DEF Idle
  <1> QED
    BY <1>1 DEF Settled

LEMMA ClaimOK ==
    ASSUME StreamInv, NEW p \in Procs, NEW i \in Items, NEW b \in BOOLEAN, Claim(p, i, b)
    PROVE  StepGoal
  <1> DEFINE x == exec[i]
             s == IF b THEN "RUNNING" ELSE "LEASED"
             n == exec[i].epoch + 1
             y == Row(s, n, WorkerOf[p], 0, x.result)
             c == [item |-> i, epoch |-> n, renewal |-> 0]
  <1>1. /\ exec \in [Items -> Exec] /\ x \in Exec /\ ExecOK(x) /\ x.state = "READY"
        /\ Idle(p) /\ FactsPresent(i)
        /\ UNCHANGED <<plan, declared, member, work, outbox, owner, op, crashes>>
    BY TypesHold DEF Claim, TypeOK
  <1>2. /\ x.epoch \in Nat /\ n \in 1..MaxAttempts /\ n = x.epoch + 1 /\ n > 0
        /\ 0 \in 0..MaxRenewals
    <2>1. x.epoch \in Nat /\ x.epoch < MaxAttempts
      BY <1>1, ExecIs DEF ExecOK
    <2> QED
      BY <2>1, BoundsAssumption
  <1>3. s \in ActiveStates /\ s \in ExecStates
    BY StatesAre DEF StateSet
  <1>4. exec' = Put(exec, i, y)
    <2>1. exec' = Handing(exec, i, s, n, WorkerOf[p], 0)
      BY <1>1 DEF Claim, Handing
    <2> HIDE DEF s, n
    <2> QED
      BY <1>1, <2>1, HandingIs
  <1>5. cap' = [cap EXCEPT ![p] = c]
    BY DEF Claim
  <1> HIDE DEF s, n
  <1>6. y \in Exec /\ y.state = s /\ y.epoch = n
    <2>1. n \in 0..MaxAttempts /\ WorkerOf[p] \in WorkerIds
      BY <1>2 DEF WorkerIds
    <2>2. x.result \in Payloads \cup {None}
      BY <1>1, ExecIs
    <2> QED
      BY <1>2, <1>3, <2>1, <2>2, RowIs
  <1>7. c \in Lease /\ c.item = i /\ c.epoch = n
    BY <1>2 DEF Lease
  <1> HIDE DEF y, c
  <1>8. ExecOK(y) /\ Handed(x, y)
    BY <1>1, <1>2, <1>3, <1>6, StatesAre DEF ExecOK, Handed
  <1>9. /\ cap' \in [Procs -> Lease \cup {None}] /\ cap'[p] = c
        /\ \A q \in Procs : q # p => cap'[q] = cap[q]
    BY <1>5, <1>7, TypesHold DEF TypeOK
  <1>10. CapOK(cap'[p], exec')
    <2>1. exec'[i] = y
      BY <1>1, <1>4, <1>6, PutIs
    <2> QED
      BY <1>2, <1>6, <1>7, <1>9, <2>1 DEF CapOK
  <1>11. \A q \in Procs : Settled(q)
    BY <1>1, <1>9, <1>10, IdleSettled
  <1>12. \A j \in {i} \cap WorkItems : \A u \in Up(j) : work[u].evidence # None
    BY <1>1, UpIs DEF FactsPresent
  <1>13. RowStep(x, y, i, {}, {i}, {}) /\ x.state \in Begun /\ y.state \in Begun
         /\ y.state \notin TerminalStates /\ AtMostOne({i})
    BY <1>1, <1>3, <1>6, <1>8, StatesAre DEF RowStep, Begun, AtMostOne
  <1> QED
    BY <1>1, <1>4, <1>6, <1>8, <1>9, <1>11, <1>12, <1>13, OneRowStep

LEMMA ResumeOwnedActiveOK ==
    ASSUME StreamInv, NEW p \in Procs, NEW i \in Items, NEW b \in BOOLEAN,
           ResumeOwnedActive(p, i, b)
    PROVE  StepGoal
  <1> DEFINE x == exec[i]
             r == exec[i].renewal + (IF b THEN 1 ELSE 0)
             y == Row("RUNNING", x.epoch, x.by, r, x.result)
             c == [item |-> i, epoch |-> x.epoch, renewal |-> r]
  <1>1. /\ exec \in [Items -> Exec] /\ x \in Exec /\ ExecOK(x) /\ x.state \in ActiveStates
        /\ Idle(p)
        /\ UNCHANGED <<plan, declared, member, work, outbox, owner, op, crashes>>
    BY TypesHold DEF ResumeOwnedActive, TypeOK
  <1>2. r \in 0..MaxRenewals
    <2>1. x.renewal \in Nat
      BY <1>1, ExecIs
    <2>2. r <= MaxRenewals
      BY DEF ResumeOwnedActive
    <2> QED
      BY <2>1, <2>2, BoundsAssumption
  <1>3. x.epoch \in 1..MaxAttempts /\ x.epoch \in 0..MaxAttempts /\ x.epoch \in Nat
    BY <1>1, ExecIs, BoundsAssumption DEF ExecOK
  <1>4. exec' = Put(exec, i, y)
    <2>1. exec' = Resuming(exec, i, "RUNNING", r)
      BY DEF ResumeOwnedActive, Resuming
    <2> HIDE DEF r
    <2> QED
      BY <1>1, <2>1, ResumingIs
  <1>5. cap' = [cap EXCEPT ![p] = c]
    BY DEF ResumeOwnedActive
  <1> HIDE DEF r
  <1>6. y \in Exec /\ y.state = "RUNNING" /\ y.epoch = x.epoch
    <2>1. /\ x.result \in Payloads \cup {None} /\ x.by \in WorkerIds \cup {None}
          /\ "RUNNING" \in ExecStates
      BY <1>1, ExecIs, StatesAre DEF StateSet
    <2> QED
      BY <1>2, <1>3, <2>1, RowIs
  <1>7. c \in Lease /\ c.item = i /\ c.epoch = x.epoch
    BY <1>2, <1>3 DEF Lease
  <1> HIDE DEF y, c
  <1>8. ExecOK(y) /\ Served(x, y)
    BY <1>1, <1>3, <1>6, StatesAre DEF ExecOK, Served
  <1>9. /\ cap' \in [Procs -> Lease \cup {None}] /\ cap'[p] = c
        /\ \A q \in Procs : q # p => cap'[q] = cap[q]
    BY <1>5, <1>7, TypesHold DEF TypeOK
  <1>10. CapOK(cap'[p], exec')
    <2>1. exec'[i] = y
      BY <1>1, <1>4, <1>6, PutIs
    <2> QED
      BY <1>3, <1>6, <1>7, <1>9, <2>1 DEF CapOK
  <1>11. \A q \in Procs : Settled(q)
    BY <1>1, <1>9, <1>10, IdleSettled
  <1>12. RowStep(x, y, i, {}, {}, {}) /\ x.state \in Begun /\ y.state \in Begun
         /\ y.state \notin TerminalStates /\ AtMostOne({})
    BY <1>1, <1>6, <1>8, StatesAre DEF RowStep, Begun, AtMostOne
  <1> QED
    BY <1>1, <1>4, <1>6, <1>8, <1>9, <1>11, <1>12, OneRowStep

\* A row of an active lease after one of its worker's calls.
StillOpen(x, y) ==
    /\ x.state \in ActiveStates /\ y.epoch = x.epoch
    /\ y.state \in ActiveStates \/ (y.state = "RETRY_WAIT" /\ y.epoch < MaxAttempts)

LEMMA ServedRow ==
    ASSUME NEW x \in Exec, ExecOK(x), x.state \in ActiveStates,
           NEW y \in Exec, y.epoch = x.epoch,
           \/ y.state \in ActiveStates \/ y.state = "FAILED_PERMANENT"
           \/ y.state \in {"READY", "RETRY_WAIT"} /\ y.epoch < MaxAttempts
    PROVE  /\ ExecOK(y) /\ Served(x, y)
           /\ x.state \in Begun /\ y.state \in Begun \cup TerminalStates
           /\ y.state # "FAILED_PERMANENT" =>
                 y.state \in Begun /\ y.state \notin TerminalStates
  <1>1. ExecOK(y)
    BY StatesAre DEF ExecOK
  <1>2. Served(x, y)
    BY StatesAre DEF Served
  <1>3. /\ x.state \in Begun /\ y.state \in Begun \cup TerminalStates
        /\ y.state # "FAILED_PERMANENT" =>
              y.state \in Begun /\ y.state \notin TerminalStates
    BY StatesAre DEF Begun
  <1> QED
    BY <1>1, <1>2, <1>3

\* A call that serves one active row.
LEMMA ServedStep ==
    ASSUME StreamInv, NEW i \in Items, NEW y \in Exec, StillOpen(exec[i], y),
           exec' = Put(exec, i, y),
           cap' \in [Procs -> Lease \cup {None}], \A q \in Procs : Settled(q),
           UNCHANGED <<plan, declared, member, work, outbox, owner, op, crashes>>
    PROVE  StepGoal
  <1>1. exec[i] \in Exec /\ ExecOK(exec[i])
    BY TypesHold
  <1>2. y.state # "FAILED_PERMANENT"
    BY StatesAre DEF StillOpen
  <1>3. /\ ExecOK(y) /\ Served(exec[i], y)
        /\ exec[i].state \in Begun /\ y.state \in Begun /\ y.state \notin TerminalStates
    BY <1>1, <1>2, ServedRow DEF StillOpen
  <1>4. RowStep(exec[i], y, i, {}, {}, {}) /\ AtMostOne({}) /\ {} \in SUBSET Items
    BY <1>3 DEF RowStep, AtMostOne
  <1> QED
    BY <1>3, <1>4, OneRowStep

LEMMA StartOK ==
    ASSUME StreamInv, NEW p \in Procs, Start(p)
    PROVE  StepGoal
  <1>0. PICK i \in Items : i = cap[p].item
    BY LiveIs DEF Start
  <1> DEFINE x == exec[i]
             y == Row("RUNNING", x.epoch, x.by, x.renewal, x.result)
  <1>1. /\ x \in Exec /\ x.state \in ActiveStates
        /\ exec \in [Items -> Exec]
    BY <1>0, LiveIs, TypesHold DEF Start, TypeOK
  <1>2. UNCHANGED <<plan, declared, member, work, outbox, owner, op, cap, crashes>>
    BY DEF Start
  <1>3. exec' = Moving(exec, i, "RUNNING")
    BY <1>0 DEF Start, Moving
  <1>4. exec' = Put(exec, i, y)
    BY <1>1, <1>3, MovingIs
  <1>5. y \in Exec /\ y.epoch = x.epoch /\ y.state \in ActiveStates
    <2>1. "RUNNING" \in ExecStates /\ "RUNNING" \in ActiveStates
      BY StatesAre DEF StateSet
    <2> QED
      BY <1>1, <2>1, ExecIs, RowIs
  <1> HIDE DEF y
  <1>6. cap' \in [Procs -> Lease \cup {None}] /\ \A q \in Procs : Settled(q)
    BY <1>2, TypesHold DEF TypeOK, Settled
  <1>13. StillOpen(x, y)
    BY <1>1, <1>5 DEF StillOpen
  <1> QED
    BY <1>1, <1>2, <1>4, <1>5, <1>6, <1>13, ServedStep

LEMMA HeartbeatOK ==
    ASSUME StreamInv, NEW p \in Procs, Heartbeat(p)
    PROVE  StepGoal
  <1>0. PICK c \in Lease, i \in Items : c = cap[p] /\ i = c.item
    BY LiveIs DEF Heartbeat
  <1> DEFINE x == exec[i]
             r == x.renewal + 1
             k == c.renewal + 1
             y == Row(x.state, x.epoch, x.by, r, x.result)
             d == [item |-> c.item, epoch |-> c.epoch, renewal |-> k]
  <1>1. /\ x \in Exec /\ x.state \in ActiveStates
        /\ exec \in [Items -> Exec] /\ x.epoch = c.epoch /\ x.renewal = c.renewal
    BY <1>0, LiveIs, TypesHold DEF Heartbeat, TypeOK
  <1>2. /\ UNCHANGED <<plan, declared, member, work, outbox, owner, op, crashes>>
        /\ Idle(p) /\ c.renewal < MaxRenewals
    BY <1>0 DEF Heartbeat
  <1>3. r \in 0..MaxRenewals /\ k \in 0..MaxRenewals
    BY <1>1, <1>2, LeaseIs, BoundsAssumption
  <1>4. exec' = Renewing(exec, i, r)
    BY <1>0 DEF Heartbeat, Renewing
  <1>5. cap' = [cap EXCEPT ![p].renewal = k]
    BY <1>0 DEF Heartbeat
  <1> HIDE DEF r, k
  <1>6. cap' = [cap EXCEPT ![p] = d]
    <2>1. cap \in [Procs -> Lease \cup {None}]
      BY TypesHold DEF TypeOK
    <2>2. [c EXCEPT !.renewal = k] = d
      BY <1>1 DEF Lease
    <2>3. cap' = [cap EXCEPT ![p] = [c EXCEPT !.renewal = k]]
      BY <1>0, <1>5, <2>1
    <2> QED
      BY <2>2, <2>3
  <1>7. d \in Lease /\ d.item = i /\ d.epoch = c.epoch
    BY <1>0, <1>1, <1>3, LeaseIs DEF Lease
  <1> HIDE DEF d
  <1>8. /\ cap' \in [Procs -> Lease \cup {None}] /\ cap'[p] = d
        /\ \A q \in Procs : q # p => cap'[q] = cap[q]
    BY <1>6, <1>7, TypesHold DEF TypeOK
  <1>9. exec' = Put(exec, i, y)
    BY <1>1, <1>4, RenewingIs
  <1>10. y \in Exec /\ y.epoch = x.epoch /\ y.state = x.state
    BY <1>1, <1>3, ExecIs, RowIs
  <1> HIDE DEF y
  <1>11. CapOK(cap'[p], exec')
    <2>1. exec'[i] = y
      BY <1>1, <1>9, <1>10, PutIs
    <2>2. x.epoch \in Nat
      BY <1>1, ExecIs
    <2> QED
      BY <1>1, <1>7, <1>8, <1>10, <2>1, <2>2 DEF CapOK
  <1>12. \A q \in Procs : Settled(q)
    BY <1>2, <1>8, <1>11, IdleSettled
  <1>13. StillOpen(x, y)
    BY <1>1, <1>10 DEF StillOpen
  <1> QED
    BY <1>1, <1>2, <1>8, <1>9, <1>10, <1>12, <1>13, ServedStep

LEMMA FailRetryableOK ==
    ASSUME StreamInv, NEW p \in Procs, FailRetryable(p)
    PROVE  StepGoal
  <1>0. PICK i \in Items : i = cap[p].item
    BY LiveIs DEF FailRetryable
  <1> DEFINE x == exec[i]
             y == Row("RETRY_WAIT", x.epoch, None, x.renewal, x.result)
  <1>1. /\ x \in Exec /\ x.state \in ActiveStates
        /\ exec \in [Items -> Exec]
    BY <1>0, LiveIs, TypesHold DEF FailRetryable, TypeOK
  <1>2. /\ UNCHANGED <<plan, declared, member, work, outbox, owner, op, crashes>>
        /\ Idle(p) /\ cap' = [cap EXCEPT ![p] = None] /\ x.epoch < MaxAttempts
    BY <1>0 DEF FailRetryable, AttemptsRemain
  <1>3. exec' = Releasing(exec, i, "RETRY_WAIT", None)
    BY <1>0 DEF FailRetryable, Releasing
  <1>4. exec' = Put(exec, i, y)
    BY <1>1, <1>3, ReleasingIs
  <1>5. y \in Exec /\ y.epoch = x.epoch /\ y.state = "RETRY_WAIT"
    <2>1. "RETRY_WAIT" \in ExecStates
      BY StatesAre DEF StateSet
    <2> QED
      BY <1>1, <2>1, ExecIs, RowIs
  <1> HIDE DEF y
  <1>6. /\ cap' \in [Procs -> Lease \cup {None}] /\ cap'[p] = None
        /\ \A q \in Procs : q # p => cap'[q] = cap[q]
    BY <1>2, TypesHold, DropIs
  <1>7. \A q \in Procs : Settled(q)
    BY <1>2, <1>6, IdleSettled DEF CapOK
  <1>13. StillOpen(x, y)
    BY <1>1, <1>2, <1>5 DEF StillOpen
  <1> QED
    BY <1>1, <1>2, <1>4, <1>5, <1>6, <1>7, <1>13, ServedStep

LEMMA RetryWakesOK ==
    ASSUME StreamInv, NEW i \in Items, RetryWakes(i)
    PROVE  StepGoal
  <1> DEFINE x == exec[i]
             y == Row("READY", x.epoch, x.by, x.renewal, x.result)
  <1>1. /\ x \in Exec /\ ExecOK(x) /\ x.state = "RETRY_WAIT" /\ exec \in [Items -> Exec]
        /\ UNCHANGED <<plan, declared, member, work, outbox, owner, op, cap, crashes>>
    BY TypesHold DEF RetryWakes, TypeOK
  <1>2. exec' = Moving(exec, i, "READY")
    BY DEF RetryWakes, Moving
  <1>3. exec' = Put(exec, i, y)
    BY <1>1, <1>2, MovingIs
  <1>4. y \in Exec /\ y.state = "READY" /\ y.epoch = x.epoch
    <2>1. "READY" \in ExecStates
      BY StatesAre DEF StateSet
    <2> QED
      BY <1>1, <2>1, ExecIs, RowIs
  <1> HIDE DEF y
  <1>5. ExecOK(y) /\ Woken(x, y)
    BY <1>1, <1>4, StatesAre DEF ExecOK, Woken
  <1>6. /\ RowStep(x, y, i, {}, {}, {}) /\ AtMostOne({}) /\ {} \in SUBSET Items
        /\ x.state \in Begun /\ y.state \in Begun /\ y.state \notin TerminalStates
    BY <1>1, <1>4, <1>5, StatesAre DEF RowStep, AtMostOne, Begun
  <1>7. cap' \in [Procs -> Lease \cup {None}] /\ \A q \in Procs : Settled(q)
    BY <1>1, TypesHold DEF TypeOK, Settled
  <1> QED
    BY <1>1, <1>3, <1>4, <1>5, <1>6, <1>7, OneRowStep

LEMMA LeaseLapsesOK ==
    ASSUME StreamInv, NEW i \in Items, LeaseLapses(i)
    PROVE  StepGoal
  <1> DEFINE x == exec[i]
             s == IF AttemptsRemain(i) THEN "READY" ELSE "FAILED_PERMANENT"
             y == Row(s, x.epoch, None, x.renewal, x.result)
             g == Put(exec, i, y)
  <1>1. /\ x \in Exec /\ ExecOK(x) /\ x.state \in ActiveStates /\ exec \in [Items -> Exec]
        /\ UNCHANGED <<plan, declared, member, work, outbox, owner, op, cap, crashes>>
    BY TypesHold DEF LeaseLapses, TypeOK
  <1>2. exec' = Settle(Lapsing(exec, i, None, s))
    BY DEF LeaseLapses, Lapsing
  <1>3. \/ s = "READY" /\ x.epoch < MaxAttempts
        \/ s = "FAILED_PERMANENT"
    BY DEF AttemptsRemain
  <1> HIDE DEF s
  <1>4. exec' = Settle(g)
    BY <1>1, <1>2, LapsingIs
  <1>5. y \in Exec /\ y.state = s /\ y.epoch = x.epoch
    <2>1. s \in ExecStates
      BY <1>3, StatesAre DEF StateSet
    <2> QED
      BY <1>1, <2>1, ExecIs, RowIs
  <1> HIDE DEF y
  <1>6. /\ ExecOK(y) /\ Served(x, y)
        /\ x.state \in Begun /\ y.state \in Begun \cup TerminalStates
    BY <1>1, <1>3, <1>5, ServedRow
  <1>7. RowStep(x, y, i, {}, {}, {}) /\ AtMostOne({}) /\ {} \in SUBSET Items
    BY <1>6 DEF RowStep, AtMostOne
  <1>8. /\ g \in [Items -> Exec] /\ TableStep(exec, g, {}, {}, {})
        /\ \A j \in Items : ExecOK(g[j])
        /\ \A j \in WorkItems : g[j].state \in Begun => UpstreamEnded(g, j)
        /\ FinalUnblocked(g)
    BY <1>5, <1>6, <1>7, OneRow
  <1> HIDE DEF g
  <1>9. TableOK(exec') /\ TableStep(exec, exec', {}, {}, {})
    BY <1>4, <1>8, SettleTable, SettleStep
  <1>10. TypeOK' /\ TableOK(exec)' /\ \A q \in Procs : Settled(q)
    BY <1>1, <1>9, TypesHold DEF TypeOK, TableOK, Settled
  <1> QED
    BY <1>1, <1>7, <1>9, <1>10, ExecStep

LEMMA NewExecIs == NewExec \in Exec /\ NewExec.state = "PLANNED" /\ NewExec.epoch = 0
  <1>1. /\ 0 \in 0..MaxAttempts /\ 0 \in 0..MaxRenewals /\ "PLANNED" \in ExecStates
        /\ None \in WorkerIds \cup {None} /\ None \in Payloads \cup {None}
    BY BoundsAssumption, StatesAre DEF StateSet
  <1>2. NewExec = Row("PLANNED", 0, None, 0, None)
    BY DEF NewExec, Row
  <1> QED
    BY <1>1, <1>2, RowIs

\* Whoever the finalization is planned for has seen every reduction succeed.
LEMMA FinalUpstream ==
    ASSUME StreamInv, work[Final].pub \in Visible \/ exec[Final].state # "ABSENT"
    PROVE  /\ plan.sealed /\ plan.size = declared
           /\ \A u \in Upstream(Final) : /\ u \in WorkItems /\ exec[u].state = "SUCCEEDED"
                                         /\ work[u].evidence # None
  <1>1. /\ plan.sealed /\ plan.size = declared
        /\ \A n \in 0..(declared - 1) : member[n] # None
    BY DEF StreamInv, Facts, FinalizationIsLast, Visible
  <1>2. 0..(declared - 1) \subseteq Windows
    BY TypesHold, BoundsAssumption DEF Windows
  <1>3. ASSUME NEW n \in 0..(declared - 1)
        PROVE  /\ Reduction(n) \in WorkItems /\ exec[Reduction(n)].state = "SUCCEEDED"
               /\ work[Reduction(n)].evidence # None
    <2>1. n \in Windows /\ Reduction(n) \in WorkItems /\ Reduction(n) \in Items
      BY <1>2, <1>3, ReductionIs
    <2>2. work[Reduction(n)].evidence # None
      BY <1>1, <1>3, <2>1 DEF StreamInv, Facts, MembersAreEvidence
    <2> QED
      BY <2>1, <2>2, TypesHold DEF Agree
  <1> QED
    BY <1>1, <1>3 DEF Upstream

LEMMA ProjectOK ==
    ASSUME StreamInv, NEW p \in Procs, Project(p)
    PROVE  StepGoal
  <1>0. PICK R \in SUBSET Items : R = op[p].rows
    BY TypesHold
  <1> DEFINE g == [i \in Items |-> IF i \in R /\ exec[i].state = "ABSENT"
                                   THEN NewExec ELSE exec[i]]
             o == [op[p] EXCEPT !.step = "publish"]
  <1>1. /\ op[p].step = "project" /\ exec' = Settle(g) /\ Goto(p, o)
        /\ UNCHANGED <<plan, declared, member, work, outbox, owner, cap, crashes>>
    BY <1>0 DEF Project
  <1>2. \A i \in R : work[i].pub \in Visible
    BY <1>0, <1>1 DEF StreamInv, ProcsOK, OpOK
  <1>3. exec \in [Items -> Exec] /\ TableOK(exec)
    BY DEF StreamInv, Facts, TableOK
  <1>4. /\ g \in [Items -> Exec]
        /\ \A i \in Items : \/ g[i] = exec[i] /\ ~(i \in R /\ exec[i].state = "ABSENT")
                            \/ /\ i \in R /\ exec[i].state = "ABSENT" /\ g[i] = NewExec
    BY <1>3, NewExecIs
  <1> HIDE DEF g
  <1>5. TableStep(exec, g, R, {}, {})
    BY <1>4, NewExecIs DEF TableStep, RowStep, Entered
  <1>6. \A i \in Items : ExecOK(g[i])
    <2>1. ExecOK(NewExec)
      BY NewExecIs, StatesAre DEF ExecOK
    <2> QED
      BY <1>3, <1>4, <2>1 DEF TableOK
  <1>7. \A i \in Items : Terminal(exec, i) => Terminal(g, i) /\ g[i] = exec[i]
    BY <1>4, StatesAre DEF Terminal
  <1>8. ASSUME NEW i \in WorkItems, g[i].state \in Begun
        PROVE  UpstreamEnded(g, i)
    <2>1. g[i] = exec[i]
      BY <1>4, <1>8, ItemsAre, NewExecIs, StatesAre DEF Begun
    <2>2. UpstreamEnded(exec, i)
      BY <1>3, <1>8, <2>1 DEF TableOK, ReadyOK
    <2> QED
      BY <1>7, <2>2, UpIs, ItemsAre DEF UpstreamEnded
  <1>9. FinalUnblocked(g)
    <2> SUFFICES ASSUME g[Final].state = "PLANNED"
                 PROVE  \A u \in Upstream(Final) : g[u].state = "SUCCEEDED"
      BY DEF FinalUnblocked
    <2>1. exec[Final].state # "PLANNED"
      BY <1>3 DEF TableOK
    <2>2. Final \in R
      BY <1>4, <2>1, ItemsAre
    <2>3. \A u \in Upstream(Final) : u \in WorkItems /\ exec[u].state = "SUCCEEDED"
      BY <1>2, <2>2, FinalUpstream
    <2> QED
      BY <1>7, <2>3, ItemsAre, StatesAre DEF Terminal
  <1>10. TableOK(exec') /\ TableStep(exec, exec', R, {}, {})
    BY <1>1, <1>4, <1>5, <1>6, <1>8, <1>9, SettleTable, SettleStep
  <1>11. o \in Op /\ o.step = "publish" /\ o.rows = R
    BY <1>0, TypesHold, StepNames DEF Op
  <1> HIDE DEF o
  <1>12. /\ op' \in [Procs -> Op] /\ op'[p] = o
         /\ \A q \in Procs : q # p => op'[q] = op[q]
    BY <1>1, <1>11, TypesHold, GotoIs
  <1>13. TypeOK' /\ TableOK(exec)'
    BY <1>1, <1>10, <1>12, TypesHold DEF TypeOK, TableOK
  <1>14. \A i \in R : exec'[i].state # "ABSENT"
    <2>1. \A i \in Items : \/ exec'[i] = g[i]
                           \/ exec'[i] = ReadyRow(g[i])
      BY <1>1, <1>4, <1>9, SettleRows, ItemsAre
    <2>2. \A i \in Items : ReadyRow(g[i]).state = "READY"
      BY RowIs DEF ReadyRow
    <2>3. \A i \in R : g[i].state # "ABSENT"
      BY <1>4, NewExecIs
    <2> QED
      BY <2>1, <2>2, <2>3
  <1>15. OpOK(op'[p], cap'[p], work', exec', plan', member', declared')
    BY <1>1, <1>2, <1>11, <1>12, <1>14 DEF OpOK
  <1>16. CapOK(cap'[p], exec')
    <2>1. \A i \in Items : exec[i] \in Exec /\ exec'[i] \in Exec /\ ExecOK(exec[i])
                           /\ RowStep(exec[i], exec'[i], i, R, {}, {})
      BY <1>3, <1>10 DEF TableOK, TableStep
    <2>2. \A i \in Items : /\ exec[i].epoch <= exec'[i].epoch
                           /\ exec[i].epoch \in Nat /\ exec'[i].epoch \in Nat
      BY <2>1, RowAdvances, ExecIs
    <2>3. cap[p] \in Lease \cup {None} /\ CapOK(cap[p], exec)
      BY TypesHold DEF StreamInv, ProcsOK
    <2> QED
      BY <1>1, <2>2, <2>3, LeaseIs DEF CapOK
  <1>17. \A q \in Procs : Settled(q)
    BY <1>1, <1>12, <1>15, <1>16 DEF Settled
  <1>18. AtMostOne({}) /\ {} \in SUBSET Items
    BY DEF AtMostOne
  <1> QED
    BY <1>1, <1>2, <1>10, <1>13, <1>17, <1>18, ExecStep

-----------------------------------------------------------------------------
(* Transactions of the stream ledger: declarations, publication, the gate. *)

WithPub(w, s) == [w EXCEPT !.pub = s]

LEMMA WorkIs ==
    ASSUME NEW w \in Work
    PROVE  /\ w.pub \in {"ABSENT", "GATED", "PENDING", "PUBLISHED"}
           /\ w.evidence \in Payloads \cup {None} /\ w.pending \in Intent \cup {None}
  BY DEF Work

LEMMA WithPubIs ==
    ASSUME NEW w \in Work, NEW s \in {"ABSENT", "GATED", "PENDING", "PUBLISHED"}
    PROVE  /\ WithPub(w, s) \in Work /\ WithPub(w, s).pub = s
           /\ WithPub(w, s).evidence = w.evidence /\ WithPub(w, s).pending = w.pending
  BY DEF Work, WithPub

\* The plan keeps what it has promised.
PlanKept ==
    /\ plan.sealed => plan'.sealed /\ plan'.size = plan.size
    /\ plan.eos => plan'.eos /\ declared' = declared
    /\ plan.closed => plan'.closed
    /\ plan.export => plan'.export

SameFact(v, w) ==
    /\ w.evidence = v.evidence /\ w.pending = v.pending
    /\ v.pub \in Visible => w.pub \in Visible

LEMMA PublicationStep ==
    ASSUME StreamInv, TypeOK', \A q \in Procs : Settled(q),
           UNCHANGED <<member, exec, outbox>>, PlanKept,
           \A i \in Items : SameFact(work[i], work'[i]),
           \A i \in Items : PublicationOK(i, exec[i], work'[i], declared'),
           OutboxOK', FinalizationIsLast',
           \A n \in outbox : n < declared' => n < declared
    PROVE  StepGoal
  <1>1. \A i \in Items : Agree(exec'[i], work'[i])
    BY DEF StreamInv, Facts, Agree, SameFact
  <1>2. MembersAreEvidence'
    BY ReductionIs DEF StreamInv, Facts, MembersAreEvidence, SameFact
  <1>3. CausalOK'
    BY UpIs, ItemsAre DEF StreamInv, Facts, CausalOK, SameFact
  <1>4. TableOK(exec')
    BY DEF StreamInv, Facts
  <1>5. Facts'
    BY <1>1, <1>2, <1>3, <1>4 DEF Facts
  <1>6. Forward({}, {}, {})
    <2>1. TableStep(exec, exec', {}, {}, {})
      BY DEF TableStep, RowStep
    <2>2. \A i \in Items : WorkStep(work[i], work'[i], exec'[i])
      BY DEF WorkStep, SameFact
    <2>3. FactsKept /\ (plan.export => plan'.export)
      BY DEF FactsKept, PlanKept, SameFact
    <2> QED
      BY <2>1, <2>2, <2>3 DEF Forward
  <1> QED
    BY <1>5, <1>6, Conclude DEF AtMostOne

\* Before the seal nothing of the finalization is there.
LEMMA BeforeSeal ==
    ASSUME StreamInv, ~plan.sealed
    PROVE  /\ work[Final].pub \notin Visible /\ exec[Final].state = "ABSENT"
           /\ \A n \in outbox : n < declared
  BY DEF StreamInv, Facts, FinalizationIsLast, OutboxOK, Visible

LEMMA AppendOK ==
    ASSUME StreamInv, NEW p \in Procs, NEW k \in 1..MaxBatch, Append(p, k)
    PROVE  StepGoal
  <1> DEFINE b == declared + k - 1
             R == UNION {WindowItems(n) : n \in declared..b}
             o == [At("read") EXCEPT !.rows = R]
  <1>1. /\ ~plan.eos /\ ~plan.sealed /\ declared + k <= NumWindows
        /\ declared' = declared + k /\ Goto(p, o)
        /\ UNCHANGED <<plan, member, exec, outbox, owner, cap, crashes>>
        /\ work' = [i \in Items |-> IF i \in R THEN WithPub(work[i], "PENDING")
                                    ELSE work[i]]
    BY DEF Append, AppendAllowed, WithPub
  <1>2. declared \in Nat /\ k \in Nat /\ k > 0 /\ NumWindows \in Nat
    BY TypesHold, BoundsAssumption
  <1>3. b \in Int /\ b < NumWindows
    BY <1>1, <1>2
  <1>4. /\ R \subseteq WorkItems
        /\ \A i \in WorkItems : i \in R <=> declared <= i[1] /\ i[1] <= b
    BY <1>2, <1>3, RowsOfWindows
  <1>5. declared' \in 0..NumWindows
    BY <1>1, <1>2
  <1>6. \A i \in WorkItems : /\ i[1] \in Nat
                             /\ i[1] < declared' <=> (i[1] < declared \/ i \in R)
    <2>1. \A i \in WorkItems : i[1] \in Nat
      BY ItemsAre
    <2> QED
      BY <1>1, <1>2, <1>4, <2>1
  <1> HIDE DEF b, R
  <1>7. R \in SUBSET Items /\ Final \notin R
    BY <1>4, ItemsAre
  <1>8. o \in Op /\ o.step \in Carefree
    BY <1>7, AtRowsIs, StepNames
  <1> HIDE DEF o
  <1>9. /\ op' \in [Procs -> Op] /\ cap' \in [Procs -> Lease \cup {None}]
        /\ \A q \in Procs : Settled(q)
    BY <1>1, <1>8, CarefreeSettled
  <1>10. \A i \in Items : work'[i] = IF i \in R THEN WithPub(work[i], "PENDING")
                                     ELSE work[i]
    BY <1>1
  <1>11. work' \in [Items -> Work]
    BY <1>1, TypesHold, WithPubIs
  <1>12. TypeOK'
    BY <1>1, <1>5, <1>9, <1>11, TypesHold DEF TypeOK
  <1>13. \A i \in Items : SameFact(work[i], work'[i])
    <2>1. ASSUME NEW i \in Items
          PROVE  SameFact(work[i], work'[i])
      <3>1. work[i] \in Work
        BY TypesHold
      <3>2. /\ WithPub(work[i], "PENDING").pub = "PENDING"
            /\ WithPub(work[i], "PENDING").evidence = work[i].evidence
            /\ WithPub(work[i], "PENDING").pending = work[i].pending
        BY <3>1, WithPubIs
      <3> QED
        BY <1>10, <3>2 DEF SameFact, Visible
    <2> QED
      BY <2>1
  <1>14. ASSUME NEW i \in Items
         PROVE  PublicationOK(i, exec[i], work'[i], declared')
    <2>1. PublicationOK(i, exec[i], work[i], declared) /\ work[i] \in Work
      BY TypesHold
    <2>2. CASE i \in R
      <3>1. work'[i].pub = "PENDING"
        BY <1>10, <2>1, <2>2, WithPubIs
      <3> QED
        BY <1>4, <1>6, <2>2, <3>1 DEF PublicationOK, Visible
    <2>3. CASE i \notin R
      <3>1. i # Final => (i[1] < declared' <=> i[1] < declared)
        BY <1>6, <2>3, ItemsAre
      <3> QED
        BY <1>10, <2>1, <2>3, <3>1 DEF PublicationOK
    <2> QED
      BY <2>2, <2>3
  <1>15. /\ work[Final].pub \notin Visible /\ exec[Final].state = "ABSENT"
         /\ \A n \in outbox : n < declared
    BY <1>1, BeforeSeal
  <1>16. \A n \in outbox : n < declared'
    <2>1. \A n \in outbox : n \in Nat
      BY TypesHold, BoundsAssumption DEF TypeOK, Ordinals
    <2> QED
      BY <1>1, <1>2, <1>15, <2>1
  <1>17. OutboxOK'
    BY <1>1, <1>16 DEF OutboxOK
  <1>18. FinalizationIsLast'
    BY <1>1, <1>7, <1>10, <1>15, ItemsAre DEF FinalizationIsLast, Visible
  <1>19. PlanKept
    BY <1>1 DEF PlanKept
  <1> QED
    BY <1>1, <1>9, <1>12, <1>13, <1>14, <1>15, <1>17, <1>18, <1>19, PublicationStep

LEMMA PublishOK ==
    ASSUME StreamInv, NEW p \in Procs, Publish(p)
    PROVE  StepGoal
  <1>0. PICK R \in SUBSET Items : R = op[p].rows
    BY TypesHold
  <1>1. /\ op[p].step = "publish" /\ Goto(p, At("idle"))
        /\ UNCHANGED <<plan, declared, member, exec, outbox, owner, cap, crashes>>
        /\ work' = [i \in Items |-> IF i \in R THEN WithPub(work[i], "PUBLISHED")
                                    ELSE work[i]]
    BY <1>0 DEF Publish, Done, WithPub
  <1>2. \A i \in R : work[i].pub \in Visible /\ exec[i].state # "ABSENT"
    BY <1>0, <1>1 DEF StreamInv, ProcsOK, OpOK
  <1>3. At("idle") \in Op /\ At("idle").step \in Carefree
    BY AtIs, StepNames
  <1>4. /\ op' \in [Procs -> Op] /\ cap' \in [Procs -> Lease \cup {None}]
        /\ \A q \in Procs : Settled(q)
    BY <1>1, <1>3, CarefreeSettled
  <1>5. \A i \in Items : work'[i] = IF i \in R THEN WithPub(work[i], "PUBLISHED")
                                    ELSE work[i]
    BY <1>1
  <1>6. work' \in [Items -> Work]
    BY <1>1, TypesHold, WithPubIs
  <1>7. TypeOK'
    BY <1>1, <1>4, <1>6, TypesHold DEF TypeOK
  <1>8. \A i \in Items : SameFact(work[i], work'[i])
    <2>1. ASSUME NEW i \in Items
          PROVE  SameFact(work[i], work'[i])
      <3>1. work[i] \in Work
        BY TypesHold
      <3>2. /\ WithPub(work[i], "PUBLISHED").pub = "PUBLISHED"
            /\ WithPub(work[i], "PUBLISHED").evidence = work[i].evidence
            /\ WithPub(work[i], "PUBLISHED").pending = work[i].pending
        BY <3>1, WithPubIs
      <3> QED
        BY <1>5, <3>2 DEF SameFact, Visible
    <2> QED
      BY <2>1
  <1>9. ASSUME NEW i \in Items
        PROVE  PublicationOK(i, exec[i], work'[i], declared')
    <2>1. PublicationOK(i, exec[i], work[i], declared) /\ work[i] \in Work
      BY TypesHold
    <2>2. CASE i \in R
      <3>1. work'[i].pub = "PUBLISHED" /\ work[i].pub # "ABSENT"
        <4>1. WithPub(work[i], "PUBLISHED").pub = "PUBLISHED"
          BY <2>1, WithPubIs
        <4> QED
          BY <1>2, <1>5, <2>2, <4>1 DEF Visible
      <3> QED
        BY <1>1, <1>2, <2>1, <2>2, <3>1 DEF PublicationOK, Visible
    <2>3. CASE i \notin R
      BY <1>1, <1>5, <2>1, <2>3 DEF PublicationOK
    <2> QED
      BY <2>2, <2>3
  <1>10. OutboxOK'
    BY <1>1 DEF StreamInv, Facts, OutboxOK
  <1>11. FinalizationIsLast'
    <2>1. work'[Final].pub \in Visible => work[Final].pub \in Visible
      BY <1>2, <1>5, ItemsAre
    <2> QED
      BY <1>1, <2>1 DEF StreamInv, Facts, FinalizationIsLast, Visible
  <1>12. PlanKept
    BY <1>1 DEF PlanKept
  <1> QED
    BY <1>1, <1>4, <1>7, <1>8, <1>9, <1>10, <1>11, <1>12, PublicationStep

WithEos(P, t) == [P EXCEPT !.eos = t]
WithExport(P, t) == [P EXCEPT !.export = t]
WithClosed(P, t) == [P EXCEPT !.closed = t]
WithSeal(P, t, n) == [P EXCEPT !.sealed = t, !.size = n]

LEMMA WithEosIs ==
    ASSUME NEW P \in Plan, NEW t \in BOOLEAN
    PROVE  LET Q == WithEos(P, t) IN
           /\ Q \in Plan /\ Q.eos = t /\ Q.sealed = P.sealed /\ Q.size = P.size
           /\ Q.export = P.export /\ Q.closed = P.closed
  BY DEF WithEos, Plan

LEMMA WithExportIs ==
    ASSUME NEW P \in Plan, NEW t \in BOOLEAN
    PROVE  LET Q == WithExport(P, t) IN
           /\ Q \in Plan /\ Q.eos = P.eos /\ Q.sealed = P.sealed /\ Q.size = P.size
           /\ Q.export = t /\ Q.closed = P.closed
  BY DEF WithExport, Plan

LEMMA WithClosedIs ==
    ASSUME NEW P \in Plan, NEW t \in BOOLEAN
    PROVE  LET Q == WithClosed(P, t) IN
           /\ Q \in Plan /\ Q.eos = P.eos /\ Q.sealed = P.sealed /\ Q.size = P.size
           /\ Q.export = P.export /\ Q.closed = t
  BY DEF WithClosed, Plan

LEMMA WithSealIs ==
    ASSUME NEW P \in Plan, NEW t \in BOOLEAN, NEW n \in 0..NumWindows
    PROVE  LET Q == WithSeal(P, t, n) IN
           /\ Q \in Plan /\ Q.eos = P.eos /\ Q.sealed = t /\ Q.size = n
           /\ Q.export = P.export /\ Q.closed = P.closed
  BY DEF WithSeal, Plan

LEMMA FinalPubIs ==
    ASSUME StreamInv, NEW s \in {"ABSENT", "GATED", "PENDING", "PUBLISHED"},
           work' = [work EXCEPT ![Final].pub = s]
    PROVE  /\ work' \in [Items -> Work] /\ work'[Final].pub = s
           /\ work'[Final].evidence = work[Final].evidence
           /\ work'[Final].pending = work[Final].pending
           /\ \A i \in WorkItems : work'[i] = work[i]
           /\ \A i \in Items : i # Final => work'[i] = work[i]
  <1>1. work \in [Items -> Work] /\ Final \in Items
    BY TypesHold, ItemsAre DEF TypeOK
  <1>2. work' = [work EXCEPT ![Final] = WithPub(work[Final], s)]
    BY <1>1 DEF WithPub
  <1>3. /\ WithPub(work[Final], s) \in Work /\ WithPub(work[Final], s).pub = s
        /\ WithPub(work[Final], s).evidence = work[Final].evidence
        /\ WithPub(work[Final], s).pending = work[Final].pending
    BY <1>1, WithPubIs
  <1>4. work'[Final] = WithPub(work[Final], s) /\ work' \in [Items -> Work]
    BY <1>1, <1>2, <1>3
  <1>5. \A i \in Items : i # Final => work'[i] = work[i]
    BY <1>1, <1>2
  <1> QED
    BY <1>3, <1>4, <1>5, ItemsAre

\* A flag of the plan is set, and nothing else happens.
LEMMA FlagStep ==
    ASSUME StreamInv, plan' \in Plan,
           UNCHANGED <<declared, member, work, exec, outbox, owner, op, cap, crashes>>,
           plan'.sealed = plan.sealed, plan'.size = plan.size,
           plan.eos => plan'.eos, plan.export => plan'.export, plan.closed => plan'.closed
    PROVE  StepGoal
  <1>1. TypeOK' /\ \A q \in Procs : Settled(q)
    BY TypesHold DEF TypeOK, Settled
  <1>2. PlanKept
    BY DEF PlanKept
  <1>3. \A i \in Items : /\ SameFact(work[i], work'[i])
                         /\ PublicationOK(i, exec[i], work'[i], declared')
    BY TypesHold DEF SameFact
  <1>4. OutboxOK'
    BY DEF StreamInv, Facts, OutboxOK
  <1>5. FinalizationIsLast'
    BY DEF StreamInv, Facts, FinalizationIsLast
  <1> QED
    BY <1>1, <1>2, <1>3, <1>4, <1>5, PublicationStep

LEMMA SetPlannerEosOK ==
    ASSUME StreamInv, NEW p \in Procs, SetPlannerEos(p)
    PROVE  StepGoal
  <1>1. plan' = WithEos(plan, TRUE) /\ plan \in Plan
    BY TypesHold DEF SetPlannerEos, WithEos, TypeOK
  <1>2. UNCHANGED <<declared, member, work, exec, outbox, owner, op, cap, crashes>>
    BY DEF SetPlannerEos
  <1>3. /\ plan' \in Plan /\ plan'.eos = TRUE /\ plan'.sealed = plan.sealed
        /\ plan'.size = plan.size /\ plan'.export = plan.export
        /\ plan'.closed = plan.closed
    BY <1>1, WithEosIs
  <1> QED
    BY <1>2, <1>3, FlagStep

LEMMA MarkExportBarrierOK ==
    ASSUME StreamInv, NEW p \in Procs, MarkExportBarrier(p)
    PROVE  StepGoal
  <1>1. plan' = WithExport(plan, TRUE) /\ plan \in Plan
    BY TypesHold DEF MarkExportBarrier, WithExport, TypeOK
  <1>2. UNCHANGED <<declared, member, work, exec, outbox, owner, op, cap, crashes>>
    BY DEF MarkExportBarrier
  <1>3. /\ plan' \in Plan /\ plan'.eos = plan.eos /\ plan'.sealed = plan.sealed
        /\ plan'.size = plan.size /\ plan'.export = TRUE
        /\ plan'.closed = plan.closed
    BY <1>1, WithExportIs
  <1> QED
    BY <1>2, <1>3, FlagStep

LEMMA SealStoreOK ==
    ASSUME StreamInv, NEW p \in Procs, SealStore(p)
    PROVE  StepGoal
  <1>1. /\ Goto(p, At("idle"))
        /\ UNCHANGED <<declared, member, exec, outbox, owner, cap, crashes>>
    BY DEF SealStore, Done
  <1>2. At("idle") \in Op /\ At("idle").step \in Carefree
    BY AtIs, StepNames
  <1>3. CASE UNCHANGED <<plan, work>>
    BY <1>1, <1>2, <1>3, TypesHold, QuietGoto
  <1>4. CASE /\ SealMatches(p) /\ ~plan.sealed
             /\ plan' = [plan EXCEPT !.sealed = TRUE, !.size = op[p].count]
             /\ work' = [work EXCEPT ![Final].pub = "GATED"]
    <2>1. plan.eos /\ op[p].count = declared /\ ~plan.sealed
      BY <1>4 DEF SealMatches
    <2>2. plan' = WithSeal(plan, TRUE, declared) /\ plan \in Plan
      BY <1>4, <2>1, TypesHold DEF WithSeal, TypeOK
    <2>3. /\ plan' \in Plan /\ plan'.eos = plan.eos /\ plan'.sealed = TRUE
          /\ plan'.size = declared /\ plan'.export = plan.export
          /\ plan'.closed = plan.closed
      BY <2>2, TypesHold, WithSealIs
    <2>4. /\ work' \in [Items -> Work] /\ work'[Final].pub = "GATED"
          /\ work'[Final].evidence = work[Final].evidence
          /\ work'[Final].pending = work[Final].pending
          /\ \A i \in Items : i # Final => work'[i] = work[i]
      BY <1>4, FinalPubIs
    <2>5. /\ op' \in [Procs -> Op] /\ cap' \in [Procs -> Lease \cup {None}]
          /\ \A q \in Procs : Settled(q)
      BY <1>1, <1>2, CarefreeSettled
    <2>6. TypeOK'
      BY <1>1, <2>3, <2>4, <2>5, TypesHold DEF TypeOK
    <2>7. /\ work[Final].pub \notin Visible /\ exec[Final].state = "ABSENT"
          /\ \A n \in outbox : n < declared
      BY <2>1, BeforeSeal
    <2>8. PlanKept
      BY <1>1, <2>1, <2>3 DEF PlanKept
    <2>9. \A i \in Items : /\ SameFact(work[i], work'[i])
                           /\ PublicationOK(i, exec[i], work'[i], declared')
      BY <1>1, <2>4, <2>7, TypesHold DEF SameFact, PublicationOK
    <2>10. OutboxOK'
      BY <1>1, <2>7 DEF OutboxOK
    <2>11. FinalizationIsLast'
      <3>1. declared \notin outbox
        BY <2>7, TypesHold
      <3> QED
        BY <1>1, <2>1, <2>3, <2>4, <2>7, <3>1 DEF FinalizationIsLast
    <2> QED
      BY <1>1, <2>5, <2>6, <2>8, <2>9, <2>10, <2>11, PublicationStep
  <1> QED
    BY <1>3, <1>4 DEF SealStore

LEMMA GateStoreOK ==
    ASSUME StreamInv, NEW p \in Procs, GateStore(p)
    PROVE  StepGoal
  <1> DEFINE s == IF work[Final].pub = "GATED" THEN "PENDING" ELSE work[Final].pub
  <1>1. /\ Goto(p, At("recover")) /\ op[p].step = "closing"
        /\ UNCHANGED <<declared, member, exec, outbox, owner, cap, crashes>>
    BY DEF GateStore
  <1>2. At("recover") \in Op /\ At("recover").step \in Carefree
    BY AtIs, StepNames
  <1>3. plan.sealed /\ plan.export /\ MembersIn(member, declared)
    BY <1>1 DEF StreamInv, ProcsOK, OpOK
  <1>4. plan' = WithClosed(plan, TRUE) /\ plan \in Plan
    BY TypesHold DEF GateStore, WithClosed, TypeOK
  <1>5. /\ plan' \in Plan /\ plan'.eos = plan.eos /\ plan'.sealed = plan.sealed
        /\ plan'.size = plan.size /\ plan'.export = plan.export
        /\ plan'.closed = TRUE
    BY <1>4, WithClosedIs
  <1>6. work' = [work EXCEPT ![Final].pub = s]
    <2>1. work \in [Items -> Work] /\ Final \in Items
      BY TypesHold, ItemsAre DEF TypeOK
    <2> QED
      BY <2>1 DEF GateStore
  <1>7. /\ s \in {"ABSENT", "GATED", "PENDING", "PUBLISHED"}
        /\ work[Final].pub \in Visible => s = work[Final].pub
        /\ s = "PUBLISHED" => work[Final].pub = "PUBLISHED"
    BY TypesHold, ItemsAre, WorkIs DEF Visible
  <1> HIDE DEF s
  <1>8. /\ work' \in [Items -> Work] /\ work'[Final].pub = s
        /\ work'[Final].evidence = work[Final].evidence
        /\ work'[Final].pending = work[Final].pending
        /\ \A i \in Items : i # Final => work'[i] = work[i]
    BY <1>6, <1>7, FinalPubIs
  <1>9. /\ op' \in [Procs -> Op] /\ cap' \in [Procs -> Lease \cup {None}]
        /\ \A q \in Procs : Settled(q)
    BY <1>1, <1>2, CarefreeSettled
  <1>10. TypeOK'
    BY <1>1, <1>5, <1>8, <1>9, TypesHold DEF TypeOK
  <1>11. PlanKept
    BY <1>1, <1>5 DEF PlanKept
  <1>12. \A i \in Items : /\ SameFact(work[i], work'[i])
                          /\ PublicationOK(i, exec[i], work'[i], declared')
    BY <1>1, <1>7, <1>8, TypesHold DEF SameFact, PublicationOK
  <1>13. OutboxOK'
    BY <1>1, <1>5 DEF StreamInv, Facts, OutboxOK
  <1>14. FinalizationIsLast'
    BY <1>1, <1>3, <1>5 DEF StreamInv, Facts, FinalizationIsLast, MembersIn
  <1> QED
    BY <1>1, <1>9, <1>10, <1>11, <1>12, <1>13, <1>14, PublicationStep

LEMMA PublishFinalizationOK ==
    ASSUME StreamInv, NEW p \in Procs, PublishFinalization(p)
    PROVE  StepGoal
  <1>1. /\ plan.sealed /\ plan.closed /\ plan.export /\ MembersIn(member, declared)
        /\ outbox' = outbox \cup {declared}
        /\ UNCHANGED <<plan, declared, member, work, exec, owner, op, cap, crashes>>
    BY DEF PublishFinalization, GateMembers, MembersIn
  <1>2. declared \in Ordinals
    BY TypesHold DEF Ordinals
  <1>3. TypeOK' /\ \A q \in Procs : Settled(q)
    BY <1>1, <1>2, TypesHold DEF TypeOK, Settled
  <1>4. MembersAreEvidence'
    BY <1>1, TypesHold DEF StreamInv, Facts, MembersAreEvidence
  <1>5. OutboxOK'
    BY <1>1 DEF StreamInv, Facts, OutboxOK
  <1>6. FinalizationIsLast'
    BY <1>1 DEF StreamInv, Facts, FinalizationIsLast, MembersIn
  <1>7. CausalOK'
    BY <1>1 DEF StreamInv, Facts, CausalOK
  <1>8. Facts'
    BY <1>1, <1>4, <1>5, <1>6, <1>7 DEF StreamInv, Facts
  <1>9. Forward({}, {}, {})
    BY <1>1 DEF Forward, TableStep, RowStep, WorkStep, FactsKept
  <1> QED
    BY <1>3, <1>8, <1>9, Conclude DEF AtMostOne

-----------------------------------------------------------------------------
(* Terminal facts: the intent, the success, the acceptance.                *)

WithPending(w, q) == [w EXCEPT !.pending = q]
WithFact(w, v) == [w EXCEPT !.evidence = v, !.pending = None]

LEMMA WithPendingIs ==
    ASSUME NEW w \in Work, NEW q \in Intent
    PROVE  /\ WithPending(w, q) \in Work /\ WithPending(w, q).pub = w.pub
           /\ WithPending(w, q).evidence = w.evidence /\ WithPending(w, q).pending = q
  BY DEF Work, WithPending

LEMMA WithFactIs ==
    ASSUME NEW w \in Work, NEW v \in Payloads
    PROVE  /\ WithFact(w, v) \in Work /\ WithFact(w, v).pub = w.pub
           /\ WithFact(w, v).evidence = v /\ WithFact(w, v).pending = None
  BY DEF Work, WithFact

LEMMA StorePendingTerminalOK ==
    ASSUME StreamInv, NEW p \in Procs, NEW v \in Payloads, StorePendingTerminal(p, v)
    PROVE  StepGoal
  <1>0. PICK c \in Lease, i \in Items : c = cap[p] /\ i = c.item
    BY LiveIs DEF StorePendingTerminal
  <1> DEFINE q == [ev |-> v, epoch |-> c.epoch]
             o == [At("stored") EXCEPT !.ev = v]
  <1>1. /\ Goto(p, o) /\ c # None /\ work[i].evidence = None /\ Live(p)
        /\ IntentWritable(i, v, c.epoch)
        /\ UNCHANGED <<plan, declared, member, exec, outbox, owner, cap, crashes>>
    BY <1>0 DEF StorePendingTerminal
  <1>2. /\ exec[i].state \in ActiveStates /\ exec[i].epoch = c.epoch
        /\ work \in [Items -> Work] /\ c.epoch \in 1..MaxAttempts /\ c.epoch \in Nat
    BY <1>0, <1>1, LiveIs, LeaseIs, TypesHold DEF TypeOK
  <1>3. q \in Intent /\ q.ev = v /\ q.epoch = c.epoch /\ q # None
    <2>1. q \in Intent /\ q.ev = v /\ q.epoch = c.epoch
      BY <1>2 DEF Intent
    <2> QED
      BY <2>1, NoneAssumption
  <1>4. work' = [work EXCEPT ![i] = WithPending(work[i], q)]
    BY <1>0, <1>2 DEF StorePendingTerminal, WithPending
  <1>5. \/ work[i].pending = None \/ work[i].pending = q
        \/ work[i].pending.epoch < c.epoch
    BY <1>1 DEF IntentWritable
  <1> HIDE DEF q
  <1>6. /\ WithPending(work[i], q) \in Work /\ WithPending(work[i], q).pub = work[i].pub
        /\ WithPending(work[i], q).evidence = work[i].evidence
        /\ WithPending(work[i], q).pending = q
    BY <1>2, <1>3, WithPendingIs
  <1>7. /\ work' \in [Items -> Work] /\ work'[i] = WithPending(work[i], q)
        /\ \A j \in Items : j # i => work'[j] = work[j]
    BY <1>2, <1>4, <1>6
  <1>8. \A j \in Items : work'[j].pub = work[j].pub /\ work'[j].evidence = work[j].evidence
    BY <1>6, <1>7
  <1>9. o \in Op /\ o.step = "stored" /\ o.ev = v
    BY AtEvIs, StepNames
  <1> HIDE DEF o
  <1>10. /\ op' \in [Procs -> Op] /\ op'[p] = o
         /\ \A r \in Procs : r # p => op'[r] = op[r]
    BY <1>1, <1>9, TypesHold, GotoIs
  <1>11. TypeOK'
    BY <1>1, <1>7, <1>10, TypesHold DEF TypeOK
  <1>12. OpOK(op'[p], cap'[p], work', exec', plan', member', declared')
    <2>1. /\ work'[i].evidence = None /\ work'[i].pending # None
          /\ work'[i].pending.ev = v /\ work'[i].pending.epoch = c.epoch
      BY <1>1, <1>3, <1>6, <1>7
    <2> QED
      BY <1>0, <1>1, <1>9, <1>10, <2>1 DEF OpOK
  <1>13. CapOK(cap'[p], exec')
    BY <1>1 DEF StreamInv, ProcsOK
  <1>14. \A r \in Procs : Settled(r)
    BY <1>1, <1>10, <1>12, <1>13 DEF Settled
  <1>15. ASSUME NEW j \in Items
         PROVE  /\ Agree(exec'[j], work'[j])
                /\ PublicationOK(j, exec'[j], work'[j], declared')
                /\ WorkStep(work[j], work'[j], exec'[j])
    <2>1. Agree(exec[j], work[j]) /\ PublicationOK(j, exec[j], work[j], declared)
      BY TypesHold
    <2>2. PublicationOK(j, exec'[j], work'[j], declared')
      BY <1>1, <1>8, <2>1 DEF PublicationOK
    <2>3. CASE j = i
      <3>1. Agree(exec'[j], work'[j])
        BY <1>1, <1>2, <1>8, <2>3, StatesAre DEF Agree
      <3>2. WorkStep(work[j], work'[j], exec'[j])
        BY <1>1, <1>2, <1>5, <1>6, <1>7, <1>8, <2>3 DEF WorkStep
      <3> QED
        BY <2>2, <3>1, <3>2
    <2>4. CASE j # i
      BY <1>1, <1>7, <2>1, <2>2, <2>4 DEF WorkStep
    <2> QED
      BY <2>3, <2>4
  <1>16. MembersAreEvidence' /\ OutboxOK'
    BY <1>1, <1>8, ReductionIs DEF StreamInv, Facts, MembersAreEvidence, OutboxOK
  <1>17. FinalizationIsLast'
    BY <1>1, <1>8, ItemsAre DEF StreamInv, Facts, FinalizationIsLast
  <1>18. CausalOK'
    BY <1>1, <1>8, UpIs, ItemsAre DEF StreamInv, Facts, CausalOK
  <1>19. Facts'
    BY <1>1, <1>15, <1>16, <1>17, <1>18 DEF StreamInv, Facts
  <1>20. Forward({}, {}, {})
    <2>1. TableStep(exec, exec', {}, {}, {})
      BY <1>1 DEF TableStep, RowStep
    <2>2. FactsKept /\ (plan.export => plan'.export)
      BY <1>1, <1>8 DEF FactsKept
    <2> QED
      BY <1>15, <2>1, <2>2 DEF Forward
  <1> QED
    BY <1>11, <1>14, <1>19, <1>20, Conclude DEF AtMostOne

LEMMA CompleteSucceedOK ==
    ASSUME StreamInv, NEW p \in Procs, CompleteSucceed(p)
    PROVE  StepGoal
  <1>1. op[p].step = "stored" /\ cap[p] # None
    BY DEF CompleteSucceed, StreamInv, ProcsOK, OpOK
  <1>2. PICK c \in Lease, i \in Items : c = cap[p] /\ i = c.item
    BY <1>1, LiveIs DEF CompleteSucceed
  <1>3. PICK v \in Payloads \cup {None} : v = op[p].ev
    BY TypesHold
  <1> DEFINE x == exec[i]
             y == Row("SUCCEEDED", x.epoch, None, x.renewal, v)
             g == Put(exec, i, y)
             o == [op[p] EXCEPT !.step = "succeeded"]
  <1>4. /\ x \in Exec /\ ExecOK(x) /\ x.state \in ActiveStates /\ x.epoch = c.epoch
        /\ exec \in [Items -> Exec]
    BY <1>1, <1>2, LiveIs, TypesHold DEF CompleteSucceed, TypeOK
  <1>5. /\ exec' = Settle(Ending(exec, i, "SUCCEEDED", None, v)) /\ Goto(p, o)
        /\ UNCHANGED <<plan, declared, member, work, outbox, owner, cap, crashes>>
    BY <1>2, <1>3 DEF CompleteSucceed, Ending
  <1>6. exec' = Settle(g)
    BY <1>4, <1>5, EndingIs
  <1>7. y \in Exec /\ y.state = "SUCCEEDED" /\ y.epoch = x.epoch /\ y.result = v
    <2>1. "SUCCEEDED" \in ExecStates
      BY StatesAre DEF StateSet
    <2> QED
      BY <1>4, <2>1, ExecIs, RowIs
  <1> HIDE DEF y
  <1>8. /\ ExecOK(y) /\ Won(x, y) /\ x.state \in Begun
        /\ y.state \in Begun \cup TerminalStates
    BY <1>4, <1>7, StatesAre DEF ExecOK, Won, Begun
  <1>S. PICK S \in SUBSET Items : S = {i}
    OBVIOUS
  <1>9. /\ RowStep(x, y, i, {}, {}, S) /\ AtMostOne({}) /\ AtMostOne(S)
        /\ {} \in SUBSET Items
    BY <1>8, <1>S DEF RowStep, AtMostOne
  <1>10. /\ g \in [Items -> Exec] /\ TableStep(exec, g, {}, {}, S) /\ g[i] = y
         /\ \A j \in Items : ExecOK(g[j])
         /\ \A j \in WorkItems : g[j].state \in Begun => UpstreamEnded(g, j)
         /\ FinalUnblocked(g)
    <2>1. g = Put(exec, i, y) /\ y \in Exec /\ x = exec[i]
      BY <1>7
    <2> HIDE DEF g, x
    <2>2. RowStep(exec[i], y, i, {}, {}, S) /\ exec[i].state \in Begun
      BY <1>8, <1>9, <2>1
    <2>3. /\ i \in Items /\ y \in Exec /\ ExecOK(y) /\ exec[i].state \in Begun
          /\ y.state \in Begun \cup TerminalStates /\ {} \in SUBSET Items
          /\ S \in SUBSET Items
      BY <1>8, <2>1, <2>2
    <2>4. g \in [Items -> Exec] /\ TableStep(exec, g, {}, {}, S) /\ g[i] = y
      BY <2>1, <2>2, <2>3, OneRow
    <2>5. \A j \in Items : ExecOK(g[j])
      BY <2>1, <2>2, <2>3, OneRow
    <2>6. \A j \in WorkItems : g[j].state \in Begun => UpstreamEnded(g, j)
      BY <2>1, <2>2, <2>3, OneRow
    <2>7. FinalUnblocked(g)
      BY <2>1, <2>2, <2>3, OneRow
    <2> QED
      BY <2>4, <2>5, <2>6, <2>7
  <1> HIDE DEF g
  <1>11. TableOK(exec') /\ TableStep(exec, exec', {}, {}, S)
    BY <1>6, <1>10, SettleTable, SettleStep
  <1>12. exec'[i] = y
    <2>1. i \in WorkItems \/ i = Final
      BY ItemsAre
    <2> QED
      BY <1>6, <1>7, <1>10, <2>1, SettleRows
  <1>13. /\ work[i].evidence = None /\ work[i].pending # None /\ work[i].pending.ev = v
    BY <1>1, <1>2, <1>3, <1>4 DEF StreamInv, ProcsOK, OpOK
  <1>14. \A j \in S : Agree(exec'[j], work[j])
    BY <1>7, <1>12, <1>13, <1>S DEF Agree
  <1>15. o \in Op /\ o.step = "succeeded" /\ o.ev = v
    BY <1>3, TypesHold, StepNames DEF Op
  <1> HIDE DEF o
  <1>16. /\ op' \in [Procs -> Op] /\ op'[p] = o
         /\ \A r \in Procs : r # p => op'[r] = op[r]
    BY <1>5, <1>15, TypesHold, GotoIs
  <1>17. TypeOK' /\ TableOK(exec)'
    BY <1>5, <1>11, <1>16, TypesHold DEF TypeOK, TableOK
  <1>18. OpOK(op'[p], cap'[p], work', exec', plan', member', declared')
    BY <1>1, <1>2, <1>5, <1>7, <1>12, <1>15, <1>16 DEF OpOK
  <1>19. CapOK(cap'[p], exec')
    BY <1>2, <1>4, <1>5, <1>7, <1>12, ExecIs DEF CapOK
  <1>20. \A r \in Procs : Settled(r)
    BY <1>5, <1>16, <1>18, <1>19 DEF Settled
  <1> QED
    BY <1>5, <1>9, <1>11, <1>14, <1>17, <1>20, SchedulerStep

\* An item's fact is stored: its execution has ended, or ends in the same
\* transaction, with that result.
LEMMA FactStep ==
    ASSUME StreamInv, TypeOK', \A q \in Procs : Settled(q),
           UNCHANGED <<plan, declared>>, TableOK(exec)',
           NEW i \in Items, NEW v \in Payloads, NEW S \in SUBSET Items, AtMostOne(S),
           TableStep(exec, exec', {}, {}, S), S \subseteq {i},
           exec'[i].state = "SUCCEEDED", exec'[i].result = v, exec[i].state # "ABSENT",
           work[i].evidence = None,
           work' = [work EXCEPT ![i] = WithFact(work[i], v)],
           \A n \in Windows : member'[n] = IF i = Reduction(n) THEN v ELSE member[n],
           outbox \subseteq outbox',
           \A n \in outbox' \ outbox : n \in Windows /\ i = Reduction(n)
    PROVE  StepGoal
  <1>1. work \in [Items -> Work] /\ v # None
    BY TypesHold, PayloadAssumption DEF TypeOK
  <1>2. /\ WithFact(work[i], v) \in Work /\ WithFact(work[i], v).pub = work[i].pub
        /\ WithFact(work[i], v).evidence = v /\ WithFact(work[i], v).pending = None
    BY <1>1, WithFactIs
  <1>3. /\ work'[i] = WithFact(work[i], v)
        /\ \A j \in Items : j # i => work'[j] = work[j]
    BY <1>1
  <1>4. /\ work'[i].pub = work[i].pub /\ work'[i].evidence = v /\ work'[i].pending = None
        /\ \A j \in Items : work'[j].pub = work[j].pub
        /\ \A j \in Items : work[j].evidence # None => work'[j].evidence = work[j].evidence
    BY <1>2, <1>3
  <1>5. \A j \in Items :
           /\ exec[j] \in Exec /\ exec'[j] \in Exec /\ ExecOK(exec[j])
           /\ RowStep(exec[j], exec'[j], j, {}, {}, S)
    BY DEF StreamInv, Facts, TableOK, TypeOK, TableStep
  <1>6. \A j \in Items :
           /\ exec[j].state # "ABSENT" <=> exec'[j].state # "ABSENT"
           /\ exec[j].state \in TerminalStates => exec'[j] = exec[j]
           /\ exec'[j].state = "SUCCEEDED" => exec'[j] = exec[j] \/ j \in S
           /\ exec'[j].epoch > 0 => exec[j].epoch > 0
    BY <1>5, RowAdvances
  <1>7. ASSUME NEW j \in Items
        PROVE  /\ Agree(exec'[j], work'[j])
               /\ PublicationOK(j, exec'[j], work'[j], declared')
               /\ WorkStep(work[j], work'[j], exec'[j])
    <2>1. Agree(exec[j], work[j]) /\ PublicationOK(j, exec[j], work[j], declared)
      BY TypesHold
    <2>2. PublicationOK(j, exec'[j], work'[j], declared')
      BY <1>4, <1>6, <2>1 DEF PublicationOK
    <2>3. CASE j = i
      BY <1>1, <1>4, <2>2, <2>3, StatesAre DEF Agree, WorkStep
    <2>4. CASE j # i
      <3>1. work'[j] = work[j] /\ j \notin S
        BY <1>3, <2>4
      <3>2. Agree(exec'[j], work'[j])
        BY <1>6, <2>1, <3>1, StatesAre DEF Agree
      <3>3. WorkStep(work[j], work'[j], exec'[j])
        BY <3>1 DEF WorkStep
      <3> QED
        BY <2>2, <3>2, <3>3
    <2> QED
      BY <2>3, <2>4
  <1>8. \A n \in Windows : member[n] = work[Reduction(n)].evidence
    BY DEF StreamInv, Facts, MembersAreEvidence
  <1>9. \A n \in Windows : member'[n] = work'[Reduction(n)].evidence
    <2>1. ASSUME NEW n \in Windows
          PROVE  member'[n] = work'[Reduction(n)].evidence
      <3>1. Reduction(n) \in Items
        BY ReductionIs
      <3>2. CASE i = Reduction(n)
        BY <1>4, <3>2
      <3>3. CASE i # Reduction(n)
        BY <1>3, <1>8, <3>1, <3>3
      <3> QED
        BY <3>2, <3>3
    <2> QED
      BY <2>1
  <1>10. \A n \in Windows : member[n] # None => member'[n] = member[n]
    BY <1>8
  <1>11. 0..(declared - 1) \subseteq Windows
    BY TypesHold, BoundsAssumption DEF Windows
  <1>12. \A n \in outbox : n < declared => n \in 0..(declared - 1)
    BY TypesHold, BoundsAssumption DEF TypeOK, Ordinals
  <1>13. MembersAreEvidence'
    <2>1. ASSUME NEW n \in outbox', n < declared
          PROVE  member'[n] # None
      <3>1. CASE n \in outbox
        <4>1. member[n] # None
          BY <2>1, <3>1 DEF StreamInv, Facts, MembersAreEvidence
        <4> QED
          BY <1>10, <1>11, <1>12, <2>1, <3>1, <4>1
      <3>2. CASE n \notin outbox
        BY <1>1, <2>1, <3>2
      <3> QED
        BY <3>1, <3>2
    <2> QED
      BY <1>9, <2>1 DEF MembersAreEvidence
  <1>14. \A n \in outbox' \ outbox : n < declared
    <2>1. ASSUME NEW n \in outbox' \ outbox
          PROVE  n < declared
      <3>1. n \in Windows /\ i = Reduction(n) /\ i # Final /\ i[1] = n
        BY <2>1, ReductionIs
      <3>2. PublicationOK(i, exec[i], work[i], declared)
        BY TypesHold
      <3> QED
        BY <3>1, <3>2 DEF PublicationOK, Visible
    <2> QED
      BY <2>1
  <1>15. OutboxOK'
    BY <1>14 DEF StreamInv, Facts, OutboxOK
  <1>16. FinalizationIsLast'
    <2>1. /\ work'[Final].pub = work[Final].pub
          /\ exec'[Final].state # "ABSENT" => exec[Final].state # "ABSENT"
      BY <1>4, <1>6, ItemsAre
    <2>2. declared \in outbox' => declared \in outbox
      BY <1>14, TypesHold
    <2>3. \A n \in 0..(declared - 1) : member[n] # None => member'[n] # None
      BY <1>10, <1>11
    <2> QED
      BY <2>1, <2>2, <2>3 DEF StreamInv, Facts, FinalizationIsLast
  <1>17. CausalOK'
    BY <1>4, <1>6, UpIs, ItemsAre DEF StreamInv, Facts, CausalOK
  <1>18. Facts'
    BY <1>7, <1>13, <1>15, <1>16, <1>17 DEF Facts
  <1>19. Forward({}, {}, S)
    <2>1. FactsKept /\ (plan.export => plan'.export)
      BY <1>4, <1>10 DEF FactsKept
    <2> QED
      BY <1>7, <2>1 DEF Forward
  <1>20. AtMostOne({}) /\ {} \in SUBSET Items
    BY DEF AtMostOne
  <1> QED
    BY <1>18, <1>19, <1>20, Conclude

\* accept_pending_terminal, whoever calls it.
LEMMA AcceptStep ==
    ASSUME StreamInv, NEW i \in Items, NEW v, Acceptable(i, v), Accept(i, v),
           exec[i].state = "SUCCEEDED", exec[i].result = v,
           UNCHANGED <<plan, declared, exec, outbox, owner, crashes>>,
           op' \in [Procs -> Op], cap' \in [Procs -> Lease \cup {None}],
           \A q \in Procs : Settled(q)
    PROVE  StepGoal
  <1>1. work[i].evidence = None /\ work[i].pending # None /\ work[i].pending.ev = v
    BY DEF Acceptable
  <1>2. v \in Payloads
    <2>1. work[i].pending \in Intent
      BY <1>1, TypesHold, WorkIs
    <2> QED
      BY <1>1, <2>1 DEF Intent
  <1>3. work \in [Items -> Work] /\ member \in [Windows -> Payloads \cup {None}]
    BY TypesHold DEF TypeOK
  <1>4. work' = [work EXCEPT ![i] = WithFact(work[i], v)]
    BY <1>3 DEF Accept, WithFact
  <1>5. /\ \A n \in Windows : member'[n] = IF i = Reduction(n) THEN v ELSE member[n]
        /\ member' = [n \in Windows |-> IF i = Reduction(n) THEN v ELSE member[n]]
    BY DEF Accept
  <1>6. member' \in [Windows -> Payloads \cup {None}] /\ work' \in [Items -> Work]
    <2>1. WithFact(work[i], v) \in Work
      BY <1>2, <1>3, WithFactIs
    <2> QED
      BY <1>2, <1>3, <1>4, <1>5, <2>1
  <1>7. TypeOK' /\ TableOK(exec)'
    BY <1>6, TypesHold DEF TypeOK, StreamInv, Facts
  <1>8. TableStep(exec, exec', {}, {}, {})
    BY DEF TableStep, RowStep
  <1>9. /\ {} \in SUBSET Items /\ AtMostOne({}) /\ {} \subseteq {i}
        /\ outbox \subseteq outbox' /\ exec'[i].state = "SUCCEEDED"
        /\ exec'[i].result = v /\ exec[i].state # "ABSENT"
        /\ \A n \in outbox' \ outbox : n \in Windows /\ i = Reduction(n)
    BY DEF AtMostOne
  <1> QED
    BY <1>1, <1>2, <1>4, <1>5, <1>7, <1>8, <1>9, FactStep

LEMMA CompleteAcceptOK ==
    ASSUME StreamInv, NEW p \in Procs, CompleteAccept(p)
    PROVE  StepGoal
  <1>1. /\ op[p].step = "succeeded" /\ Goto(p, At("idle"))
        /\ cap' = [cap EXCEPT ![p] = None]
        /\ UNCHANGED <<plan, declared, exec, outbox, owner, crashes>>
    BY DEF CompleteAccept, Done
  <1>2. /\ cap[p] # None /\ exec[cap[p].item].state = "SUCCEEDED"
        /\ exec[cap[p].item].result = op[p].ev
    BY <1>1 DEF StreamInv, ProcsOK, OpOK
  <1>3. PICK i \in Items : i = cap[p].item
    BY <1>2, TypesHold, LeaseIs
  <1>4. PICK v \in Payloads \cup {None} : v = op[p].ev
    BY TypesHold
  <1>5. At("idle") \in Op /\ At("idle").step \in Carefree
    BY AtIs, StepNames
  <1>6. CASE UNCHANGED <<work, member>>
    BY <1>1, <1>5, <1>6, TypesHold, QuietGoto
  <1>7. CASE Acceptable(i, v) /\ Accept(i, v)
    <2>1. /\ op' \in [Procs -> Op] /\ cap' \in [Procs -> Lease \cup {None}]
          /\ \A q \in Procs : Settled(q)
      BY <1>1, <1>5, CarefreeSettled
    <2>2. exec[i].state = "SUCCEEDED" /\ exec[i].result = v
      BY <1>2, <1>3, <1>4
    <2> QED
      BY <1>1, <1>7, <2>1, <2>2, AcceptStep
  <1> QED
    BY <1>3, <1>4, <1>6, <1>7 DEF CompleteAccept

LEMMA RecoverAcceptOK ==
    ASSUME StreamInv, NEW p \in Procs, NEW i \in Items, RecoverAccept(p, i)
    PROVE  StepGoal
  <1>1. PICK v \in Payloads \cup {None} : v = op[p].intents[i]
    BY TypesHold
  <1> DEFINE o == [op[p] EXCEPT !.intents[i] = None]
  <1>2. /\ op[p].step = "accept" /\ Goto(p, o)
        /\ UNCHANGED <<plan, declared, exec, outbox, owner, cap, crashes>>
    BY DEF RecoverAccept
  <1>3. o \in Op /\ o.step = "accept"
    <2>1. op[p] \in Op
      BY TypesHold
    <2> QED
      BY <1>2, <2>1 DEF Op
  <1> HIDE DEF o
  <1>4. o.step \in Carefree
    BY <1>3, StepNames
  <1>5. CASE UNCHANGED <<work, member>>
    BY <1>2, <1>3, <1>4, <1>5, TypesHold, QuietGoto
  <1>6. CASE exec[i].state = "SUCCEEDED" /\ IntentBinds(i, v)
             /\ Acceptable(i, v) /\ Accept(i, v)
    <2>1. /\ op' \in [Procs -> Op] /\ cap' \in [Procs -> Lease \cup {None}]
          /\ \A q \in Procs : Settled(q)
      BY <1>2, <1>3, <1>4, CarefreeSettled
    <2>2. exec[i].state = "SUCCEEDED" /\ exec[i].result = v
      BY <1>6 DEF IntentBinds
    <2> QED
      BY <1>2, <1>6, <2>1, <2>2, AcceptStep
  <1> QED
    BY <1>1, <1>5, <1>6 DEF RecoverAccept

LEMMA CommitWindowReductionOK ==
    ASSUME StreamInv, NEW p \in Procs, NEW n \in Windows, NEW v \in Payloads,
           CommitWindowReduction(p, n, v)
    PROVE  StepGoal
  <1>1. PICK i \in Items : i = Reduction(n)
    BY ReductionIs
  <1> DEFINE x == exec[i]
             y == Row("SUCCEEDED", x.epoch, None, x.renewal, v)
  <1>2. /\ Idle(p) /\ x.state = "RUNNING" /\ n \notin outbox
        /\ cap' = [cap EXCEPT ![p] = None] /\ outbox' = outbox \cup {n}
        /\ member' = [member EXCEPT ![n] = v]
        /\ UNCHANGED <<plan, declared, owner, op, crashes>>
    BY <1>1 DEF CommitWindowReduction
  <1>3. /\ x \in Exec /\ ExecOK(x) /\ x.state \in ActiveStates /\ exec \in [Items -> Exec]
        /\ Agree(x, work[i])
    BY <1>2, TypesHold, StatesAre DEF TypeOK
  <1>4. exec' = Ending(exec, i, "SUCCEEDED", None, v)
    BY <1>1 DEF CommitWindowReduction, Ending
  <1>5. exec' = Put(exec, i, y)
    BY <1>3, <1>4, EndingIs
  <1>6. y \in Exec /\ y.state = "SUCCEEDED" /\ y.epoch = x.epoch /\ y.result = v
    <2>1. "SUCCEEDED" \in ExecStates /\ v \in Payloads \cup {None}
      BY StatesAre DEF StateSet
    <2> QED
      BY <1>3, <2>1, ExecIs, RowIs
  <1> HIDE DEF y
  <1>7. /\ ExecOK(y) /\ Won(x, y) /\ x.state \in Begun
        /\ y.state \in Begun \cup TerminalStates
    BY <1>3, <1>6, StatesAre DEF ExecOK, Won, Begun
  <1>8. PICK S \in SUBSET Items : S = {i}
    OBVIOUS
  <1>9. /\ RowStep(x, y, i, {}, {}, S) /\ AtMostOne(S) /\ {} \in SUBSET Items
        /\ S \subseteq {i} /\ S \in SUBSET Items
    BY <1>7, <1>8 DEF RowStep, AtMostOne
  <1>10. /\ exec' \in [Items -> Exec] /\ TableStep(exec, exec', {}, {}, S)
         /\ exec'[i] = y /\ TableOK(exec')
    <2>1. \E k \in Windows : i = Reduction(k)
      BY <1>1
    <2>2. /\ i \in Items /\ y \in Exec /\ ExecOK(y) /\ exec[i].state \in Begun
          /\ y.state \in Begun \cup TerminalStates
      BY <1>6, <1>7
    <2> HIDE DEF x
    <2>3. RowStep(exec[i], y, i, {}, {}, S)
      BY <1>9 DEF x
    <2>4. exec' \in [Items -> Exec] /\ exec'[i] = y
      BY <1>3, <1>5, <2>2, PutIs
    <2>5. {} \in SUBSET Items /\ S \in SUBSET Items
      BY <1>9
    <2>6. TableStep(exec, exec', {}, {}, S)
      BY <1>5, <2>2, <2>3, <2>5, OneRow
    <2>7. TableOK(exec')
      BY <1>5, <2>1, <2>2, <2>3, <2>5, OneRow
    <2> QED
      BY <2>4, <2>6, <2>7
  <1>11. work[i].evidence = None
    BY <1>2, <1>3 DEF Agree
  <1>12. work \in [Items -> Work] /\ member \in [Windows -> Payloads \cup {None}]
    BY TypesHold DEF TypeOK
  <1>13. work' = [work EXCEPT ![i] = WithFact(work[i], v)]
    BY <1>1, <1>12 DEF CommitWindowReduction, WithFact
  <1>14. /\ member' \in [Windows -> Payloads \cup {None}]
         /\ \A k \in Windows : member'[k] = IF i = Reduction(k) THEN v ELSE member[k]
    <2>1. \A k \in Windows : i = Reduction(k) <=> k = n
      BY <1>1, ReductionIs
    <2> QED
      BY <1>2, <1>12, <2>1
  <1>15. work' \in [Items -> Work]
    <2>1. WithFact(work[i], v) \in Work
      BY <1>12, WithFactIs
    <2> QED
      BY <1>12, <1>13, <2>1
  <1>16. /\ cap' \in [Procs -> Lease \cup {None}] /\ cap'[p] = None
         /\ \A q \in Procs : q # p => cap'[q] = cap[q]
    BY <1>2, TypesHold, DropIs
  <1>17. \A q \in Procs : Settled(q)
    BY <1>2, <1>16, IdleSettled DEF CapOK
  <1>18. TypeOK' /\ TableOK(exec)'
    <2>1. outbox' \subseteq Ordinals
      BY <1>2, TypesHold, BoundsAssumption DEF TypeOK, Ordinals, Windows
    <2> QED
      BY <1>2, <1>10, <1>14, <1>15, <1>16, <2>1, TypesHold DEF TypeOK
  <1>19. /\ exec'[i].state = "SUCCEEDED" /\ exec'[i].result = v /\ exec[i].state # "ABSENT"
         /\ outbox \subseteq outbox'
         /\ \A k \in outbox' \ outbox : k \in Windows /\ i = Reduction(k)
    BY <1>1, <1>2, <1>6, <1>10
  <1> QED
    BY <1>2, <1>9, <1>10, <1>11, <1>13, <1>14, <1>17, <1>18, <1>19, FactStep

-----------------------------------------------------------------------------
(* The invariant holds.                                                    *)

LEMMA InitOK == Init => StreamInv
  <1> SUFFICES ASSUME Init
               PROVE  StreamInv
    OBVIOUS
  <1>1. /\ plan = [eos |-> FALSE, sealed |-> FALSE, size |-> 0, export |-> FALSE,
                   closed |-> FALSE]
        /\ declared = 0 /\ outbox = {} /\ owner = None /\ crashes = 0
        /\ member = [n \in Windows |-> None]
        /\ op = [p \in Procs |-> At("down")] /\ cap = [p \in Procs |-> None]
    BY DEF Init
  <1>2. exec = [i \in Items |-> Row("ABSENT", 0, None, 0, None)]
    <2>1. [NewExec EXCEPT !.state = "ABSENT"] = Row("ABSENT", 0, None, 0, None)
      BY DEF NewExec, Row
    <2> QED
      BY <2>1 DEF Init
  <1>3. \A i \in Items : exec[i] \in Exec /\ exec[i].state = "ABSENT" /\ exec[i].epoch = 0
    <2>1. /\ "ABSENT" \in ExecStates /\ 0 \in 0..MaxAttempts /\ 0 \in 0..MaxRenewals
          /\ None \in WorkerIds \cup {None} /\ None \in Payloads \cup {None}
      BY BoundsAssumption, StatesAre DEF StateSet
    <2> DEFINE y == Row("ABSENT", 0, None, 0, None)
    <2>2. y \in Exec /\ y.state = "ABSENT" /\ y.epoch = 0
      BY <2>1, RowIs
    <2> HIDE DEF y
    <2>3. exec = [i \in Items |-> y]
      BY <1>2 DEF y
    <2> QED
      BY <2>2, <2>3
  <1>4. exec \in [Items -> Exec]
    BY <1>2, <1>3
  <1>5. /\ work \in [Items -> Work]
        /\ \A i \in Items : /\ work[i].pub = "ABSENT" /\ work[i].evidence = None
                            /\ work[i].pending = None
    BY DEF Init, Work
  <1>6. plan \in Plan /\ ~plan.sealed
    BY <1>1, BoundsAssumption DEF Plan
  <1>7. /\ op \in [Procs -> Op]
        /\ \A p \in Procs : op[p].step \in Carefree /\ cap[p] = None
    BY <1>1, AtIs, StepNames
  <1>8. TypeOK
    BY <1>1, <1>4, <1>5, <1>6, <1>7, BoundsAssumption DEF TypeOK
  <1>9. TableOK(exec)
    BY <1>3, <1>4, ItemsAre, StatesAre DEF TableOK, ExecOK, ReadyOK, Begun
  <1>10. \A i \in Items : Agree(exec[i], work[i])
    BY <1>3, <1>5 DEF Agree
  <1>11. \A i \in Items : PublicationOK(i, exec[i], work[i], declared)
    <2>1. \A i \in Items : i # Final => ~(i[1] < declared)
      BY <1>1, ItemsAre
    <2> QED
      BY <1>3, <1>5, <2>1 DEF PublicationOK
  <1>12. MembersAreEvidence /\ OutboxOK
    BY <1>1, <1>5, ReductionIs DEF MembersAreEvidence, OutboxOK
  <1>13. FinalizationIsLast /\ CausalOK
    BY <1>3, <1>5, <1>6, ItemsAre DEF FinalizationIsLast, CausalOK
  <1>14. ProcsOK
    BY <1>7, CarefreeOK DEF ProcsOK, CapOK
  <1> QED
    BY <1>8, <1>9, <1>10, <1>11, <1>12, <1>13, <1>14 DEF StreamInv, Facts

LEMMA StepOK == StreamInv /\ [Next]_vars => StepGoal
  <1> SUFFICES ASSUME StreamInv, [Next]_vars
               PROVE  StepGoal
    OBVIOUS
  <1>1. ASSUME NEW p \in Procs, Planning(p)
        PROVE  StepGoal
    BY <1>1, OpenOK, AdmitOK, AppendRaisesOK, ReplayOK, AppendOK, SetPlannerEosOK,
       SealReadOK, SealStoreOK, MarkExportBarrierOK, GateReadOK, GateStoreOK,
       PublishFinalizationOK DEF Planning
  <1>2. ASSUME NEW p \in Procs, Executing(p)
        PROVE  StepGoal
    BY <1>2, ClaimOK, ResumeOwnedActiveOK, StartOK, HeartbeatOK, FailRetryableOK,
       AbandonOK, StorePendingTerminalOK, CompleteSucceedOK, CompleteRaisesOK,
       CompleteAcceptOK, CommitWindowReductionOK DEF Executing
  <1>3. ASSUME NEW p \in Procs, Recovering(p)
        PROVE  StepGoal
    BY <1>3, RecoverReadOK, RecoverRowsOK, RecoverAcceptOK, RecoverRaisesOK,
       ReadRowsOK, ProjectOK, PublishOK DEF Recovering
  <1>4. CASE UNCHANGED vars
    <2>1. TypeOK' /\ \A q \in Procs : Settled(q)
      BY <1>4, TypesHold DEF TypeOK, Settled, vars
    <2> QED
      BY <1>4, <2>1, QuietStep DEF vars
  <1> QED
    BY <1>1, <1>2, <1>3, <1>4, CrashOK, LeaseLapsesOK, RetryWakesOK DEF Next

\* Everything a process in the middle of an operation relies on holds when it
\* goes on, whatever the other processes, crashes and lapsed leases did.
THEOREM StreamInvariance == Spec => []StreamInv
  <1>1. StreamInv /\ [Next]_vars => StreamInv'
    BY StepOK DEF StepGoal
  <1> QED
    BY <1>1, InitOK, PTL DEF Spec

\* Every variable keeps the values the ledgers' schemas allow.
THEOREM TypeCorrect == Spec => []TypeOK
  <1>1. StreamInv => TypeOK
    BY DEF StreamInv
  <1> QED
    BY <1>1, StreamInvariance, PTL

\* The execution ledger and the stream ledger agree about every terminal fact,
\* and a success that is not accepted yet has the intent recovery needs.
THEOREM TwoLedgersAgree == Spec => []LedgersAgree
  <1>1. StreamInv => LedgersAgree
    BY DEF StreamInv, Facts, LedgersAgree, Agree
  <1> QED
    BY <1>1, StreamInvariance, PTL

\* A window's member is its reduction's accepted evidence, and every stored
\* window result has its member.
THEOREM MembersMatchEvidence == Spec => []MembersAreEvidence
  <1>1. StreamInv => MembersAreEvidence
    BY DEF StreamInv, Facts
  <1> QED
    BY <1>1, StreamInvariance, PTL

\* Finalization is planned and announced only for a sealed plan with every
\* member and the export barrier, although the gate reads them beforehand.
THEOREM FinalizationComesLast == Spec => []FinalizationIsLast
  <1>1. StreamInv => FinalizationIsLast
    BY DEF StreamInv, Facts
  <1> QED
    BY <1>1, StreamInvariance, PTL

\* Work is published only after its execution exists, and only declared work
\* has one.
THEOREM WorkIsPublishedInOrder == Spec => []PublicationOrder
  <1>1. StreamInv => PublicationOrder
    BY DEF StreamInv, Facts, PublicationOrder, PublicationOK, Visible
  <1> QED
    BY <1>1, StreamInvariance, PTL

\* An item is handed out only with the accepted evidence of every upstream.
THEOREM InputsAreCausal == Spec => []CausalInputs
  <1>1. ASSUME StreamInv, NEW i \in Items, exec[i].epoch > 0
        PROVE  \A u \in Upstream(i) : work[u].evidence # None
    <2>1. CASE i = Final
      <3>1. exec[Final].state # "ABSENT"
        BY <1>1, <2>1, TypesHold DEF ExecOK
      <3> QED
        BY <1>1, <2>1, <3>1, FinalUpstream
    <2>2. CASE i \in WorkItems
      BY <1>1, <2>2, UpIs DEF StreamInv, Facts, CausalOK
    <2> QED
      BY <2>1, <2>2, ItemsAre
  <1>2. StreamInv => CausalInputs
    BY <1>1 DEF CausalInputs
  <1> QED
    BY <1>2, StreamInvariance, PTL

\* Evidence, members, messages, EOS, seal and closure are never changed, and
\* EOS freezes the set of windows.
THEOREM FactsStayFinal == Spec => FactsAreFinal
  <1>1. StreamInv /\ [Next]_vars => [FactsKept]_vars
    BY StepOK DEF StepGoal, Forward
  <1> QED
    BY <1>1, StreamInvariance, PTL DEF Spec, FactsAreFinal, FactsKept

-----------------------------------------------------------------------------
(* The executions of a recording stay within WorkContract.                 *)

UpOf(i, n) == IF i = Final THEN {Reduction(m) : m \in 0..(n - 1)} ELSE Up(i)

\* The contract's view of row x of item i, whose upstreams are U.
JobRow(x, i, U) ==
    [phase |-> PhaseOf(x.state), up |-> IF x.state = "ABSENT" THEN {} ELSE U,
     req |-> IF i = Final THEN (IF x.state = "ABSENT" THEN {} ELSE U) ELSE {},
     tries |-> x.epoch, max |-> MaxAttempts]

Jobs(e, n) == [i \in Items |-> JobRow(e[i], i, UpOf(i, n))]

\* Nothing runs before its upstreams, and nothing waits for nothing.
RowsAreCurrent(e, n) ==
    \A i \in Items :
        /\ e[i].state \in Begun => \A u \in UpOf(i, n) :
              /\ u \in Items /\ Terminal(e, u)
              /\ i = Final => e[u].state = "SUCCEEDED"
        /\ e[i].state = "PLANNED" => \E u \in UpOf(i, n) : u \in Items /\ ~Terminal(e, u)

Current == RowsAreCurrent(exec, plan.size)

LEMMA JobsAre == [i \in Items |-> JobOf(i)] = Jobs(exec, plan.size)
  <1>1. ASSUME NEW i \in Items
        PROVE  JobOf(i) = JobRow(exec[i], i, UpOf(i, plan.size))
    <2>1. Upstream(i) = UpOf(i, plan.size)
      BY DEF Upstream, UpOf, Up
    <2> QED
      BY <2>1 DEF JobOf, JobRow
  <1> QED
    BY <1>1 DEF Jobs

LEMMA StreamIsCurrent == StreamInv => Current
  <1> SUFFICES ASSUME StreamInv, NEW i \in Items
               PROVE  /\ exec[i].state \in Begun => \A u \in UpOf(i, plan.size) :
                            /\ u \in Items /\ Terminal(exec, u)
                            /\ i = Final => exec[u].state = "SUCCEEDED"
                      /\ exec[i].state = "PLANNED" =>
                            \E u \in UpOf(i, plan.size) : u \in Items /\ ~Terminal(exec, u)
    BY DEF Current, RowsAreCurrent
  <1>1. TableOK(exec)
    BY DEF StreamInv, Facts
  <1>2. CASE i \in WorkItems
    <2>1. UpOf(i, plan.size) = Up(i) /\ Up(i) \subseteq Items /\ i # Final
      BY <1>2, UpIs, ItemsAre DEF UpOf
    <2>2. ReadyOK(exec, i)
      BY <1>1, <1>2 DEF TableOK
    <2> QED
      BY <2>1, <2>2 DEF ReadyOK, UpstreamEnded
  <1>3. CASE i = Final
    <2>1. UpOf(i, plan.size) = Upstream(Final)
      BY <1>3 DEF UpOf, Upstream
    <2>2. exec[Final].state # "PLANNED"
      BY <1>1 DEF TableOK
    <2>3. exec[Final].state \in Begun => exec[Final].state # "ABSENT"
      BY DEF Begun, ActiveStates
    <2>4. exec[Final].state # "ABSENT" =>
             \A u \in Upstream(Final) : u \in WorkItems /\ exec[u].state = "SUCCEEDED"
      BY FinalUpstream
    <2> QED
      BY <1>3, <2>1, <2>2, <2>3, <2>4, ItemsAre DEF Terminal, TerminalStates
  <1> QED
    BY <1>2, <1>3, ItemsAre

LEMMA PhaseIs ==
    ASSUME NEW s \in ExecStates
    PROVE  /\ PhaseOf(s) = "none" <=> s = "ABSENT"
           /\ PhaseOf(s) = "waiting" <=> s = "PLANNED"
           /\ PhaseOf(s) = "offered" <=> s \in {"READY", "RETRY_WAIT"}
           /\ PhaseOf(s) = "out" <=> s \in ActiveStates
           /\ PhaseOf(s) = "won" <=> s = "SUCCEEDED"
           /\ PhaseOf(s) = "lost" <=> s = "FAILED_PERMANENT"
           /\ PhaseOf(s) # "waived"
  BY DEF PhaseOf, ExecStates, ActiveStates, TerminalStates

LEMMA JobRowIs ==
    ASSUME NEW x, NEW i, NEW U
    PROVE  /\ JobRow(x, i, U).phase = PhaseOf(x.state)
           /\ x.state # "ABSENT" => JobRow(x, i, U).up = U
           /\ JobRow(x, i, U).req \subseteq JobRow(x, i, U).up
           /\ i # Final => JobRow(x, i, U).req = {}
  BY DEF JobRow

\* The step of one job, from the step of its row.
LEMMA RowCommit ==
    ASSUME NEW j, NEW k, NEW i, NEW x \in Exec, NEW y \in Exec, NEW U, NEW V,
           j[i] = JobRow(x, i, U), k[i] = JobRow(y, i, V), x.state # "ABSENT" => U = V,
           ExecOK(x), ExecOK(y), NEW G, NEW H, NEW S, RowStep(x, y, i, G, H, S)
    PROVE  /\ \/ k[i] = j[i]
              \/ Contract!Enter(j, k, i)
              \/ /\ Contract!Hand(j, k, i) \/ Contract!Move(j, k, i)
                 /\ Contract!SamePolicy(j, k, i)
           /\ Contract!Hand(j, k, i) => i \in H
           /\ k[i].phase = "won" /\ k[i] # j[i] => i \in S
  <1>1. /\ x.state \in ExecStates /\ y.state \in ExecStates
        /\ x.epoch \in Nat /\ y.epoch \in Nat /\ y.epoch <= MaxAttempts /\ MaxAttempts \in Nat
    BY ExecIs, BoundsAssumption
  <1>2. /\ j[i].phase = PhaseOf(x.state) /\ k[i].phase = PhaseOf(y.state)
        /\ j[i].tries = x.epoch /\ k[i].tries = y.epoch
        /\ k[i].max = MaxAttempts
    BY DEF JobRow
  <1>3. x.state # "ABSENT" /\ y.state # "ABSENT" => Contract!SamePolicy(j, k, i)
    BY DEF JobRow, Contract!SamePolicy
  <1>4. x.state # "ABSENT" /\ y.state # "ABSENT" /\ x.epoch = y.epoch
        /\ PhaseOf(x.state) = PhaseOf(y.state) => k[i] = j[i]
    BY DEF JobRow
  <1>5. y = x => k[i] = j[i]
    BY DEF JobRow
  <1>6. /\ Contract!Hand(j, k, i) => y.epoch = x.epoch + 1
        /\ k[i].phase = "won" => y.state = "SUCCEEDED"
    BY <1>1, <1>2, PhaseIs DEF Contract!Hand
  <1>7. y.state \in {"READY", "RETRY_WAIT"} => y.epoch < MaxAttempts
    BY DEF ExecOK
  <1>8. CASE y = x
    BY <1>1, <1>5, <1>6, <1>8
  <1>9. CASE Woken(x, y)
    <2>1. /\ PhaseOf(x.state) \in {"waiting", "offered"} /\ PhaseOf(y.state) = "offered"
          /\ x.state # "ABSENT" /\ y.state # "ABSENT" /\ y.state # "SUCCEEDED"
          /\ y.epoch = x.epoch
      BY <1>1, <1>9, PhaseIs DEF Woken
    <2> QED
      BY <1>1, <1>2, <1>3, <1>4, <1>6, <2>1 DEF Contract!Move
  <1>10. CASE Served(x, y)
    <2>1. /\ PhaseOf(x.state) = "out" /\ PhaseOf(y.state) \in {"out", "offered", "lost"}
          /\ PhaseOf(y.state) = "offered" => y.epoch < MaxAttempts
          /\ x.state # "ABSENT" /\ y.state # "ABSENT" /\ y.state # "SUCCEEDED"
          /\ y.epoch = x.epoch
      BY <1>1, <1>7, <1>10, PhaseIs, StatesAre DEF Served
    <2> QED
      BY <1>1, <1>2, <1>3, <1>4, <1>6, <2>1 DEF Contract!Move
  <1>11. CASE Entered(x, y)
    <2>1. /\ PhaseOf(x.state) = "none" /\ PhaseOf(y.state) \in {"waiting", "offered"}
          /\ x.epoch = 0 /\ y.epoch = 0 /\ y.state # "SUCCEEDED"
      BY <1>1, <1>11, PhaseIs DEF Entered, ExecOK
    <2> QED
      BY <1>2, <1>6, <2>1 DEF Contract!Enter
  <1>12. CASE Handed(x, y) /\ i \in H
    <2>1. /\ PhaseOf(x.state) = "offered" /\ PhaseOf(y.state) = "out"
          /\ x.state # "ABSENT" /\ y.state # "ABSENT" /\ y.state # "SUCCEEDED"
          /\ y.epoch = x.epoch + 1
      BY <1>1, <1>12, PhaseIs, StatesAre DEF Handed
    <2> QED
      BY <1>1, <1>2, <1>3, <1>6, <1>12, <2>1 DEF Contract!Hand
  <1>13. CASE Won(x, y) /\ i \in S
    <2>1. /\ PhaseOf(x.state) = "out" /\ PhaseOf(y.state) = "won"
          /\ x.state # "ABSENT" /\ y.state # "ABSENT" /\ y.epoch = x.epoch
      BY <1>1, <1>13, PhaseIs, StatesAre DEF Won
    <2> QED
      BY <1>1, <1>2, <1>3, <1>6, <1>13, <2>1 DEF Contract!Move
  <1> QED
    BY <1>8, <1>9, <1>10, <1>11, <1>12, <1>13 DEF RowStep

\* One transaction of the streaming path is one commit of the contract.
LEMMA CommitFrom ==
    ASSUME NEW e, NEW f, NEW n, NEW m, TableOK(e), TableOK(f), RowsAreCurrent(f, m),
           e[Final].state # "ABSENT" => m = n,
           NEW G, NEW H, NEW S, AtMostOne(H), AtMostOne(S), TableStep(e, f, G, H, S)
    PROVE  Contract!Commit(Jobs(e, n), Jobs(f, m))
  <1> DEFINE j == Jobs(e, n)
             k == Jobs(f, m)
  <1>1. ASSUME NEW i \in Items
        PROVE  /\ j[i] = JobRow(e[i], i, UpOf(i, n)) /\ k[i] = JobRow(f[i], i, UpOf(i, m))
               /\ e[i].state # "ABSENT" => UpOf(i, n) = UpOf(i, m)
               /\ e[i] \in Exec /\ f[i] \in Exec /\ ExecOK(e[i]) /\ ExecOK(f[i])
               /\ RowStep(e[i], f[i], i, G, H, S)
    BY DEF Jobs, UpOf, TableOK, TableStep
  <1>2. ASSUME NEW i \in Items
        PROVE  /\ k[i].phase = PhaseOf(f[i].state) /\ f[i].state \in ExecStates
               /\ f[i].state # "ABSENT" => k[i].up = UpOf(i, m)
               /\ k[i].req \subseteq k[i].up /\ (i # Final => k[i].req = {})
    <2>1. k[i] = JobRow(f[i], i, UpOf(i, m)) /\ f[i].state \in ExecStates
      BY <1>1, ExecIs
    <2> QED
      BY <2>1, JobRowIs
  <1> HIDE DEF j, k
  <1>3. ASSUME NEW i \in Items
        PROVE  /\ \/ k[i] = j[i]
                  \/ Contract!Enter(j, k, i)
                  \/ /\ Contract!Hand(j, k, i) \/ Contract!Move(j, k, i)
                     /\ Contract!SamePolicy(j, k, i)
               /\ Contract!Hand(j, k, i) => i \in H
               /\ k[i].phase = "won" /\ k[i] # j[i] => i \in S
    <2>1. PICK x, y, U, V : /\ x = e[i] /\ y = f[i]
                            /\ U = UpOf(i, n) /\ V = UpOf(i, m)
      OBVIOUS
    <2>2. /\ j[i] = JobRow(x, i, U) /\ k[i] = JobRow(y, i, V)
          /\ x.state # "ABSENT" => U = V
          /\ x \in Exec /\ y \in Exec /\ ExecOK(x) /\ ExecOK(y)
          /\ RowStep(x, y, i, G, H, S)
      BY <1>1, <2>1
    <2> HIDE <2>1
    <2> QED
      BY <2>2, RowCommit
  <1>4. \A i, h \in Items : Contract!Hand(j, k, i) /\ Contract!Hand(j, k, h) => i = h
    BY <1>3 DEF AtMostOne
  <1>5. \A i, h \in Items : k[i].phase = "won" /\ k[h].phase = "won"
                           /\ k[i] # j[i] /\ k[h] # j[h] => i = h
    BY <1>3 DEF AtMostOne
  <1>6. \A u \in Items : /\ Contract!Over(k, u) <=> Terminal(f, u)
                         /\ f[u].state = "SUCCEEDED" => Contract!Good(k, u)
    BY <1>2, PhaseIs, StatesAre DEF Contract!Over, Contract!Good, Contract!Ended, Terminal
  <1>7. ASSUME NEW i \in Items, k[i].phase \in {"offered", "out", "won"}
        PROVE  Contract!Cleared(k, i)
    <2>1. f[i].state \in Begun /\ f[i].state # "ABSENT"
      BY <1>2, <1>7, PhaseIs DEF Begun, ActiveStates
    <2>2. \A u \in k[i].up : /\ u \in Items /\ Terminal(f, u)
                             /\ i = Final => f[u].state = "SUCCEEDED"
      BY <1>2, <2>1 DEF RowsAreCurrent
    <2> QED
      BY <1>2, <1>6, <2>2 DEF Contract!Cleared
  <1>8. ASSUME NEW i \in Items, k[i].phase = "waiting"
        PROVE  \E u \in k[i].up : ~Contract!Over(k, u)
    <2>1. f[i].state = "PLANNED"
      BY <1>2, <1>8, PhaseIs
    <2>2. PICK u \in UpOf(i, m) : u \in Items /\ ~Terminal(f, u)
      BY <2>1 DEF RowsAreCurrent
    <2> QED
      BY <1>2, <1>6, <2>1, <2>2
  <1>9. Contract!Commit(j, k)
    BY <1>3, <1>4, <1>5, <1>7, <1>8 DEF Contract!Commit
  <1> QED
    BY <1>9 DEF j, k

\* The executions of a recording are used within the work contract, although
\* commit_window_reduction ends them without the readiness refresh.
THEOREM ContractIsUsed == Spec => UsesContract
  <1>1. Init => Contract!Init
    <2>1. ASSUME Init, NEW i \in Items
          PROVE  JobOf(i).phase = "none" /\ JobOf(i).tries = 0
      <3>1. exec[i].state = "ABSENT" /\ exec[i].epoch = 0 /\ "ABSENT" \in ExecStates
        <4>1. PICK y : y = Row("ABSENT", 0, None, 0, None)
          OBVIOUS
        <4>2. [NewExec EXCEPT !.state = "ABSENT"] = y
          BY <4>1 DEF NewExec, Row
        <4>3. exec[i] = y
          BY <2>1, <4>2 DEF Init
        <4> QED
          BY <4>1, <4>3, RowIs, StatesAre DEF StateSet
      <3>2. PhaseOf(exec[i].state) = "none"
        BY <3>1, PhaseIs
      <3> QED
        BY <3>1, <3>2 DEF JobOf
    <2> QED
      BY <2>1 DEF Contract!Init
  <1>2. StreamInv /\ StreamInv' /\ Current' /\ [Next]_vars
           => [Contract!Next]_([i \in Items |-> JobOf(i)])
    <2> SUFFICES ASSUME StreamInv, StreamInv', Current', [Next]_vars
                 PROVE  Contract!Commit([i \in Items |-> JobOf(i)],
                                        [i \in Items |-> JobOf(i)]')
      BY DEF Contract!Next
    <2>1. PICK G \in SUBSET Items, H \in SUBSET Items, S \in SUBSET Items :
             AtMostOne(H) /\ AtMostOne(S) /\ Forward(G, H, S)
      BY StepOK DEF StepGoal
    <2>2. TableOK(exec) /\ TableOK(exec') /\ TableStep(exec, exec', G, H, S)
      BY <2>1 DEF StreamInv, Facts, Forward, TableOK
    <2>3. exec[Final].state # "ABSENT" => plan'.size = plan.size
      BY <2>1, FinalUpstream DEF Forward, FactsKept
    <2>4. RowsAreCurrent(exec', plan'.size)
      BY DEF Current
    <2>5. Contract!Commit(Jobs(exec, plan.size), Jobs(exec', plan'.size))
      BY <2>1, <2>2, <2>3, <2>4, CommitFrom
    <2>6. [i \in Items |-> JobOf(i)]' = Jobs(exec', plan'.size)
      <3>1. ASSUME NEW i \in Items
            PROVE  JobOf(i)' = JobRow(exec'[i], i, UpOf(i, plan'.size))
        <4>1. Upstream(i)' = UpOf(i, plan'.size)
          BY DEF Upstream, UpOf, Up
        <4> QED
          BY <4>1 DEF JobOf, JobRow
      <3> QED
        BY <3>1 DEF Jobs
    <2> QED
      BY <2>5, <2>6, JobsAre
  <1> QED
    BY <1>1, <1>2, StreamIsCurrent, StreamInvariance, PTL DEF Spec, UsesContract, Contract!Spec

=============================================================================
