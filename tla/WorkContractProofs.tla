------------------------- MODULE WorkContractProofs -------------------------
(***************************************************************************)
(* WorkScheduler keeps readiness current, excludes a second executor,      *)
(* fences every success and implements WorkContract, for every value of    *)
(* the constants.                                                          *)
(*                                                                         *)
(* WorkSchedulerProofs shows what the table functions keep.  Here each is  *)
(* shown to be tame: it hands nothing out, wins nothing, and takes a lease *)
(* back only once that lease has lapsed.  Only claim hands out and only    *)
(* succeed wins, each a single row.                                        *)
(***************************************************************************)
EXTENDS WorkSchedulerProofs

\* Nobody claimed and nobody changed the policy.
SameClaims(x, y) ==
    /\ y.attempt = x.attempt /\ y.epoch = x.epoch /\ y.max = x.max
    /\ y.up = x.up /\ y.req = x.req

\* What maintenance at time `now' may make of one row.
TameRow(x, y, now) ==
    \/ y = x
    \/ /\ x.state \notin TerminalStates \cup {"ABSENT"}
       /\ y.state \in {"READY"} \cup (TerminalStates \ {"SUCCEEDED"})
       /\ SameClaims(x, y)
       /\ x.state \in ActiveStates /\ y.state \notin TerminalStates
            => x.leaseExp <= now

Tame(r, q, now) == \A i \in Items : TameRow(r[i], q[i], now)

\* No PLANNED row of r has only ended upstreams, except those of S.
CurrentBut(r, S) ==
    \A i \in Items : r[i].state = "PLANNED" =>
        i \in S \/ \E u \in r[i].up : ~Terminal(r, u)

Current(r) == CurrentBut(r, {})

-----------------------------------------------------------------------------
(* Maintenance is tame.                                                    *)

LEMMA TameTrans ==
    ASSUME NEW r, NEW q, NEW p, NEW now, Tame(r, q, now), Tame(q, p, now)
    PROVE  Tame(r, p, now)
  <1> SUFFICES ASSUME NEW i \in Items PROVE TameRow(r[i], p[i], now)
    BY DEF Tame
  <1>1. TameRow(r[i], q[i], now) /\ TameRow(q[i], p[i], now)
    BY DEF Tame
  <1> QED
    BY <1>1 DEF TameRow, SameClaims, ActiveStates, TerminalStates

LEMMA TameSame == ASSUME NEW r, NEW now PROVE Tame(r, r, now)
  BY DEF Tame, TameRow

\* _set_terminal and its stamp leave the other columns alone.
LEMMA SetTerminalRow ==
    ASSUME NEW x \in Row, NEW s \in States
    PROVE  LET y == SetTerminal(x, s) IN
           /\ y \in Row /\ y.state = s /\ y.attempt = x.attempt
           /\ y.epoch = x.epoch /\ y.max = x.max /\ y.up = x.up
           /\ y.req = x.req
  BY DEF SetTerminal, Row, Times

LEMMA ReleaseRow ==
    ASSUME NEW x \in Row, NEW s \in States, NEW t \in Nat
    PROVE  LET y == Release(x, s, t) IN
           /\ y \in Row /\ y.state = s /\ y.attempt = x.attempt
           /\ y.epoch = x.epoch /\ y.max = x.max /\ y.up = x.up
           /\ y.req = x.req
  BY DEF Release, Row, Times

\* A leased row whose attempt is closed, ended or released.
LEMMA ClosedRow ==
    ASSUME NEW x \in Row, RowInv(x), x.state \in ActiveStates,
           NEW o \in Outcomes, NEW s \in States, NEW t \in Nat
    PROVE  /\ LET y == SetTerminal(FinishAttempt(x, o), s) IN
              /\ y.state = s /\ y.attempt = x.attempt /\ y.epoch = x.epoch
              /\ y.max = x.max /\ y.up = x.up /\ y.req = x.req
           /\ LET y == Release(FinishAttempt(x, o), s, t) IN
              /\ y.state = s /\ y.attempt = x.attempt /\ y.epoch = x.epoch
              /\ y.max = x.max /\ y.up = x.up /\ y.req = x.req
  <1> DEFINE z == FinishAttempt(x, o)
  <1>1. Len(x.log) > 0
    BY DEF RowInv, LedgerAgrees, Row, ActiveStates
  <1>2. /\ z \in Row /\ z.attempt = x.attempt /\ z.epoch = x.epoch
        /\ z.max = x.max /\ z.up = x.up /\ z.req = x.req
    BY <1>1, FinishAttemptRow
  <1> HIDE DEF z
  <1>3. LET y == SetTerminal(z, s) IN
        /\ y.state = s /\ y.attempt = x.attempt /\ y.epoch = x.epoch
        /\ y.max = x.max /\ y.up = x.up /\ y.req = x.req
    BY <1>2, SetTerminalRow
  <1>4. LET y == Release(z, s, t) IN
        /\ y.state = s /\ y.attempt = x.attempt /\ y.epoch = x.epoch
        /\ y.max = x.max /\ y.up = x.up /\ y.req = x.req
    BY <1>2, ReleaseRow
  <1> QED
    BY <1>3, <1>4 DEF z

\* The rows _refresh_planned_for_work_ids(seeds) makes READY.
OfferedBy(r, seeds) ==
    {d \in (seeds \cup Downstream(r, Cascade(r, seeds))) \ Cascade(r, seeds) :
        /\ r[d].state = "PLANNED"
        /\ \A u \in r[d].up : Terminal(r, u) \/ u \in Cascade(r, seeds)}

\* _refresh_planned_for_work_ids fails or offers PLANNED rows, and nothing else.
LEMMA RefreshRows ==
    ASSUME NEW r, TableInv(r), NEW now \in Nat, NEW seeds, NEW i \in Items
    PROVE  LET q == Refresh(r, now, seeds) IN
           \/ /\ i \notin Cascade(r, seeds) /\ i \notin OfferedBy(r, seeds)
              /\ q[i] = r[i]
           \/ /\ i \in Cascade(r, seeds) /\ r[i].state = "PLANNED"
              /\ q[i].state = "FAILED_PERMANENT" /\ SameClaims(r[i], q[i])
           \/ /\ i \in OfferedBy(r, seeds) /\ i \notin Cascade(r, seeds)
              /\ r[i].state = "PLANNED"
              /\ q[i].state = "READY" /\ SameClaims(r[i], q[i])
  <1> DEFINE failed == Cascade(r, seeds)
             ready  == OfferedBy(r, seeds)
             q == Refresh(r, now, seeds)
             a == SetTerminal(r[i], "FAILED_PERMANENT")
             b == [r[i] EXCEPT !.state = "READY"]
  <1>0. q = IF failed \cup ready = {} THEN r ELSE
            [j \in Items |->
                IF j \in failed
                THEN [SetTerminal(r[j], "FAILED_PERMANENT")
                        EXCEPT !.torn = now < r[j].created]
                ELSE IF j \in ready
                THEN [r[j] EXCEPT !.state = "READY", !.torn = now < r[j].created]
                ELSE r[j]]
    BY DEF Refresh, OfferedBy
  <1>1. \/ i \notin failed /\ i \notin ready /\ q[i] = r[i]
        \/ i \in failed /\ q[i] = [a EXCEPT !.torn = now < r[i].created]
        \/ /\ i \in ready /\ i \notin failed
           /\ q[i] = [b EXCEPT !.torn = now < r[i].created]
    <2> HIDE DEF failed, ready, q
    <2> QED
      BY <1>0
  <1>2. r[i] \in Row /\ r[i].created \in Nat
    BY DEF TableInv, Row, Times
  <1>3. i \in failed => r[i].state = "PLANNED"
    BY CascadeWithin
  <1>4. a \in Row /\ a.state = "FAILED_PERMANENT" /\ SameClaims(r[i], a)
    BY <1>2, SetTerminalRow DEF States, TerminalStates, SameClaims
  <1>5. b \in Row /\ b.state = "READY" /\ SameClaims(r[i], b)
    BY <1>2 DEF Row, States, SameClaims
  <1>6. i \in ready => r[i].state = "PLANNED"
    BY DEF OfferedBy
  <1> HIDE DEF a, b, failed, ready, q
  <1>7. CASE i \in failed /\ q[i] = [a EXCEPT !.torn = now < r[i].created]
    <2>1. q[i].state = "FAILED_PERMANENT" /\ SameClaims(r[i], q[i])
      BY <1>2, <1>4, <1>7, TearRow DEF SameClaims
    <2> QED
      BY <1>3, <1>7, <2>1 DEF q, failed
  <1>8. CASE /\ i \in ready /\ i \notin failed
             /\ q[i] = [b EXCEPT !.torn = now < r[i].created]
    <2>1. q[i].state = "READY" /\ SameClaims(r[i], q[i])
      BY <1>2, <1>5, <1>8, TearRow DEF SameClaims
    <2> QED
      BY <1>6, <1>8, <2>1 DEF q, failed, ready
  <1> QED
    BY <1>1, <1>7, <1>8 DEF q, failed, ready

LEMMA RefreshTame ==
    ASSUME NEW r, TableInv(r), NEW now \in Nat, NEW seeds
    PROVE  Tame(r, Refresh(r, now, seeds), now)
  <1> SUFFICES ASSUME NEW i \in Items
               PROVE  TameRow(r[i], Refresh(r, now, seeds)[i], now)
    BY DEF Tame
  <1> QED
    BY RefreshRows DEF TameRow, TerminalStates, ActiveStates, SameClaims

\* The worklist leaves nothing behind: when every row that could move is among
\* the seeds, readiness is current afterwards.
LEMMA RefreshCurrent ==
    ASSUME NEW r, TableInv(r), NEW now \in Nat, NEW seeds, CurrentBut(r, seeds)
    PROVE  Current(Refresh(r, now, seeds))
  <1> DEFINE failed == Cascade(r, seeds)
             q == Refresh(r, now, seeds)
  <1> SUFFICES ASSUME NEW i \in Items, q[i].state = "PLANNED",
                      \A u \in q[i].up : Terminal(q, u)
               PROVE  FALSE
    BY DEF Current, CurrentBut
  <1>1. i \notin failed /\ i \notin OfferedBy(r, seeds) /\ q[i] = r[i]
    BY RefreshRows
  <1>2. r[i].up \subseteq Items
    BY DEF TableInv, Row
  <1>3. \A u \in Items \ failed : Terminal(q, u) => Terminal(r, u)
    BY RefreshRows DEF Terminal, TerminalStates
  <1>4. \A u \in r[i].up : Terminal(r, u) \/ u \in failed
    BY <1>1, <1>2, <1>3
  <1>5. i \notin seeds \cup Downstream(r, failed)
    BY <1>1, <1>4 DEF OfferedBy
  <1>6. \A u \in r[i].up : Terminal(r, u)
    BY <1>4, <1>5 DEF Downstream
  <1> QED
    BY <1>1, <1>5, <1>6 DEF CurrentBut

\* A tame pass that ends only rows of E leaves behind at most their downstream.
LEMMA EndedLeaveBehind ==
    ASSUME NEW r, NEW q, NEW now, Current(r), Tame(r, q, now), NEW E,
           \A u \in Items : Terminal(q, u) => Terminal(r, u) \/ u \in E,
           TableInv(r)
    PROVE  CurrentBut(q, Downstream(r, E))
  <1> SUFFICES ASSUME NEW i \in Items, q[i].state = "PLANNED",
                      \A u \in q[i].up : Terminal(q, u)
               PROVE  i \in Downstream(r, E)
    BY DEF CurrentBut
  <1>1. q[i] = r[i]
    BY DEF Tame, TameRow, TerminalStates
  <1>2. PICK u \in r[i].up : ~Terminal(r, u)
    BY <1>1 DEF Current, CurrentBut
  <1>3. u \in Items
    BY <1>2 DEF TableInv, Row
  <1> QED
    BY <1>1, <1>2, <1>3 DEF Downstream

Calm(r, q, now) == Safely(r, q) /\ Tame(r, q, now) /\ (Current(r) => Current(q))

LEMMA CalmSame == ASSUME NEW r, TableInv(r), NEW now PROVE Calm(r, r, now)
  BY SafelySame, TameSame DEF Calm

LEMMA CalmTrans ==
    ASSUME NEW r, NEW q, NEW p, NEW now, Calm(r, q, now), Calm(q, p, now)
    PROVE  Calm(r, p, now)
  BY SafelyTrans, TameTrans DEF Calm

LEMMA CalmRefresh ==
    ASSUME NEW r, TableInv(r), NEW now \in Nat, NEW seeds
    PROVE  Calm(r, Refresh(r, now, seeds), now)
  <1>1. Current(r) => CurrentBut(r, seeds)
    BY DEF Current, CurrentBut
  <1> QED
    BY <1>1, RefreshKeeps, RefreshTame, RefreshCurrent DEF Calm, Safely

\* Some rows end, then the worklist runs from their downstream items.
LEMMA EndAndRefresh ==
    ASSUME NEW r, TableInv(r), NEW q, NEW now \in Nat, Safely(r, q),
           Tame(r, q, now), NEW E,
           \A u \in Items : Terminal(q, u) => Terminal(r, u) \/ u \in E
    PROVE  Calm(r, Refresh(q, now, Downstream(r, E)), now)
  <1> DEFINE p == Refresh(q, now, Downstream(r, E))
  <1>1. Safely(r, p)
    BY SafelyRefresh
  <1>2. Tame(r, p, now)
    BY RefreshTame, TameTrans DEF Safely
  <1>3. Current(r) => Current(p)
    BY EndedLeaveBehind, RefreshCurrent DEF Safely
  <1> QED
    BY <1>1, <1>2, <1>3 DEF Calm

\* A due row ends as EXPIRED.
LEMMA ExpireRowTame ==
    ASSUME NEW x \in Row, RowInv(x), NEW now,
           x.state \notin TerminalStates \cup {"ABSENT"}
    PROVE  TameRow(x, ExpireRow(x), now)
  <1>0. "EXPIRED" \in States /\ "EXPIRED" \in Outcomes /\ "EXPIRED" \in TerminalStates
    BY DEF States, TerminalStates, Outcomes
  <1>1. CASE x.state \in ActiveStates
    <2>1. ExpireRow(x) = SetTerminal(FinishAttempt(x, "EXPIRED"), "EXPIRED")
      BY <1>1 DEF ExpireRow
    <2>2. ExpireRow(x).state = "EXPIRED" /\ SameClaims(x, ExpireRow(x))
      BY <1>0, <1>1, <2>1, ClosedRow DEF SameClaims
    <2> QED
      BY <1>0, <2>2 DEF TameRow
  <1>2. CASE x.state \notin ActiveStates
    <2>1. ExpireRow(x) = SetTerminal(x, "EXPIRED")
      BY <1>2 DEF ExpireRow
    <2>2. ExpireRow(x).state = "EXPIRED" /\ SameClaims(x, ExpireRow(x))
      BY <1>0, <2>1, SetTerminalRow DEF SameClaims
    <2> QED
      BY <1>0, <2>2 DEF TameRow
  <1> QED
    BY <1>1, <1>2

\* _expire_hard_deadlines.
LEMMA ExpireCalm ==
    ASSUME NEW r, TableInv(r), NEW now \in Nat, NEW T
    PROVE  Calm(r, ExpireHardDeadlines(r, now, T), now)
  <1> DEFINE due == Due(r, now, T)
             q == ExpireRows(r, due)
  <1>1. CASE due = {}
    BY <1>1, CalmSame DEF ExpireHardDeadlines
  <1>2. CASE due # {}
    <2>1. Safely(r, q)
      BY ExpireRowsKeep
    <2>2. ASSUME NEW i \in Items
          PROVE  /\ i \notin due => q[i] = r[i]
                 /\ TameRow(r[i], q[i], now)
      <3>1. q[i] = IF i \in due THEN ExpireRow(r[i]) ELSE r[i]
        BY DEF ExpireRows
      <3>2. i \in due => r[i].state \notin TerminalStates \cup {"ABSENT"}
        BY DEF Due
      <3>3. r[i] \in Row /\ RowInv(r[i])
        BY DEF TableInv
      <3> HIDE DEF due, q
      <3>4. CASE i \in due
        BY <3>1, <3>2, <3>3, <3>4, ExpireRowTame
      <3>5. CASE i \notin due
        BY <3>1, <3>5 DEF TameRow
      <3> QED
        BY <3>4, <3>5
    <2>3. Tame(r, q, now)
      BY <2>2 DEF Tame
    <2>4. \A u \in Items : Terminal(q, u) => Terminal(r, u) \/ u \in due
      <3> HIDE DEF due, q
      <3> QED
        BY <2>2 DEF Terminal
    <2>5. ExpireHardDeadlines(r, now, T) = Refresh(q, now, Downstream(r, due))
      BY <1>2 DEF ExpireHardDeadlines
    <2> HIDE DEF due, q
    <2> QED
      BY <2>1, <2>3, <2>4, <2>5, EndAndRefresh
  <1> QED
    BY <1>1, <1>2

\* A lapsed lease is closed: the row is offered again or fails.
LEMMA TakeBackTame ==
    ASSUME NEW r, TableInv(r), NEW now \in Nat, NEW T, NEW i \in Items
    PROVE  /\ TameRow(r[i], TakeBack(r, now, T)[i], now)
           /\ Terminal(TakeBack(r, now, T), i) =>
                 Terminal(r, i) \/ i \in Exhausted(r, now, T)
  <1> DEFINE q == TakeBack(r, now, T)
  <1>1. r[i] \in Row /\ RowInv(r[i])
    BY DEF TableInv
  <1>2. CASE i \notin Lapsed(r, now, T)
    <2>1. q[i] = r[i]
      BY <1>2 DEF TakeBack, Exhausted
    <2> QED
      BY <2>1 DEF TameRow, Terminal
  <1>3. CASE i \in Exhausted(r, now, T)
    <2>1. r[i].state \in ActiveStates /\ i \in Lapsed(r, now, T)
      BY <1>3 DEF Exhausted, Lapsed, LeaseLapsed
    <2>2. q[i] = SetTerminal(FinishAttempt(r[i], "ABANDONED"), "FAILED_PERMANENT")
      BY <1>3 DEF TakeBack
    <2> HIDE DEF q
    <2>3. q[i].state = "FAILED_PERMANENT" /\ SameClaims(r[i], q[i])
      BY <1>1, <2>1, <2>2, ClosedRow DEF SameClaims, States, TerminalStates, Outcomes
    <2>4. TameRow(r[i], q[i], now)
      BY <2>1, <2>3 DEF TameRow, TerminalStates, ActiveStates
    <2> QED
      BY <1>3, <2>4 DEF q
  <1>4. CASE i \in Lapsed(r, now, T) /\ i \notin Exhausted(r, now, T)
    <2>1. r[i].state \in ActiveStates /\ r[i].leaseExp <= now
      BY <1>4 DEF Lapsed, LeaseLapsed
    <2>2. q[i] = Release(FinishAttempt(r[i], "ABANDONED"), "READY", 0)
      BY <1>4 DEF TakeBack
    <2> HIDE DEF q
    <2>3. q[i].state = "READY" /\ SameClaims(r[i], q[i])
      BY <1>1, <2>1, <2>2, ClosedRow DEF SameClaims, States, Outcomes
    <2>4. TameRow(r[i], q[i], now) /\ ~Terminal(q, i)
      BY <2>1, <2>3 DEF TameRow, Terminal, TerminalStates, ActiveStates
    <2> QED
      BY <2>4 DEF q
  <1> QED
    BY <1>2, <1>3, <1>4

\* _recover_expired_leases.
LEMMA RecoverCalm ==
    ASSUME NEW r, TableInv(r), NEW now \in Nat, NEW T
    PROVE  Calm(r, RecoverExpiredLeases(r, now, T), now)
  <1> DEFINE q == TakeBack(r, now, T)
             E == Exhausted(r, now, T)
  <1>1. Safely(r, q)
    BY TakeBackKeeps
  <1>2. Tame(r, q, now)
    BY TakeBackTame DEF Tame
  <1>3. \A u \in Items : Terminal(q, u) => Terminal(r, u) \/ u \in E
    BY TakeBackTame
  <1>4. \/ RecoverExpiredLeases(r, now, T) = r
        \/ RecoverExpiredLeases(r, now, T) = Refresh(q, now, Downstream(r, E))
    BY RecoverIs
  <1> HIDE DEF q, E
  <1> QED
    BY <1>1, <1>2, <1>3, <1>4, EndAndRefresh, CalmSame

\* The retry UPDATE of _maintain.
LEMMA WakeCalm ==
    ASSUME NEW r, TableInv(r), NEW now \in Nat
    PROVE  Calm(r, WakeRetries(r, now), now)
  <1> DEFINE q == WakeRetries(r, now)
  <1>1. Safely(r, q)
    BY WakeKeeps
  <1>2. ASSUME NEW i \in Items
        PROVE  q[i] = r[i] \/ (r[i].state = "RETRY_WAIT" /\ q[i] = Release(r[i], "READY", 0))
    BY DEF WakeRetries
  <1> HIDE DEF q
  <1>3. ASSUME NEW i \in Items
        PROVE  q[i] = r[i] \/ (/\ r[i].state = "RETRY_WAIT" /\ q[i].state = "READY"
                               /\ SameClaims(r[i], q[i]))
    BY <1>2, ReleaseRow DEF SameClaims, States, TableInv
  <1>4. Tame(r, q, now)
    BY <1>3 DEF Tame, TameRow, TerminalStates, ActiveStates
  <1>5. \A u \in Items : Terminal(q, u) => Terminal(r, u)
    BY <1>3 DEF Terminal, TerminalStates
  <1>6. Current(r) => CurrentBut(q, Downstream(r, {}))
    BY <1>4, <1>5, EndedLeaveBehind
  <1>7. Downstream(r, {}) = {}
    BY DEF Downstream
  <1> QED
    BY <1>1, <1>4, <1>6, <1>7 DEF Calm, Current, q

\* _maintain.
LEMMA MaintainCalm ==
    ASSUME NEW r, TableInv(r), NEW now \in Nat
    PROVE  Calm(r, Maintain(r, now), now)
  <1> DEFINE a == ExpireHardDeadlines(r, now, Items)
             b == RecoverExpiredLeases(a, now, Items)
  <1>1. Calm(r, a, now)
    BY ExpireCalm
  <1> HIDE DEF a
  <1>2. Calm(a, b, now)
    BY <1>1, RecoverCalm DEF Calm, Safely
  <1> HIDE DEF b
  <1>3. Calm(b, WakeRetries(b, now), now)
    BY <1>2, WakeCalm DEF Calm, Safely
  <1>4. Maintain(r, now) = WakeRetries(b, now)
    BY DEF Maintain, a, b
  <1> QED
    BY <1>1, <1>2, <1>3, <1>4, CalmTrans

\* The exact-item passes.
LEMMA SettleItemCalm ==
    ASSUME NEW r, TableInv(r), NEW now \in Nat, NEW i \in Items
    PROVE  Calm(r, SettleItem(r, now, i), now)
  <1> DEFINE a == ExpireHardDeadlines(r, now, {i})
  <1>1. Calm(r, a, now)
    BY ExpireCalm
  <1>2. SettleItem(r, now, i) = RecoverExpiredLeases(a, now, {i})
    BY DEF SettleItem
  <1> HIDE DEF a
  <1> QED
    BY <1>1, <1>2, RecoverCalm, CalmTrans DEF Calm, Safely

LEMMA ReconcileExactCalm ==
    ASSUME NEW r, TableInv(r), NEW now \in Nat, NEW i \in Items
    PROVE  Calm(r, ReconcileExactDueState(r, now, i), now)
  <1> DEFINE q == SettleItem(r, now, i)
  <1>1. Calm(r, q, now)
    BY SettleItemCalm
  <1>2. \/ ReconcileExactDueState(r, now, i) = q
        \/ ReconcileExactDueState(r, now, i) = Refresh(q, now, Downstream(q, {i}))
    BY DEF ReconcileExactDueState
  <1> HIDE DEF q
  <1> QED
    BY <1>1, <1>2, CalmRefresh, CalmTrans DEF Calm, Safely


-----------------------------------------------------------------------------
(* Leases.                                                                 *)

\* A capability l, the row x of its item and the clock c: an unexpired
\* capability is the newest one, and its row is still out or has ended.
LeaseOK(l, x, c) ==
    /\ x.state # "ABSENT" /\ l.epoch <= x.epoch
    /\ l.epoch = x.epoch /\ x.state \in ActiveStates => l.exp <= x.leaseExp
    /\ l.exp > c => /\ l.epoch = x.epoch
                    /\ x.state \in ActiveStates \cup TerminalStates

\* No two workers hold the same fencing token.
DistinctEpochs(h) ==
    \A v, w \in Workers :
        v # w /\ h[v] # NoLease /\ h[w] # NoLease /\ h[v].item = h[w].item
          => h[v].epoch # h[w].epoch

LeasesOK(r, h, c) ==
    /\ \A w \in Workers : h[w] # NoLease => LeaseOK(h[w], r[h[w].item], c)
    /\ DistinctEpochs(h)

\* A row change that respects the leases on it.
LeaseSafe(x, y, now) ==
    /\ y.epoch = x.epoch /\ y.state # "ABSENT"
    /\ y.state \in ActiveStates =>
          x.state \in ActiveStates /\ y.leaseExp = x.leaseExp
    /\ /\ x.state \in ActiveStates \cup TerminalStates
       /\ y.state \notin ActiveStates \cup TerminalStates
       => x.state \in ActiveStates /\ x.leaseExp <= now

LEMMA TameIsLeaseSafe ==
    ASSUME NEW x, NEW y, NEW now, TameRow(x, y, now), x.state # "ABSENT"
    PROVE  LeaseSafe(x, y, now)
  BY DEF TameRow, LeaseSafe, SameClaims, ActiveStates, TerminalStates

LEMMA LeaseKept ==
    ASSUME NEW l \in Lease, NEW x \in Row, NEW y \in Row, NEW c \in Nat,
           NEW d \in Nat, c <= d, NEW now \in Nat, now <= c,
           LeaseOK(l, x, c), LeaseSafe(x, y, now)
    PROVE  LeaseOK(l, y, d)
  <1>1. /\ l.exp \in Nat /\ x.leaseExp \in Nat /\ l.epoch \in Nat
        /\ x.epoch \in Nat
    BY DEF Lease, Row, Times
  <1>2. l.exp > d => l.exp > c
    BY <1>1
  <1>3. l.exp > c => y.state \in ActiveStates \cup TerminalStates
    BY <1>1 DEF LeaseOK, LeaseSafe
  <1> QED
    BY <1>1, <1>2, <1>3 DEF LeaseOK, LeaseSafe

\* A capability of an older epoch has expired: it survives a new row state.
LEMMA StaleLeaseKept ==
    ASSUME NEW l \in Lease, NEW x \in Row, NEW y \in Row, NEW c \in Nat,
           LeaseOK(l, x, c), y.state # "ABSENT",
           l.epoch < x.epoch, x.epoch <= y.epoch
    PROVE  LeaseOK(l, y, c)
  <1>1. /\ l.exp \in Nat /\ l.epoch \in Nat /\ x.epoch \in Nat /\ y.epoch \in Nat
    BY DEF Lease, Row, Times
  <1> QED
    BY <1>1 DEF LeaseOK

\* Workers lose capabilities and keep others; every row a capability names
\* changes safely.
LEMMA LeasesKept ==
    ASSUME NEW r \in [Items -> Row], NEW q \in [Items -> Row],
           NEW h \in [Workers -> Lease \cup {NoLease}],
           NEW g \in [Workers -> Lease \cup {NoLease}],
           NEW c \in Nat, NEW d \in Nat, c <= d, NEW now \in Nat, now <= c,
           LeasesOK(r, h, c),
           \A w \in Workers : g[w] = NoLease \/ g[w] = h[w],
           \A w \in Workers : g[w] # NoLease =>
              LeaseSafe(r[g[w].item], q[g[w].item], now)
    PROVE  LeasesOK(q, g, d)
  <1>1. ASSUME NEW w \in Workers, g[w] # NoLease
        PROVE  LeaseOK(g[w], q[g[w].item], d)
    <2>1. g[w] = h[w] /\ g[w] \in Lease /\ g[w].item \in Items
      BY <1>1 DEF Lease
    <2>2. LeaseOK(g[w], r[g[w].item], c)
      BY <1>1, <2>1 DEF LeasesOK
    <2> QED
      BY <1>1, <2>1, <2>2, LeaseKept
  <1>2. DistinctEpochs(g)
    BY DEF LeasesOK, DistinctEpochs
  <1> QED
    BY <1>1, <1>2 DEF LeasesOK

\* The same for a tame change of the table.
LEMMA TameKeepsLeases ==
    ASSUME NEW r \in [Items -> Row], NEW q \in [Items -> Row],
           NEW h \in [Workers -> Lease \cup {NoLease}],
           NEW g \in [Workers -> Lease \cup {NoLease}],
           NEW c \in Nat, NEW now \in Nat, now <= c, LeasesOK(r, h, c),
           \A w \in Workers : g[w] = NoLease \/ g[w] = h[w],
           Tame(r, q, now)
    PROVE  LeasesOK(q, g, c)
  <1>1. ASSUME NEW w \in Workers, g[w] # NoLease
        PROVE  LeaseSafe(r[g[w].item], q[g[w].item], now)
    <2>1. g[w] = h[w] /\ g[w].item \in Items
      BY <1>1 DEF Lease
    <2>2. r[g[w].item].state # "ABSENT"
      BY <1>1, <2>1 DEF LeasesOK, LeaseOK
    <2> QED
      BY <2>1, <2>2, TameIsLeaseSafe DEF Tame
  <1> QED
    BY <1>1, LeasesKept

-----------------------------------------------------------------------------
(* One commit, row by row.                                                 *)

Entered(x, y) ==
    /\ x.state = "ABSENT" /\ y.attempt = 0
    /\ y.state \in {"PLANNED", "READY", "FAILED_PERMANENT"}

\* A lease is started, renewed, or given back for a later retry.
Served(x, y) ==
    /\ SameClaims(x, y) /\ x.state \in ActiveStates
    /\ y.state \in ActiveStates \cup {"RETRY_WAIT"}

Handed(x, y) ==
    /\ x.state \notin TerminalStates \cup {"ABSENT"}
    /\ y.state \in ActiveStates
    /\ y.attempt = x.attempt + 1
    /\ y.max = x.max /\ y.up = x.up /\ y.req = x.req

Won(x, y) == SameClaims(x, y) /\ x.state \in ActiveStates /\ y.state = "SUCCEEDED"

\* The rows of H may be handed out and the rows of S won; the others move on.
Progress(r, q, now, H, S) ==
    \A i \in Items : \/ TameRow(r[i], q[i], now)
                     \/ Entered(r[i], q[i])
                     \/ Served(r[i], q[i])
                     \/ i \in H /\ Handed(r[i], q[i])
                     \/ i \in S /\ Won(r[i], q[i])

AtMostOne(S) == \A a, b \in S : a = b

JobOf(r) == [i \in Items |-> [phase |-> PhaseOf(r[i].state), up |-> r[i].up,
                              req |-> r[i].req, tries |-> r[i].attempt,
                              max |-> r[i].max]]

\* The phase a client sees, by state.
LEMMA Phases ==
    ASSUME NEW s \in States
    PROVE  /\ s = "ABSENT" => PhaseOf(s) = "none"
           /\ s = "PLANNED" => PhaseOf(s) = "waiting"
           /\ s \in {"READY", "RETRY_WAIT"} => PhaseOf(s) = "offered"
           /\ s \in ActiveStates => PhaseOf(s) = "out"
           /\ s = "SUCCEEDED" => PhaseOf(s) = "won"
           /\ s \in {"SKIPPED_POLICY", "SKIPPED_NOT_NEEDED"} => PhaseOf(s) = "waived"
           /\ s \in TerminalStates \ SuccessfulStates => PhaseOf(s) = "lost"
  BY DEF PhaseOf, States, ActiveStates, TerminalStates, SuccessfulStates

LEMMA PhaseMeans ==
    ASSUME NEW s \in States
    PROVE  /\ PhaseOf(s) \in {"won", "waived", "lost"} <=> s \in TerminalStates
           /\ PhaseOf(s) \in {"won", "waived"} <=> s \in SuccessfulStates
           /\ PhaseOf(s) = "waiting" <=> s = "PLANNED"
           /\ PhaseOf(s) = "won" <=> s = "SUCCEEDED"
           /\ PhaseOf(s) \in {"offered", "out", "won"} =>
                 s \in {"READY", "RETRY_WAIT", "SUCCEEDED"} \cup ActiveStates
  BY Phases DEF States, ActiveStates, TerminalStates, SuccessfulStates

\* What one row of the contract may do, from what one row of the ledger does.
LEMMA RowCommit ==
    ASSUME NEW r, NEW q, TableInv(r), TableInv(q), NEW now, NEW H, NEW S,
           Progress(r, q, now, H, S), NEW i \in Items
    PROVE  LET j == JobOf(r)
               k == JobOf(q)
           IN  /\ \/ k[i] = j[i]
                  \/ Contract!Enter(j, k, i)
                  \/ /\ Contract!Hand(j, k, i) \/ Contract!Move(j, k, i)
                     /\ Contract!SamePolicy(j, k, i)
               /\ Contract!Hand(j, k, i) => i \in H
               /\ k[i].phase = "won" /\ k[i] # j[i] => i \in S
  <1> DEFINE j == JobOf(r)
             k == JobOf(q)
             x == r[i]
             y == q[i]
  <1>1. /\ j[i] = [phase |-> PhaseOf(x.state), up |-> x.up, req |-> x.req,
                   tries |-> x.attempt, max |-> x.max]
        /\ k[i] = [phase |-> PhaseOf(y.state), up |-> y.up, req |-> y.req,
                   tries |-> y.attempt, max |-> y.max]
    BY DEF JobOf
  <1>2. /\ x \in Row /\ y \in Row /\ x.state \in States /\ y.state \in States
        /\ x.attempt \in Nat /\ y.attempt \in Nat /\ y.max \in Nat
    BY DEF TableInv, Row
  <1>3. /\ y.attempt <= y.max
        /\ y.state \in {"READY", "RETRY_WAIT"} => y.attempt < y.max
        /\ x.state = "ABSENT" => x.attempt = 0
    BY DEF TableInv, RowInv, LedgerAgrees
  <1> HIDE DEF j, k, x, y
  <1>4. y.attempt = x.attempt => ~Contract!Hand(j, k, i)
    BY <1>1, <1>2 DEF Contract!Hand
  <1>5. SameClaims(x, y) => Contract!SamePolicy(j, k, i) /\ k[i].tries = j[i].tries
    BY <1>1 DEF SameClaims, Contract!SamePolicy
  <1>6. SameClaims(x, y) /\ PhaseOf(x.state) = PhaseOf(y.state) => k[i] = j[i]
    BY <1>1 DEF SameClaims
  <1>7. \/ k[i] = j[i]
        \/ Contract!Enter(j, k, i)
        \/ /\ Contract!Hand(j, k, i) \/ Contract!Move(j, k, i)
           /\ Contract!SamePolicy(j, k, i)
    <2>1. CASE y = x
      BY <1>1, <2>1
    <2>2. CASE /\ x.state \notin TerminalStates \cup {"ABSENT"}
               /\ y.state \in {"READY"} \cup (TerminalStates \ {"SUCCEEDED"})
               /\ SameClaims(x, y)
      <3>1. PhaseOf(x.state) \in {"waiting", "offered", "out"}
        BY <1>2, <2>2, Phases DEF States
      <3>2. y.state # "READY" => PhaseOf(y.state) \in {"waived", "lost"}
        BY <1>2, <2>2, Phases DEF SuccessfulStates, TerminalStates
      <3>3. y.state = "READY" => PhaseOf(y.state) = "offered"
        BY <1>2, Phases
      <3> QED
        BY <1>1, <1>2, <1>3, <1>5, <1>6, <2>2, <3>1, <3>2, <3>3 DEF Contract!Move
    <2>3. CASE Entered(x, y)
      BY <1>1, <1>2, <2>3, Phases DEF Entered, Contract!Enter, TerminalStates, SuccessfulStates
    <2>4. CASE Served(x, y)
      <3>1. PhaseOf(x.state) = "out" /\ PhaseOf(y.state) \in {"out", "offered"}
            /\ (PhaseOf(y.state) = "offered" => y.state = "RETRY_WAIT")
        BY <1>2, <2>4, Phases DEF Served
      <3> QED
        BY <1>1, <1>2, <1>3, <1>5, <1>6, <2>4, <3>1 DEF Served, Contract!Move
    <2>5. CASE Handed(x, y)
      <3>1. /\ PhaseOf(x.state) \in {"waiting", "offered", "out"}
            /\ PhaseOf(y.state) = "out"
        BY <1>2, <2>5, Phases DEF Handed, States
      <3> QED
        BY <1>1, <1>2, <1>3, <2>5, <3>1 DEF Handed, Contract!Hand, Contract!SamePolicy
    <2>6. CASE Won(x, y)
      <3>1. PhaseOf(x.state) = "out" /\ PhaseOf(y.state) = "won"
        BY <1>2, <2>6, Phases DEF Won
      <3> QED
        BY <1>1, <1>5, <2>6, <3>1 DEF Won, Contract!Move
    <2> QED
      BY <2>1, <2>2, <2>3, <2>4, <2>5, <2>6 DEF Progress, TameRow, x, y
  <1>8. Contract!Hand(j, k, i) => i \in H
    <2>1. TameRow(x, y, now) => y.attempt = x.attempt
      BY DEF TameRow, SameClaims
    <2>2. Entered(x, y) => y.attempt = x.attempt
      BY <1>3 DEF Entered
    <2>3. Served(x, y) \/ Won(x, y) => y.attempt = x.attempt
      BY DEF Served, Won, SameClaims
    <2> QED
      BY <1>4, <2>1, <2>2, <2>3 DEF Progress, x, y
  <1>9. k[i].phase = "won" /\ k[i] # j[i] => i \in S
    <2>1. k[i].phase = "won" => y.state = "SUCCEEDED"
      BY <1>1, <1>2, PhaseMeans
    <2>2. y = x => k[i] = j[i]
      BY <1>1
    <2>3. TameRow(x, y, now) /\ y.state = "SUCCEEDED" => y = x
      BY DEF TameRow
    <2>4. Entered(x, y) \/ Served(x, y) \/ Handed(x, y) => y.state # "SUCCEEDED"
      BY DEF Entered, Served, Handed, ActiveStates
    <2> QED
      BY <2>1, <2>2, <2>3, <2>4 DEF Progress, x, y
  <1> QED
    BY <1>7, <1>8, <1>9 DEF j, k

\* A commit of the ledger is a commit of the contract.
LEMMA CommitFrom ==
    ASSUME NEW r, NEW q, TableInv(r), TableInv(q), Current(q), NEW now,
           NEW H, NEW S, AtMostOne(H), AtMostOne(S), Progress(r, q, now, H, S)
    PROVE  Contract!Commit(JobOf(r), JobOf(q))
  <1> DEFINE j == JobOf(r)
             k == JobOf(q)
  <1>1. \A i \in Items : \/ k[i] = j[i]
                         \/ Contract!Enter(j, k, i)
                         \/ /\ Contract!Hand(j, k, i) \/ Contract!Move(j, k, i)
                            /\ Contract!SamePolicy(j, k, i)
    BY RowCommit
  <1>2. \A i, h \in Items : Contract!Hand(j, k, i) /\ Contract!Hand(j, k, h) => i = h
    BY RowCommit DEF AtMostOne
  <1>3. \A i, h \in Items : k[i].phase = "won" /\ k[h].phase = "won"
                           /\ k[i] # j[i] /\ k[h] # j[h] => i = h
    BY RowCommit DEF AtMostOne
  <1>4. \A i \in Items : /\ q[i].state \in States
                         /\ q[i].up \subseteq Items /\ q[i].req \subseteq q[i].up
                         /\ k[i].phase = PhaseOf(q[i].state)
                         /\ k[i].up = q[i].up /\ k[i].req = q[i].req
    BY DEF TableInv, Row, RowInv, JobOf
  <1> HIDE DEF j, k
  <1>5. \A i \in Items : /\ Contract!Over(k, i) <=> Terminal(q, i)
                         /\ Contract!Good(k, i) <=> Successful(q, i)
    BY <1>4, PhaseMeans DEF Contract!Over, Contract!Good, Contract!Ended,
                            Terminal, Successful
  <1>6. ASSUME NEW i \in Items, k[i].phase \in {"offered", "out", "won"}
        PROVE  Contract!Cleared(k, i)
    <2>1. Started(q[i])
      BY <1>4, <1>6, PhaseMeans DEF Started
    <2>2. Unblocked(q, i)
      BY <2>1 DEF TableInv
    <2> QED
      BY <1>4, <1>5, <2>2 DEF Contract!Cleared, Unblocked
  <1>7. ASSUME NEW i \in Items, k[i].phase = "waiting"
        PROVE  \E u \in k[i].up : ~Contract!Over(k, u)
    <2>1. q[i].state = "PLANNED"
      BY <1>4, <1>7, PhaseMeans
    <2>2. PICK u \in q[i].up : ~Terminal(q, u)
      BY <2>1 DEF Current, CurrentBut
    <2> QED
      BY <1>4, <1>5, <2>2
  <1>8. Contract!Commit(j, k)
    BY <1>1, <1>2, <1>3, <1>6, <1>7 DEF Contract!Commit
  <1> QED
    BY <1>8 DEF j, k


-----------------------------------------------------------------------------
(* The operations.                                                         *)

Ended(r, i, y, now) ==
    Maintain(SettleDownstream([r EXCEPT ![i] = y], now, i), now)

\* One row ends, its downstream is settled, then everything due: every other
\* row is only maintained.
LEMMA EndOne ==
    ASSUME NEW r, TableInv(r), NEW i \in Items, Planned(r, i), NEW y,
           GoodMove(r[i], y), y.state \in TerminalStates, NEW now \in Nat
    PROVE  LET p == Ended(r, i, y, now) IN
           /\ TableInv(p) /\ p[i] = y
           /\ \A j \in Items : j # i => TameRow(r[j], p[j], now)
           /\ Current(r) => Current(p)
  <1> DEFINE q == [r EXCEPT ![i] = y]
             m == SettleDownstream(q, now, i)
             p == Maintain(m, now)
  <1>1. Safely(r, q)
    BY OneRow
  <1>2. r \in [Items -> Row] /\ y \in Row
    BY DEF TableInv, GoodMove
  <1>3. q[i] = y /\ \A j \in Items : j # i => q[j] = r[j]
    BY <1>2
  <1>4. m = Refresh(q, now, Downstream(q, {i}))
    BY DEF SettleDownstream
  <1> HIDE DEF q
  <1>5. TableInv(q) /\ Calm(q, m, now)
    BY <1>1, <1>4, CalmRefresh DEF Safely
  <1>6. Current(r) => CurrentBut(q, Downstream(q, {i}))
    <2> SUFFICES ASSUME Current(r), NEW j \in Items, q[j].state = "PLANNED",
                        \A u \in q[j].up : Terminal(q, u)
                 PROVE  j \in Downstream(q, {i})
      BY DEF CurrentBut
    <2>1. q[j] = r[j]
      BY <1>3 DEF TerminalStates
    <2>2. PICK u \in r[j].up : ~Terminal(r, u)
      BY <2>1 DEF Current, CurrentBut
    <2>3. u \in Items /\ r[u] # q[u]
      BY <1>2, <2>1, <2>2 DEF Row, Terminal
    <2> QED
      BY <1>3, <2>1, <2>2, <2>3 DEF Downstream
  <1>7. Current(r) => Current(m)
    BY <1>4, <1>5, <1>6, RefreshCurrent
  <1> HIDE DEF m
  <1>8. TableInv(m) /\ Calm(m, p, now)
    BY <1>5, MaintainCalm DEF Calm, Safely
  <1> HIDE DEF p
  <1>9. Calm(q, p, now)
    BY <1>5, <1>8, CalmTrans
  <1>10. TableInv(p) /\ (Current(r) => Current(p))
    BY <1>7, <1>8 DEF Calm, Safely
  <1>11. p[i] = y
    BY <1>3, <1>9 DEF Calm, Safely, KeepsEnded, Terminal
  <1>12. \A j \in Items : j # i => TameRow(r[j], p[j], now)
    BY <1>3, <1>9 DEF Calm, Tame
  <1> QED
    BY <1>10, <1>11, <1>12 DEF Ended, p, m, q

\* Item i was RUNNING under a lease that was live at the time read, and was
\* won by the worker that held its newest fencing token.
FencedWin(i) ==
    /\ row[i].state = "RUNNING" /\ row[i].leaseExp + Skew > clock
    /\ \E w \in Workers :
        /\ held[w] # NoLease /\ held'[w] = NoLease
        /\ held[w].item = i /\ held[w].epoch = row[i].epoch
        /\ held[w].exp = row[i].leaseExp
        /\ \A v \in Workers : held[v] # NoLease /\ held[v].item = i
                => held[v].epoch <= held[w].epoch

Advances ==
    \E now \in Nat, H \in SUBSET Items, S \in SUBSET Items :
        /\ AtMostOne(H) /\ AtMostOne(S)
        /\ Progress(row, row', now, H, S)
        /\ \A i \in S : FencedWin(i)

FullInv == IInv /\ Current(row) /\ LeasesOK(row, held, clock)

LEMMA NobodyHandedOrWon ==
    ASSUME NEW now \in Nat, Progress(row, row', now, {}, {})
    PROVE  Advances
  <1>1. AtMostOne({}) /\ {} \in SUBSET Items
    BY DEF AtMostOne
  <1> QED
    BY <1>1 DEF Advances

LEMMA NowIsPast ==
    ASSUME clock \in Nat, NEW now \in ReadNow
    PROVE  now \in Nat /\ now <= clock /\ clock <= now + Skew
  BY TimeAssumption DEF ReadNow

\* A capability that passes _require_lease is the newest one of its item.
LEMMA LiveIsNewest ==
    ASSUME FullInv, NEW w \in Workers, NEW now \in Nat,
           Presents(w, now), LeaseIsLive(row, held[w], now)
    PROVE  /\ held[w] # NoLease /\ held[w].epoch = row[held[w].item].epoch
           /\ held[w].exp = row[held[w].item].leaseExp
           /\ \A v \in Workers : held[v] # NoLease /\ held[v].item = held[w].item
                 => /\ held[v].epoch <= held[w].epoch
                    /\ v # w => held[v].epoch < row[held[w].item].epoch
  <1>1. held[w] # NoLease /\ held[w].epoch = row[held[w].item].epoch
        /\ held[w].exp = row[held[w].item].leaseExp
    BY DEF Presents, LeaseIsLive
  <1>2. ASSUME NEW v \in Workers, held[v] # NoLease, held[v].item = held[w].item
        PROVE  /\ held[v].epoch <= held[w].epoch
               /\ v # w => held[v].epoch < row[held[w].item].epoch
    <2>1. /\ held[v] \in Lease /\ held[w] \in Lease /\ held[v].epoch \in Nat
          /\ held[w].epoch \in Nat
      BY <1>1, <1>2 DEF FullInv, IInv, Lease
    <2>2. held[v].epoch <= row[held[w].item].epoch
      BY <1>2 DEF FullInv, LeasesOK, LeaseOK
    <2>3. v # w => held[v].epoch # held[w].epoch
      BY <1>1, <1>2 DEF FullInv, LeasesOK, DistinctEpochs
    <2> QED
      BY <1>1, <2>1, <2>2, <2>3
  <1> QED
    BY <1>1, <1>2

\* An operation that is tame, and takes at most capabilities away.
LEMMA CalmStep ==
    ASSUME FullInv, NEW now \in Nat, now <= clock, TableInv(row'),
           Tame(row, row', now), Current(row'), clock' = clock,
           held' \in [Workers -> Lease \cup {NoLease}],
           \A w \in Workers : held'[w] = NoLease \/ held'[w] = held[w]
    PROVE  Advances /\ Current(row') /\ LeasesOK(row', held', clock')
  <1>1. Progress(row, row', now, {}, {})
    BY DEF Progress, Tame
  <1>2. row \in [Items -> Row] /\ row' \in [Items -> Row] /\ clock \in Nat
        /\ held \in [Workers -> Lease \cup {NoLease}]
    BY DEF FullInv, IInv, TableInv
  <1>3. LeasesOK(row', held', clock)
    BY <1>2, TameKeepsLeases DEF FullInv
  <1> QED
    BY <1>1, <1>3, NobodyHandedOrWon

StepGoal == Advances /\ Current(row') /\ LeasesOK(row', held', clock')

LEMMA MaintenanceSteps ==
    ASSUME FullInv, NEW now \in Nat, now <= clock,
           Reconcile(now) \/ ClaimNothing(now)
    PROVE  StepGoal
  <1> DEFINE m == Maintain(row, now)
  <1>0. TableInv(row) /\ Current(row) /\ held \in [Workers -> Lease \cup {NoLease}]
    BY DEF FullInv, IInv
  <1>1. Calm(row, m, now)
    BY <1>0, MaintainCalm
  <1>2. row' = m \/ row' = Refresh(m, now, Items)
    BY DEF Reconcile, ClaimNothing
  <1>3. held' = held /\ clock' = clock
    BY DEF Reconcile, ClaimNothing
  <1> HIDE DEF m
  <1>4. Calm(row, row', now)
    BY <1>1, <1>2, CalmRefresh, CalmTrans DEF Calm, Safely
  <1> QED
    BY <1>0, <1>3, <1>4, CalmStep DEF Calm, Safely, StepGoal

LEMMA FencedStepOK ==
    ASSUME FullInv, NEW now \in Nat, now <= clock, NEW w \in Workers, Fenced(w, now)
    PROVE  StepGoal
  <1>0. TableInv(row) /\ Current(row) /\ held \in [Workers -> Lease \cup {NoLease}]
    BY DEF FullInv, IInv
  <1>1. held[w].item \in Items
    BY <1>0 DEF Fenced, Presents, Lease
  <1>2. /\ row' = ReconcileExactDueState(row, now, held[w].item)
        /\ held' = [held EXCEPT ![w] = NoLease] /\ clock' = clock
    BY DEF Fenced
  <1>3. Calm(row, row', now)
    BY <1>0, <1>1, <1>2, ReconcileExactCalm
  <1>4. /\ held' \in [Workers -> Lease \cup {NoLease}]
        /\ \A v \in Workers : held'[v] = NoLease \/ held'[v] = held[v]
    BY <1>0, <1>2
  <1> QED
    BY <1>0, <1>2, <1>3, <1>4, CalmStep DEF Calm, Safely, StepGoal

LEMMA CrashStepOK ==
    ASSUME FullInv, NEW w \in Workers, WorkerCrash(w)
    PROVE  StepGoal
  <1>0. TableInv(row) /\ Current(row) /\ held \in [Workers -> Lease \cup {NoLease}]
        /\ clock \in Nat /\ clock <= clock
    BY DEF FullInv, IInv
  <1>1. row' = row /\ held' = [held EXCEPT ![w] = NoLease] /\ clock' = clock
    BY DEF WorkerCrash
  <1>2. /\ held' \in [Workers -> Lease \cup {NoLease}]
        /\ \A v \in Workers : held'[v] = NoLease \/ held'[v] = held[v]
    BY <1>0, <1>1
  <1>3. Tame(row, row', clock)
    BY <1>1, TameSame
  <1> QED
    BY <1>0, <1>1, <1>2, <1>3, CalmStep DEF StepGoal

LEMMA TickStepOK ==
    ASSUME FullInv, Tick \/ UNCHANGED vars
    PROVE  StepGoal
  <1>0. /\ TableInv(row) /\ Current(row) /\ row \in [Items -> Row]
        /\ held \in [Workers -> Lease \cup {NoLease}] /\ clock \in Nat
        /\ LeasesOK(row, held, clock)
    BY DEF FullInv, IInv, TableInv
  <1>1. row' = row /\ held' = held /\ (clock' = clock \/ clock' = clock + 1)
    BY DEF Tick, vars
  <1>2. clock' \in Nat /\ clock <= clock'
    BY <1>0, <1>1
  <1>3. Progress(row, row', 0, {}, {})
    BY <1>1 DEF Progress, TameRow
  <1>4. ASSUME NEW w \in Workers, held[w] # NoLease
        PROVE  LeaseSafe(row[held[w].item], row[held[w].item], 0)
    BY <1>0, <1>4 DEF LeaseSafe, LeasesOK, LeaseOK
  <1>5. LeasesOK(row, held, clock')
    BY <1>0, <1>2, <1>4, LeasesKept
  <1> QED
    BY <1>0, <1>1, <1>3, <1>5, NobodyHandedOrWon DEF StepGoal

\* A row that ends without success is only maintained, as far as others see.
LEMMA EndIsTame ==
    ASSUME NEW x, NEW y, GoodMove(x, y), x.state # "ABSENT", NEW now,
           y.state \in TerminalStates \ {"SUCCEEDED"}, SameClaims(x, y)
    PROVE  TameRow(x, y, now)
  BY DEF GoodMove, TameRow

LEMMA FailPermanentStepOK ==
    ASSUME FullInv, NEW now \in Nat, now <= clock, NEW w \in Workers,
           NEW delay \in RetryDelays, NEW retryable \in BOOLEAN,
           FailPermanent(w, now, retryable, delay)
    PROVE  StepGoal
  <1> DEFINE i == held[w].item
             y == SetTerminal(FinishAttempt(row[i], "FAILED_PERMANENT"),
                              "FAILED_PERMANENT")
             p == Ended(row, i, y, now)
  <1>0. IInv /\ TableInv(row) /\ Current(row)
        /\ held \in [Workers -> Lease \cup {NoLease}]
    BY DEF FullInv, IInv
  <1>1. /\ i \in Items /\ row[i] \in Row /\ RowInv(row[i])
        /\ row[i].state \in ActiveStates /\ Planned(row, i)
    BY <1>0, LiveLease DEF FailPermanent
  <1>2. /\ row' = p /\ clock' = clock
        /\ held' = [held EXCEPT ![w] = NoLease]
    BY DEF FailPermanent, Ended
  <1> HIDE DEF i
  <1>3. GoodMove(row[i], y)
    BY <1>1, EndActive DEF Outcomes, TerminalStates
  <1>4. y.state = "FAILED_PERMANENT" /\ SameClaims(row[i], y)
    BY <1>1, ClosedRow DEF SameClaims, States, TerminalStates, Outcomes
  <1> HIDE DEF y
  <1>5. TameRow(row[i], y, now)
    BY <1>1, <1>3, <1>4, EndIsTame DEF Planned, TerminalStates
  <1>6. /\ TableInv(p) /\ p[i] = y /\ Current(p)
        /\ \A j \in Items : j # i => TameRow(row[j], p[j], now)
    BY <1>0, <1>1, <1>3, <1>4, EndOne DEF TerminalStates
  <1> HIDE DEF p
  <1>7. Tame(row, p, now)
    BY <1>5, <1>6 DEF Tame
  <1>8. /\ held' \in [Workers -> Lease \cup {NoLease}]
        /\ \A v \in Workers : held'[v] = NoLease \/ held'[v] = held[v]
    BY <1>0, <1>2
  <1> QED
    BY <1>2, <1>6, <1>7, <1>8, CalmStep DEF StepGoal

LEMMA DirectTerminalStepOK ==
    ASSUME FullInv, NEW now \in Nat, now <= clock, NEW i \in Items,
           NEW state \in DirectStates, DirectTerminal(i, state, now)
    PROVE  StepGoal
  <1> DEFINE r == SettleItem(row, now, i)
             o == DirectOutcome(state)
             y == SetTerminal(IF r[i].state \in ActiveStates
                              THEN FinishAttempt(r[i], o) ELSE r[i], state)
             p == Ended(r, i, y, now)
  <1>0. IInv /\ TableInv(row) /\ Current(row)
        /\ held \in [Workers -> Lease \cup {NoLease}]
    BY DEF FullInv, IInv
  <1>1. /\ Planned(row, i) /\ ~Terminal(r, i) /\ held' = held /\ clock' = clock
        /\ row' = p
    BY DEF DirectTerminal, Ended
  <1>2. Calm(row, r, now)
    BY <1>0, SettleItemCalm
  <1> HIDE DEF r
  <1>3. /\ TableInv(r) /\ r[i] \in Row /\ RowInv(r[i]) /\ Planned(r, i)
        /\ r[i].state \notin TerminalStates \cup {"ABSENT"} /\ Current(r)
    BY <1>0, <1>1, <1>2 DEF Calm, Safely, TableInv, KeepsEnded, Terminal, Planned
  <1>4. /\ state \in TerminalStates /\ state # "SUCCEEDED" /\ state \in States
        /\ o \in Outcomes /\ o # "ACTIVE" /\ o # "SUCCEEDED"
    BY DirectAssumption DEF DirectOutcome, Outcomes, TerminalStates, States
  <1> HIDE DEF o
  <1>5. GoodMove(r[i], y) /\ y.state = state /\ SameClaims(r[i], y)
    <2>1. CASE r[i].state \in ActiveStates
      <3>1. y = SetTerminal(FinishAttempt(r[i], o), state)
        BY <2>1
      <3> HIDE DEF y
      <3>2. y.state = state /\ SameClaims(r[i], y)
        BY <1>3, <1>4, <2>1, <3>1, ClosedRow DEF SameClaims
      <3> QED
        BY <1>3, <1>4, <2>1, <3>1, <3>2, EndActive
    <2>2. CASE r[i].state \notin ActiveStates
      <3>1. r[i].state \in {"PLANNED", "READY", "RETRY_WAIT"}
        BY <1>3, <2>2 DEF Row, States
      <3>2. y = SetTerminal(r[i], state)
        BY <2>2
      <3> HIDE DEF y
      <3>3. y.state = state /\ SameClaims(r[i], y)
        BY <1>3, <1>4, <3>2, SetTerminalRow DEF SameClaims
      <3> QED
        BY <1>3, <1>4, <3>1, <3>2, <3>3, EndIdle
    <2> QED
      BY <2>1, <2>2
  <1> HIDE DEF y
  <1>6. TameRow(r[i], y, now)
    BY <1>3, <1>4, <1>5, EndIsTame DEF Planned
  <1>7. /\ TableInv(p) /\ p[i] = y /\ Current(p)
        /\ \A j \in Items : j # i => TameRow(r[j], p[j], now)
    BY <1>3, <1>4, <1>5, EndOne
  <1> HIDE DEF p
  <1>8. Tame(r, p, now)
    BY <1>6, <1>7 DEF Tame
  <1>9. Tame(row, p, now)
    BY <1>2, <1>8, TameTrans DEF Calm
  <1> QED
    BY <1>0, <1>1, <1>7, <1>9, CalmStep DEF StepGoal

LEMMA SucceedStepOK ==
    ASSUME FullInv, NEW now \in Nat, now <= clock, clock <= now + Skew,
           NEW w \in Workers, Succeed(w, now)
    PROVE  StepGoal
  <1> DEFINE i == held[w].item
             y == SetTerminal(FinishAttempt(row[i], "SUCCEEDED"), "SUCCEEDED")
             p == Ended(row, i, y, now)
  <1>0. /\ IInv /\ TableInv(row) /\ Current(row) /\ row \in [Items -> Row]
        /\ held \in [Workers -> Lease \cup {NoLease}] /\ clock \in Nat
        /\ LeasesOK(row, held, clock)
    BY DEF FullInv, IInv, TableInv
  <1>1. /\ i \in Items /\ row[i] \in Row /\ RowInv(row[i])
        /\ row[i].state \in ActiveStates /\ Planned(row, i)
    BY <1>0, LiveLease DEF Succeed
  <1>2. /\ row' = p /\ clock' = clock
        /\ held' = [held EXCEPT ![w] = NoLease]
    BY DEF Succeed, Ended
  <1>3. FencedWin(i)
    <2>1. /\ held[w] # NoLease /\ held[w].epoch = row[held[w].item].epoch
          /\ \A v \in Workers : held[v] # NoLease /\ held[v].item = held[w].item
                => held[v].epoch <= held[w].epoch
      BY LiveIsNewest DEF Succeed
    <2>2. /\ row[i].state = "RUNNING" /\ held[w].exp = row[i].leaseExp
          /\ row[i].leaseExp > now
      BY DEF Succeed, LeaseIsLive
    <2>3. row[i].leaseExp \in Nat
      BY <1>1 DEF Row, Times
    <2>4. row[i].leaseExp + Skew > clock
      BY <1>0, <2>2, <2>3, TimeAssumption
    <2>5. held'[w] = NoLease
      BY <1>0, <1>2
    <2> QED
      BY <2>1, <2>2, <2>4, <2>5 DEF FencedWin
  <1> HIDE DEF i
  <1>4. GoodMove(row[i], y)
    BY <1>1, EndActive DEF Outcomes, TerminalStates
  <1>5. y.state = "SUCCEEDED" /\ SameClaims(row[i], y)
    BY <1>1, ClosedRow DEF SameClaims, States, TerminalStates, Outcomes
  <1> HIDE DEF y
  <1>6. /\ TableInv(p) /\ p[i] = y /\ Current(p)
        /\ \A j \in Items : j # i => TameRow(row[j], p[j], now)
    BY <1>0, <1>1, <1>4, <1>5, EndOne DEF TerminalStates
  <1> HIDE DEF p
  <1>7. Progress(row, p, now, {}, {i})
    BY <1>1, <1>5, <1>6 DEF Progress, Won
  <1>8. Advances
    BY <1>1, <1>2, <1>3, <1>7 DEF Advances, AtMostOne
  <1>9. /\ held' \in [Workers -> Lease \cup {NoLease}] /\ p \in [Items -> Row]
        /\ \A v \in Workers : held'[v] = NoLease \/ held'[v] = held[v]
    BY <1>0, <1>2, <1>6 DEF TableInv
  <1>10. ASSUME NEW v \in Workers, held'[v] # NoLease
         PROVE  LeaseSafe(row[held'[v].item], p[held'[v].item], now)
    <2>1. held'[v] = held[v] /\ held[v].item \in Items
      BY <1>0, <1>9, <1>10 DEF Lease
    <2>2. row[held[v].item].state # "ABSENT"
      BY <1>0, <1>10, <2>1 DEF LeasesOK, LeaseOK
    <2>3. CASE held[v].item = i
      BY <1>1, <1>5, <1>6, <2>1, <2>3 DEF LeaseSafe, SameClaims, TerminalStates, ActiveStates
    <2>4. CASE held[v].item # i
      BY <1>6, <2>1, <2>2, <2>4, TameIsLeaseSafe
    <2> QED
      BY <2>3, <2>4
  <1>11. LeasesOK(p, held', clock)
    BY <1>0, <1>9, <1>10, LeasesKept
  <1> QED
    BY <1>2, <1>6, <1>8, <1>11 DEF StepGoal

LEMMA InsertRows ==
    ASSUME NEW r, NEW b, NEW now, NEW i \in Items
    PROVE  LET q == InsertBatch(r, b, now) IN
           \/ q[i] = r[i]
           \/ /\ i \in BatchItems(b) /\ r[i].state = "ABSENT"
              /\ q[i].state = "PLANNED"
  <1> DEFINE q == InsertBatch(r, b, now)
             p == b[CHOOSE k \in 1..Len(b) : b[k].item = i]
  <1>1. \/ q[i] = r[i]
        \/ /\ i \in BatchItems(b) /\ ~Planned(r, i)
           /\ q[i] = InsertedRow(p, now)
    BY DEF InsertBatch
  <1> HIDE DEF p
  <1>2. InsertedRow(p, now).state = "PLANNED"
    BY DEF InsertedRow, AbsentRow
  <1> QED
    BY <1>1, <1>2 DEF Planned

LEMMA PlanManyStepOK ==
    ASSUME FullInv, NEW now \in Nat, now <= clock, NEW b \in Batches,
           PlanMany(b, now)
    PROVE  StepGoal
  <1> DEFINE q == InsertBatch(row, b, now)
  <1>0. /\ TableInv(row) /\ Current(row) /\ row \in [Items -> Row]
        /\ held \in [Workers -> Lease \cup {NoLease}] /\ clock \in Nat
        /\ LeasesOK(row, held, clock)
    BY DEF FullInv, IInv, TableInv
  <1>1. /\ row' = Refresh(q, now, BatchItems(b)) /\ held' = held
        /\ clock' = clock
    BY DEF PlanMany
  <1>2. TableInv(q)
    BY <1>0, InsertKeeps DEF Safely
  <1>3. ASSUME NEW i \in Items
        PROVE  \/ q[i] = row[i]
               \/ /\ i \in BatchItems(b) /\ row[i].state = "ABSENT"
                  /\ q[i].state = "PLANNED"
    BY InsertRows
  <1> HIDE DEF q
  <1>4. CurrentBut(q, BatchItems(b))
    <2> SUFFICES ASSUME NEW i \in Items, q[i].state = "PLANNED", i \notin BatchItems(b)
                 PROVE  \E u \in q[i].up : ~Terminal(q, u)
      BY DEF CurrentBut
    <2>1. q[i] = row[i]
      BY <1>3
    <2>2. PICK u \in row[i].up : ~Terminal(row, u)
      BY <1>0, <2>1 DEF Current, CurrentBut
    <2>3. u \in Items
      BY <1>0, <2>2 DEF Row
    <2> QED
      BY <1>3, <2>1, <2>2, <2>3 DEF Terminal, TerminalStates
  <1>5. Current(row') /\ Tame(q, row', now) /\ TableInv(row')
    BY <1>1, <1>2, <1>4, RefreshCurrent, RefreshTame, RefreshKeeps
  <1>6. ASSUME NEW i \in Items
        PROVE  TameRow(row[i], row'[i], now) \/ Entered(row[i], row'[i])
    <2>1. CASE q[i] = row[i]
      BY <1>5, <2>1 DEF Tame
    <2>2. CASE q[i] # row[i]
      <3>1. row[i].state = "ABSENT" /\ q[i].state = "PLANNED"
        BY <1>3, <2>2
      <3>2. q[i].attempt = 0
        BY <1>2, <3>1 DEF TableInv, RowInv, LedgerAgrees
      <3>3. \/ row'[i] = q[i]
            \/ /\ row'[i].state \in {"READY", "FAILED_PERMANENT"}
               /\ SameClaims(q[i], row'[i])
        BY <1>1, <1>2, RefreshRows
      <3> QED
        BY <3>1, <3>2, <3>3 DEF Entered, SameClaims
    <2> QED
      BY <2>1, <2>2
  <1>7. Progress(row, row', now, {}, {})
    BY <1>6 DEF Progress
  <1>8. ASSUME NEW w \in Workers, held[w] # NoLease
        PROVE  LeaseSafe(row[held[w].item], row'[held[w].item], now)
    <2>1. held[w].item \in Items
      BY <1>0, <1>8 DEF Lease
    <2>2. row[held[w].item].state # "ABSENT"
      BY <1>0, <1>8 DEF LeasesOK, LeaseOK
    <2> QED
      BY <1>6, <2>1, <2>2, TameIsLeaseSafe DEF Entered
  <1>9. LeasesOK(row', held, clock)
    <2>1. row' \in [Items -> Row]
      BY <1>5 DEF TableInv
    <2> QED
      BY <1>0, <1>8, <2>1, LeasesKept
  <1> QED
    BY <1>1, <1>5, <1>7, <1>9, NobodyHandedOrWon DEF StepGoal

\* A single row changes and does not end: readiness stays current.
LEMMA OneRowCurrent ==
    ASSUME NEW r, TableInv(r), Current(r), NEW i \in Items, NEW y,
           y.state \notin TerminalStates \cup {"PLANNED"},
           r[i].state \notin TerminalStates
    PROVE  Current([r EXCEPT ![i] = y])
  <1> DEFINE q == [r EXCEPT ![i] = y]
  <1>1. q[i] = y /\ \A j \in Items : j # i => q[j] = r[j]
    BY DEF TableInv
  <1> HIDE DEF q
  <1>2. ASSUME NEW j \in Items, q[j].state = "PLANNED"
        PROVE  \E u \in q[j].up : ~Terminal(q, u)
    <2>1. q[j] = r[j]
      BY <1>1, <1>2
    <2>2. PICK u \in r[j].up : ~Terminal(r, u)
      BY <1>2, <2>1 DEF Current, CurrentBut
    <2>3. u \in Items
      BY <2>2 DEF TableInv, Row
    <2> QED
      BY <1>1, <2>1, <2>2, <2>3 DEF Terminal
  <1> QED
    BY <1>2 DEF Current, CurrentBut, q

\* start, heartbeat and a retryable fail change one leased row and nothing else.
LEMMA ServedStep ==
    ASSUME FullInv, NEW i \in Items, NEW y \in Row, row[i].state \in ActiveStates,
           row' = [row EXCEPT ![i] = y], SameClaims(row[i], y),
           y.state \in ActiveStates \cup {"RETRY_WAIT"}
    PROVE  Advances /\ Current(row')
  <1>0. TableInv(row) /\ Current(row) /\ row \in [Items -> Row]
    BY DEF FullInv, IInv, TableInv
  <1>1. row'[i] = y /\ \A j \in Items : j # i => row'[j] = row[j]
    BY <1>0
  <1>2. \A j \in Items : TameRow(row[j], row'[j], 0) \/ Served(row[j], row'[j])
    BY <1>1 DEF TameRow, Served
  <1>3. Progress(row, row', 0, {}, {})
    BY <1>2 DEF Progress
  <1>4. Current(row')
    BY <1>0, OneRowCurrent DEF ActiveStates, TerminalStates
  <1> QED
    BY <1>3, <1>4, NobodyHandedOrWon

LEMMA StartStepOK ==
    ASSUME FullInv, NEW now \in Nat, now <= clock, NEW w \in Workers, Start(w, now)
    PROVE  StepGoal
  <1> DEFINE i == held[w].item
             y == [row[i] EXCEPT !.state = "RUNNING"]
  <1>0. /\ IInv /\ TableInv(row) /\ row \in [Items -> Row]
        /\ held \in [Workers -> Lease \cup {NoLease}] /\ clock \in Nat
        /\ LeasesOK(row, held, clock)
    BY DEF FullInv, IInv, TableInv
  <1>1. i \in Items /\ row[i] \in Row /\ row[i].state \in ActiveStates
    BY <1>0, LiveLease DEF Start
  <1>2. row' = [row EXCEPT ![i] = y] /\ held' = held /\ clock' = clock
    BY DEF Start
  <1> HIDE DEF i
  <1>3. /\ y \in Row /\ y.state = "RUNNING" /\ y.leaseExp = row[i].leaseExp
        /\ SameClaims(row[i], y)
    BY <1>1 DEF Row, States, ActiveStates, SameClaims
  <1> HIDE DEF y
  <1>4. Advances /\ Current(row')
    BY <1>1, <1>2, <1>3, ServedStep DEF ActiveStates
  <1>5. row' \in [Items -> Row]
    BY <1>0, <1>2, <1>3
  <1>6. ASSUME NEW v \in Workers, held[v] # NoLease
        PROVE  LeaseSafe(row[held[v].item], row'[held[v].item], now)
    <2>1. held[v].item \in Items /\ row[held[v].item].state # "ABSENT"
      BY <1>0, <1>6 DEF Lease, LeasesOK, LeaseOK
    <2>2. CASE held[v].item = i
      BY <1>0, <1>1, <1>2, <1>3, <2>2 DEF LeaseSafe, SameClaims, ActiveStates
    <2>3. CASE held[v].item # i
      BY <1>0, <1>2, <2>1, <2>3 DEF LeaseSafe
    <2> QED
      BY <2>2, <2>3
  <1>7. LeasesOK(row', held, clock)
    BY <1>0, <1>5, <1>6, LeasesKept
  <1> QED
    BY <1>2, <1>4, <1>7 DEF StepGoal

LEMMA FailRetryStepOK ==
    ASSUME FullInv, NEW now \in Nat, now <= clock, NEW w \in Workers,
           NEW delay \in RetryDelays, FailRetry(w, now, delay)
    PROVE  StepGoal
  <1> DEFINE i == held[w].item
             z == FinishAttempt(row[i], "FAILED_RETRYABLE")
             at == now + delay
             y == Release(z, "RETRY_WAIT", at)
  <1>0. /\ IInv /\ TableInv(row) /\ row \in [Items -> Row]
        /\ held \in [Workers -> Lease \cup {NoLease}] /\ clock \in Nat
        /\ LeasesOK(row, held, clock)
    BY DEF FullInv, IInv, TableInv
  <1>1. /\ i \in Items /\ row[i] \in Row /\ RowInv(row[i])
        /\ row[i].state \in ActiveStates
    BY <1>0, LiveLease DEF FailRetry
  <1>2. /\ row' = [row EXCEPT ![i] = y] /\ clock' = clock
        /\ held' = [held EXCEPT ![w] = NoLease]
    BY DEF FailRetry
  <1>3. \A v \in Workers : v # w /\ held[v] # NoLease /\ held[v].item = i
            => held[v].epoch < row[i].epoch
    BY LiveIsNewest DEF FailRetry
  <1> HIDE DEF i
  <1>4. at \in Nat
    BY TimeAssumption
  <1> HIDE DEF at
  <1>5. Len(row[i].log) > 0
    BY <1>1 DEF RowInv, LedgerAgrees, Row, ActiveStates
  <1>6. z \in Row /\ SameClaims(row[i], z)
    BY <1>1, <1>5, FinishAttemptRow DEF Outcomes, SameClaims
  <1> HIDE DEF z
  <1>7. y \in Row /\ y.state = "RETRY_WAIT" /\ SameClaims(row[i], y)
    <2>1. "RETRY_WAIT" \in States
      BY DEF States
    <2>2. y \in Row /\ y.state = "RETRY_WAIT" /\ SameClaims(z, y)
      BY <1>4, <1>6, <2>1, ReleaseRow DEF SameClaims
    <2> HIDE DEF y
    <2> QED
      BY <1>6, <2>2 DEF SameClaims
  <1> HIDE DEF y
  <1>8. Advances /\ Current(row')
    BY <1>1, <1>2, <1>7, ServedStep
  <1>9. /\ row' \in [Items -> Row] /\ row'[i] = y
        /\ \A j \in Items : j # i => row'[j] = row[j]
        /\ \A v \in Workers : held'[v] = NoLease \/ (v # w /\ held'[v] = held[v])
    BY <1>0, <1>1, <1>2, <1>7
  <1>10. ASSUME NEW v \in Workers, held'[v] # NoLease
         PROVE  LeaseOK(held'[v], row'[held'[v].item], clock)
    <2>1. /\ v # w /\ held'[v] = held[v] /\ held[v] \in Lease
          /\ held[v].item \in Items /\ LeaseOK(held[v], row[held[v].item], clock)
      BY <1>0, <1>9, <1>10 DEF Lease, LeasesOK
    <2>2. CASE held[v].item = i
      <3>1. y.epoch = row[i].epoch /\ row[i].epoch \in Nat
        BY <1>1, <1>7 DEF SameClaims, Row
      <3> QED
        BY <1>0, <1>1, <1>3, <1>7, <1>9, <1>10, <2>1, <2>2, <3>1, StaleLeaseKept
    <2>3. CASE held[v].item # i
      BY <1>9, <2>1, <2>3
    <2> QED
      BY <2>2, <2>3
  <1>11. DistinctEpochs(held')
    BY <1>0, <1>9 DEF LeasesOK, DistinctEpochs
  <1> QED
    BY <1>2, <1>8, <1>10, <1>11 DEF StepGoal, LeasesOK

LEMMA HeartbeatStepOK ==
    ASSUME FullInv, NEW now \in Nat, now <= clock, NEW w \in Workers,
           NEW delivered \in BOOLEAN, Heartbeat(w, now, delivered)
    PROVE  StepGoal
  <1> DEFINE i == held[w].item
             until == now + LeaseDuration
             y == [row[i] EXCEPT !.leaseExp = until]
             l == [held[w] EXCEPT !.exp = until]
  <1>0. /\ IInv /\ TableInv(row) /\ row \in [Items -> Row]
        /\ held \in [Workers -> Lease \cup {NoLease}] /\ clock \in Nat
        /\ LeasesOK(row, held, clock)
    BY DEF FullInv, IInv, TableInv
  <1>1. /\ i \in Items /\ row[i] \in Row /\ held[w] \in Lease
        /\ row[i].state \in ActiveStates
    BY <1>0, LiveLease DEF Heartbeat
  <1>2. /\ row' = [row EXCEPT ![i] = y] /\ clock' = clock
        /\ held' = held \/ held' = [held EXCEPT ![w] = l]
    BY DEF Heartbeat
  <1>3. /\ held[w] # NoLease /\ held[w].epoch = row[i].epoch
        /\ \A v \in Workers : v # w /\ held[v] # NoLease /\ held[v].item = i
              => held[v].epoch < row[i].epoch
    BY LiveIsNewest DEF Heartbeat
  <1>4. until \in Nat /\ held[w].exp <= until /\ held[w].exp \in Nat
    BY <1>1, TimeAssumption DEF Heartbeat, Presents, Lease, Times
  <1>5. held[w].item = i
    OBVIOUS
  <1> HIDE DEF i, until
  <1>6. /\ y \in Row /\ y.state = row[i].state /\ y.leaseExp = until
        /\ SameClaims(row[i], y)
    BY <1>1, <1>4 DEF Row, Times, SameClaims
  <1>7. l \in Lease /\ l.item = i /\ l.epoch = held[w].epoch /\ l.exp = until
    BY <1>1, <1>4, <1>5 DEF Lease, Times
  <1> HIDE DEF y, l
  <1>8. Advances /\ Current(row')
    BY <1>1, <1>2, <1>6, ServedStep
  <1>9. /\ row' \in [Items -> Row] /\ row'[i] = y
        /\ \A j \in Items : j # i => row'[j] = row[j]
        /\ \A v \in Workers : v # w => held'[v] = held[v]
        /\ held'[w] = held[w] \/ held'[w] = l
        /\ held'[w] # NoLease
    BY <1>0, <1>1, <1>2, <1>3, <1>6, <1>7, WorkersAssumption
  <1>10. ASSUME NEW v \in Workers, held'[v] # NoLease
         PROVE  LeaseOK(held'[v], row'[held'[v].item], clock)
    <2>1. CASE v = w
      <3>1. y.epoch = row[i].epoch /\ y.state \in ActiveStates /\ y.state # "ABSENT"
            /\ row[i].epoch \in Nat
        BY <1>1, <1>6 DEF SameClaims, ActiveStates, Row
      <3>2. /\ held'[v].item = i /\ held'[v].epoch = row[i].epoch
            /\ held'[v].exp <= until
        BY <1>3, <1>4, <1>5, <1>7, <1>9, <2>1
      <3> QED
        BY <1>6, <1>9, <3>1, <3>2 DEF LeaseOK
    <2>2. CASE v # w
      <3>1. /\ held'[v] = held[v] /\ held[v] \in Lease /\ held[v] # NoLease
            /\ held[v].item \in Items /\ LeaseOK(held[v], row[held[v].item], clock)
        BY <1>0, <1>9, <1>10, <2>2 DEF Lease, LeasesOK
      <3>2. CASE held[v].item = i
        <4>1. y.epoch = row[i].epoch /\ row[i].epoch \in Nat /\ y.state # "ABSENT"
          BY <1>1, <1>6 DEF SameClaims, Row, ActiveStates
        <4> QED
          BY <1>0, <1>1, <1>3, <1>6, <1>9, <2>2, <3>1, <3>2, <4>1, StaleLeaseKept
      <3>3. CASE held[v].item # i
        BY <1>9, <3>1, <3>3
      <3> QED
        BY <3>2, <3>3
    <2> QED
      BY <2>1, <2>2
  <1>11. \A v \in Workers : held'[v] # NoLease =>
            /\ held[v] # NoLease /\ held'[v].item = held[v].item
            /\ held'[v].epoch = held[v].epoch
    BY <1>3, <1>5, <1>7, <1>9
  <1>12. DistinctEpochs(held')
    BY <1>0, <1>11 DEF LeasesOK, DistinctEpochs
  <1> QED
    BY <1>2, <1>8, <1>10, <1>12 DEF StepGoal, LeasesOK

\* claim: maintenance, then one READY row is handed out under a new epoch.
\* Every older capability of the row has expired by then.
LEMMA ClaimStepOK ==
    ASSUME FullInv, NEW now \in Nat, now <= clock, NEW w \in Workers,
           NEW i \in Items, NEW start \in BOOLEAN, Claim(w, i, start, now)
    PROVE  StepGoal
  <1> DEFINE r == Maintain(row, now)
             s == IF start THEN "RUNNING" ELSE "LEASED"
             until == now + LeaseDuration
             e == r[i].epoch + 1
             y == ClaimedRow(r[i], w, now, s)
             l == [item |-> i, worker |-> w, epoch |-> e, exp |-> until]
  <1>0. /\ TableInv(row) /\ Current(row) /\ row \in [Items -> Row]
        /\ held \in [Workers -> Lease \cup {NoLease}] /\ clock \in Nat
        /\ LeasesOK(row, held, clock)
    BY DEF FullInv, IInv, TableInv
  <1>1. /\ held[w] = NoLease /\ r[i].state = "READY"
        /\ row' = [r EXCEPT ![i] = y] /\ clock' = clock
        /\ held' = [held EXCEPT ![w] = l]
    BY DEF Claim
  <1>2. Calm(row, r, now)
    BY <1>0, MaintainCalm
  <1> HIDE DEF r
  <1>3. /\ TableInv(r) /\ r \in [Items -> Row] /\ Current(r) /\ r[i] \in Row
        /\ Tame(row, r, now) /\ RowInv(r[i]) /\ r[i].epoch \in Nat
        /\ r[i].attempt \in Nat
    BY <1>0, <1>2 DEF Calm, Safely, TableInv, Row
  <1>4. LeasesOK(r, held, clock)
    BY <1>0, <1>3, TameKeepsLeases
  <1>5. s \in ActiveStates
    BY DEF ActiveStates
  <1> HIDE DEF s
  <1>6. GoodMove(r[i], y)
    BY <1>1, <1>3, <1>5, ClaimMove
  <1>7. until \in Nat /\ e \in Nat /\ e = r[i].epoch + 1 /\ r[i].epoch < e
    BY <1>3, TimeAssumption
  <1>8. /\ y.state = s /\ y.attempt = r[i].attempt + 1 /\ y.max = r[i].max
        /\ y.up = r[i].up /\ y.req = r[i].req /\ y.epoch = e
        /\ y.leaseExp = until
    BY <1>3 DEF ClaimedRow, Row
  <1>9. y \in Row
    BY <1>6 DEF GoodMove
  <1>10. l \in Lease /\ l.item = i /\ l.epoch = e /\ l.exp = until /\ l # NoLease
    <2> HIDE DEF e, until
    <2>1. l \in Lease /\ l.item = i /\ l.epoch = e /\ l.exp = until
      BY <1>7 DEF Lease, Times
    <2> QED
      BY <2>1, WorkersAssumption
  <1> HIDE DEF y, l, e, until
  <1>11. /\ row' \in [Items -> Row] /\ row'[i] = y
         /\ \A j \in Items : j # i => row'[j] = r[j]
         /\ held'[w] = l /\ \A v \in Workers : v # w => held'[v] = held[v]
    BY <1>0, <1>1, <1>3, <1>9, <1>10
  <1>12. Current(row')
    <2>1. y.state \notin TerminalStates \cup {"PLANNED"}
      BY <1>5, <1>8 DEF ActiveStates, TerminalStates
    <2>2. r[i].state \notin TerminalStates
      BY <1>1 DEF TerminalStates
    <2>3. Current([r EXCEPT ![i] = y])
      BY <1>3, <2>1, <2>2, OneRowCurrent
    <2> QED
      BY <1>1, <2>3
  <1>13. Handed(row[i], y)
    <2>1. /\ row[i].state \notin TerminalStates \cup {"ABSENT"}
          /\ r[i].attempt = row[i].attempt /\ r[i].max = row[i].max
          /\ r[i].up = row[i].up /\ r[i].req = row[i].req
      BY <1>1, <1>3 DEF Tame, TameRow, SameClaims, TerminalStates
    <2> QED
      BY <1>5, <1>8, <2>1 DEF Handed
  <1>14. Progress(row, row', now, {i}, {})
    BY <1>3, <1>11, <1>13 DEF Progress, Tame
  <1>15. Advances
    BY <1>14 DEF Advances, AtMostOne
  <1>16. ASSUME NEW v \in Workers, v # w, held[v] # NoLease
         PROVE  /\ LeaseOK(held[v], row'[held[v].item], clock)
                /\ held[v].item = i => held[v].epoch < e
    <2>1. /\ held[v] \in Lease /\ held[v].item \in Items /\ held[v].epoch \in Nat
          /\ held[v].exp \in Nat /\ LeaseOK(held[v], r[held[v].item], clock)
      BY <1>0, <1>4, <1>16 DEF Lease, Times, LeasesOK
    <2>2. CASE held[v].item = i
      <3>1. held[v].epoch <= r[i].epoch
        BY <2>1, <2>2 DEF LeaseOK
      <3>2. held[v].epoch < e
        BY <1>3, <1>7, <2>1, <3>1
      <3>3. ~(held[v].exp > clock)
        BY <1>1, <2>1, <2>2 DEF LeaseOK, ActiveStates, TerminalStates
      <3>4. y.state # "ABSENT"
        BY <1>5, <1>8 DEF ActiveStates
      <3> QED
        BY <1>7, <1>8, <1>11, <2>1, <2>2, <3>2, <3>3, <3>4 DEF LeaseOK
    <2>3. CASE held[v].item # i
      BY <1>11, <2>1, <2>3
    <2> QED
      BY <2>2, <2>3
  <1>17. LeaseOK(l, y, clock)
    BY <1>5, <1>7, <1>8, <1>10 DEF LeaseOK, ActiveStates
  <1>18. DistinctEpochs(held')
    <2> SUFFICES ASSUME NEW v \in Workers, NEW u \in Workers, v # u,
                        held'[v] # NoLease, held'[u] # NoLease,
                        held'[v].item = held'[u].item,
                        held'[v].epoch = held'[u].epoch
                 PROVE  FALSE
      BY DEF DistinctEpochs
    <2>1. CASE v # w /\ u # w
      BY <1>0, <1>11, <2>1 DEF LeasesOK, DistinctEpochs
    <2>2. CASE v = w
      <3>1. held[u] # NoLease /\ held[u].item = i /\ held[u].epoch = e /\ u # w
        BY <1>10, <1>11, <2>2
      <3>2. held[u].epoch < e
        BY <1>16, <3>1
      <3> QED
        BY <1>7, <3>1, <3>2
    <2>3. CASE u = w
      <3>1. held[v] # NoLease /\ held[v].item = i /\ held[v].epoch = e /\ v # w
        BY <1>10, <1>11, <2>3
      <3>2. held[v].epoch < e
        BY <1>16, <3>1
      <3> QED
        BY <1>7, <3>1, <3>2
    <2> QED
      BY <2>1, <2>2, <2>3
  <1>19. LeasesOK(row', held', clock)
    BY <1>10, <1>11, <1>16, <1>17, <1>18 DEF LeasesOK
  <1> QED
    BY <1>1, <1>12, <1>15, <1>19 DEF StepGoal

-----------------------------------------------------------------------------
(* The results.                                                            *)

LEMMA StepOK ==
    ASSUME FullInv, [Next]_vars
    PROVE  StepGoal
  <1>0. clock \in Nat
    BY DEF FullInv, IInv
  <1>1. CASE Tick \/ UNCHANGED vars
    BY <1>1, TickStepOK
  <1>2. CASE \E w \in Workers : WorkerCrash(w)
    BY <1>2, CrashStepOK
  <1>3. ASSUME NEW now \in ReadNow, NEW b \in Batches, PlanMany(b, now)
        PROVE  StepGoal
    BY <1>0, <1>3, NowIsPast, PlanManyStepOK
  <1>4. ASSUME NEW now \in ReadNow, Reconcile(now) \/ ClaimNothing(now)
        PROVE  StepGoal
    BY <1>0, <1>4, NowIsPast, MaintenanceSteps
  <1>5. ASSUME NEW now \in ReadNow, NEW i \in Items, NEW state \in DirectStates,
               DirectTerminal(i, state, now)
        PROVE  StepGoal
    BY <1>0, <1>5, NowIsPast, DirectTerminalStepOK
  <1>6. ASSUME NEW now \in ReadNow, NEW w \in Workers, NEW i \in Items,
               NEW start \in BOOLEAN, Claim(w, i, start, now)
        PROVE  StepGoal
    BY <1>0, <1>6, NowIsPast, ClaimStepOK
  <1>7. ASSUME NEW now \in ReadNow, NEW w \in Workers,
               Start(w, now) \/ Succeed(w, now) \/ Fenced(w, now)
        PROVE  StepGoal
    BY <1>0, <1>7, NowIsPast, StartStepOK, SucceedStepOK, FencedStepOK
  <1>8. ASSUME NEW now \in ReadNow, NEW w \in Workers, NEW delivered \in BOOLEAN,
               Heartbeat(w, now, delivered)
        PROVE  StepGoal
    BY <1>0, <1>8, NowIsPast, HeartbeatStepOK
  <1>9. ASSUME NEW now \in ReadNow, NEW w \in Workers, NEW delay \in RetryDelays,
               FailRetry(w, now, delay)
        PROVE  StepGoal
    BY <1>0, <1>9, NowIsPast, FailRetryStepOK
  <1>10. ASSUME NEW now \in ReadNow, NEW w \in Workers, NEW delay \in RetryDelays,
                NEW retryable \in BOOLEAN, FailPermanent(w, now, retryable, delay)
         PROVE  StepGoal
    BY <1>0, <1>10, NowIsPast, FailPermanentStepOK
  <1> QED
    BY <1>1, <1>2, <1>3, <1>4, <1>5, <1>6, <1>7, <1>8, <1>9, <1>10 DEF Next

LEMMA InitFull == Init => FullInv
  <1> SUFFICES ASSUME Init PROVE FullInv
    OBVIOUS
  <1>1. IInv
    BY InitInv
  <1>2. \A i \in Items : row[i].state = "ABSENT"
    BY DEF Init, AbsentRow
  <1>3. \A w \in Workers : held[w] = NoLease
    BY DEF Init
  <1> QED
    BY <1>1, <1>2, <1>3 DEF FullInv, Current, CurrentBut, LeasesOK, DistinctEpochs

\* Readiness and leases stay in step with the table under every operation.
THEOREM FullInvariance == Spec => []FullInv
  <1>1. FullInv /\ [Next]_vars => IInv'
    BY StepKeeps DEF FullInv, IInv, Safely, TableInv, RowInv, Row, Unblocked,
                     Terminal, Successful
  <1>2. FullInv /\ [Next]_vars => Current(row)' /\ LeasesOK(row, held, clock)'
    BY StepOK DEF StepGoal, Current, CurrentBut, Terminal, LeasesOK, LeaseOK,
                  DistinctEpochs
  <1>3. FullInv /\ [Next]_vars => FullInv'
    BY <1>1, <1>2 DEF FullInv
  <1> QED
    BY <1>3, InitFull, PTL DEF Spec

\* No committed state leaves a PLANNED row whose upstreams have all ended:
\* "direct predecessor transitions below keep readiness current" (_maintain).
THEOREM ReadinessIsCurrent == Spec => []ReadinessCurrent
  <1>1. FullInv => ReadinessCurrent
    BY DEF FullInv, Current, CurrentBut, ReadinessCurrent
  <1> QED
    BY <1>1, FullInvariance, PTL

\* Two unexpired capabilities for one item are never in the hands of two
\* workers, whatever the skew of the clock readings and the lost renewals.
THEOREM ExecutionIsExclusive == Spec => []ExclusiveExecution
  <1>1. FullInv => ExclusiveExecution
    <2> SUFFICES ASSUME FullInv, NEW v \in Workers, NEW w \in Workers, v # w,
                        held[v] # NoLease, held[w] # NoLease,
                        held[v].item = held[w].item
                 PROVE  held[v].exp <= clock \/ held[w].exp <= clock
      BY DEF ExclusiveExecution
    <2>1. held[v].exp \in Nat /\ held[w].exp \in Nat /\ clock \in Nat
      BY DEF FullInv, IInv, Lease, Times
    <2>2. /\ LeaseOK(held[v], row[held[v].item], clock)
          /\ LeaseOK(held[w], row[held[w].item], clock)
          /\ held[v].epoch # held[w].epoch
      BY DEF FullInv, LeasesOK, DistinctEpochs
    <2> QED
      BY <2>1, <2>2 DEF LeaseOK
  <1> QED
    BY <1>1, FullInvariance, PTL

\* Whoever wins an item held its newest fencing token, under a lease that had
\* not lapsed at the time the operation read (within Skew of the commit), and
\* gives it up with the commit: a stale worker, a cascade or a cancellation
\* never wins.
THEOREM SuccessesAreFenced == Spec => SuccessIsFenced
  <1>1. FullInv /\ [Next]_vars =>
          [\A i \in Items :
             row'[i].state = "SUCCEEDED" /\ row[i].state # "SUCCEEDED" =>
                /\ row[i].state = "RUNNING" /\ row[i].leaseExp + Skew > clock
                /\ \E w \in Workers :
                    /\ held[w] # NoLease /\ held'[w] = NoLease
                    /\ held[w].item = i /\ held[w].epoch = row[i].epoch
                    /\ held[w].exp = row[i].leaseExp
                    /\ \A v \in Workers : held[v] # NoLease /\ held[v].item = i
                            => held[v].epoch <= held[w].epoch]_vars
    <2> SUFFICES ASSUME FullInv, [Next]_vars, NEW i \in Items,
                        row'[i].state = "SUCCEEDED", row[i].state # "SUCCEEDED"
                 PROVE  FencedWin(i)
      BY DEF FencedWin
    <2>1. PICK now \in Nat, H \in SUBSET Items, S \in SUBSET Items :
             Progress(row, row', now, H, S) /\ \A k \in S : FencedWin(k)
      BY StepOK DEF StepGoal, Advances
    <2>2. i \in S
      BY <2>1 DEF Progress, TameRow, Entered, Served, Handed, ActiveStates
    <2> QED
      BY <2>1, <2>2
  <1> QED
    BY <1>1, FullInvariance, PTL DEF Spec, SuccessIsFenced

\* The ledger implements WorkContract: every transaction is one commit of the
\* contract, or invisible to the clients.
THEOREM ContractImplemented == Spec => ImplementsContract
  <1>1. Init => Contract!Init
    <2>1. ASSUME Init, NEW i \in Items
          PROVE  PhaseOf(row[i].state) = "none" /\ row[i].attempt = 0
      <3>1. row[i].state = "ABSENT" /\ row[i].attempt = 0 /\ row[i].state \in States
        BY <2>1 DEF Init, AbsentRow, States
      <3> QED
        BY <3>1, Phases
    <2> QED
      BY <2>1 DEF Contract!Init
  <1>2. FullInv /\ FullInv' /\ [Next]_vars => [Contract!Next]_(JobOf(row))
    <2> SUFFICES ASSUME FullInv, FullInv', [Next]_vars
                 PROVE  Contract!Commit(JobOf(row), JobOf(row'))
      BY DEF Contract!Next, JobOf
    <2>1. PICK now \in Nat, H \in SUBSET Items, S \in SUBSET Items :
             /\ AtMostOne(H) /\ AtMostOne(S) /\ Progress(row, row', now, H, S)
      BY StepOK DEF StepGoal, Advances
    <2>2. TableInv(row) /\ TableInv(row') /\ Current(row')
      BY StepKeeps, StepOK DEF FullInv, IInv, Safely, StepGoal
    <2> QED
      BY <2>1, <2>2, CommitFrom
  <1> QED
    BY <1>1, <1>2, FullInvariance, PTL DEF Spec, ImplementsContract, Contract!Spec, JobOf

=============================================================================
