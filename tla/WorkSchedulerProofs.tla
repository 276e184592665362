------------------------ MODULE WorkSchedulerProofs ------------------------
(***************************************************************************)
(* Proofs about WorkScheduler for every finite set of items, every set of  *)
(* workers, every plan batch, lease duration, clock skew and clock bound.  *)
(*                                                                         *)
(* Every operation is a composition of functions from table to table, so   *)
(* the argument is made once per function: it keeps the table invariant    *)
(* TableInv and changes no terminal row (KeepsEnded).  Both compose.       *)
(***************************************************************************)
EXTENDS WorkScheduler, SequenceTheorems, TLAPS

Started(x) ==
    \/ x.state \in {"READY", "RETRY_WAIT", "SUCCEEDED"} \cup ActiveStates
    \/ x.attempt > 0

RowInv(x) == LedgerAgrees(x) /\ x.req \subseteq x.up

TableInv(r) ==
    /\ r \in [Items -> Row]
    /\ \A i \in Items : RowInv(r[i])
    /\ \A i \in Items : Started(r[i]) => Unblocked(r, i)

KeepsEnded(r, q) ==
    /\ \A i \in Items : Terminal(r, i) => q[i] = r[i]
    /\ \A i \in Items : Planned(r, i) =>
          Planned(q, i) /\ q[i].up = r[i].up /\ q[i].req = r[i].req

\* What one row may become without a look at the other rows.
GoodMove(x, y) ==
    /\ y \in Row /\ RowInv(y) /\ y.state # "ABSENT"
    /\ y.up = x.up /\ y.req = x.req
    /\ x.state \notin TerminalStates
    /\ Started(y) => Started(x)

-----------------------------------------------------------------------------
(* One row.                                                                *)

\* Closing the last attempt (_finish_attempt) changes that entry only.
LEMMA FinishedLog ==
    ASSUME NEW s \in Seq(Outcomes), Len(s) > 0, NEW o \in Outcomes
    PROVE  LET t == [s EXCEPT ![Len(s)] = o] IN
           /\ t \in Seq(Outcomes) /\ Len(t) = Len(s)
           /\ \A k \in 1..Len(s) : t[k] = IF k = Len(s) THEN o ELSE s[k]
  <1>1. Len(s) \in 1..Len(s)
    OBVIOUS
  <1> QED
    BY <1>1, ExceptSeq

\* _finish_attempt leaves every other column alone.
LEMMA FinishAttemptRow ==
    ASSUME NEW x \in Row, Len(x.log) > 0, NEW o \in Outcomes
    PROVE  LET y == FinishAttempt(x, o) IN
           /\ y \in Row
           /\ y.state = x.state /\ y.up = x.up /\ y.req = x.req
           /\ y.max = x.max /\ y.epoch = x.epoch /\ y.attempt = x.attempt
           /\ y.leasedBy = x.leasedBy
           /\ Len(y.log) = Len(x.log)
           /\ \A k \in 1..Len(x.log) :
                 y.log[k] = IF k = Len(x.log) THEN o ELSE x.log[k]
  <1> DEFINE y == FinishAttempt(x, o)
             t == [x.log EXCEPT ![Len(x.log)] = o]
  <1>1. x.log \in Seq(Outcomes)
    BY DEF Row
  <1>2. /\ t \in Seq(Outcomes) /\ Len(t) = Len(x.log)
        /\ \A k \in 1..Len(x.log) : t[k] = IF k = Len(x.log) THEN o ELSE x.log[k]
    BY <1>1, FinishedLog
  <1>3. y = [x EXCEPT !.log = t]
    BY DEF FinishAttempt
  <1> HIDE DEF t
  <1>4. /\ y \in Row /\ y.log = t
        /\ y.state = x.state /\ y.up = x.up /\ y.req = x.req
        /\ y.max = x.max /\ y.epoch = x.epoch /\ y.attempt = x.attempt
        /\ y.leasedBy = x.leasedBy
    BY <1>2, <1>3 DEF Row
  <1> QED
    BY <1>2, <1>4

\* _set_terminal after _finish_attempt, on a leased row.
LEMMA EndActive ==
    ASSUME NEW x \in Row, RowInv(x), x.state \in ActiveStates,
           NEW o \in Outcomes, NEW s \in TerminalStates,
           o # "ACTIVE", o = "SUCCEEDED" <=> s = "SUCCEEDED"
    PROVE  GoodMove(x, SetTerminal(FinishAttempt(x, o), s))
  <1> DEFINE z == FinishAttempt(x, o)
             y == SetTerminal(z, s)
  <1>1. x.attempt \in Nat /\ x.attempt > 0 /\ Len(x.log) = x.attempt
    BY DEF RowInv, LedgerAgrees, Row, ActiveStates
  <1>2. /\ z \in Row
        /\ z.up = x.up /\ z.req = x.req /\ z.max = x.max
        /\ z.epoch = x.epoch /\ z.attempt = x.attempt
        /\ Len(z.log) = Len(x.log)
        /\ \A k \in 1..Len(x.log) :
              z.log[k] = IF k = Len(x.log) THEN o ELSE x.log[k]
    BY <1>1, FinishAttemptRow
  <1> HIDE DEF z
  <1>3. s \in States /\ s \notin ActiveStates
        /\ s \notin {"ABSENT", "PLANNED", "READY", "RETRY_WAIT"}
    BY DEF States, TerminalStates, ActiveStates
  <1>4. /\ y \in Row /\ y.state = s /\ y.leasedBy = NoWorker /\ y.log = z.log
        /\ y.up = x.up /\ y.req = x.req /\ y.max = x.max
        /\ y.epoch = x.epoch /\ y.attempt = x.attempt
    BY <1>2, <1>3 DEF SetTerminal, Row, Times
  <1> HIDE DEF y
  <1>5. RowInv(y)
    BY <1>1, <1>2, <1>3, <1>4 DEF RowInv, LedgerAgrees, ActiveStates
  <1>6. x.state \notin TerminalStates /\ Started(x)
    BY DEF Started, ActiveStates, TerminalStates
  <1> QED
    BY <1>3, <1>4, <1>5, <1>6 DEF GoodMove, y, z

\* A leased row whose attempt is closed and that may run again.
LEMMA ReleaseActive ==
    ASSUME NEW x \in Row, RowInv(x), x.state \in ActiveStates,
           x.attempt < x.max, NEW o \in Outcomes \ {"ACTIVE", "SUCCEEDED"},
           NEW s \in {"READY", "RETRY_WAIT"}, NEW t \in Nat
    PROVE  GoodMove(x, Release(FinishAttempt(x, o), s, t))
  <1> DEFINE z == FinishAttempt(x, o)
             y == Release(z, s, t)
  <1>1. x.attempt \in Nat /\ x.attempt > 0 /\ Len(x.log) = x.attempt
    BY DEF RowInv, LedgerAgrees, Row, ActiveStates
  <1>2. /\ z \in Row
        /\ z.up = x.up /\ z.req = x.req /\ z.max = x.max
        /\ z.epoch = x.epoch /\ z.attempt = x.attempt
        /\ Len(z.log) = Len(x.log)
        /\ \A k \in 1..Len(x.log) :
              z.log[k] = IF k = Len(x.log) THEN o ELSE x.log[k]
    BY <1>1, FinishAttemptRow
  <1> HIDE DEF z
  <1>4. /\ y \in Row /\ y.state = s /\ y.leasedBy = NoWorker /\ y.log = z.log
        /\ y.up = x.up /\ y.req = x.req /\ y.max = x.max
        /\ y.epoch = x.epoch /\ y.attempt = x.attempt
    BY <1>2 DEF Release, Row, Times, States
  <1> HIDE DEF y
  <1>5. RowInv(y)
    BY <1>1, <1>2, <1>4 DEF RowInv, LedgerAgrees, ActiveStates
  <1>6. x.state \notin TerminalStates /\ Started(x)
    BY DEF Started, ActiveStates, TerminalStates
  <1> QED
    BY <1>4, <1>5, <1>6 DEF GoodMove, y, z

\* _set_terminal of a row that is not leased.
LEMMA EndIdle ==
    ASSUME NEW x \in Row, RowInv(x),
           x.state \in {"PLANNED", "READY", "RETRY_WAIT"},
           NEW s \in TerminalStates \ {"SUCCEEDED"}
    PROVE  GoodMove(x, SetTerminal(x, s))
  <1> DEFINE y == SetTerminal(x, s)
  <1>3. s \in States /\ s \notin ActiveStates /\ s # "SUCCEEDED"
        /\ s \notin {"ABSENT", "PLANNED", "READY", "RETRY_WAIT"}
    BY DEF States, TerminalStates, ActiveStates
  <1>4. /\ y \in Row /\ y.state = s /\ y.leasedBy = NoWorker /\ y.log = x.log
        /\ y.up = x.up /\ y.req = x.req /\ y.max = x.max
        /\ y.epoch = x.epoch /\ y.attempt = x.attempt
    BY <1>3 DEF SetTerminal, Row, Times
  <1> HIDE DEF y
  <1>5. RowInv(y)
    BY <1>3, <1>4 DEF RowInv, LedgerAgrees, ActiveStates
  <1>6. x.state \notin TerminalStates /\ (Started(y) => Started(x))
    BY <1>3, <1>4 DEF Started, ActiveStates, TerminalStates
  <1> QED
    BY <1>3, <1>4, <1>5, <1>6 DEF GoodMove, y


\* The torn flag is a truth value and touches no other column.
LEMMA TearRow ==
    ASSUME NEW x \in Row, NEW now \in Nat, NEW t \in Nat
    PROVE  LET z == [x EXCEPT !.torn = now < t] IN
           /\ z \in Row /\ z.state = x.state /\ z.log = x.log /\ z.up = x.up
           /\ z.req = x.req /\ z.epoch = x.epoch /\ z.attempt = x.attempt
           /\ z.max = x.max /\ z.leasedBy = x.leasedBy
  <1> DEFINE late == now < t
  <1>1. late \in BOOLEAN
    OBVIOUS
  <1> HIDE DEF late
  <1>2. LET z == [x EXCEPT !.torn = late] IN
           /\ z \in Row /\ z.state = x.state /\ z.log = x.log /\ z.up = x.up
           /\ z.req = x.req /\ z.epoch = x.epoch /\ z.attempt = x.attempt
           /\ z.max = x.max /\ z.leasedBy = x.leasedBy
    BY <1>1 DEF Row
  <1> QED
    BY <1>2 DEF late

-----------------------------------------------------------------------------
(* Tables.                                                                 *)

\* Terminal upstream rows never change, so what was unblocked stays so.
LEMMA UnblockedStable ==
    ASSUME NEW r, NEW q, KeepsEnded(r, q), NEW i \in Items, Planned(r, i),
           r[i].up \subseteq Items, r[i].req \subseteq r[i].up, Unblocked(r, i)
    PROVE  Unblocked(q, i)
  <1>1. q[i].up = r[i].up /\ q[i].req = r[i].req
    BY DEF KeepsEnded
  <1>2. \A u \in r[i].up : q[u] = r[u]
    BY DEF KeepsEnded, Unblocked
  <1> QED
    BY <1>1, <1>2 DEF Unblocked, Terminal, Successful

\* KeepsEnded composes.
LEMMA KeepsEndedTrans ==
    ASSUME NEW r, NEW q, NEW p, KeepsEnded(r, q), KeepsEnded(q, p)
    PROVE  KeepsEnded(r, p)
  BY DEF KeepsEnded, Terminal, Planned, TerminalStates

\* A table function that moves each row well keeps the table invariant.
LEMMA MovesKeep ==
    ASSUME NEW r, TableInv(r), NEW q, q \in [Items -> Row],
           \A j \in Items : q[j] = r[j] \/ (Planned(r, j) /\ GoodMove(r[j], q[j]))
    PROVE  TableInv(q) /\ KeepsEnded(r, q)
  <1>1. KeepsEnded(r, q)
    BY DEF KeepsEnded, GoodMove, Terminal, Planned
  <1>2. \A i \in Items : RowInv(q[i])
    BY DEF TableInv, GoodMove
  <1>3. ASSUME NEW i \in Items, Started(q[i])
        PROVE  Unblocked(q, i)
    <2>1. Started(r[i]) /\ RowInv(r[i]) /\ r[i] \in Row
      BY <1>3 DEF GoodMove, TableInv
    <2>2. Planned(r, i)
      BY <2>1 DEF Started, Planned, RowInv, LedgerAgrees, ActiveStates, Row
    <2>3. Unblocked(r, i)
      BY <2>1 DEF TableInv
    <2>4. r[i].up \subseteq Items /\ r[i].req \subseteq r[i].up
      BY <2>1 DEF RowInv, Row
    <2> QED
      BY <1>1, <2>2, <2>3, <2>4, UnblockedStable
  <1>4. \A i \in Items : Started(q[i]) => Unblocked(q, i)
    BY <1>3
  <1>5. TableInv(q)
    BY <1>2, <1>4 DEF TableInv
  <1> QED
    BY <1>1, <1>5

\* The cascade only fails PLANNED rows.
LEMMA CascadeWithin ==
    ASSUME NEW r, NEW seeds
    PROVE  /\ Cascade(r, seeds) \subseteq Items
           /\ \A d \in Cascade(r, seeds) : r[d].state = "PLANNED"
  <1> DEFINE X == {d \in Items : r[d].state = "PLANNED"}
  <1>1. X \in SUBSET Items /\ CascadeClosed(r, seeds, X)
    BY DEF CascadeClosed, RequiredFailure
  <1> QED
    BY <1>1 DEF Cascade

\* An item the worklist visits and does not fail, although its upstreams have
\* ended, has all its REQUIRED upstreams successful.
LEMMA CascadeSpares ==
    ASSUME NEW r, NEW seeds, NEW d \in Items,
           d \notin Cascade(r, seeds), r[d].state = "PLANNED",
           d \in seeds \cup Downstream(r, Cascade(r, seeds)),
           \A u \in r[d].up : Terminal(r, u) \/ u \in Cascade(r, seeds)
    PROVE  \A u \in r[d].req : u \notin Cascade(r, seeds) /\ Successful(r, u)
  <1>1. PICK X \in SUBSET Items : CascadeClosed(r, seeds, X) /\ d \notin X
    BY DEF Cascade
  <1>2. Cascade(r, seeds) \subseteq X
    BY <1>1 DEF Cascade
  <1>3. d \in seeds \/ r[d].up \cap X # {}
    BY <1>2 DEF Downstream
  <1>4. ~RequiredFailure(r, X, d)
    BY <1>1, <1>3 DEF CascadeClosed
  <1>5. \A u \in r[d].up : Terminal(r, u) \/ u \in X
    BY <1>2
  <1>6. \A u \in r[d].req : ~(u \in X \/ ~Successful(r, u))
    BY <1>4, <1>5 DEF RequiredFailure
  <1> QED
    BY <1>2, <1>6

\* _refresh_planned_for_work_ids keeps the table invariant: it only moves
\* PLANNED rows, and offers a row only when its upstreams allow it.
LEMMA RefreshKeeps ==
    ASSUME NEW r, TableInv(r), NEW now \in Nat, NEW seeds
    PROVE  TableInv(Refresh(r, now, seeds)) /\ KeepsEnded(r, Refresh(r, now, seeds))
  <1> DEFINE failed  == Cascade(r, seeds)
             visited == seeds \cup Downstream(r, failed)
             ready   == {d \in visited \ failed :
                            /\ r[d].state = "PLANNED"
                            /\ \A u \in r[d].up : Terminal(r, u) \/ u \in failed}
             q == Refresh(r, now, seeds)
  <1>1. CASE failed \cup ready = {}
    <2>1. q = r
      BY <1>1 DEF Refresh
    <2> QED
      BY <2>1 DEF KeepsEnded
  <1>2. CASE failed \cup ready # {}
    <2>1. q = [i \in Items |->
                IF i \in failed
                THEN [SetTerminal(r[i], "FAILED_PERMANENT")
                        EXCEPT !.torn = now < r[i].created]
                ELSE IF i \in ready
                THEN [r[i] EXCEPT !.state = "READY", !.torn = now < r[i].created]
                ELSE r[i]]
      BY <1>2 DEF Refresh
    <2>2. /\ failed \subseteq Items
          /\ \A d \in failed : r[d].state = "PLANNED"
      BY CascadeWithin
    <2> HIDE DEF failed, q
    <2>3. r \in [Items -> Row] /\ \A i \in Items : RowInv(r[i])
      BY DEF TableInv
    <2>4. ASSUME NEW i \in failed
          PROVE  Planned(r, i) /\ GoodMove(r[i], q[i]) /\ q[i].state = "FAILED_PERMANENT"
      <3> DEFINE y == SetTerminal(r[i], "FAILED_PERMANENT")
                 z == [y EXCEPT !.torn = now < r[i].created]
      <3>1. i \in Items /\ r[i] \in Row /\ RowInv(r[i]) /\ r[i].state = "PLANNED"
        BY <2>2, <2>3
      <3>2. GoodMove(r[i], y) /\ y.state = "FAILED_PERMANENT"
        BY <3>1, EndIdle DEF TerminalStates, SetTerminal, Row
      <3>3. q[i] = z
        BY <2>1, <3>1
      <3> HIDE DEF y
      <3>4. /\ z \in Row /\ z.state = y.state /\ z.log = y.log /\ z.up = y.up
            /\ z.req = y.req /\ z.epoch = y.epoch /\ z.attempt = y.attempt
            /\ z.max = y.max /\ z.leasedBy = y.leasedBy
        BY <3>2, TearRow DEF GoodMove
      <3> HIDE DEF z
      <3>5. GoodMove(r[i], z)
        BY <3>2, <3>4 DEF GoodMove, RowInv, LedgerAgrees, Started
      <3> QED
        BY <3>1, <3>2, <3>3, <3>4, <3>5 DEF Planned
    <2>5. ASSUME NEW i \in ready \cap Items
          PROVE  /\ i \notin failed /\ r[i].state = "PLANNED"
                 /\ q[i] \in Row /\ RowInv(q[i]) /\ q[i].state = "READY"
                 /\ q[i].up = r[i].up /\ q[i].req = r[i].req
      <3> DEFINE y == [r[i] EXCEPT !.state = "READY"]
                 z == [y EXCEPT !.torn = now < r[i].created]
      <3>1. i \notin failed /\ r[i] \in Row /\ RowInv(r[i]) /\ r[i].state = "PLANNED"
        BY <2>3
      <3>2. q[i] = z
        BY <2>1, <3>1
      <3>5. /\ y \in Row /\ y.state = "READY" /\ y.log = r[i].log /\ y.up = r[i].up
            /\ y.req = r[i].req /\ y.epoch = r[i].epoch /\ y.attempt = r[i].attempt
            /\ y.max = r[i].max /\ y.leasedBy = r[i].leasedBy
        BY <3>1 DEF Row, States
      <3> HIDE DEF y
      <3>3. /\ z \in Row /\ z.state = "READY" /\ z.log = r[i].log /\ z.up = r[i].up
            /\ z.req = r[i].req /\ z.epoch = r[i].epoch /\ z.attempt = r[i].attempt
            /\ z.max = r[i].max /\ z.leasedBy = r[i].leasedBy
        BY <3>5, TearRow
      <3> HIDE DEF z
      <3>4. RowInv(z)
        BY <3>1, <3>3 DEF RowInv, LedgerAgrees, ActiveStates, Row
      <3> QED
        BY <3>1, <3>2, <3>3, <3>4
    <2>6. ASSUME NEW i \in Items, i \notin failed, i \notin ready
          PROVE  q[i] = r[i]
      BY <2>1, <2>6
    <2>7. q \in [Items -> Row]
      <3>1. \A i \in Items : q[i] \in Row
        BY <2>3, <2>4, <2>5, <2>6 DEF GoodMove
      <3> QED
        BY <2>1, <3>1
    <2>8. KeepsEnded(r, q)
      BY <2>2, <2>4, <2>5, <2>6 DEF KeepsEnded, GoodMove, Terminal, TerminalStates, Planned
    <2>9. \A i \in Items : RowInv(q[i])
      BY <2>3, <2>4, <2>5, <2>6 DEF GoodMove
    <2>10. ASSUME NEW i \in Items, Started(q[i])
           PROVE  Unblocked(q, i)
      <3>0. r[i] \in Row /\ RowInv(r[i])
        BY <2>3
      <3>1. CASE i \in ready
        <4>1. /\ i \notin failed /\ r[i].state = "PLANNED"
              /\ q[i].up = r[i].up /\ q[i].req = r[i].req
          BY <2>5, <3>1
        <4>2. \A u \in r[i].up : u \in Items /\ (Terminal(r, u) \/ u \in failed)
          BY <3>0, <3>1 DEF Row
        <4>3. \A u \in r[i].req : u \notin failed /\ Successful(r, u)
          BY <3>1, <4>1, <4>2, CascadeSpares DEF failed
        <4>4. \A u \in Items : Terminal(r, u) => q[u] = r[u]
          BY <2>8 DEF KeepsEnded
        <4>5. \A u \in failed : Terminal(q, u)
          BY <2>4 DEF Terminal, TerminalStates
        <4>6. r[i].req \subseteq r[i].up
          BY <3>0 DEF RowInv
        <4> QED
          BY <4>1, <4>2, <4>3, <4>4, <4>5, <4>6 DEF Unblocked, Terminal, Successful
      <3>2. CASE i \notin ready
        <4>1. Started(r[i])
          BY <2>4, <2>6, <2>10, <3>2 DEF GoodMove
        <4>2. Unblocked(r, i)
          BY <4>1 DEF TableInv
        <4>3. Planned(r, i)
          BY <3>0, <4>1 DEF Started, Planned, RowInv, LedgerAgrees, ActiveStates, Row
        <4> QED
          BY <2>8, <3>0, <4>2, <4>3, UnblockedStable DEF RowInv, Row
      <3> QED
        BY <3>1, <3>2
    <2> QED
      BY <2>7, <2>8, <2>9, <2>10 DEF TableInv, q
  <1> QED
    BY <1>1, <1>2


-----------------------------------------------------------------------------
(* The maintenance passes.                                                 *)

Safely(r, q) == TableInv(q) /\ KeepsEnded(r, q)

LEMMA SafelySame == ASSUME NEW r, TableInv(r) PROVE Safely(r, r)
  BY DEF Safely, KeepsEnded

LEMMA SafelyTrans ==
    ASSUME NEW r, NEW q, NEW p, Safely(r, q), Safely(q, p)
    PROVE  Safely(r, p)
  BY KeepsEndedTrans DEF Safely

LEMMA SafelyRefresh ==
    ASSUME NEW r, NEW q, Safely(r, q), NEW now \in Nat, NEW seeds
    PROVE  Safely(r, Refresh(q, now, seeds))
  BY RefreshKeeps, KeepsEndedTrans DEF Safely

\* A due row ends as EXPIRED, its open attempt with it.
LEMMA ExpireRowMove ==
    ASSUME NEW x \in Row, RowInv(x), x.state \notin TerminalStates \cup {"ABSENT"}
    PROVE  GoodMove(x, ExpireRow(x))
  <1>1. CASE x.state \in ActiveStates
    BY <1>1, EndActive DEF ExpireRow, Outcomes, TerminalStates
  <1>2. CASE x.state \notin ActiveStates
    <2>1. x.state \in {"PLANNED", "READY", "RETRY_WAIT"}
      BY <1>2 DEF Row, States
    <2> QED
      BY <1>2, <2>1, EndIdle DEF ExpireRow, TerminalStates
  <1> QED
    BY <1>1, <1>2

\* The UPDATEs of _expire_hard_deadlines.
LEMMA ExpireRowsKeep ==
    ASSUME NEW r, TableInv(r), NEW now \in Nat, NEW T
    PROVE  Safely(r, ExpireRows(r, Due(r, now, T)))
  <1> DEFINE due == Due(r, now, T)
             q == ExpireRows(r, due)
  <1>1. \A i \in due : r[i].state \notin TerminalStates \cup {"ABSENT"}
    BY DEF Due
  <1>2. r \in [Items -> Row] /\ \A i \in Items : RowInv(r[i])
    BY DEF TableInv
  <1>3. ASSUME NEW i \in Items
        PROVE  q[i] = r[i] \/ (Planned(r, i) /\ GoodMove(r[i], q[i]))
    <2>1. q[i] = IF i \in due THEN ExpireRow(r[i]) ELSE r[i]
      BY DEF ExpireRows
    <2> QED
      BY <1>1, <1>2, <2>1, ExpireRowMove DEF Planned
  <1>4. q \in [Items -> Row]
    <2>1. \A i \in Items : q[i] \in Row
      BY <1>2, <1>3 DEF GoodMove
    <2> QED
      BY <2>1 DEF ExpireRows
  <1> HIDE DEF q
  <1>5. Safely(r, q)
    BY <1>3, <1>4, MovesKeep DEF Safely
  <1> QED
    BY <1>5 DEF q

\* _expire_hard_deadlines.
LEMMA ExpireKeeps ==
    ASSUME NEW r, TableInv(r), NEW now \in Nat, NEW T
    PROVE  Safely(r, ExpireHardDeadlines(r, now, T))
  BY ExpireRowsKeep, SafelyRefresh, SafelySame DEF ExpireHardDeadlines

\* The rows _recover_expired_leases takes back, those it ends, and its UPDATEs.
Lapsed(r, now, T) == {i \in T : LeaseLapsed(r[i], now)}
Exhausted(r, now, T) == {i \in Lapsed(r, now, T) : AttemptsExhausted(r[i])}
TakeBack(r, now, T) ==
    [i \in Items |->
        IF i \in Exhausted(r, now, T)
        THEN SetTerminal(FinishAttempt(r[i], "ABANDONED"), "FAILED_PERMANENT")
        ELSE IF i \in Lapsed(r, now, T)
        THEN Release(FinishAttempt(r[i], "ABANDONED"), "READY", 0)
        ELSE r[i]]

LEMMA RecoverIs ==
    ASSUME NEW r, NEW now, NEW T
    PROVE  RecoverExpiredLeases(r, now, T) =
              IF Lapsed(r, now, T) = {} THEN r
              ELSE Refresh(TakeBack(r, now, T), now,
                           Downstream(r, Exhausted(r, now, T)))
  BY DEF RecoverExpiredLeases, Lapsed, Exhausted, TakeBack

LEMMA TakeBackKeeps ==
    ASSUME NEW r, TableInv(r), NEW now \in Nat, NEW T
    PROVE  Safely(r, TakeBack(r, now, T))
  <1> DEFINE lapsed    == Lapsed(r, now, T)
             exhausted == Exhausted(r, now, T)
             q == TakeBack(r, now, T)
  <1>1. r \in [Items -> Row] /\ \A i \in Items : RowInv(r[i])
    BY DEF TableInv
  <1>2. ASSUME NEW i \in Items
        PROVE  q[i] = r[i] \/ (Planned(r, i) /\ GoodMove(r[i], q[i]))
    <2>1. r[i] \in Row /\ RowInv(r[i])
      BY <1>1
    <2>2. CASE i \notin lapsed
      BY <2>2 DEF TakeBack, Exhausted
    <2>3. CASE i \in exhausted
      <3>1. r[i].state \in ActiveStates
        BY <2>3 DEF Exhausted, Lapsed, LeaseLapsed
      <3>2. q[i] = SetTerminal(FinishAttempt(r[i], "ABANDONED"), "FAILED_PERMANENT")
        BY <2>3 DEF TakeBack
      <3> HIDE DEF q
      <3>3. GoodMove(r[i], q[i])
        BY <2>1, <3>1, <3>2, EndActive DEF Outcomes, TerminalStates
      <3> QED
        BY <3>1, <3>3 DEF Planned, ActiveStates
    <2>4. CASE i \in lapsed /\ i \notin exhausted
      <3>1. r[i].state \in ActiveStates /\ r[i].attempt < r[i].max
        BY <2>1, <2>4 DEF Exhausted, Lapsed, LeaseLapsed, AttemptsExhausted, Row
      <3>2. q[i] = Release(FinishAttempt(r[i], "ABANDONED"), "READY", 0)
        BY <2>4 DEF TakeBack
      <3> HIDE DEF q
      <3>3. GoodMove(r[i], q[i])
        BY <2>1, <3>1, <3>2, ReleaseActive DEF Outcomes
      <3> QED
        BY <3>1, <3>3 DEF Planned, ActiveStates
    <2> QED
      BY <2>2, <2>3, <2>4
  <1>3. q \in [Items -> Row]
    <2>1. \A i \in Items : q[i] \in Row
      <3> HIDE DEF q
      <3> QED
        BY <1>1, <1>2 DEF GoodMove
    <2> QED
      BY <2>1 DEF TakeBack
  <1> HIDE DEF q
  <1>4. Safely(r, q)
    BY <1>2, <1>3, MovesKeep DEF Safely
  <1> QED
    BY <1>4 DEF q

\* _recover_expired_leases.
LEMMA RecoverKeeps ==
    ASSUME NEW r, TableInv(r), NEW now \in Nat, NEW T
    PROVE  Safely(r, RecoverExpiredLeases(r, now, T))
  BY RecoverIs, TakeBackKeeps, SafelyRefresh, SafelySame

\* A row in RETRY_WAIT that becomes READY.
LEMMA WakeMove ==
    ASSUME NEW x \in Row, RowInv(x), x.state = "RETRY_WAIT"
    PROVE  GoodMove(x, Release(x, "READY", 0))
  <1> DEFINE y == Release(x, "READY", 0)
  <1>1. /\ y \in Row /\ y.state = "READY" /\ y.leasedBy = NoWorker /\ y.log = x.log
        /\ y.up = x.up /\ y.req = x.req /\ y.max = x.max
        /\ y.epoch = x.epoch /\ y.attempt = x.attempt
    BY DEF Release, Row, Times, States
  <1> HIDE DEF y
  <1>2. RowInv(y)
    BY <1>1 DEF RowInv, LedgerAgrees, ActiveStates
  <1> QED
    BY <1>1, <1>2 DEF GoodMove, Started, TerminalStates, y

\* The retry UPDATE of _maintain.
LEMMA WakeKeeps ==
    ASSUME NEW r, TableInv(r), NEW now \in Nat
    PROVE  Safely(r, WakeRetries(r, now))
  <1> DEFINE woken == {i \in Items : r[i].state = "RETRY_WAIT" /\ r[i].retryAt <= now}
             q == [i \in Items |-> IF i \in woken THEN Release(r[i], "READY", 0)
                                                  ELSE r[i]]
  <1>1. CASE woken = {}
    BY <1>1, SafelySame DEF WakeRetries
  <1>2. CASE woken # {}
    <2>1. r \in [Items -> Row] /\ \A i \in Items : RowInv(r[i])
      BY DEF TableInv
    <2>2. ASSUME NEW i \in Items
          PROVE  q[i] = r[i] \/ (Planned(r, i) /\ GoodMove(r[i], q[i]))
      BY <2>1, WakeMove DEF Planned
    <2>3. WakeRetries(r, now) = q
      BY <1>2 DEF WakeRetries
    <2>4. q \in [Items -> Row]
      <3>1. \A i \in Items : q[i] \in Row
        <4> HIDE DEF q
        <4> QED
          BY <2>1, <2>2 DEF GoodMove
      <3> QED
        BY <3>1
    <2> HIDE DEF q
    <2> QED
      BY <2>2, <2>3, <2>4, MovesKeep DEF Safely
  <1> QED
    BY <1>1, <1>2

\* _maintain, and the exact-item passes.
LEMMA MaintainKeeps ==
    ASSUME NEW r, TableInv(r), NEW now \in Nat
    PROVE  Safely(r, Maintain(r, now))
  <1> DEFINE a == ExpireHardDeadlines(r, now, Items)
             b == RecoverExpiredLeases(a, now, Items)
  <1>1. Safely(r, a)
    BY ExpireKeeps
  <1> HIDE DEF a
  <1>2. Safely(a, b)
    BY <1>1, RecoverKeeps DEF Safely
  <1> HIDE DEF b
  <1>3. Safely(b, WakeRetries(b, now))
    BY <1>2, WakeKeeps DEF Safely
  <1>4. Maintain(r, now) = WakeRetries(b, now)
    BY DEF Maintain, a, b
  <1> QED
    BY <1>1, <1>2, <1>3, <1>4, SafelyTrans

LEMMA SettleItemKeeps ==
    ASSUME NEW r, TableInv(r), NEW now \in Nat, NEW i \in Items
    PROVE  Safely(r, SettleItem(r, now, i))
  <1> DEFINE a == ExpireHardDeadlines(r, now, {i})
  <1>1. Safely(r, a)
    BY ExpireKeeps
  <1>2. SettleItem(r, now, i) = RecoverExpiredLeases(a, now, {i})
    BY DEF SettleItem
  <1> HIDE DEF a
  <1>3. Safely(a, RecoverExpiredLeases(a, now, {i}))
    BY <1>1, RecoverKeeps DEF Safely
  <1> QED
    BY <1>1, <1>2, <1>3, SafelyTrans

LEMMA ReconcileExactKeeps ==
    ASSUME NEW r, TableInv(r), NEW now \in Nat, NEW i \in Items
    PROVE  Safely(r, ReconcileExactDueState(r, now, i))
  <1>1. Safely(r, SettleItem(r, now, i))
    BY SettleItemKeeps
  <1> QED
    BY <1>1, SafelyRefresh DEF ReconcileExactDueState


-----------------------------------------------------------------------------
(* The operations.                                                         *)

\* One row moves, the others stay.
LEMMA OneRow ==
    ASSUME NEW r, TableInv(r), NEW i \in Items, Planned(r, i),
           NEW y, GoodMove(r[i], y)
    PROVE  Safely(r, [r EXCEPT ![i] = y])
  <1> DEFINE q == [r EXCEPT ![i] = y]
  <1>1. r \in [Items -> Row] /\ y \in Row
    BY DEF TableInv, GoodMove
  <1>2. q \in [Items -> Row] /\ q[i] = y /\ \A j \in Items : j # i => q[j] = r[j]
    BY <1>1
  <1> HIDE DEF q
  <1>3. \A j \in Items : q[j] = r[j] \/ (Planned(r, j) /\ GoodMove(r[j], q[j]))
    BY <1>2
  <1>4. Safely(r, q)
    BY <1>2, <1>3, MovesKeep DEF Safely
  <1> QED
    BY <1>4 DEF q

\* The tail of succeed, fail and _direct_terminal.
LEMMA TailKeeps ==
    ASSUME NEW r, NEW q, Safely(r, q), NEW now \in Nat, NEW i \in Items
    PROVE  Safely(r, Maintain(SettleDownstream(q, now, i), now))
  <1>1. Safely(r, SettleDownstream(q, now, i))
    BY SafelyRefresh DEF SettleDownstream
  <1> QED
    BY <1>1, MaintainKeeps, SafelyTrans DEF Safely

\* claim hands out one more attempt of a READY row.
LEMMA ClaimMove ==
    ASSUME NEW x \in Row, RowInv(x), x.state = "READY", NEW w \in Workers,
           NEW now \in Nat, NEW s \in ActiveStates
    PROVE  GoodMove(x, ClaimedRow(x, w, now, s))
  <1> DEFINE t == Append(x.log, "ACTIVE")
             y == ClaimedRow(x, w, now, s)
  <1>1. x.log \in Seq(Outcomes) /\ "ACTIVE" \in Outcomes /\ x.epoch \in Nat
        /\ x.attempt \in Nat /\ x.max \in Nat /\ Len(x.log) \in Nat
    BY DEF Row, Outcomes
  <1>2. /\ t \in Seq(Outcomes) /\ Len(t) = Len(x.log) + 1
        /\ \A k \in 1..Len(x.log) : t[k] = x.log[k]
        /\ t[Len(x.log) + 1] = "ACTIVE"
    BY <1>1, AppendProperties
  <1> HIDE DEF t
  <1>3. now + LeaseDuration \in Nat
    BY TimeAssumption
  <1>4. s \in States /\ s \in ActiveStates /\ s # "SUCCEEDED" /\ s # "ABSENT"
        /\ s \notin {"PLANNED", "READY", "RETRY_WAIT"}
    BY DEF States, ActiveStates
  <1>5. /\ y \in Row /\ y.state = s /\ y.leasedBy = w /\ y.log = t
        /\ y.up = x.up /\ y.req = x.req /\ y.max = x.max
        /\ y.epoch = x.epoch + 1 /\ y.attempt = x.attempt + 1
    <2> DEFINE no == FALSE
               e == x.epoch + 1
               n == x.attempt + 1
               until == now + LeaseDuration
    <2>1. no \in BOOLEAN /\ e \in Nat /\ n \in Nat /\ until \in Nat
      BY <1>1, <1>3
    <2>2. y = [x EXCEPT !.state = s, !.epoch = e, !.attempt = n, !.leasedBy = w,
                        !.leaseExp = until, !.torn = no, !.log = t]
      BY DEF ClaimedRow, t
    <2> HIDE DEF no, e, n, until, y
    <2>3. /\ y \in Row /\ y.state = s /\ y.leasedBy = w /\ y.log = t
          /\ y.up = x.up /\ y.req = x.req /\ y.max = x.max
          /\ y.epoch = e /\ y.attempt = n
      BY <1>2, <1>4, <2>1, <2>2 DEF Row, Times
    <2> QED
      BY <2>3 DEF e, n
  <1> HIDE DEF y
  <1>6. x.attempt < x.max /\ x.attempt = x.epoch /\ Len(x.log) = x.attempt
        /\ \A k \in 1..Len(x.log) : x.log[k] # "ACTIVE" /\ x.log[k] # "SUCCEEDED"
    BY DEF RowInv, LedgerAgrees, ActiveStates
  <1>7. \A k \in 1..Len(t) : k = Len(t) \/ k \in 1..Len(x.log)
    BY <1>1, <1>2
  <1>8. w # NoWorker
    BY WorkersAssumption
  <1>9. RowInv(y)
    <2>1. y.attempt = y.epoch /\ Len(y.log) = y.attempt /\ y.attempt <= y.max
          /\ y.attempt > 0
      BY <1>1, <1>2, <1>5, <1>6
    <2>2. \A k \in 1..Len(y.log) : (y.log[k] = "ACTIVE" <=> k = Len(y.log))
                                   /\ y.log[k] # "SUCCEEDED"
      BY <1>1, <1>2, <1>5, <1>6, <1>7
    <2> QED
      BY <1>4, <1>5, <1>8, <2>1, <2>2 DEF RowInv, LedgerAgrees
  <1> QED
    BY <1>4, <1>5, <1>9 DEF GoodMove, Started, TerminalStates, y

\* The INSERTs of plan_many: new PLANNED rows, stored rows as they were.
LEMMA InsertKeeps ==
    ASSUME NEW r, TableInv(r), NEW b \in Batches, NEW now \in Nat
    PROVE  Safely(r, InsertBatch(r, b, now))
  <1> DEFINE q == InsertBatch(r, b, now)
             new == {i \in Items : i \in BatchItems(b) /\ ~Planned(r, i)}
  <1>1. r \in [Items -> Row] /\ \A i \in Items : RowInv(r[i])
    BY DEF TableInv
  <1>2. ASSUME NEW i \in new
        PROVE  /\ q[i] \in Row /\ RowInv(q[i]) /\ q[i].state = "PLANNED"
               /\ ~Started(q[i]) /\ ~Planned(r, i)
    <2> DEFINE k == CHOOSE k \in 1..Len(b) : b[k].item = i
               p == b[k]
    <2>1. \E j \in 1..Len(b) : b[j].item = i
      BY DEF BatchItems
    <2>2. k \in 1..Len(b)
      BY <2>1
    <2> HIDE DEF k
    <2>3. p \in PlanRecord /\ p.req \subseteq p.up
      BY <2>2, BatchesAssumption
    <2>4. q[i] = InsertedRow(p, now)
      BY DEF InsertBatch, k
    <2> HIDE DEF p, q
    <2>5. << >> \in Seq(Outcomes) /\ Len(<< >>) = 0
      OBVIOUS
    <2>6. /\ q[i] \in Row /\ q[i].state = "PLANNED" /\ q[i].up = p.up
          /\ q[i].req = p.req /\ q[i].max = p.max /\ q[i].epoch = 0
          /\ q[i].attempt = 0 /\ q[i].leasedBy = NoWorker /\ q[i].log = << >>
      <3> DEFINE no == FALSE
      <3>1. no \in BOOLEAN
        OBVIOUS
      <3>2. q[i] = [state |-> "PLANNED", up |-> p.up, req |-> p.req,
                    expiry |-> p.expiry, max |-> p.max, created |-> now,
                    torn |-> no, epoch |-> 0, attempt |-> 0,
                    leasedBy |-> NoWorker, leaseExp |-> 0, retryAt |-> 0,
                    log |-> << >>]
        BY <2>4 DEF InsertedRow, AbsentRow
      <3> HIDE DEF no
      <3> QED
        BY <2>3, <2>5, <3>1, <3>2 DEF Row, PlanRecord, Times, States
    <2>7. p.max \in Nat \ {0}
      BY <2>3 DEF PlanRecord
    <2>8. RowInv(q[i])
      BY <2>3, <2>5, <2>6, <2>7 DEF RowInv, LedgerAgrees, ActiveStates
    <2> QED
      BY <2>6, <2>8 DEF Started, ActiveStates
  <1>3. \A i \in Items \ new : q[i] = r[i]
    BY DEF InsertBatch
  <1>4. q \in [Items -> Row]
    <2>1. \A i \in Items : q[i] \in Row
      <3> HIDE DEF q
      <3> QED
        BY <1>1, <1>2, <1>3
    <2> QED
      BY <2>1 DEF InsertBatch
  <1> HIDE DEF q
  <1>5. KeepsEnded(r, q)
    BY <1>2, <1>3 DEF KeepsEnded, Terminal, Planned, TerminalStates
  <1>6. ASSUME NEW i \in Items, Started(q[i]) PROVE Unblocked(q, i)
    <2>1. q[i] = r[i]
      BY <1>2, <1>3, <1>6
    <2>2. Started(r[i]) /\ r[i] \in Row /\ RowInv(r[i])
      BY <1>1, <1>6, <2>1
    <2>3. Planned(r, i) /\ r[i].up \subseteq Items /\ r[i].req \subseteq r[i].up
      BY <2>2 DEF Started, Planned, RowInv, LedgerAgrees, ActiveStates, Row
    <2> QED
      BY <1>5, <2>2, <2>3, UnblockedStable DEF TableInv
  <1>7. \A i \in Items : RowInv(q[i])
    BY <1>1, <1>2, <1>3
  <1>8. TableInv(q)
    BY <1>4, <1>6, <1>7 DEF TableInv
  <1> QED
    BY <1>5, <1>8 DEF Safely, q


-----------------------------------------------------------------------------
(* The inductive invariant and its step.                                   *)

IInv ==
    /\ TableInv(row)
    /\ held \in [Workers -> Lease \cup {NoLease}]
    /\ clock \in Nat

LEMMA NowIsNat == ASSUME clock \in Nat, NEW now \in ReadNow PROVE now \in Nat
  BY DEF ReadNow

\* A capability that passes _require_lease names a leased row.
LEMMA LiveLease ==
    ASSUME IInv, NEW w \in Workers, NEW now \in Nat,
           Presents(w, now), LeaseIsLive(row, held[w], now)
    PROVE  /\ held[w] \in Lease /\ held[w].item \in Items
           /\ row[held[w].item] \in Row /\ RowInv(row[held[w].item])
           /\ row[held[w].item].state \in ActiveStates
           /\ Planned(row, held[w].item)
  <1>1. held[w] \in Lease /\ held[w].item \in Items
    BY DEF IInv, Presents, Lease
  <1>2. row[held[w].item].state \in ActiveStates
    BY DEF LeaseIsLive
  <1> QED
    BY <1>1, <1>2 DEF IInv, TableInv, Planned, ActiveStates

\* Ending a leased row and settling what follows from it.
LEMMA EndLeased ==
    ASSUME NEW r, TableInv(r), NEW i \in Items, r[i].state \in ActiveStates,
           NEW o \in Outcomes, NEW s \in TerminalStates, o # "ACTIVE",
           o = "SUCCEEDED" <=> s = "SUCCEEDED", NEW now \in Nat
    PROVE  LET q == [r EXCEPT ![i] = SetTerminal(FinishAttempt(r[i], o), s)] IN
           Safely(r, Maintain(SettleDownstream(q, now, i), now))
  <1> DEFINE y == SetTerminal(FinishAttempt(r[i], o), s)
             q == [r EXCEPT ![i] = y]
  <1>1. r[i] \in Row /\ RowInv(r[i]) /\ Planned(r, i)
    BY DEF TableInv, Planned, ActiveStates
  <1>2. GoodMove(r[i], y)
    BY <1>1, EndActive
  <1> HIDE DEF y
  <1>3. Safely(r, q)
    BY <1>1, <1>2, OneRow
  <1> HIDE DEF q
  <1>4. Safely(r, Maintain(SettleDownstream(q, now, i), now))
    BY <1>3, TailKeeps
  <1> QED
    BY <1>4 DEF q, y

LEMMA PlanManyStep ==
    ASSUME IInv, NEW now \in Nat, NEW b \in Batches, PlanMany(b, now)
    PROVE  Safely(row, row') /\ held' \in [Workers -> Lease \cup {NoLease}]
  BY InsertKeeps, SafelyRefresh DEF IInv, PlanMany

LEMMA ReconcileStep ==
    ASSUME IInv, NEW now \in Nat, Reconcile(now)
    PROVE  Safely(row, row') /\ held' \in [Workers -> Lease \cup {NoLease}]
  BY MaintainKeeps, SafelyRefresh DEF IInv, Reconcile

LEMMA ClaimNothingStep ==
    ASSUME IInv, NEW now \in Nat, ClaimNothing(now)
    PROVE  Safely(row, row') /\ held' \in [Workers -> Lease \cup {NoLease}]
  BY MaintainKeeps DEF IInv, ClaimNothing

LEMMA ClaimStep ==
    ASSUME IInv, NEW now \in Nat, NEW w \in Workers, NEW i \in Items,
           NEW start \in BOOLEAN, Claim(w, i, start, now)
    PROVE  Safely(row, row') /\ held' \in [Workers -> Lease \cup {NoLease}]
  <1> DEFINE r == Maintain(row, now)
             s == IF start THEN "RUNNING" ELSE "LEASED"
             y == ClaimedRow(r[i], w, now, s)
  <1>1. /\ r[i].state = "READY"
        /\ row' = [r EXCEPT ![i] = y]
        /\ held' = [held EXCEPT ![w] = [item |-> i, worker |-> w,
                                        epoch |-> r[i].epoch + 1,
                                        exp |-> now + LeaseDuration]]
    BY DEF Claim
  <1>2. Safely(row, r)
    BY MaintainKeeps DEF IInv
  <1> HIDE DEF r
  <1>3. r[i] \in Row /\ RowInv(r[i]) /\ Planned(r, i) /\ TableInv(r)
    BY <1>1, <1>2 DEF Safely, TableInv, Planned
  <1>4. s \in ActiveStates
    BY DEF ActiveStates
  <1> HIDE DEF s
  <1>5. GoodMove(r[i], y)
    BY <1>1, <1>3, <1>4, ClaimMove
  <1>6. Safely(r, row')
    BY <1>1, <1>3, <1>5, OneRow
  <1>7. r[i].epoch + 1 \in Nat /\ now + LeaseDuration \in Nat
    BY <1>3, TimeAssumption DEF Row
  <1>8. held' \in [Workers -> Lease \cup {NoLease}]
    BY <1>1, <1>7 DEF IInv, Lease, Times
  <1> QED
    BY <1>2, <1>6, <1>8, SafelyTrans

LEMMA StartStep ==
    ASSUME IInv, NEW now \in Nat, NEW w \in Workers, Start(w, now)
    PROVE  Safely(row, row') /\ held' \in [Workers -> Lease \cup {NoLease}]
  <1> DEFINE i == held[w].item
             y == [row[i] EXCEPT !.state = "RUNNING"]
  <1>1. /\ i \in Items /\ row[i] \in Row /\ RowInv(row[i])
        /\ row[i].state \in ActiveStates /\ Planned(row, i)
    BY LiveLease DEF Start
  <1>2. row' = [row EXCEPT ![i] = y] /\ held' = held
    BY DEF Start
  <1> HIDE DEF i
  <1>3. /\ y \in Row /\ y.state = "RUNNING" /\ y.leasedBy = row[i].leasedBy
        /\ y.log = row[i].log /\ y.up = row[i].up /\ y.req = row[i].req
        /\ y.max = row[i].max /\ y.epoch = row[i].epoch
        /\ y.attempt = row[i].attempt
    BY <1>1 DEF Row, States, ActiveStates
  <1> HIDE DEF y
  <1>4. RowInv(y)
    BY <1>1, <1>3 DEF RowInv, LedgerAgrees, ActiveStates
  <1>5. GoodMove(row[i], y)
    BY <1>1, <1>3, <1>4 DEF GoodMove, Started, ActiveStates, TerminalStates
  <1> QED
    BY <1>1, <1>2, <1>5, OneRow DEF IInv

LEMMA HeartbeatStep ==
    ASSUME IInv, NEW now \in Nat, NEW w \in Workers, NEW delivered \in BOOLEAN,
           Heartbeat(w, now, delivered)
    PROVE  Safely(row, row') /\ held' \in [Workers -> Lease \cup {NoLease}]
  <1> DEFINE i == held[w].item
             until == now + LeaseDuration
             y == [row[i] EXCEPT !.leaseExp = until]
  <1>1. /\ i \in Items /\ row[i] \in Row /\ RowInv(row[i]) /\ held[w] \in Lease
        /\ row[i].state \in ActiveStates /\ Planned(row, i)
    BY LiveLease DEF Heartbeat
  <1>2. until \in Nat
    BY TimeAssumption
  <1>3. /\ row' = [row EXCEPT ![i] = y]
        /\ held' = held \/ held' = [held EXCEPT ![w] = [held[w] EXCEPT !.exp = until]]
    BY DEF Heartbeat
  <1> HIDE DEF i, until
  <1>4. /\ y \in Row /\ y.state = row[i].state /\ y.leasedBy = row[i].leasedBy
        /\ y.log = row[i].log /\ y.up = row[i].up /\ y.req = row[i].req
        /\ y.max = row[i].max /\ y.epoch = row[i].epoch
        /\ y.attempt = row[i].attempt
    BY <1>1, <1>2 DEF Row, Times
  <1> HIDE DEF y
  <1>5. RowInv(y)
    BY <1>1, <1>4 DEF RowInv, LedgerAgrees
  <1>6. GoodMove(row[i], y)
    BY <1>1, <1>4, <1>5 DEF GoodMove, Started, ActiveStates, TerminalStates
  <1>7. [held[w] EXCEPT !.exp = until] \in Lease
    BY <1>1, <1>2 DEF Lease, Times
  <1>8. held' \in [Workers -> Lease \cup {NoLease}]
    BY <1>3, <1>7 DEF IInv
  <1> QED
    BY <1>1, <1>3, <1>6, <1>8, OneRow DEF IInv

LEMMA SucceedStep ==
    ASSUME IInv, NEW now \in Nat, NEW w \in Workers, Succeed(w, now)
    PROVE  Safely(row, row') /\ held' \in [Workers -> Lease \cup {NoLease}]
  <1> DEFINE i == held[w].item
             q == [row EXCEPT ![i] =
                     SetTerminal(FinishAttempt(row[i], "SUCCEEDED"), "SUCCEEDED")]
  <1>1. i \in Items /\ row[i].state \in ActiveStates
    BY LiveLease DEF Succeed
  <1>2. /\ row' = Maintain(SettleDownstream(q, now, i), now)
        /\ held' = [held EXCEPT ![w] = NoLease]
    BY DEF Succeed
  <1>3. Safely(row, Maintain(SettleDownstream(q, now, i), now))
    BY <1>1, EndLeased DEF IInv, Outcomes, TerminalStates
  <1> QED
    BY <1>2, <1>3 DEF IInv

LEMMA FailRetryStep ==
    ASSUME IInv, NEW now \in Nat, NEW w \in Workers, NEW delay \in RetryDelays,
           FailRetry(w, now, delay)
    PROVE  Safely(row, row') /\ held' \in [Workers -> Lease \cup {NoLease}]
  <1> DEFINE i == held[w].item
             y == Release(FinishAttempt(row[i], "FAILED_RETRYABLE"), "RETRY_WAIT",
                          now + delay)
  <1>1. /\ i \in Items /\ row[i] \in Row /\ RowInv(row[i])
        /\ row[i].state \in ActiveStates /\ Planned(row, i)
    BY LiveLease DEF FailRetry
  <1>2. row' = [row EXCEPT ![i] = y] /\ held' = [held EXCEPT ![w] = NoLease]
    BY DEF FailRetry
  <1>3. ~AttemptsExhausted(row[i])
    BY DEF FailRetry, WillRetry
  <1>4. row[i].attempt < row[i].max /\ now + delay \in Nat
    BY <1>1, <1>3, TimeAssumption DEF AttemptsExhausted, Row
  <1>5. GoodMove(row[i], y)
    BY <1>1, <1>4, ReleaseActive DEF Outcomes
  <1> QED
    BY <1>1, <1>2, <1>5, OneRow DEF IInv

LEMMA FailPermanentStep ==
    ASSUME IInv, NEW now \in Nat, NEW w \in Workers, NEW delay \in RetryDelays,
           NEW retryable \in BOOLEAN, FailPermanent(w, now, retryable, delay)
    PROVE  Safely(row, row') /\ held' \in [Workers -> Lease \cup {NoLease}]
  <1> DEFINE i == held[w].item
             q == [row EXCEPT ![i] =
                     SetTerminal(FinishAttempt(row[i], "FAILED_PERMANENT"),
                                 "FAILED_PERMANENT")]
  <1>1. i \in Items /\ row[i].state \in ActiveStates
    BY LiveLease DEF FailPermanent
  <1>2. /\ row' = Maintain(SettleDownstream(q, now, i), now)
        /\ held' = [held EXCEPT ![w] = NoLease]
    BY DEF FailPermanent
  <1>3. Safely(row, Maintain(SettleDownstream(q, now, i), now))
    BY <1>1, EndLeased DEF IInv, Outcomes, TerminalStates
  <1> QED
    BY <1>2, <1>3 DEF IInv

LEMMA FencedStep ==
    ASSUME IInv, NEW now \in Nat, NEW w \in Workers, Fenced(w, now)
    PROVE  Safely(row, row') /\ held' \in [Workers -> Lease \cup {NoLease}]
  <1>1. held[w].item \in Items
    BY DEF IInv, Fenced, Presents, Lease
  <1> QED
    BY <1>1, ReconcileExactKeeps DEF IInv, Fenced

LEMMA DirectTerminalStep ==
    ASSUME IInv, NEW now \in Nat, NEW i \in Items, NEW state \in DirectStates,
           DirectTerminal(i, state, now)
    PROVE  Safely(row, row') /\ held' \in [Workers -> Lease \cup {NoLease}]
  <1> DEFINE r == SettleItem(row, now, i)
             o == DirectOutcome(state)
             y == SetTerminal(IF r[i].state \in ActiveStates
                              THEN FinishAttempt(r[i], o) ELSE r[i], state)
             q == [r EXCEPT ![i] = y]
  <1>1. /\ Planned(row, i) /\ ~Terminal(r, i) /\ held' = held
        /\ row' = Maintain(SettleDownstream(q, now, i), now)
    BY DEF DirectTerminal
  <1>2. Safely(row, r)
    BY SettleItemKeeps DEF IInv
  <1> HIDE DEF r
  <1>3. /\ TableInv(r) /\ r[i] \in Row /\ RowInv(r[i]) /\ Planned(r, i)
        /\ r[i].state \notin TerminalStates \cup {"ABSENT"}
    BY <1>1, <1>2 DEF Safely, TableInv, KeepsEnded, Terminal, Planned
  <1>4. /\ state \in TerminalStates /\ state # "SUCCEEDED"
        /\ o \in Outcomes /\ o # "ACTIVE" /\ o # "SUCCEEDED"
    BY DirectAssumption DEF DirectOutcome, Outcomes, TerminalStates
  <1> HIDE DEF o
  <1>5. GoodMove(r[i], y)
    <2>1. CASE r[i].state \in ActiveStates
      BY <1>3, <1>4, <2>1, EndActive
    <2>2. CASE r[i].state \notin ActiveStates
      <3>1. r[i].state \in {"PLANNED", "READY", "RETRY_WAIT"}
        BY <1>3, <2>2 DEF Row, States
      <3> QED
        BY <1>3, <1>4, <2>2, <3>1, EndIdle
    <2> QED
      BY <2>1, <2>2
  <1> HIDE DEF y
  <1>6. Safely(r, q)
    BY <1>3, <1>5, OneRow
  <1>7. Safely(row, q)
    BY <1>2, <1>6, SafelyTrans
  <1> HIDE DEF q
  <1> QED
    BY <1>1, <1>7, TailKeeps DEF IInv

\* Every step keeps the table invariant, ends nothing twice and keeps types.
LEMMA StepKeeps ==
    ASSUME IInv, [Next]_vars
    PROVE  /\ Safely(row, row')
           /\ held' \in [Workers -> Lease \cup {NoLease}]
           /\ clock' \in Nat
  <1>0. TableInv(row) /\ held \in [Workers -> Lease \cup {NoLease}] /\ clock \in Nat
    BY DEF IInv
  <1>1. CASE Tick
    BY <1>0, <1>1, SafelySame DEF Tick
  <1>2. CASE \E w \in Workers : WorkerCrash(w)
    BY <1>0, <1>2, SafelySame DEF WorkerCrash
  <1>3. CASE UNCHANGED vars
    BY <1>0, <1>3, SafelySame DEF vars
  <1>4. ASSUME NEW now \in ReadNow, NEW b \in Batches, PlanMany(b, now)
        PROVE  /\ Safely(row, row') /\ clock' = clock
               /\ held' \in [Workers -> Lease \cup {NoLease}]
    BY <1>0, <1>4, NowIsNat, PlanManyStep DEF PlanMany
  <1>5. ASSUME NEW now \in ReadNow, Reconcile(now) \/ ClaimNothing(now)
        PROVE  /\ Safely(row, row') /\ clock' = clock
               /\ held' \in [Workers -> Lease \cup {NoLease}]
    BY <1>0, <1>5, NowIsNat, ReconcileStep, ClaimNothingStep DEF Reconcile, ClaimNothing
  <1>6. ASSUME NEW now \in ReadNow, NEW i \in Items, NEW state \in DirectStates,
               DirectTerminal(i, state, now)
        PROVE  /\ Safely(row, row') /\ clock' = clock
               /\ held' \in [Workers -> Lease \cup {NoLease}]
    BY <1>0, <1>6, NowIsNat, DirectTerminalStep DEF DirectTerminal
  <1>7. ASSUME NEW now \in ReadNow, NEW w \in Workers, NEW i \in Items,
               NEW start \in BOOLEAN, Claim(w, i, start, now)
        PROVE  /\ Safely(row, row') /\ clock' = clock
               /\ held' \in [Workers -> Lease \cup {NoLease}]
    BY <1>0, <1>7, NowIsNat, ClaimStep DEF Claim
  <1>8. ASSUME NEW now \in ReadNow, NEW w \in Workers,
               Start(w, now) \/ Succeed(w, now) \/ Fenced(w, now)
        PROVE  /\ Safely(row, row') /\ clock' = clock
               /\ held' \in [Workers -> Lease \cup {NoLease}]
    BY <1>0, <1>8, NowIsNat, StartStep, SucceedStep, FencedStep
       DEF Start, Succeed, Fenced
  <1>9. ASSUME NEW now \in ReadNow, NEW w \in Workers, NEW delivered \in BOOLEAN,
               Heartbeat(w, now, delivered)
        PROVE  /\ Safely(row, row') /\ clock' = clock
               /\ held' \in [Workers -> Lease \cup {NoLease}]
    BY <1>0, <1>9, NowIsNat, HeartbeatStep DEF Heartbeat
  <1>10. ASSUME NEW now \in ReadNow, NEW w \in Workers, NEW delay \in RetryDelays,
                FailRetry(w, now, delay)
         PROVE  /\ Safely(row, row') /\ clock' = clock
                /\ held' \in [Workers -> Lease \cup {NoLease}]
    BY <1>0, <1>10, NowIsNat, FailRetryStep DEF FailRetry
  <1>11. ASSUME NEW now \in ReadNow, NEW w \in Workers, NEW delay \in RetryDelays,
                NEW retryable \in BOOLEAN, FailPermanent(w, now, retryable, delay)
         PROVE  /\ Safely(row, row') /\ clock' = clock
                /\ held' \in [Workers -> Lease \cup {NoLease}]
    BY <1>0, <1>11, NowIsNat, FailPermanentStep DEF FailPermanent
  <1> QED
    BY <1>0, <1>1, <1>2, <1>3, <1>4, <1>5, <1>6, <1>7, <1>8, <1>9, <1>10, <1>11
       DEF Next

LEMMA InitInv == Init => IInv
  <1> SUFFICES ASSUME Init PROVE IInv
    OBVIOUS
  <1> DEFINE no == FALSE
  <1>1. no \in BOOLEAN /\ << >> \in Seq(Outcomes) /\ Len(<< >>) = 0
    OBVIOUS
  <1>2. AbsentRow = [state |-> "ABSENT", up |-> {}, req |-> {}, expiry |-> Never,
              max |-> 1, created |-> 0, torn |-> no, epoch |-> 0,
              attempt |-> 0, leasedBy |-> NoWorker, leaseExp |-> 0,
              retryAt |-> 0, log |-> << >>]
    BY DEF AbsentRow
  <1> HIDE DEF no
  <1>3. AbsentRow \in Row
    BY <1>1, <1>2, TimeAssumption DEF Row, Times, States
  <1>4. RowInv(AbsentRow) /\ ~Started(AbsentRow)
    BY <1>1, <1>2 DEF RowInv, LedgerAgrees, Started, ActiveStates
  <1> QED
    BY <1>3, <1>4 DEF Init, IInv, TableInv

\* IInv is inductive: every operation of the scheduler keeps the table
\* invariant, whatever `now' it was given.
THEOREM Invariance == Spec => []IInv
  <1>1. IInv /\ [Next]_vars => IInv'
    BY StepKeeps DEF IInv, Safely, TableInv, RowInv, Row, Unblocked, Terminal,
                     Successful
  <1> QED
    BY <1>1, InitInv, PTL DEF Spec

-----------------------------------------------------------------------------
(* The results.                                                            *)

\* Every column of work_items and every capability keeps its type.
THEOREM TypeCorrect == Spec => []TypeOK
  <1>1. IInv => TypeOK
    BY DEF IInv, TableInv, TypeOK
  <1> QED
    BY <1>1, Invariance, PTL

\* The attempts table always agrees with the work item: no attempt beyond
\* max_attempts, one open attempt exactly under a lease, one success at most.
THEOREM AttemptLedgerHolds == Spec => []AttemptLedger
  <1>1. IInv => AttemptLedger
    BY DEF IInv, TableInv, RowInv, AttemptLedger
  <1> QED
    BY <1>1, Invariance, PTL

\* No item is offered, leased, retried or finished as a success before all its
\* upstream items have ended and all REQUIRED ones have succeeded.
THEOREM DependencySafety == Spec => []DependenciesHonoured
  <1>1. IInv => DependenciesHonoured
    BY DEF IInv, TableInv, Started, DependenciesHonoured
  <1> QED
    BY <1>1, Invariance, PTL

\* A terminal row never changes again.
THEOREM TerminalRowsAreFinal == Spec => TerminalIsFinal
  <1>1. IInv /\ [Next]_vars =>
            [\A i \in Items : Terminal(row, i) => row'[i] = row[i]]_vars
    BY StepKeeps DEF Safely, KeepsEnded
  <1> QED
    BY <1>1, Invariance, PTL DEF Spec, TerminalIsFinal

=============================================================================
