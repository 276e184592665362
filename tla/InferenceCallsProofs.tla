------------------------ MODULE InferenceCallsProofs ------------------------
(***************************************************************************)
(* Proofs about InferenceCalls, for every number of processes, parts,      *)
(* responses, attempts and faults, and every batch size.                   *)
(*                                                                         *)
(* Everything durable only grows (Extends).  The inductive invariant says  *)
(* what the ledger holds of one attempt (AttemptOK: in particular every    *)
(* earlier attempt ended retryably), what the barrier tables may say given *)
(* the ledger (BarrierOK), and what a task in flight knows (TaskOK: its    *)
(* attempt has an intent, a success in hand has its bytes stored, and what *)
(* it is about to submit is the final terminal of the part).  These parts  *)
(* are constant operators of the ledger, so that one lemma carries a task  *)
(* or a barrier over any step of any other process.  ReducesOK adds what a *)
(* run has seen that is about to append a reduction: it reads and appends  *)
(* in two transactions, and the members it read are final.                 *)
(***************************************************************************)
EXTENDS InferenceCalls, FiniteSetTheorems, TLAPS

\* Attempt a of part k has ended, and another one may follow.
RetryableAt(e, k, a) ==
    /\ e.terminal[k][a] # None
    /\ e.terminal[k][a].status \in {"RETRYABLE", "CANCELLED"}

\* Attempt a of part k has ended, and none follows.
FinalAt(e, k, a) ==
    /\ e.terminal[k][a] # None
    /\ e.terminal[k][a].status = "SUCCEEDED" => e.selection[k] = a
    /\ e.terminal[k][a].status \in {"RETRYABLE", "CANCELLED"} => a = MaxAttempts

AttemptOK(e, valid, k, a) ==
    /\ e.terminal[k][a] # None =>
          /\ a \in e.intent[k]
          /\ e.raw[k][a] \in {None, e.terminal[k][a].raw}
          /\ e.terminal[k][a].status = "SUCCEEDED" =>
                e.raw[k][a] \in valid /\ e.selection[k] # None
    /\ a \in e.intent[k] => \A b \in Attempts : b < a => RetryableAt(e, k, b)
    /\ e.selection[k] = a =>
          e.terminal[k][a] # None /\ e.terminal[k][a].status = "SUCCEEDED"

LedgerOK(e, valid) ==
    /\ e \in Evidence
    /\ \A k \in Parts, a \in Attempts : AttemptOK(e, valid, k, a)

\* The ledger f holds all that e holds.
Extends(e, f) ==
    /\ \A k \in Parts, a \in Attempts :
          /\ Keeps(e.raw[k][a], f.raw[k][a])
          /\ Keeps(e.terminal[k][a], f.terminal[k][a])
    /\ \A k \in Parts : /\ Keeps(e.selection[k], f.selection[k])
                        /\ e.intent[k] \subseteq f.intent[k]
    /\ e.lineage \subseteq f.lineage

\* What the ledger says of one part's completion c and member m.
PartOK(e, k, c, m) ==
    /\ c # None => FinalAt(e, k, c.att) /\ e.terminal[k][c.att].status = c.status
    /\ m # None => c # None /\ m = c.status

\* What the ledger says of a reduction.
ReductionOK(e, i, r) ==
    r # None =>
       \A k \in i.parts :
          /\ e.selection[k] = r[k]
          /\ k \in e.lineage
          /\ \A j \in i.parts : e.raw[k][r[k]] \in i.abstains
                                  => e.raw[j][r[j]] \in i.abstains

BarrierOK(e, i, b) ==
    /\ b \in Barrier
    /\ \A k \in Parts : PartOK(e, k, b.completion[k], b.member[k])
    /\ ReductionOK(e, i, b.reduction)

\* Steps of a task whose attempt is recorded, that hold an outcome the ledger
\* does not have yet, and that act on the final terminal of the part.
Begun == {"gate", "queued", "expired", "flying", "persist"}
Holding == {"expired", "flying", "persist"}
Closing == {"lineage", "complete", "member"}

TaskOK(e, valid, c, k, t) ==
    /\ t \in Task
    /\ \A b \in Attempts : b < t.att => RetryableAt(e, k, b)
    /\ t.step \in Begun => t.att \in e.intent[k]
    /\ t.step \in {"expired", "persist"} => t.out # None
    /\ t.step \in Holding /\ t.out # None /\ t.out.status = "SUCCEEDED" =>
          e.raw[k][t.att] \in valid /\ t.out.raw = e.raw[k][t.att]
    /\ t.step \in Closing => t.out = e.terminal[k][t.att] /\ FinalAt(e, k, t.att)
    /\ t.step = "member" => c[k] # None

\* A task that waits in the bucket is queued and belongs to no batch yet.
QueueOK(q, ts) ==
    /\ \A k \in q : ts[k].step = "queued" /\ ts[k].grp = {}
    /\ \A k \in Parts : ts[k].step \in {"look", "intent", "append", "gate"} => ts[k].grp = {}

\* Where one process executes the run, an attempt it is going to send has not
\* ended.
UnsentOK(e, k, t) == t.step \in {"gate", "queued"} => e.terminal[k][t.att] = None

IInv ==
    /\ input \in Inputs /\ proc \in [Procs -> Phases] /\ faults \in 0..MaxFaults
    /\ bucket \in [Procs -> [queue: SUBSET Parts, timer: BOOLEAN]]
    /\ task \in [Procs -> [Parts -> Task]]
    /\ LedgerOK(evidence, input.valid)
    /\ BarrierOK(evidence, input, barrier)
    /\ \A p \in Procs, k \in Parts :
          TaskOK(evidence, input.valid, barrier.completion, k, task[p][k])
    /\ \A p \in Procs : QueueOK(bucket[p].queue, task[p])
    /\ \A p \in Procs, k \in Parts :
          input.procs = {p} => UnsentOK(evidence, k, task[p][k])

-----------------------------------------------------------------------------
(* What a growing ledger preserves.                                        *)

LEMMA TaskStable ==
    ASSUME NEW e, NEW f, Extends(e, f), NEW valid, NEW c, NEW d,
           NEW k \in Parts, Keeps(c[k], d[k]), NEW t, TaskOK(e, valid, c, k, t),
           None \notin valid
    PROVE  TaskOK(f, valid, d, k, t)
<1>1. t.att \in Attempts
  BY DEF TaskOK, Task
<1>2. \A a \in Attempts : RetryableAt(e, k, a) => RetryableAt(f, k, a)
  BY DEF Extends, Keeps, RetryableAt
<1>3. ASSUME FinalAt(e, k, t.att)
      PROVE  FinalAt(f, k, t.att) /\ f.terminal[k][t.att] = e.terminal[k][t.att]
  <2>1. f.terminal[k][t.att] = e.terminal[k][t.att]
    BY <1>1, <1>3 DEF Extends, Keeps, FinalAt
  <2>2. e.selection[k] = t.att => f.selection[k] = t.att
    BY <1>1, InferenceAssumption DEF Extends, Keeps
  <2> QED
    BY <1>3, <2>1, <2>2 DEF FinalAt
<1>4. e.raw[k][t.att] \in valid => f.raw[k][t.att] = e.raw[k][t.att]
  BY <1>1 DEF Extends, Keeps
<1>5. t.att \in e.intent[k] => t.att \in f.intent[k]
  BY DEF Extends
<1>6. c[k] # None => d[k] # None
  BY DEF Keeps
<1>7. t.step \in Closing => t.out = f.terminal[k][t.att] /\ FinalAt(f, k, t.att)
  BY <1>3 DEF TaskOK
<1> QED
  BY <1>2, <1>4, <1>5, <1>6, <1>7 DEF TaskOK

LEMMA PartStable ==
    ASSUME NEW e, NEW f, Extends(e, f), NEW k \in Parts,
           NEW c \in Completion \cup {None}, NEW m, PartOK(e, k, c, m)
    PROVE  PartOK(f, k, c, m)
<1>1. CASE c = None
  BY <1>1 DEF PartOK
<1>2. CASE c # None
  <2>1. c.att \in Attempts
    BY <1>2 DEF Completion
  <2>2. FinalAt(e, k, c.att) /\ e.terminal[k][c.att].status = c.status
    BY <1>2 DEF PartOK
  <2>3. f.terminal[k][c.att] = e.terminal[k][c.att]
    BY <2>1, <2>2 DEF Extends, Keeps, FinalAt
  <2>4. e.selection[k] = c.att => f.selection[k] = c.att
    BY <2>1, InferenceAssumption DEF Extends, Keeps
  <2>5. FinalAt(f, k, c.att)
    BY <2>2, <2>3, <2>4 DEF FinalAt
  <2> QED
    BY <1>2, <2>2, <2>3, <2>5 DEF PartOK
<1> QED
  BY <1>1, <1>2

\* The bytes of a selected output are there for good.
LEMMA SelectedRaw ==
    ASSUME NEW e, NEW valid, LedgerOK(e, valid), None \notin valid,
           NEW k \in Parts, e.selection[k] # None
    PROVE  /\ e.selection[k] \in Attempts
           /\ e.raw[k][e.selection[k]] \in valid
           /\ e.raw[k][e.selection[k]] # None
<1>1. e.selection[k] \in Attempts
  BY DEF LedgerOK, Evidence
<1>2. AttemptOK(e, valid, k, e.selection[k])
  BY <1>1 DEF LedgerOK
<1> QED
  BY <1>1, <1>2 DEF AttemptOK

LEMMA ReductionStable ==
    ASSUME NEW e, NEW f, Extends(e, f), NEW i \in Input,
           LedgerOK(e, i.valid), None \notin i.valid,
           NEW r \in [Parts -> Attempts] \cup {None}, ReductionOK(e, i, r)
    PROVE  ReductionOK(f, i, r)
<1> SUFFICES ASSUME r # None PROVE ReductionOK(f, i, r)
  BY DEF ReductionOK
<1>1. r \in [Parts -> Attempts] /\ i.parts \subseteq Parts
  BY DEF Input
<1>2. ASSUME NEW k \in i.parts
      PROVE  /\ f.selection[k] = r[k] /\ k \in f.lineage
             /\ f.raw[k][r[k]] = e.raw[k][r[k]]
  <2>1. k \in Parts /\ e.selection[k] = r[k] /\ r[k] \in Attempts /\ k \in e.lineage
    BY <1>1 DEF ReductionOK
  <2>2. e.selection[k] # None
    BY <2>1, InferenceAssumption
  <2>3. e.raw[k][r[k]] # None
    BY <2>1, <2>2, SelectedRaw
  <2> QED
    BY <2>1, <2>2, <2>3 DEF Extends, Keeps
<1> QED
  BY <1>2 DEF ReductionOK

LEMMA BarrierStable ==
    ASSUME NEW e, NEW f, Extends(e, f), NEW i \in Input,
           LedgerOK(e, i.valid), None \notin i.valid,
           NEW b, BarrierOK(e, i, b)
    PROVE  BarrierOK(f, i, b)
<1>1. b \in Barrier /\ b.reduction \in [Parts -> Attempts] \cup {None}
  BY DEF BarrierOK, Barrier
<1>2. ReductionOK(f, i, b.reduction)
  BY <1>1, ReductionStable DEF BarrierOK
<1>3. ASSUME NEW k \in Parts PROVE PartOK(f, k, b.completion[k], b.member[k])
  <2>1. b.completion[k] \in Completion \cup {None}
    BY <1>1 DEF Barrier
  <2> QED
    BY <2>1, PartStable DEF BarrierOK
<1> QED
  BY <1>1, <1>2, <1>3 DEF BarrierOK

LEMMA ExtendsItself == ASSUME NEW e PROVE Extends(e, e)
BY DEF Extends, Keeps

-----------------------------------------------------------------------------
(* The writes to the ledger.                                               *)

\* append_intent.
WithIntent(e, k, a) == [e EXCEPT !.intent[k] = @ \cup {a}]

LEMMA IntentOK ==
    ASSUME NEW e, NEW valid, LedgerOK(e, valid), NEW k \in Parts,
           NEW a \in Attempts, \A b \in Attempts : b < a => RetryableAt(e, k, b)
    PROVE  LET f == WithIntent(e, k, a)
           IN  /\ LedgerOK(f, valid) /\ Extends(e, f) /\ a \in f.intent[k]
               /\ f.raw = e.raw /\ f.terminal = e.terminal
               /\ f.selection = e.selection /\ f.lineage = e.lineage
<1> DEFINE f == WithIntent(e, k, a)
<1>1. e \in Evidence
  BY DEF LedgerOK
<1>2. /\ f \in Evidence
      /\ f.raw = e.raw /\ f.terminal = e.terminal
      /\ f.selection = e.selection /\ f.lineage = e.lineage
      /\ f.intent = [e.intent EXCEPT ![k] = @ \cup {a}]
  BY <1>1 DEF WithIntent, Evidence
<1> HIDE DEF f
<1>3. a \in f.intent[k]
  BY <1>1, <1>2 DEF Evidence
<1>4. \A j \in Parts, x \in Attempts :
         /\ x \in e.intent[j] => x \in f.intent[j]
         /\ x \in f.intent[j] => x \in e.intent[j] \/ (j = k /\ x = a)
  BY <1>1, <1>2 DEF Evidence
<1>5. Extends(e, f)
  BY <1>1, <1>2, <1>4 DEF Extends, Keeps, Evidence
<1>6. ASSUME NEW j \in Parts, NEW x \in Attempts PROVE AttemptOK(f, valid, j, x)
  <2>1. AttemptOK(e, valid, j, x)
    BY DEF LedgerOK
  <2>2. \A b \in Attempts : RetryableAt(e, j, b) => RetryableAt(f, j, b)
    BY <1>2 DEF RetryableAt
  <2> QED
    BY <1>2, <1>4, <2>1, <2>2 DEF AttemptOK
<1>7. LedgerOK(f, valid)
  BY <1>2, <1>6 DEF LedgerOK
<1> QED
  BY <1>2, <1>3, <1>5, <1>7 DEF f

\* The selection of an attempt that succeeded.
Selecting(e, k, a) == [e EXCEPT !.selection[k] = IF @ = None THEN a ELSE @]

LEMMA SelectOK ==
    ASSUME NEW e, NEW valid, LedgerOK(e, valid), NEW k \in Parts, NEW a \in Attempts,
           e.terminal[k][a] # None, e.terminal[k][a].status = "SUCCEEDED"
    PROVE  LET f == Selecting(e, k, a)
           IN  /\ LedgerOK(f, valid) /\ Extends(e, f)
               /\ f.raw = e.raw /\ f.terminal = e.terminal
               /\ f.intent = e.intent /\ f.lineage = e.lineage
<1> DEFINE f == Selecting(e, k, a)
<1>1. e \in Evidence
  BY DEF LedgerOK
<1>2. /\ f \in Evidence
      /\ f.raw = e.raw /\ f.terminal = e.terminal
      /\ f.intent = e.intent /\ f.lineage = e.lineage
      /\ \A j \in Parts : f.selection[j] = IF j = k /\ e.selection[k] = None
                                          THEN a ELSE e.selection[j]
  BY <1>1 DEF Selecting, Evidence
<1> HIDE DEF f
<1>3. Extends(e, f)
  BY <1>1, <1>2 DEF Extends, Keeps, Evidence
<1>4. ASSUME NEW j \in Parts, NEW x \in Attempts PROVE AttemptOK(f, valid, j, x)
  <2>1. AttemptOK(e, valid, j, x)
    BY DEF LedgerOK
  <2>2. \A b \in Attempts : RetryableAt(e, j, b) => RetryableAt(f, j, b)
    BY <1>2 DEF RetryableAt
  <2>3. f.selection[j] = x => f.terminal[j][x] # None /\ f.terminal[j][x].status = "SUCCEEDED"
    BY <1>2, <2>1 DEF AttemptOK
  <2>4. e.selection[j] # None => f.selection[j] # None
    BY <1>2
  <2> QED
    BY <1>2, <2>1, <2>2, <2>3, <2>4 DEF AttemptOK
<1>5. LedgerOK(f, valid)
  BY <1>2, <1>4 DEF LedgerOK
<1> QED
  BY <1>2, <1>3, <1>5 DEF f

\* append_terminal, with the selection of a success.
Ended(e, k, a, o) ==
    [e EXCEPT !.terminal[k][a] = o,
              !.selection[k] = IF @ = None /\ o.status = "SUCCEEDED" THEN a ELSE @]

LEMMA EndedOK ==
    ASSUME NEW e, NEW valid, LedgerOK(e, valid), NEW k \in Parts, NEW a \in Attempts,
           NEW o \in Outcomes, a \in e.intent[k], e.terminal[k][a] = None,
           e.raw[k][a] \in {None, o.raw},
           o.status = "SUCCEEDED" => e.raw[k][a] \in valid
    PROVE  LET f == Ended(e, k, a, o)
           IN  /\ LedgerOK(f, valid) /\ Extends(e, f) /\ f.terminal[k][a] = o
               /\ \A j \in Parts \ {k} : f.terminal[j] = e.terminal[j]
<1> DEFINE f == Ended(e, k, a, o)
           new == [e.terminal EXCEPT ![k][a] = o]
           sel == [e.selection EXCEPT ![k] =
                     IF @ = None /\ o.status = "SUCCEEDED" THEN a ELSE @]
<1>1. e \in Evidence /\ o # None
  BY InferenceAssumption DEF LedgerOK
<1>2. f = [e EXCEPT !.terminal = new, !.selection = sel]
  BY <1>1 DEF Ended, Evidence
<1>3. /\ new \in [Parts -> [Attempts -> Outcomes \cup {None}]]
      /\ sel \in [Parts -> Attempts \cup {None}]
      /\ new[k][a] = o
      /\ \A j \in Parts \ {k} : new[j] = e.terminal[j]
      /\ \A j \in Parts, x \in Attempts :
            new[j][x] = IF j = k /\ x = a THEN o ELSE e.terminal[j][x]
      /\ \A j \in Parts : sel[j] =
            IF j = k /\ e.selection[k] = None /\ o.status = "SUCCEEDED"
            THEN a ELSE e.selection[j]
  BY <1>1 DEF Evidence
<1> HIDE DEF f, new, sel
<1>4. /\ f \in Evidence /\ f.terminal = new /\ f.selection = sel
      /\ f.raw = e.raw /\ f.intent = e.intent /\ f.lineage = e.lineage
  BY <1>1, <1>2, <1>3 DEF Evidence
<1>5. Extends(e, f)
  BY <1>1, <1>3, <1>4 DEF Extends, Keeps, Evidence
<1>6. ASSUME NEW j \in Parts, NEW x \in Attempts PROVE AttemptOK(f, valid, j, x)
  <2>1. AttemptOK(e, valid, j, x)
    BY DEF LedgerOK
  <2>2. \A b \in Attempts : RetryableAt(e, j, b) => RetryableAt(f, j, b)
    BY <1>5 DEF RetryableAt, Extends, Keeps
  <2>3. x \in f.intent[j] => \A b \in Attempts : b < x => RetryableAt(f, j, b)
    BY <1>4, <2>1, <2>2 DEF AttemptOK
  <2>4. CASE j = k /\ x = a
    BY <1>1, <1>3, <1>4, <2>1, <2>3, <2>4, InferenceAssumption DEF AttemptOK
  <2>5. CASE ~(j = k /\ x = a)
    BY <1>3, <1>4, <2>1, <2>3, <2>5, InferenceAssumption DEF AttemptOK
  <2> QED
    BY <2>4, <2>5
<1>7. LedgerOK(f, valid)
  BY <1>4, <1>6 DEF LedgerOK
<1> QED
  BY <1>3, <1>4, <1>5, <1>7 DEF f

\* append of raw bytes.
WithRaw(e, k, a, b) == [e EXCEPT !.raw[k][a] = b]

LEMMA RawOK ==
    ASSUME NEW e, NEW valid, LedgerOK(e, valid), NEW k \in Parts, NEW a \in Attempts,
           NEW b \in Bytes, e.raw[k][a] \in {None, b}, None \notin valid,
           e.terminal[k][a] # None => e.terminal[k][a].raw = b
    PROVE  LET f == WithRaw(e, k, a, b)
           IN  /\ LedgerOK(f, valid) /\ Extends(e, f) /\ f.raw[k][a] = b
               /\ f.terminal = e.terminal /\ f.intent = e.intent
<1> DEFINE f == WithRaw(e, k, a, b)
           new == [e.raw EXCEPT ![k][a] = b]
<1>1. e \in Evidence
  BY DEF LedgerOK
<1>2. f = [e EXCEPT !.raw = new]
  BY <1>1 DEF WithRaw, Evidence
<1>3. /\ new \in [Parts -> [Attempts -> Bytes \cup {None}]]
      /\ new[k][a] = b
      /\ \A j \in Parts, x \in Attempts :
            new[j][x] = IF j = k /\ x = a THEN b ELSE e.raw[j][x]
  BY <1>1 DEF Evidence
<1> HIDE DEF f, new
<1>4. /\ f \in Evidence /\ f.raw = new /\ f.terminal = e.terminal
      /\ f.intent = e.intent /\ f.lineage = e.lineage /\ f.selection = e.selection
  BY <1>1, <1>2, <1>3 DEF Evidence
<1>5. Extends(e, f)
  BY <1>1, <1>3, <1>4 DEF Extends, Keeps, Evidence
<1>6. ASSUME NEW j \in Parts, NEW x \in Attempts PROVE AttemptOK(f, valid, j, x)
  <2>1. AttemptOK(e, valid, j, x)
    BY DEF LedgerOK
  <2>2. \A y \in Attempts : RetryableAt(e, j, y) => RetryableAt(f, j, y)
    BY <1>4 DEF RetryableAt
  <2> QED
    BY <1>3, <1>4, <2>1, <2>2 DEF AttemptOK
<1>7. LedgerOK(f, valid)
  BY <1>4, <1>6 DEF LedgerOK
<1> QED
  BY <1>3, <1>4, <1>5, <1>7 DEF f

\* The lineage of a selected output.
LEMMA LineageOK ==
    ASSUME NEW e, NEW valid, LedgerOK(e, valid), NEW k \in Parts
    PROVE  LET f == [e EXCEPT !.lineage = @ \cup {k}]
           IN  LedgerOK(f, valid) /\ Extends(e, f) /\ f.terminal = e.terminal
<1> DEFINE f == [e EXCEPT !.lineage = @ \cup {k}]
<1>1. e \in Evidence
  BY DEF LedgerOK
<1>2. /\ f.terminal = e.terminal /\ f.intent = e.intent /\ f.raw = e.raw
      /\ f.selection = e.selection /\ f.lineage = e.lineage \cup {k}
      /\ f \in Evidence
  BY <1>1 DEF Evidence
<1> HIDE DEF f
<1>3. Extends(e, f)
  BY <1>1, <1>2 DEF Extends, Keeps, Evidence
<1>4. \A j \in Parts, x \in Attempts : AttemptOK(f, valid, j, x)
  BY <1>2 DEF LedgerOK, AttemptOK, RetryableAt
<1> QED
  BY <1>2, <1>3, <1>4 DEF LedgerOK, f

-----------------------------------------------------------------------------
(* What a task does with the terminal of its attempt.                      *)

LEMMA AfterOK ==
    ASSUME NEW e, NEW valid, LedgerOK(e, valid), NEW c, NEW k \in Parts,
           NEW t \in Task, \A b \in Attempts : b < t.att => RetryableAt(e, k, b),
           NEW o, o = e.terminal[k][t.att], o # None
    PROVE  LET u == After(t, k, o, e)
           IN  /\ TaskOK(e, valid, c, k, u)
               /\ u.step \in {"gone", "intent", "lineage", "complete"}
               /\ u.step = "intent" => u.grp = {}
<1> DEFINE u == After(t, k, o, e)
<1>1. o \in Outcomes /\ t.att \in Attempts
  BY DEF LedgerOK, Evidence, Task
<1>2. CASE t.late
  <2>1. u = [t EXCEPT !.step = "gone"]
    BY <1>2 DEF After
  <2>2. u \in Task /\ u.step = "gone" /\ u.att = t.att
    BY <2>1 DEF Task, Steps
  <2> QED
    BY <2>2 DEF TaskOK, Begun, Holding, Closing
<1>3. CASE ~t.late /\ o.status = "SUCCEEDED"
  <2> DEFINE a == e.selection[k]
             x == e.terminal[k][a]
  <2>1. AttemptOK(e, valid, k, t.att)
    BY <1>1 DEF LedgerOK
  <2>2. a \in Attempts
    BY <1>3, <2>1 DEF AttemptOK, LedgerOK, Evidence
  <2>3. AttemptOK(e, valid, k, a)
    BY <2>2 DEF LedgerOK
  <2>4. x # None /\ x.status = "SUCCEEDED" /\ a \in e.intent[k]
    BY <2>3 DEF AttemptOK
  <2>5. x \in Outcomes /\ \A b \in Attempts : b < a => RetryableAt(e, k, b)
    BY <2>2, <2>3, <2>4 DEF AttemptOK, LedgerOK, Evidence
  <2>6. FinalAt(e, k, a)
    BY <2>4 DEF FinalAt
  <2>7. u = [t EXCEPT !.step = "lineage", !.att = a, !.out = x]
    BY <1>3 DEF After
  <2> HIDE DEF a, x
  <2>8. u \in Task /\ u.step = "lineage" /\ u.att = a /\ u.out = x
    BY <2>2, <2>5, <2>7 DEF Task, Steps
  <2> HIDE DEF u
  <2>9. u.out = e.terminal[k][u.att]
    BY <2>8 DEF a, x
  <2>10. TaskOK(e, valid, c, k, u)
    BY <2>5, <2>6, <2>8, <2>9 DEF TaskOK, Begun, Holding, Closing
  <2> QED
    BY <2>8, <2>10 DEF u
<1>4. CASE ~t.late /\ o.status # "SUCCEEDED" /\ (o.status = "PERMANENT" \/ LastAttempt(t.att))
  <2>1. u = [t EXCEPT !.step = "complete", !.out = o]
    BY <1>4 DEF After
  <2>2. u \in Task /\ u.step = "complete" /\ u.att = t.att /\ u.out = o
    BY <1>1, <2>1 DEF Task, Steps
  <2>3. FinalAt(e, k, t.att)
    BY <1>4 DEF FinalAt, LastAttempt
  <2> QED
    BY <2>2, <2>3 DEF TaskOK, Begun, Holding, Closing
<1>5. CASE ~t.late /\ o.status \notin {"SUCCEEDED", "PERMANENT"} /\ ~LastAttempt(t.att)
  <2>1. u = [t EXCEPT !.step = "intent", !.att = @ + 1, !.out = None, !.grp = {}]
    BY <1>5 DEF After
  <2>2. t.att + 1 \in Attempts /\ t.att \in Int
    BY <1>1, <1>5, InferenceAssumption DEF Attempts, LastAttempt
  <2>3. u \in Task /\ u.step = "intent" /\ u.att = t.att + 1 /\ u.grp = {}
    BY <2>1, <2>2 DEF Task, Steps
  <2>4. RetryableAt(e, k, t.att)
    BY <1>1, <1>5 DEF RetryableAt, Outcomes, Statuses
  <2>5. \A b \in Attempts : b < t.att + 1 => b < t.att \/ b = t.att
    BY <2>2 DEF Attempts
  <2>6. \A b \in Attempts : b < u.att => RetryableAt(e, k, b)
    BY <2>3, <2>4, <2>5
  <2> QED
    BY <2>3, <2>6 DEF TaskOK, Begun, Holding, Closing
<1> QED
  BY <1>1, <1>2, <1>3, <1>4, <1>5 DEF Outcomes, Statuses

-----------------------------------------------------------------------------
(* A step of one process leaves what the others know true.                 *)

LEMMA ValidBytes == ASSUME input \in Inputs
                    PROVE  input \in Input /\ None \notin input.valid
BY InferenceAssumption DEF Input

LEMMA ProcessStep ==
    ASSUME IInv, NEW p \in Procs, input' = input,
           proc' \in [Procs -> Phases], faults' \in 0..MaxFaults,
           bucket' \in [Procs -> [queue: SUBSET Parts, timer: BOOLEAN]],
           task' \in [Procs -> [Parts -> Task]],
           \A q \in Procs \ {p} : bucket'[q] = bucket[q] /\ task'[q] = task[q],
           LedgerOK(evidence', input.valid), Extends(evidence, evidence'),
           p \in input.procs \/ evidence' = evidence,
           BarrierOK(evidence', input, barrier'),
           \A k \in Parts : Keeps(barrier.completion[k], barrier'.completion[k]),
           \A k \in Parts :
              TaskOK(evidence', input.valid, barrier'.completion, k, task'[p][k]),
           QueueOK(bucket'[p].queue, task'[p]),
           input.procs = {p} => \A k \in Parts : UnsentOK(evidence', k, task'[p][k])
    PROVE  IInv'
<1>1. None \notin input.valid
  BY ValidBytes DEF IInv
<1>2. ASSUME NEW q \in Procs, NEW k \in Parts
      PROVE  TaskOK(evidence', input.valid, barrier'.completion, k, task'[q][k])
  <2>1. CASE q = p
    BY <2>1
  <2>2. CASE q # p
    <3>1. TaskOK(evidence, input.valid, barrier.completion, k, task[q][k])
      BY DEF IInv
    <3>2. TaskOK(evidence', input.valid, barrier'.completion, k, task[q][k])
      BY <1>1, <3>1, TaskStable
    <3> QED
      BY <2>2, <3>2
  <2> QED
    BY <2>1, <2>2
<1>3. \A q \in Procs : QueueOK(bucket'[q].queue, task'[q])
  BY DEF IInv
<1>4. ASSUME NEW q \in Procs, NEW k \in Parts, input.procs = {q}
      PROVE  UnsentOK(evidence', k, task'[q][k])
  <2>1. CASE q = p
    BY <1>4, <2>1
  <2>2. CASE q # p
    BY <1>4, <2>2 DEF IInv
  <2> QED
    BY <2>1, <2>2
<1> QED
  BY <1>2, <1>3, <1>4 DEF IInv

\* The step of a single task that does not wait in the bucket.
LEMMA TaskStep ==
    ASSUME IInv, NEW p \in Procs, NEW k \in Parts, NEW t,
           Set(p, k, t), input' = input, faults' \in 0..MaxFaults,
           UNCHANGED <<proc, bucket>>, task[p][k].step # "queued",
           LedgerOK(evidence', input.valid), Extends(evidence, evidence'),
           p \in input.procs \/ evidence' = evidence,
           \A j \in Parts \ {k} : evidence'.terminal[j] = evidence.terminal[j],
           BarrierOK(evidence', input, barrier'),
           \A j \in Parts : Keeps(barrier.completion[j], barrier'.completion[j]),
           TaskOK(evidence', input.valid, barrier'.completion, k, t),
           t.step \in {"look", "intent", "append", "gate"} => t.grp = {},
           input.procs = {p} => UnsentOK(evidence', k, t)
    PROVE  IInv'
<1>1. None \notin input.valid
  BY ValidBytes DEF IInv
<1>2. t \in Task /\ task \in [Procs -> [Parts -> Task]]
  BY DEF TaskOK, IInv
<1>3. /\ task' \in [Procs -> [Parts -> Task]] /\ task'[p][k] = t
      /\ \A q \in Procs \ {p} : task'[q] = task[q]
      /\ \A j \in Parts \ {k} : task'[p][j] = task[p][j]
  BY <1>2 DEF Set
<1>4. ASSUME NEW j \in Parts
      PROVE  TaskOK(evidence', input.valid, barrier'.completion, j, task'[p][j])
  <2>1. TaskOK(evidence, input.valid, barrier.completion, j, task[p][j])
    BY DEF IInv
  <2>2. TaskOK(evidence', input.valid, barrier'.completion, j, task[p][j])
    BY <1>1, <2>1, TaskStable
  <2> QED
    BY <1>3, <2>2
<1>5. QueueOK(bucket[p].queue, task[p])
  BY DEF IInv
<1>6. k \notin bucket[p].queue
  BY <1>5 DEF QueueOK
<1>7. bucket[p].queue \subseteq Parts
  BY DEF IInv
<1>8. QueueOK(bucket'[p].queue, task'[p])
  BY <1>3, <1>5, <1>6, <1>7 DEF QueueOK
<1>9. ASSUME input.procs = {p}, NEW j \in Parts PROVE UnsentOK(evidence', j, task'[p][j])
  <2>1. CASE j = k
    BY <1>3, <1>9, <2>1
  <2>2. CASE j # k
    BY <1>3, <1>9, <2>2 DEF IInv, UnsentOK
  <2> QED
    BY <2>1, <2>2
<1>10. /\ proc' \in [Procs -> Phases]
       /\ bucket' \in [Procs -> [queue: SUBSET Parts, timer: BOOLEAN]]
       /\ \A q \in Procs \ {p} : bucket'[q] = bucket[q] /\ task'[q] = task[q]
  BY <1>3 DEF IInv
<1> QED
  BY <1>3, <1>4, <1>8, <1>9, <1>10, ProcessStep

\* The same where the durable tables do not change.
LEMMA LocalTask ==
    ASSUME IInv, NEW p \in Procs, NEW k \in Parts, NEW t,
           Set(p, k, t), input' = input, faults' \in 0..MaxFaults,
           UNCHANGED <<evidence, barrier, proc, bucket>>, task[p][k].step # "queued",
           TaskOK(evidence, input.valid, barrier.completion, k, t),
           t.step \in {"look", "intent", "append", "gate"} => t.grp = {},
           input.procs = {p} => UnsentOK(evidence, k, t)
    PROVE  IInv'
<1>1. LedgerOK(evidence', input.valid) /\ BarrierOK(evidence', input, barrier')
  BY DEF IInv
<1>2. Extends(evidence, evidence')
  BY ExtendsItself
<1>3. \A j \in Parts : Keeps(barrier.completion[j], barrier'.completion[j])
  BY DEF Keeps
<1> QED
  BY <1>1, <1>2, <1>3, TaskStep

LEMMA FaultBound == ASSUME IInv, NoFault \/ Fault
                    PROVE  input' = input /\ faults' \in 0..MaxFaults
BY InferenceAssumption DEF IInv, NoFault, Fault

\* Nothing that was stored changes.
Grows ==
    /\ Extends(evidence, evidence')
    /\ \A k \in Parts : /\ Keeps(barrier.completion[k], barrier'.completion[k])
                        /\ Keeps(barrier.member[k], barrier'.member[k])
    /\ Keeps(barrier.reduction, barrier'.reduction)

LEMMA GrowsStill == ASSUME UNCHANGED <<evidence, barrier>> PROVE Grows
BY ExtendsItself DEF Grows, Keeps

LEMMA GrowsLedger ==
    ASSUME Extends(evidence, evidence'), UNCHANGED barrier
    PROVE  Grows
BY DEF Grows, Keeps

LEMMA ExtendsTransitive ==
    ASSUME NEW e, NEW f, NEW g, Extends(e, f), Extends(f, g)
    PROVE  Extends(e, g)
BY DEF Extends, Keeps

\* Facts about a task that is at some step.
LEMMA TaskFacts ==
    ASSUME IInv, NEW p \in Procs, NEW k \in Parts
    PROVE  /\ task[p][k] \in Task /\ task[p][k].att \in Attempts
           /\ TaskOK(evidence, input.valid, barrier.completion, k, task[p][k])
           /\ \A b \in Attempts : b < task[p][k].att => RetryableAt(evidence, k, b)
           /\ task[p][k].step \in {"look", "intent", "append", "gate"} => task[p][k].grp = {}
           /\ LedgerOK(evidence, input.valid) /\ BarrierOK(evidence, input, barrier)
           /\ input \in Input /\ None \notin input.valid
<1>1. TaskOK(evidence, input.valid, barrier.completion, k, task[p][k])
  BY DEF IInv
<1>2. task[p][k] \in Task /\ task[p][k].att \in Attempts
  BY <1>1 DEF TaskOK, Task
<1>3. \A b \in Attempts : b < task[p][k].att => RetryableAt(evidence, k, b)
  BY <1>1 DEF TaskOK
<1>4. task[p][k].step \in {"look", "intent", "append", "gate"} => task[p][k].grp = {}
  BY DEF IInv, QueueOK
<1> QED
  BY <1>1, <1>2, <1>3, <1>4, ValidBytes DEF IInv

-----------------------------------------------------------------------------
(* Tasks that make attempts.                                               *)

LEMMA LookStep ==
    ASSUME IInv, NEW p \in Procs, NEW k \in Parts, Look(p, k)
    PROVE  IInv' /\ Grows
<1> DEFINE a == evidence.selection[k]
           t == task[p][k]
<1>1. input' = input /\ faults' \in 0..MaxFaults
  BY FaultBound DEF Look
<1>2. UNCHANGED <<evidence, barrier, proc, bucket>> /\ t.step = "look"
  BY DEF Look, At
<1>3. CASE a # None
  <2> DEFINE t0 == [Fresh EXCEPT !.att = a]
             u  == After(t0, k, Terminal(k, a), evidence)
  <2>1. Set(p, k, u)
    BY <1>3 DEF Look
  <2>2. a \in Attempts /\ AttemptOK(evidence, input.valid, k, a)
    BY <1>3, TaskFacts DEF LedgerOK, Evidence
  <2>3. t0 \in Task /\ t0.att = a
    BY <2>2 DEF Fresh, Task, Steps
  <2>4. Terminal(k, a) # None /\ \A b \in Attempts : b < a => RetryableAt(evidence, k, b)
    BY <2>2 DEF AttemptOK, Terminal
  <2> HIDE DEF t0
  <2>5. /\ TaskOK(evidence, input.valid, barrier.completion, k, u)
        /\ u.step \in {"gone", "intent", "lineage", "complete"}
        /\ u.step = "intent" => u.grp = {}
    BY <2>3, <2>4, AfterOK, TaskFacts DEF Terminal
  <2> HIDE DEF u
  <2>6. UnsentOK(evidence, k, u)
    BY <2>5 DEF UnsentOK
  <2>7. IInv'
    BY <1>1, <1>2, <2>1, <2>5, <2>6, LocalTask
  <2> QED
    BY <1>2, <2>7, GrowsStill
<1>4. CASE a = None
  <2> DEFINE u == [t EXCEPT !.step = "intent"]
  <2>1. Set(p, k, u)
    BY <1>4 DEF Look, Goto
  <2>2. u \in Task /\ u.step = "intent" /\ u.att = t.att /\ u.grp = t.grp
    BY TaskFacts DEF Task, Steps
  <2> HIDE DEF u
  <2>3. TaskOK(evidence, input.valid, barrier.completion, k, u) /\ UnsentOK(evidence, k, u)
    BY <2>2, TaskFacts DEF TaskOK, Begun, Holding, Closing, UnsentOK
  <2>4. u.grp = {}
    BY <1>2, <2>2, TaskFacts
  <2>5. IInv'
    BY <1>1, <1>2, <2>1, <2>2, <2>3, <2>4, LocalTask
  <2> QED
    BY <1>2, <2>5, GrowsStill
<1> QED
  BY <1>3, <1>4

LEMMA ResumeStep ==
    ASSUME IInv, NEW p \in Procs, NEW k \in Parts, Resume(p, k), NoFault,
           UNCHANGED <<barrier, proc, bucket>>, p \in input.procs,
           task[p][k].step \in {"intent", "append"}
    PROVE  IInv' /\ Grows
<1> DEFINE t == task[p][k]
           o == Terminal(k, t.att)
           f == WithIntent(evidence, k, t.att)
           u == IF o = None THEN [t EXCEPT !.step = "gate"]
                ELSE After(t, k, o, evidence')
<1>1. input' = input /\ faults' \in 0..MaxFaults
  BY FaultBound
<1>2. /\ UNCHANGED <<barrier, proc, bucket>> /\ p \in input.procs
      /\ t.step \in {"intent", "append"}
  OBVIOUS
<1>3. Set(p, k, u)
  BY DEF Resume, ExistingTerminal
<1>4. /\ evidence' = IF o # None /\ o.status = "SUCCEEDED"
                      THEN Selecting(f, k, t.att) ELSE f
  BY DEF Resume, ExistingTerminal, WithIntent, Selecting
<1>5. /\ LedgerOK(f, input.valid) /\ Extends(evidence, f) /\ t.att \in f.intent[k]
      /\ f.terminal = evidence.terminal
  BY IntentOK, TaskFacts
<1> HIDE DEF f
<1>6. o = f.terminal[k][t.att]
  BY <1>5 DEF Terminal
<1> HIDE DEF o
<1>7. /\ LedgerOK(evidence', input.valid) /\ Extends(f, evidence')
      /\ evidence'.terminal = evidence.terminal /\ evidence'.intent = f.intent
  <2>1. CASE o # None /\ o.status = "SUCCEEDED"
    BY <1>4, <1>5, <1>6, <2>1, SelectOK, TaskFacts
  <2>2. CASE ~(o # None /\ o.status = "SUCCEEDED")
    BY <1>4, <1>5, <2>2, ExtendsItself
  <2> QED
    BY <2>1, <2>2
<1>8. Extends(evidence, evidence')
  BY <1>5, <1>7, ExtendsTransitive
<1>9. BarrierOK(evidence', input, barrier')
  BY <1>2, <1>8, BarrierStable, TaskFacts
<1>10. \A b \in Attempts : b < t.att => RetryableAt(evidence', k, b)
  BY <1>7, TaskFacts DEF RetryableAt
<1>11. /\ TaskOK(evidence', input.valid, barrier'.completion, k, u)
       /\ u.step \in {"look", "intent", "append", "gate"} => u.grp = {}
       /\ UnsentOK(evidence', k, u)
  <2>1. CASE o = None
    <3>1. u \in Task /\ u.step = "gate" /\ u.att = t.att /\ u.grp = t.grp
      BY <2>1, TaskFacts DEF Task, Steps
    <3>2. t.grp = {} /\ evidence'.terminal[k][t.att] = None /\ t.att \in evidence'.intent[k]
      BY <1>2, <1>5, <1>6, <1>7, <2>1, TaskFacts
    <3> QED
      BY <1>10, <3>1, <3>2 DEF TaskOK, Begun, Holding, Closing, UnsentOK
  <2>2. CASE o # None
    <3>1. u = After(t, k, o, evidence')
      BY <2>2
    <3>2. o = evidence'.terminal[k][t.att]
      BY <1>5, <1>6, <1>7
    <3> HIDE DEF u
    <3>3. /\ TaskOK(evidence', input.valid, barrier'.completion, k, u)
          /\ u.step \in {"gone", "intent", "lineage", "complete"}
          /\ u.step = "intent" => u.grp = {}
      BY <1>7, <1>10, <2>2, <3>1, <3>2, AfterOK, TaskFacts
    <3> QED
      BY <3>3 DEF UnsentOK
  <2> QED
    BY <2>1, <2>2
<1>12. \A j \in Parts : Keeps(barrier.completion[j], barrier'.completion[j])
  BY <1>2 DEF Keeps
<1> HIDE DEF u
<1>13. IInv'
  BY <1>1, <1>2, <1>3, <1>7, <1>8, <1>9, <1>11, <1>12, TaskStep
<1> QED
  BY <1>2, <1>8, <1>13, GrowsLedger

LEMMA IntentStep ==
    ASSUME IInv, NEW p \in Procs, NEW k \in Parts, Intent(p, k)
    PROVE  IInv' /\ Grows
<1> DEFINE t == task[p][k]
<1>1. /\ input' = input /\ faults' \in 0..MaxFaults /\ NoFault
      /\ UNCHANGED <<barrier, proc, bucket>> /\ t.step = "intent" /\ p \in input.procs
  BY FaultBound DEF Intent, At
<1>2. CASE Resume(p, k)
  BY <1>1, <1>2, ResumeStep
<1>3. CASE Goto(p, k, "append") /\ UNCHANGED evidence
  <2> DEFINE u == [t EXCEPT !.step = "append"]
  <2>1. Set(p, k, u)
    BY <1>3 DEF Goto
  <2>2. u \in Task /\ u.step = "append" /\ u.att = t.att /\ u.grp = t.grp
    BY TaskFacts DEF Task, Steps
  <2> HIDE DEF u
  <2>3. TaskOK(evidence, input.valid, barrier.completion, k, u) /\ UnsentOK(evidence, k, u)
    BY <2>2, TaskFacts DEF TaskOK, Begun, Holding, Closing, UnsentOK
  <2>4. u.grp = {}
    BY <1>1, <2>2, TaskFacts
  <2>5. IInv'
    BY <1>1, <1>3, <2>1, <2>2, <2>3, <2>4, LocalTask
  <2> QED
    BY <1>1, <1>3, <2>5, GrowsStill
<1> QED
  BY <1>2, <1>3 DEF Intent

LEMMA FailIsOutcome ==
    ASSUME NEW s \in Statuses
    PROVE  Fail(s) \in Outcomes /\ Fail(s) # None /\ Fail(s).status = s /\ Fail(s).raw = None
BY InferenceAssumption DEF Fail, Outcomes

\* The gate fails, or the provider refuses: a failure is in hand.
LEMMA FailureInHand ==
    ASSUME IInv, NEW p \in Procs, NEW k \in Parts, Fault,
           UNCHANGED <<evidence, barrier, proc, bucket>>,
           NEW st \in {"persist", "flying"}, NEW o \in Outcomes, o.status # "SUCCEEDED",
           task[p][k].step \in {"gate", "flying"},
           Set(p, k, [task[p][k] EXCEPT !.step = st, !.out = o])
    PROVE  IInv' /\ Grows
<1> DEFINE t == task[p][k]
           u == [t EXCEPT !.step = st, !.out = o]
<1>1. input' = input /\ faults' \in 0..MaxFaults
  BY FaultBound
<1>2. t \in Task /\ o # None
  BY TaskFacts, InferenceAssumption
<1>3. u \in Task /\ u.step = st /\ u.att = t.att /\ u.out = o
  BY <1>2 DEF Task, Steps
<1>4. Set(p, k, u)
  OBVIOUS
<1> HIDE DEF u
<1>5. t.att \in evidence.intent[k]
  BY TaskFacts DEF TaskOK, Begun
<1>6. TaskOK(evidence, input.valid, barrier.completion, k, u) /\ UnsentOK(evidence, k, u)
  BY <1>2, <1>3, <1>5, TaskFacts DEF TaskOK, Begun, Holding, Closing, UnsentOK
<1>7. IInv'
  BY <1>1, <1>3, <1>4, <1>6, LocalTask
<1> QED
  BY <1>7, GrowsStill

LEMMA GateFailsStep ==
    ASSUME IInv, NEW p \in Procs, NEW k \in Parts, GateFails(p, k)
    PROVE  IInv' /\ Grows
<1> DEFINE o == Fail("RETRYABLE")
<1>1. o \in Outcomes /\ o.status # "SUCCEEDED"
  BY FailIsOutcome DEF Statuses
<1>2. /\ Set(p, k, [task[p][k] EXCEPT !.step = "persist", !.out = o])
      /\ task[p][k].step = "gate" /\ Fault
      /\ UNCHANGED <<evidence, barrier, proc, bucket>>
  BY DEF GateFails, At
<1> HIDE DEF o
<1> QED
  BY <1>1, <1>2, FailureInHand

LEMMA RefusalStep ==
    ASSUME IInv, NEW p \in Procs, NEW k \in Parts, Refusal(p, k)
    PROVE  IInv' /\ Grows
<1> DEFINE t == task[p][k]
<1>1. PICK s \in {"RETRYABLE", "PERMANENT"} : Set(p, k, [t EXCEPT !.out = Fail(s)])
  BY DEF Refusal
<1> DEFINE o == Fail(s)
<1>2. o \in Outcomes /\ o.status # "SUCCEEDED"
  BY FailIsOutcome DEF Statuses
<1>3. /\ t.step = "flying" /\ t \in Task /\ Fault
      /\ UNCHANGED <<evidence, barrier, proc, bucket>>
  BY TaskFacts DEF Refusal, At
<1>4. Set(p, k, [t EXCEPT !.out = o])
  BY <1>1
<1> HIDE DEF o
<1>5. [t EXCEPT !.out = o] = [t EXCEPT !.step = "flying", !.out = o]
  BY <1>3 DEF Task
<1>6. Set(p, k, [t EXCEPT !.step = "flying", !.out = o])
  BY <1>4, <1>5
<1> QED
  BY <1>2, <1>3, <1>6, FailureInHand

-----------------------------------------------------------------------------
(* The microbatch dispatcher.                                              *)

\* A step of the dispatcher: it changes tasks of one process and its bucket.
LEMMA BatchStep ==
    ASSUME IInv, NEW p \in Procs, NEW ts \in [Parts -> Task],
           NEW q \in [queue: SUBSET Parts, timer: BOOLEAN],
           NoFault \/ Fault, UNCHANGED <<evidence, barrier, proc>>,
           task' = [task EXCEPT ![p] = ts], bucket' = [bucket EXCEPT ![p] = q],
           \A k \in Parts :
              /\ TaskOK(evidence, input.valid, barrier.completion, k, ts[k])
              /\ input.procs = {p} => UnsentOK(evidence, k, ts[k]),
           QueueOK(q.queue, ts)
    PROVE  IInv' /\ Grows
<1>1. input' = input /\ faults' \in 0..MaxFaults
  BY FaultBound
<1>2. /\ task' \in [Procs -> [Parts -> Task]] /\ task'[p] = ts
      /\ bucket' \in [Procs -> [queue: SUBSET Parts, timer: BOOLEAN]]
      /\ bucket'[p] = q
      /\ \A r \in Procs \ {p} : bucket'[r] = bucket[r] /\ task'[r] = task[r]
  BY DEF IInv
<1>3. /\ LedgerOK(evidence', input.valid) /\ BarrierOK(evidence', input, barrier')
      /\ proc' \in [Procs -> Phases]
  BY DEF IInv
<1>4. Grows
  BY GrowsStill
<1>5. IInv'
  BY <1>1, <1>2, <1>3, <1>4, ProcessStep DEF Grows
<1> QED
  BY <1>4, <1>5

\* A bucket becomes a batch.
LEMMA LaunchOK ==
    ASSUME IInv, NEW p \in Procs, NEW q \in SUBSET Parts,
           \A k \in q : task[p][k].step \in {"gate", "queued"},
           NoFault, UNCHANGED <<evidence, barrier, proc>>,
           \A k \in bucket[p].queue : k \in q,
           task' = [task EXCEPT ![p] = Launch(p, q)],
           bucket' = [bucket EXCEPT ![p] = [queue |-> {}, timer |-> FALSE]]
    PROVE  IInv' /\ Grows
<1> DEFINE ts == Launch(p, q)
           b  == [queue |-> {}, timer |-> FALSE]
<1>1. ASSUME NEW k \in Parts
      PROVE  /\ ts[k] \in Task
             /\ k \notin q => ts[k] = task[p][k]
             /\ k \in q => /\ ts[k].step = "queued" /\ ts[k].att = task[p][k].att
                           /\ ts[k].out = task[p][k].out
  BY TaskFacts DEF Launch, Task, Steps
<1>2. ts \in [Parts -> Task]
  BY <1>1 DEF Launch
<1> HIDE DEF ts
<1>3. ASSUME NEW k \in Parts
      PROVE  /\ TaskOK(evidence, input.valid, barrier.completion, k, ts[k])
             /\ input.procs = {p} => UnsentOK(evidence, k, ts[k])
  <2>1. CASE k \notin q
    BY <1>1, <2>1, TaskFacts DEF IInv
  <2>2. CASE k \in q
    <3>1. task[p][k].att \in evidence.intent[k]
      BY <2>2, TaskFacts DEF TaskOK, Begun
    <3>2. TaskOK(evidence, input.valid, barrier.completion, k, ts[k])
      BY <1>1, <2>2, <3>1, TaskFacts DEF TaskOK, Begun, Holding, Closing
    <3>3. input.procs = {p} => UnsentOK(evidence, k, ts[k])
      BY <1>1, <2>2 DEF IInv, UnsentOK
    <3> QED
      BY <3>2, <3>3
  <2> QED
    BY <2>1, <2>2
<1>4. QueueOK(b.queue, ts)
  <2>1. QueueOK(bucket[p].queue, task[p])
    BY DEF IInv
  <2> QED
    BY <1>1, <2>1 DEF QueueOK
<1>5. b \in [queue: SUBSET Parts, timer: BOOLEAN]
  OBVIOUS
<1>6. task' = [task EXCEPT ![p] = ts] /\ bucket' = [bucket EXCEPT ![p] = b]
  BY DEF ts
<1> HIDE DEF b
<1> QED
  BY <1>2, <1>3, <1>4, <1>5, <1>6, BatchStep

LEMMA QueueFacts ==
    ASSUME IInv, NEW p \in Procs
    PROVE  /\ bucket[p].queue \in SUBSET Parts /\ bucket[p].timer \in BOOLEAN
           /\ \A k \in bucket[p].queue : /\ task[p][k].step = "queued"
                                         /\ task[p][k].grp = {}
           /\ \A k \in Parts : task[p][k].step \in {"look", "intent", "append", "gate"} =>
                               task[p][k].grp = {}
BY DEF IInv, QueueOK

LEMMA TimerStep ==
    ASSUME IInv, NEW p \in Procs, TimerFires(p)
    PROVE  IInv' /\ Grows
BY QueueFacts, LaunchOK DEF TimerFires

LEMMA EnqueueStep ==
    ASSUME IInv, NEW p \in Procs, NEW k \in Parts, Enqueue(p, k)
    PROVE  IInv' /\ Grows
<1> DEFINE q == bucket[p].queue \cup {k}
           t == task[p][k]
<1>1. q \in SUBSET Parts /\ t.step = "gate" /\ t.grp = {}
  BY QueueFacts DEF Enqueue, At
<1>2. NoFault /\ UNCHANGED <<evidence, barrier, proc>>
  BY DEF Enqueue
<1>3. CASE Cardinality(q) = MaxBatch
  <2>1. /\ task' = [task EXCEPT ![p] = Launch(p, q)]
        /\ bucket' = [bucket EXCEPT ![p] = [queue |-> {}, timer |-> FALSE]]
    BY <1>3 DEF Enqueue
  <2>2. \A j \in q : task[p][j].step \in {"gate", "queued"}
    BY <1>1, QueueFacts
  <2>3. \A j \in bucket[p].queue : j \in q
    OBVIOUS
  <2> HIDE DEF q
  <2> QED
    BY <1>1, <1>2, <2>1, <2>2, <2>3, LaunchOK
<1>4. CASE Cardinality(q) # MaxBatch
  <2> DEFINE u  == [t EXCEPT !.step = "queued"]
             ts == [task[p] EXCEPT ![k] = u]
             b  == [queue |-> q, timer |-> TRUE]
  <2>1. task' = [task EXCEPT ![p][k] = u] /\ bucket' = [bucket EXCEPT ![p] = b]
    BY <1>4 DEF Enqueue, Goto, Set
  <2>2. u \in Task /\ u.step = "queued" /\ u.att = t.att /\ u.grp = {}
    BY <1>1, TaskFacts DEF Task, Steps
  <2>3. t.att \in evidence.intent[k]
    BY <1>1, TaskFacts DEF TaskOK, Begun
  <2>4. TaskOK(evidence, input.valid, barrier.completion, k, u)
    BY <2>2, <2>3, TaskFacts DEF TaskOK, Begun, Holding, Closing
  <2>5. input.procs = {p} => UnsentOK(evidence, k, u)
    BY <1>1, <2>2 DEF IInv, UnsentOK
  <2> HIDE DEF u
  <2>6. task \in [Procs -> [Parts -> Task]]
    BY DEF IInv
  <2>7. /\ ts \in [Parts -> Task] /\ ts[k] = u
        /\ \A j \in Parts \ {k} : ts[j] = task[p][j]
        /\ task' = [task EXCEPT ![p] = ts]
    BY <2>1, <2>2, <2>6
  <2> HIDE DEF ts
  <2>8. \A j \in Parts :
           /\ TaskOK(evidence, input.valid, barrier.completion, j, ts[j])
           /\ input.procs = {p} => UnsentOK(evidence, j, ts[j])
    BY <2>4, <2>5, <2>7 DEF IInv
  <2>9. b \in [queue: SUBSET Parts, timer: BOOLEAN] /\ b.queue = q
    BY <1>1
  <2>10. QueueOK(b.queue, ts)
    BY <1>1, <2>2, <2>7, <2>9, QueueFacts DEF QueueOK
  <2> HIDE DEF b
  <2> QED
    BY <1>2, <2>1, <2>7, <2>8, <2>9, <2>10, BatchStep
<1> QED
  BY <1>3, <1>4

\* A member of a batch may go on to step st with outcome x.
MayResolve(p, k, st, x) ==
    /\ task[p][k].step \in {"queued", "flying"} /\ task[p][k].grp # {}
    /\ st # "flying" => x # None
    /\ x # None /\ x.status = "SUCCEEDED" =>
          /\ evidence.raw[k][task[p][k].att] \in input.valid
          /\ x.raw = evidence.raw[k][task[p][k].att]

\* The members of a batch go on together.
LEMMA ResolveOK ==
    ASSUME IInv, NEW p \in Procs, NEW ks \in SUBSET Parts, NoFault \/ Fault,
           UNCHANGED <<evidence, barrier, proc, bucket>>,
           NEW st \in Holding, NEW o \in [Parts -> Outcomes \cup {None}],
           Resolve(p, ks, st, o),
           \A k \in ks : MayResolve(p, k, st, o[k])
    PROVE  IInv' /\ Grows
<1> DEFINE ts == [k \in Parts |->
                    IF k \in ks THEN [task[p][k] EXCEPT !.step = st, !.out = o[k]]
                                ELSE task[p][k]]
<1>1. ASSUME NEW k \in Parts
      PROVE  /\ ts[k] \in Task
             /\ k \notin ks => ts[k] = task[p][k]
             /\ k \in ks => /\ ts[k].step = st /\ ts[k].att = task[p][k].att
                            /\ ts[k].out = o[k]
  <2>1. task[p][k] \in Task /\ o[k] \in Outcomes \cup {None} /\ st \in Steps
    BY TaskFacts DEF Holding, Steps
  <2>2. CASE k \in ks
    <3>1. ts[k] = [task[p][k] EXCEPT !.step = st, !.out = o[k]]
      BY <2>2
    <3> QED
      BY <2>1, <2>2, <3>1 DEF Task
  <2>3. CASE k \notin ks
    BY <2>1, <2>3
  <2> QED
    BY <2>2, <2>3
<1>2. ts \in [Parts -> Task] /\ task' = [task EXCEPT ![p] = ts]
  BY <1>1 DEF Resolve
<1> HIDE DEF ts
<1>3. ASSUME NEW k \in Parts
      PROVE  /\ TaskOK(evidence, input.valid, barrier.completion, k, ts[k])
             /\ input.procs = {p} => UnsentOK(evidence, k, ts[k])
  <2>1. CASE k \notin ks
    BY <1>1, <2>1, TaskFacts DEF IInv
  <2>2. CASE k \in ks
    <3>1. task[p][k].att \in evidence.intent[k]
      BY <2>2, TaskFacts DEF TaskOK, Begun, MayResolve
    <3>2. TaskOK(evidence, input.valid, barrier.completion, k, ts[k])
      BY <1>1, <2>2, <3>1, TaskFacts DEF TaskOK, Begun, Holding, Closing, MayResolve
    <3>3. UnsentOK(evidence, k, ts[k])
      BY <1>1, <2>2 DEF UnsentOK, Holding
    <3> QED
      BY <3>2, <3>3
  <2> QED
    BY <2>1, <2>2
<1>4. \A k \in bucket[p].queue : k \notin ks
  BY QueueFacts DEF MayResolve
<1>5. QueueOK(bucket[p].queue, ts)
  BY <1>1, <1>4, QueueFacts DEF QueueOK, Holding
<1>6. /\ bucket[p] \in [queue: SUBSET Parts, timer: BOOLEAN]
      /\ bucket' = [bucket EXCEPT ![p] = bucket[p]]
  BY DEF IInv
<1> QED
  BY <1>2, <1>3, <1>5, <1>6, BatchStep

LEMMA MemberFacts ==
    ASSUME IInv, NEW p \in Procs, NEW g \in Batches(p), NEW step
    PROVE  /\ Members(p, g, step) \in SUBSET Parts
           /\ \A k \in Members(p, g, step) : /\ task[p][k].step = step
                                             /\ task[p][k].grp # {}
<1>1. input.parts \subseteq Parts /\ g # {}
  BY ValidBytes DEF IInv, Input, Batches
<1> QED
  BY <1>1 DEF Members, At

\* Every member fails retryably.
LEMMA AllFail ==
    LET o == [k \in Parts |-> Fail("RETRYABLE")]
    IN  /\ o \in [Parts -> Outcomes \cup {None}]
        /\ \A k \in Parts : o[k] # None /\ o[k].status = "RETRYABLE"
BY FailIsOutcome DEF Statuses

LEMMA BatchExpiresStep ==
    ASSUME IInv, NEW p \in Procs, NEW g \in Batches(p), BatchExpires(p, g)
    PROVE  IInv' /\ Grows
<1> DEFINE o == [k \in Parts |-> Fail("RETRYABLE")]
           ks == Members(p, g, "queued")
<1>1. /\ o \in [Parts -> Outcomes \cup {None}]
      /\ \A k \in Parts : o[k] # None /\ o[k].status = "RETRYABLE"
  BY AllFail
<1>2. /\ ks \in SUBSET Parts
      /\ \A k \in ks : task[p][k].step = "queued" /\ task[p][k].grp # {}
  BY MemberFacts
<1>3. /\ Resolve(p, ks, "expired", o) /\ (NoFault \/ Fault)
      /\ UNCHANGED <<evidence, barrier, proc, bucket>>
  BY DEF BatchExpires
<1>4. "expired" \in Holding
  BY DEF Holding
<1> HIDE DEF o, ks
<1>5. \A k \in ks : MayResolve(p, k, "expired", o[k])
  BY <1>1, <1>2 DEF MayResolve
<1> QED
  BY <1>1, <1>2, <1>3, <1>4, <1>5, ResolveOK

LEMMA BatchTimesOutStep ==
    ASSUME IInv, NEW p \in Procs, NEW g \in Batches(p), BatchTimesOut(p, g)
    PROVE  IInv' /\ Grows
<1> DEFINE o == [k \in Parts |-> Fail("RETRYABLE")]
           ks == Members(p, g, "flying")
<1>1. /\ o \in [Parts -> Outcomes \cup {None}]
      /\ \A k \in Parts : o[k] # None /\ o[k].status = "RETRYABLE"
  BY AllFail
<1>2. /\ ks \in SUBSET Parts
      /\ \A k \in ks : task[p][k].step = "flying" /\ task[p][k].grp # {}
  BY MemberFacts
<1>3. /\ Resolve(p, ks, "persist", o) /\ (NoFault \/ Fault)
      /\ UNCHANGED <<evidence, barrier, proc, bucket>>
  BY DEF BatchTimesOut, Aboard
<1>4. "persist" \in Holding
  BY DEF Holding
<1> HIDE DEF o, ks
<1>5. \A k \in ks : MayResolve(p, k, "persist", o[k])
  BY <1>1, <1>2 DEF MayResolve
<1> QED
  BY <1>1, <1>2, <1>3, <1>4, <1>5, ResolveOK

LEMMA TakeOffStep ==
    ASSUME IInv, NEW p \in Procs, NEW g \in Batches(p), TakeOff(p, g)
    PROVE  IInv' /\ Grows
<1> DEFINE o == [k \in Parts |-> None]
           ks == Members(p, g, "queued")
<1>1. o \in [Parts -> Outcomes \cup {None}] /\ \A k \in Parts : o[k] = None
  OBVIOUS
<1>2. /\ ks \in SUBSET Parts
      /\ \A k \in ks : task[p][k].step \in {"queued", "flying"} /\ task[p][k].grp # {}
  BY MemberFacts
<1>3. Resolve(p, ks, "flying", o) /\ NoFault /\ UNCHANGED <<evidence, barrier, proc, bucket>>
  BY DEF TakeOff
<1>4. "flying" \in Holding
  BY DEF Holding
<1> HIDE DEF o, ks
<1>5. \A k \in ks : MayResolve(p, k, "flying", o[k])
  BY <1>1, <1>2 DEF MayResolve
<1> QED
  BY <1>1, <1>2, <1>3, <1>4, <1>5, ResolveOK

LEMMA SettleStep ==
    ASSUME IInv, NEW p \in Procs, NEW g \in Batches(p), Settle(p, g)
    PROVE  IInv' /\ Grows
<1> DEFINE o == [k \in Parts |-> task[p][k].out]
           ks == Members(p, g, "flying")
<1>1. o \in [Parts -> Outcomes \cup {None}]
  BY TaskFacts DEF Task
<1>2. ks \in SUBSET Parts /\ \A k \in ks : task[p][k].step = "flying" /\ task[p][k].grp # {}
  BY MemberFacts
<1>3. Resolve(p, ks, "persist", o) /\ NoFault /\ UNCHANGED <<evidence, barrier, proc, bucket>>
  BY DEF Settle, Aboard
<1>4. \A k \in ks : o[k] # None
  BY <1>2 DEF Settle, Answered, Aboard
<1>5. ASSUME NEW k \in ks, o[k].status = "SUCCEEDED"
      PROVE  /\ evidence.raw[k][task[p][k].att] \in input.valid
             /\ o[k].raw = evidence.raw[k][task[p][k].att]
  <2>1. k \in Parts /\ o[k] = task[p][k].out /\ o[k] # None
    BY <1>2, <1>4
  <2>2. task[p][k].step \in Holding
    BY <1>2 DEF Holding
  <2> HIDE DEF o, ks
  <2> QED
    BY <1>5, <2>1, <2>2, TaskFacts DEF TaskOK
<1>6. "persist" \in Holding
  BY DEF Holding
<1> HIDE DEF o, ks
<1>7. \A k \in ks : MayResolve(p, k, "persist", o[k])
  BY <1>1, <1>2, <1>4, <1>5 DEF MayResolve
<1> QED
  BY <1>1, <1>2, <1>3, <1>6, <1>7, ResolveOK

LEMMA AnswerStep ==
    ASSUME IInv, NEW p \in Procs, NEW k \in Parts, Answer(p, k)
    PROVE  IInv' /\ Grows
<1> DEFINE t == task[p][k]
<1>1. /\ input' = input /\ faults' \in 0..MaxFaults
      /\ UNCHANGED <<barrier, proc, bucket>>
      /\ t.step = "flying" /\ p \in input.procs /\ t \in Task
  BY FaultBound, TaskFacts DEF Answer, At
<1>2. t.att \in evidence.intent[k]
  BY <1>1, TaskFacts DEF TaskOK, Begun
<1>3. PICK b \in Answers(k, t.att) :
         IF RawAccepted(k, t.att, b)
         THEN /\ evidence' = WithRaw(evidence, k, t.att, b)
              /\ Set(p, k, [t EXCEPT !.out =
                    [status |-> IF b \in input.valid THEN "SUCCEEDED" ELSE "PERMANENT",
                     raw |-> b]])
         ELSE /\ Set(p, k, [t EXCEPT !.out = Fail("PERMANENT")])
              /\ UNCHANGED evidence
  BY DEF Answer, WithRaw
<1>4. b \in Bytes
  BY TaskFacts DEF Answers, Raw, LedgerOK, Evidence
<1>5. CASE RawAccepted(k, t.att, b)
  <2> DEFINE o == [status |-> IF b \in input.valid THEN "SUCCEEDED" ELSE "PERMANENT",
                   raw |-> b]
             u == [t EXCEPT !.out = o]
  <2>1. o \in Outcomes /\ o.raw = b /\ (o.status = "SUCCEEDED" => b \in input.valid)
    BY <1>4 DEF Outcomes, Statuses
  <2>2. Set(p, k, u) /\ evidence' = WithRaw(evidence, k, t.att, b)
    BY <1>3, <1>5
  <2> HIDE DEF o
  <2>3. u \in Task /\ u.step = "flying" /\ u.att = t.att /\ u.out = o
    BY <1>1, <2>1 DEF Task
  <2> HIDE DEF u
  <2>4. /\ LedgerOK(evidence', input.valid) /\ Extends(evidence, evidence')
        /\ evidence'.raw[k][t.att] = b
        /\ evidence'.terminal = evidence.terminal /\ evidence'.intent = evidence.intent
    BY <1>4, <1>5, <2>2, RawOK, TaskFacts DEF RawAccepted, Raw, Terminal
  <2>5. BarrierOK(evidence', input, barrier')
    BY <1>1, <2>4, BarrierStable, TaskFacts
  <2>6. \A a \in Attempts : a < t.att => RetryableAt(evidence', k, a)
    BY <2>4, TaskFacts DEF RetryableAt
  <2>7. TaskOK(evidence', input.valid, barrier'.completion, k, u)
    BY <1>2, <2>1, <2>3, <2>4, <2>6 DEF TaskOK, Begun, Holding, Closing
  <2>8. UnsentOK(evidence', k, u) /\ \A j \in Parts : Keeps(barrier.completion[j], barrier'.completion[j])
    BY <1>1, <2>3 DEF UnsentOK, Keeps
  <2>9. IInv'
    BY <1>1, <2>2, <2>3, <2>4, <2>5, <2>7, <2>8, TaskStep
  <2> QED
    BY <1>1, <2>4, <2>9, GrowsLedger
<1>6. CASE ~RawAccepted(k, t.att, b)
  <2> DEFINE o == Fail("PERMANENT")
             u == [t EXCEPT !.out = o]
  <2>1. o \in Outcomes /\ o.status = "PERMANENT"
    BY FailIsOutcome DEF Statuses
  <2>2. Set(p, k, u) /\ UNCHANGED evidence
    BY <1>3, <1>6
  <2> HIDE DEF o
  <2>3. u \in Task /\ u.step = "flying" /\ u.att = t.att /\ u.out = o
    BY <1>1, <2>1 DEF Task
  <2> HIDE DEF u
  <2>4. TaskOK(evidence, input.valid, barrier.completion, k, u) /\ UnsentOK(evidence, k, u)
    BY <1>2, <2>1, <2>3, TaskFacts DEF TaskOK, Begun, Holding, Closing, UnsentOK
  <2>5. IInv'
    BY <1>1, <2>2, <2>3, <2>4, LocalTask
  <2> QED
    BY <1>1, <2>2, <2>5, GrowsStill
<1> QED
  BY <1>5, <1>6

-----------------------------------------------------------------------------
(* Outcomes become evidence.                                               *)

\* A task that has ended, one way or another, claims nothing.
LEMMA GotoIdle ==
    ASSUME IInv, NEW p \in Procs, NEW k \in Parts, NEW c,
           NEW st \in {"raised", "gone", "end"}
    PROVE  LET u == [task[p][k] EXCEPT !.step = st]
           IN  /\ TaskOK(evidence, input.valid, c, k, u) /\ UnsentOK(evidence, k, u)
               /\ u.step = st
<1> DEFINE u == [task[p][k] EXCEPT !.step = st]
<1>1. task[p][k] \in Task /\ st \in Steps
  BY TaskFacts DEF Steps
<1>2. u \in Task /\ u.step = st /\ u.att = task[p][k].att
  BY <1>1 DEF Task
<1> HIDE DEF u
<1>3. TaskOK(evidence, input.valid, c, k, u) /\ UnsentOK(evidence, k, u)
  BY <1>2, TaskFacts DEF TaskOK, Begun, Holding, Closing, UnsentOK
<1> QED
  BY <1>2, <1>3 DEF u

\* A conflict over the intent ends the task.
LEMMA AppendIntentStep ==
    ASSUME IInv, NEW p \in Procs, NEW k \in Parts, AppendIntent(p, k)
    PROVE  IInv' /\ Grows
<1>1. /\ input' = input /\ faults' \in 0..MaxFaults /\ NoFault
      /\ UNCHANGED <<barrier, proc, bucket>>
      /\ task[p][k].step = "append" /\ p \in input.procs
  BY FaultBound DEF AppendIntent, At
<1>2. CASE Resume(p, k)
  BY <1>1, <1>2, ResumeStep
<1>3. CASE Goto(p, k, "raised") /\ UNCHANGED evidence
  <2> DEFINE u == [task[p][k] EXCEPT !.step = "raised"]
  <2>1. Set(p, k, u)
    BY <1>3 DEF Goto
  <2>2. /\ TaskOK(evidence, input.valid, barrier.completion, k, u)
        /\ UnsentOK(evidence, k, u) /\ u.step = "raised"
    BY GotoIdle
  <2> HIDE DEF u
  <2>3. IInv'
    BY <1>1, <1>3, <2>1, <2>2, LocalTask
  <2> QED
    BY <1>1, <1>3, <2>3, GrowsStill
<1> QED
  BY <1>2, <1>3 DEF AppendIntent

LEMMA PersistStep ==
    ASSUME IInv, NEW p \in Procs, NEW k \in Parts, Persist(p, k)
    PROVE  IInv' /\ Grows
<1> DEFINE t == task[p][k]
           o == t.out
           u == After(t, k, o, evidence')
<1>1. /\ input' = input /\ faults' \in 0..MaxFaults
      /\ UNCHANGED <<barrier, proc, bucket>>
      /\ t.step \in {"persist", "expired"} /\ p \in input.procs /\ t \in Task
  BY FaultBound, TaskFacts DEF Persist, Ready, At
<1>2. t.att \in evidence.intent[k] /\ o # None /\ t.att \in Attempts
  BY <1>1, TaskFacts DEF TaskOK, Begun
<1>3. o \in Outcomes
  BY <1>1, <1>2 DEF Task
<1>4. o.status = "SUCCEEDED" => evidence.raw[k][t.att] \in input.valid
  BY <1>1, <1>2, TaskFacts DEF TaskOK, Holding
<1>5. evidence.terminal[k][t.att] = None /\ evidence.raw[k][t.att] \in {None, o.raw}
  BY DEF Persist, Storable, Retains, Terminal, Raw
<1>6. evidence' = Ended(evidence, k, t.att, o) /\ Set(p, k, u)
  BY DEF Persist, WithTerminal, Ended
<1>7. /\ LedgerOK(evidence', input.valid) /\ Extends(evidence, evidence')
      /\ evidence'.terminal[k][t.att] = o
      /\ \A j \in Parts \ {k} : evidence'.terminal[j] = evidence.terminal[j]
  BY <1>2, <1>3, <1>4, <1>5, <1>6, EndedOK, TaskFacts
<1>8. BarrierOK(evidence', input, barrier')
  BY <1>1, <1>7, BarrierStable, TaskFacts
<1>9. TaskOK(evidence', input.valid, barrier.completion, k, t)
  BY <1>7, TaskStable, TaskFacts DEF Keeps
<1>10. \A b \in Attempts : b < t.att => RetryableAt(evidence', k, b)
  BY <1>9 DEF TaskOK
<1>11. /\ TaskOK(evidence', input.valid, barrier'.completion, k, u)
       /\ u.step \in {"gone", "intent", "lineage", "complete"}
       /\ u.step = "intent" => u.grp = {}
  BY <1>1, <1>2, <1>7, <1>10, AfterOK
<1> HIDE DEF u
<1>12. UnsentOK(evidence', k, u) /\ \A j \in Parts : Keeps(barrier.completion[j], barrier'.completion[j])
  BY <1>1, <1>11 DEF UnsentOK, Keeps
<1>13. IInv'
  BY <1>1, <1>6, <1>7, <1>8, <1>11, <1>12, TaskStep
<1> QED
  BY <1>1, <1>7, <1>13, GrowsLedger

LEMMA PersistAgainStep ==
    ASSUME IInv, NEW p \in Procs, NEW k \in Parts, PersistAgain(p, k)
    PROVE  IInv' /\ Grows
<1> DEFINE t == task[p][k]
           u == After(t, k, t.out, evidence)
<1>1. /\ input' = input /\ faults' \in 0..MaxFaults
      /\ UNCHANGED <<evidence, barrier, proc, bucket>>
      /\ t.step \in {"persist", "expired"} /\ t \in Task
  BY FaultBound, TaskFacts DEF PersistAgain, Ready, At
<1>2. CASE Goto(p, k, "raised")
  <2> DEFINE v == [t EXCEPT !.step = "raised"]
  <2>1. Set(p, k, v)
    BY <1>2 DEF Goto
  <2>2. /\ TaskOK(evidence, input.valid, barrier.completion, k, v)
        /\ UnsentOK(evidence, k, v) /\ v.step = "raised"
    BY GotoIdle
  <2> HIDE DEF v
  <2>3. IInv'
    BY <1>1, <2>1, <2>2, LocalTask
  <2> QED
    BY <1>1, <2>3, GrowsStill
<1>3. CASE Terminal(k, t.att) = t.out /\ Set(p, k, u)
  <2>1. t.out # None
    BY <1>1, TaskFacts DEF TaskOK
  <2>2. /\ TaskOK(evidence, input.valid, barrier.completion, k, u)
        /\ u.step \in {"gone", "intent", "lineage", "complete"}
        /\ u.step = "intent" => u.grp = {}
    BY <1>3, <2>1, AfterOK, TaskFacts DEF Terminal
  <2> HIDE DEF u
  <2>3. UnsentOK(evidence, k, u)
    BY <2>2 DEF UnsentOK
  <2>4. IInv'
    BY <1>1, <1>3, <2>2, <2>3, LocalTask
  <2> QED
    BY <1>1, <2>4, GrowsStill
<1> QED
  BY <1>2, <1>3 DEF PersistAgain

LEMMA LineageStep ==
    ASSUME IInv, NEW p \in Procs, NEW k \in Parts, Lineage(p, k)
    PROVE  IInv' /\ Grows
<1> DEFINE t == task[p][k]
           u == [t EXCEPT !.step = "complete"]
           f == [evidence EXCEPT !.lineage = @ \cup {k}]
<1>1. /\ input' = input /\ faults' \in 0..MaxFaults
      /\ UNCHANGED <<barrier, proc, bucket>>
      /\ t.step = "lineage" /\ p \in input.procs /\ t \in Task
  BY FaultBound, TaskFacts DEF Lineage, At
<1>2. Set(p, k, u) /\ evidence' \in {evidence, f}
  BY DEF Lineage, Goto
<1>3. /\ LedgerOK(evidence', input.valid) /\ Extends(evidence, evidence')
      /\ evidence'.terminal = evidence.terminal
  <2>1. LedgerOK(f, input.valid) /\ Extends(evidence, f) /\ f.terminal = evidence.terminal
    BY LineageOK, TaskFacts
  <2>2. LedgerOK(evidence, input.valid) /\ Extends(evidence, evidence)
    BY ExtendsItself, TaskFacts
  <2> HIDE DEF f
  <2> QED
    BY <1>2, <2>1, <2>2
<1>4. BarrierOK(evidence', input, barrier')
  BY <1>1, <1>3, BarrierStable, TaskFacts
<1>5. TaskOK(evidence', input.valid, barrier.completion, k, t)
  BY <1>3, TaskStable, TaskFacts DEF Keeps
<1>6. u \in Task /\ u.step = "complete" /\ u.att = t.att /\ u.out = t.out
  BY <1>1 DEF Task, Steps
<1> HIDE DEF u
<1>7. TaskOK(evidence', input.valid, barrier'.completion, k, u) /\ UnsentOK(evidence', k, u)
  BY <1>1, <1>5, <1>6 DEF TaskOK, Begun, Holding, Closing, UnsentOK
<1>8. \A j \in Parts : Keeps(barrier.completion[j], barrier'.completion[j])
  BY <1>1 DEF Keeps
<1>9. IInv'
  BY <1>1, <1>2, <1>3, <1>4, <1>6, <1>7, <1>8, TaskStep
<1> QED
  BY <1>1, <1>3, <1>9, GrowsLedger

\* The completion and the member of one part are written.
LEMMA PartWritten ==
    ASSUME IInv, NEW k \in Parts, NEW c \in Completion, NEW m \in Statuses \cup {None},
           barrier.completion[k] \in {None, c},
           barrier.member[k] \in {None, m}, PartOK(evidence, k, c, m),
           UNCHANGED evidence,
           barrier' = [barrier EXCEPT !.completion = [@ EXCEPT ![k] = c],
                                      !.member = [@ EXCEPT ![k] = m]]
    PROVE  /\ BarrierOK(evidence', input, barrier') /\ Grows
           /\ barrier'.completion[k] = c
<1> DEFINE cs == [barrier.completion EXCEPT ![k] = c]
           ms == [barrier.member EXCEPT ![k] = m]
<1>1. barrier \in Barrier /\ BarrierOK(evidence, input, barrier)
  BY DEF IInv, BarrierOK
<1>2. /\ cs \in [Parts -> Completion \cup {None}] /\ ms \in [Parts -> Statuses \cup {None}]
      /\ \A j \in Parts : cs[j] = IF j = k THEN c ELSE barrier.completion[j]
      /\ \A j \in Parts : ms[j] = IF j = k THEN m ELSE barrier.member[j]
  BY <1>1 DEF Barrier
<1>3. barrier' = [barrier EXCEPT !.completion = cs, !.member = ms]
  OBVIOUS
<1> HIDE DEF cs, ms
<1>4. /\ barrier' \in Barrier /\ barrier'.completion = cs /\ barrier'.member = ms
      /\ barrier'.reduction = barrier.reduction
  BY <1>1, <1>2, <1>3 DEF Barrier
<1>5. \A j \in Parts : PartOK(evidence, j, barrier'.completion[j], barrier'.member[j])
  BY <1>1, <1>2, <1>4 DEF BarrierOK
<1>6. BarrierOK(evidence', input, barrier')
  BY <1>1, <1>4, <1>5 DEF BarrierOK
<1>7. Grows
  BY <1>2, <1>4, ExtendsItself DEF Grows, Keeps
<1> QED
  BY <1>2, <1>4, <1>6, <1>7

LEMMA CompleteStep ==
    ASSUME IInv, NEW p \in Procs, NEW k \in Parts, Complete(p, k)
    PROVE  IInv' /\ Grows
<1> DEFINE t == task[p][k]
           c == [att |-> t.att, status |-> t.out.status]
<1>1. /\ input' = input /\ faults' \in 0..MaxFaults
      /\ UNCHANGED <<evidence, proc, bucket>>
      /\ t.step = "complete" /\ p \in input.procs /\ t \in Task
  BY FaultBound, TaskFacts DEF Complete, At
<1>2. t.out = evidence.terminal[k][t.att] /\ FinalAt(evidence, k, t.att) /\ t.att \in Attempts
  BY <1>1, TaskFacts DEF TaskOK, Closing
<1>3. t.out # None /\ t.out \in Outcomes
  BY <1>1, <1>2 DEF FinalAt, Task
<1>4. c \in Completion /\ c.att = t.att /\ c.status = t.out.status
  BY <1>2, <1>3 DEF Completion, Outcomes
<1>5. barrier \in Barrier /\ BarrierOK(evidence, input, barrier)
  BY DEF IInv, BarrierOK
<1>6. CASE barrier.completion[k] \in {None, c}
  <2> DEFINE u == [t EXCEPT !.step = "member"]
             m == barrier.member[k]
  <2>1. Set(p, k, u) /\ barrier' = [barrier EXCEPT !.completion[k] = c]
    BY <1>6 DEF Complete, Goto
  <2> HIDE DEF c
  <2>2. PartOK(evidence, k, barrier.completion[k], m) /\ m \in Statuses \cup {None}
    BY <1>5 DEF BarrierOK, Barrier
  <2>3. PartOK(evidence, k, c, m)
    BY <1>2, <1>4, <1>6, <2>2 DEF PartOK
  <2>4. barrier' = [barrier EXCEPT !.completion = [@ EXCEPT ![k] = c],
                                   !.member = [@ EXCEPT ![k] = m]]
    BY <1>5, <2>1 DEF Barrier
  <2> HIDE DEF m
  <2>5. /\ BarrierOK(evidence', input, barrier') /\ Grows
        /\ barrier'.completion[k] = c
    BY <1>1, <1>4, <1>6, <2>2, <2>3, <2>4, PartWritten DEF m
  <2>6. u \in Task /\ u.step = "member" /\ u.att = t.att /\ u.out = t.out
    BY <1>1 DEF Task, Steps
  <2> HIDE DEF u
  <2>7. c # None
    BY <1>4, InferenceAssumption
  <2>8. TaskOK(evidence', input.valid, barrier'.completion, k, u) /\ UnsentOK(evidence', k, u)
    BY <1>1, <1>2, <2>5, <2>6, <2>7, TaskFacts DEF TaskOK, Begun, Holding, Closing, UnsentOK
  <2>9. LedgerOK(evidence', input.valid)
    BY <1>1, TaskFacts
  <2>10. IInv'
    BY <1>1, <2>1, <2>5, <2>6, <2>8, <2>9, TaskStep DEF Grows
  <2> QED
    BY <2>5, <2>10
<1>7. CASE barrier.completion[k] \notin {None, c}
  <2> DEFINE v == [t EXCEPT !.step = "raised"]
  <2>1. Set(p, k, v) /\ UNCHANGED barrier
    BY <1>7 DEF Complete, Goto
  <2>2. /\ TaskOK(evidence, input.valid, barrier.completion, k, v)
        /\ UnsentOK(evidence, k, v) /\ v.step = "raised"
    BY GotoIdle
  <2> HIDE DEF v
  <2>3. IInv'
    BY <1>1, <2>1, <2>2, LocalTask
  <2> QED
    BY <1>1, <2>1, <2>3, GrowsStill
<1> QED
  BY <1>6, <1>7

LEMMA SubmitMemberStep ==
    ASSUME IInv, NEW p \in Procs, NEW k \in Parts, SubmitMember(p, k)
    PROVE  IInv' /\ Grows
<1> DEFINE t == task[p][k]
           s == t.out.status
           c == barrier.completion[k]
<1>1. /\ input' = input /\ faults' \in 0..MaxFaults
      /\ UNCHANGED <<evidence, proc, bucket>>
      /\ t.step = "member" /\ p \in input.procs /\ t \in Task
  BY FaultBound, TaskFacts DEF SubmitMember, At
<1>2. barrier \in Barrier /\ BarrierOK(evidence, input, barrier)
  BY DEF IInv, BarrierOK
<1>3. c # None /\ c \in Completion
  BY <1>1, <1>2, TaskFacts DEF TaskOK, Barrier
<1>4. CASE c.status = s /\ barrier.member[k] \in {None, s}
  <2> DEFINE u == [t EXCEPT !.step = "end"]
  <2>1. Set(p, k, u) /\ barrier' = [barrier EXCEPT !.member[k] = s]
    BY <1>4 DEF SubmitMember, Goto
  <2>2. s \in Statuses
    BY <1>3, <1>4 DEF Completion
  <2>3. PartOK(evidence, k, c, s)
    BY <1>2, <1>3, <1>4 DEF BarrierOK, PartOK
  <2>4. barrier' = [barrier EXCEPT !.completion = [@ EXCEPT ![k] = c],
                                   !.member = [@ EXCEPT ![k] = s]]
    BY <1>2, <2>1 DEF Barrier
  <2>5. BarrierOK(evidence', input, barrier') /\ Grows
    BY <1>1, <1>3, <1>4, <2>2, <2>3, <2>4, PartWritten
  <2>6. TaskOK(evidence, input.valid, barrier'.completion, k, u) /\ UnsentOK(evidence, k, u)
        /\ u.step = "end"
    BY GotoIdle
  <2> HIDE DEF u
  <2>7. LedgerOK(evidence', input.valid)
    BY <1>1, TaskFacts
  <2>8. IInv'
    BY <1>1, <2>1, <2>5, <2>6, <2>7, TaskStep DEF Grows
  <2> QED
    BY <2>5, <2>8
<1>5. CASE ~(c.status = s /\ barrier.member[k] \in {None, s})
  <2> DEFINE v == [t EXCEPT !.step = "raised"]
  <2>1. Set(p, k, v) /\ UNCHANGED barrier
    BY <1>5 DEF SubmitMember, Goto
  <2>2. /\ TaskOK(evidence, input.valid, barrier.completion, k, v)
        /\ UnsentOK(evidence, k, v) /\ v.step = "raised"
    BY GotoIdle
  <2> HIDE DEF v
  <2>3. IInv'
    BY <1>1, <2>1, <2>2, LocalTask
  <2> QED
    BY <1>1, <2>1, <2>3, GrowsStill
<1> QED
  BY <1>4, <1>5

-----------------------------------------------------------------------------
(* Cancellation.                                                           *)

LEMMA CancelWaitingStep ==
    ASSUME IInv, NEW p \in Procs, NEW k \in Parts, CancelWaiting(p, k),
           NoFault, UNCHANGED <<barrier, proc>>
    PROVE  IInv' /\ Grows
<1> DEFINE t == task[p][k]
           o == Fail("CANCELLED")
           u == [t EXCEPT !.step = "gone"]
           q == bucket[p].queue \ {k}
<1>1. /\ input' = input /\ faults' \in 0..MaxFaults
      /\ t.step \in {"gate", "queued", "expired"} /\ p \in input.procs /\ t \in Task
  BY FaultBound, TaskFacts DEF CancelWaiting, At
<1>2. t.att \in evidence.intent[k] /\ t.att \in Attempts
  BY <1>1, TaskFacts DEF TaskOK, Begun
<1>3. o \in Outcomes /\ o.status = "CANCELLED"
  BY FailIsOutcome DEF Statuses
<1>4. /\ evidence' = IF Storable(k, t.att, o) THEN Ended(evidence, k, t.att, o) ELSE evidence
      /\ Set(p, k, u)
      /\ bucket' = [bucket EXCEPT ![p] = [queue |-> q, timer |-> @.timer /\ q # {}]]
  BY DEF CancelWaiting, WithTerminal, Ended, Goto
<1> HIDE DEF o
<1>5. /\ LedgerOK(evidence', input.valid) /\ Extends(evidence, evidence')
      /\ \A j \in Parts \ {k} : evidence'.terminal[j] = evidence.terminal[j]
  <2>1. CASE Storable(k, t.att, o)
    <3>1. evidence.terminal[k][t.att] = None /\ evidence.raw[k][t.att] \in {None, o.raw}
      BY <2>1 DEF Storable, Retains, Terminal, Raw
    <3> QED
      BY <1>2, <1>3, <1>4, <2>1, <3>1, EndedOK, TaskFacts
  <2>2. CASE ~Storable(k, t.att, o)
    BY <1>4, <2>2, ExtendsItself, TaskFacts
  <2> QED
    BY <2>1, <2>2
<1>6. BarrierOK(evidence', input, barrier')
  BY <1>5, BarrierStable, TaskFacts
<1>7. u \in Task /\ u.step = "gone" /\ u.att = t.att
  BY <1>1 DEF Task, Steps
<1> HIDE DEF u
<1>8. /\ task' \in [Procs -> [Parts -> Task]] /\ task'[p][k] = u
      /\ \A r \in Procs \ {p} : task'[r] = task[r]
      /\ \A j \in Parts \ {k} : task'[p][j] = task[p][j]
  BY <1>4, <1>7 DEF Set, IInv
<1>9. /\ bucket' \in [Procs -> [queue: SUBSET Parts, timer: BOOLEAN]]
      /\ bucket'[p].queue = q
      /\ \A r \in Procs \ {p} : bucket'[r] = bucket[r]
  <2> DEFINE b == [queue |-> q, timer |-> bucket[p].timer /\ q # {}]
  <2>1. q \in SUBSET Parts /\ (bucket[p].timer /\ q # {}) \in BOOLEAN
    BY QueueFacts
  <2>2. b \in [queue: SUBSET Parts, timer: BOOLEAN] /\ b.queue = q
    BY <2>1
  <2>3. bucket' = [bucket EXCEPT ![p] = b]
    BY <1>4
  <2> HIDE DEF b
  <2> QED
    BY <2>2, <2>3 DEF IInv
<1>10. ASSUME NEW j \in Parts
       PROVE  TaskOK(evidence', input.valid, barrier'.completion, j, task'[p][j])
  <2>1. TaskOK(evidence', input.valid, barrier.completion, j, task[p][j])
    BY <1>5, TaskStable, TaskFacts DEF Keeps
  <2>2. CASE j = k
    BY <1>7, <1>8, <2>1, <2>2 DEF TaskOK, Begun, Holding, Closing
  <2>3. CASE j # k
    BY <1>8, <2>1, <2>3
  <2> QED
    BY <2>2, <2>3
<1>11. QueueOK(bucket'[p].queue, task'[p])
  <2>1. \A j \in q : task'[p][j] = task[p][j] /\ j \in bucket[p].queue
    BY <1>8, QueueFacts
  <2>2. \A j \in Parts : task'[p][j].step \in {"look", "intent", "append", "gate"} =>
                          task'[p][j] = task[p][j]
    BY <1>7, <1>8
  <2> QED
    BY <1>9, <2>1, <2>2, QueueFacts DEF QueueOK
<1>12. ASSUME input.procs = {p}, NEW j \in Parts PROVE UnsentOK(evidence', j, task'[p][j])
  <2>1. CASE j = k
    BY <1>7, <1>8, <2>1 DEF UnsentOK
  <2>2. CASE j # k
    BY <1>5, <1>8, <1>12, <2>2 DEF IInv, UnsentOK
  <2> QED
    BY <2>1, <2>2
<1>13. /\ \A j \in Parts : Keeps(barrier.completion[j], barrier'.completion[j])
       /\ proc' \in [Procs -> Phases]
  BY DEF Keeps, IInv
<1>14. IInv'
  BY <1>1, <1>5, <1>6, <1>8, <1>9, <1>10, <1>11, <1>12, <1>13, ProcessStep
<1> QED
  BY <1>5, <1>14, GrowsLedger

LEMMA CancelStep ==
    ASSUME IInv, NEW p \in Procs, NEW k \in Parts, Cancel(p, k)
    PROVE  IInv' /\ Grows
<1> DEFINE t == task[p][k]
<1>1. /\ input' = input /\ faults' \in 0..MaxFaults
      /\ NoFault /\ UNCHANGED <<barrier, proc>> /\ t \in Task
  BY FaultBound, TaskFacts DEF Cancel
<1>2. CASE CancelEarly(p, k)
  <2> DEFINE u == [t EXCEPT !.step = "gone"]
  <2>1. Set(p, k, u) /\ UNCHANGED <<evidence, bucket>> /\ t.step # "queued"
    BY <1>2 DEF CancelEarly, Goto, At
  <2>2. /\ TaskOK(evidence, input.valid, barrier.completion, k, u)
        /\ UnsentOK(evidence, k, u) /\ u.step = "gone"
    BY GotoIdle
  <2> HIDE DEF u
  <2>3. IInv'
    BY <1>1, <2>1, <2>2, LocalTask
  <2> QED
    BY <1>1, <2>1, <2>3, GrowsStill
<1>3. CASE CancelWaiting(p, k)
  BY <1>1, <1>3, CancelWaitingStep
<1>4. CASE CancelFlying(p, k)
  <2> DEFINE u == [t EXCEPT !.late = TRUE]
  <2>1. Set(p, k, u) /\ UNCHANGED <<evidence, bucket>> /\ t.step \in {"flying", "persist"}
    BY <1>4 DEF CancelFlying, At
  <2>2. u \in Task /\ u.step = t.step /\ u.att = t.att /\ u.out = t.out
    BY <1>1 DEF Task
  <2> HIDE DEF u
  <2>3. TaskOK(evidence, input.valid, barrier.completion, k, u) /\ UnsentOK(evidence, k, u)
    BY <2>1, <2>2, TaskFacts DEF TaskOK, UnsentOK
  <2>4. IInv'
    BY <1>1, <2>1, <2>2, <2>3, LocalTask
  <2> QED
    BY <1>1, <2>1, <2>4, GrowsStill
<1> QED
  BY <1>2, <1>3, <1>4 DEF Cancel

-----------------------------------------------------------------------------
(* Processes.                                                              *)

\* A step of a process that leaves tasks, bucket and ledger alone.
LEMMA PhaseStep ==
    ASSUME IInv, NEW p \in Procs, NEW ph \in Phases, Enter(p, ph),
           NoFault \/ Fault, UNCHANGED <<evidence, task, bucket>>,
           BarrierOK(evidence, input, barrier'),
           barrier'.completion = barrier.completion,
           barrier'.member = barrier.member, barrier'.reduction = barrier.reduction
    PROVE  IInv' /\ Grows
<1>1. input' = input /\ faults' \in 0..MaxFaults
  BY FaultBound
<1>2. proc' \in [Procs -> Phases]
  BY DEF IInv, Enter
<1>3. Grows
  BY ExtendsItself DEF Grows, Keeps
<1>4. IInv'
  BY <1>1, <1>2 DEF IInv
<1> QED
  BY <1>3, <1>4

LEMMA DeclareOK ==
    ASSUME IInv, NEW d \in {"NONE", "GENERIC", "DEFINED"},
           barrier' = [barrier EXCEPT !.declared = d]
    PROVE  /\ BarrierOK(evidence, input, barrier')
           /\ barrier'.completion = barrier.completion
           /\ barrier'.member = barrier.member /\ barrier'.reduction = barrier.reduction
<1>1. barrier \in Barrier
  BY DEF IInv, BarrierOK
<1>2. /\ barrier'.completion = barrier.completion /\ barrier' \in Barrier
      /\ barrier'.member = barrier.member /\ barrier'.reduction = barrier.reduction
  BY <1>1 DEF Barrier
<1> QED
  BY <1>2 DEF IInv, BarrierOK

\* A process ends: what it held in memory is gone.
LEMMA LeaveOK ==
    ASSUME IInv, NEW p \in Procs, Leave(p), NoFault \/ Fault, UNCHANGED evidence,
           BarrierOK(evidence, input, barrier'),
           barrier'.completion = barrier.completion,
           barrier'.member = barrier.member,
           Keeps(barrier.reduction, barrier'.reduction)
    PROVE  IInv' /\ Grows
<1>1. input' = input /\ faults' \in 0..MaxFaults
  BY FaultBound
<1>2. proc' \in [Procs -> Phases]
  BY DEF IInv, Leave, Enter, Phases
<1>3. 1 \in Attempts /\ \A b \in Attempts : ~(b < 1)
  BY InferenceAssumption DEF Attempts
<1>4. Fresh \in Task /\ Fresh.step = "look" /\ Fresh.att = 1 /\ Fresh.grp = {}
  BY <1>3 DEF Fresh, Task, Steps
<1>5. AllFresh \in [Parts -> Task] /\ \A k \in Parts : AllFresh[k] = Fresh
  BY <1>4 DEF AllFresh
<1>6. /\ task' \in [Procs -> [Parts -> Task]] /\ task'[p] = AllFresh
      /\ bucket' \in [Procs -> [queue: SUBSET Parts, timer: BOOLEAN]]
      /\ bucket'[p].queue = {}
      /\ \A q \in Procs \ {p} : bucket'[q] = bucket[q] /\ task'[q] = task[q]
  BY <1>5 DEF IInv, Leave, EmptyBucket
<1>7. \A k \in Parts : /\ TaskOK(evidence, input.valid, barrier'.completion, k, Fresh)
                       /\ UnsentOK(evidence, k, Fresh)
  BY <1>3, <1>4 DEF TaskOK, Begun, Holding, Closing, UnsentOK
<1>8. QueueOK(bucket'[p].queue, task'[p])
  BY <1>4, <1>5, <1>6 DEF QueueOK
<1>9. Grows
  BY ExtendsItself DEF Grows, Keeps
<1>10. LedgerOK(evidence', input.valid)
  BY DEF IInv
<1>11. \A k \in Parts :
          /\ TaskOK(evidence', input.valid, barrier'.completion, k, task'[p][k])
          /\ UnsentOK(evidence', k, task'[p][k])
  BY <1>5, <1>6, <1>7
<1>12. BarrierOK(evidence', input, barrier')
  OBVIOUS
<1>13. IInv'
  BY <1>1, <1>2, <1>6, <1>8, <1>9, <1>10, <1>11, <1>12, ProcessStep DEF Grows
<1> QED
  BY <1>9, <1>13

\* What a run that reduces has seen: every member succeeded, with lineage, and
\* no abstention is among claims.
Agreed(e, i, m) ==
    \A k \in i.parts :
       /\ m[k] = "SUCCEEDED" /\ k \in e.lineage
       /\ \A j \in i.parts : e.raw[k][e.selection[k]] \in i.abstains
                               => e.raw[j][e.selection[j]] \in i.abstains

ReducesOK == \A p \in Procs : proc[p] = "reduce" => Agreed(evidence, input, barrier.member)

\* A member that succeeded is the completion of the selected attempt.
LEMMA MemberSelected ==
    ASSUME IInv, NEW k \in input.parts, barrier.member[k] = "SUCCEEDED"
    PROVE  /\ k \in Parts /\ barrier.completion[k] \in Completion
           /\ evidence.selection[k] = barrier.completion[k].att
           /\ evidence.selection[k] \in Attempts /\ evidence.selection[k] # None
           /\ evidence.raw[k][evidence.selection[k]] # None
<1>1. k \in Parts /\ None \notin input.valid
  BY ValidBytes DEF IInv, Input
<1>2. barrier \in Barrier /\ PartOK(evidence, k, barrier.completion[k], barrier.member[k])
  BY <1>1 DEF IInv, BarrierOK
<1>3. "SUCCEEDED" # None
  BY InferenceAssumption DEF Statuses
<1>4. barrier.completion[k] # None /\ barrier.completion[k].status = "SUCCEEDED"
  BY <1>2, <1>3 DEF PartOK
<1>5. barrier.completion[k] \in Completion
  BY <1>1, <1>2, <1>4 DEF Barrier
<1>6. evidence.selection[k] = barrier.completion[k].att
  BY <1>2, <1>4 DEF PartOK, FinalAt
<1>7. evidence.selection[k] \in Attempts /\ evidence.selection[k] # None
  BY <1>5, <1>6, InferenceAssumption DEF Completion
<1> QED
  BY <1>1, <1>5, <1>6, <1>7, SelectedRaw DEF IInv

LEMMA AgreedStable ==
    ASSUME IInv, Grows, Agreed(evidence, input, barrier.member)
    PROVE  Agreed(evidence', input, barrier'.member)
<1>1. ASSUME NEW k \in input.parts
      PROVE  /\ barrier'.member[k] = "SUCCEEDED" /\ k \in evidence'.lineage
             /\ evidence'.raw[k][evidence'.selection[k]]
                    = evidence.raw[k][evidence.selection[k]]
  <2>1. barrier.member[k] = "SUCCEEDED" /\ k \in evidence.lineage
    BY DEF Agreed
  <2>2. /\ k \in Parts /\ evidence.selection[k] \in Attempts
        /\ evidence.selection[k] # None
        /\ evidence.raw[k][evidence.selection[k]] # None
    BY <2>1, MemberSelected
  <2>3. "SUCCEEDED" # None
    BY InferenceAssumption DEF Statuses
  <2>4. barrier'.member[k] = "SUCCEEDED" /\ k \in evidence'.lineage
    BY <2>1, <2>2, <2>3 DEF Grows, Extends, Keeps
  <2>5. evidence'.selection[k] = evidence.selection[k]
    BY <2>2 DEF Grows, Extends, Keeps
  <2>6. evidence'.raw[k][evidence.selection[k]] = evidence.raw[k][evidence.selection[k]]
    BY <2>2 DEF Grows, Extends, Keeps
  <2> QED
    BY <2>4, <2>5, <2>6
<1> QED
  BY <1>1 DEF Agreed

LEMMA AppendReductionStep ==
    ASSUME IInv, ReducesOK, NEW p \in Procs, AppendReduction(p)
    PROVE  IInv' /\ Grows
<1>1. Leave(p) /\ NoFault /\ UNCHANGED evidence /\ Agreed(evidence, input, barrier.member)
  BY DEF AppendReduction, ReducesOK
<1>2. barrier \in Barrier /\ BarrierOK(evidence, input, barrier)
  BY DEF IInv, BarrierOK
<1>3. CASE barrier.reduction = None
  <2> DEFINE r == [k \in Parts |-> IF k \in input.parts
                                   THEN barrier.completion[k].att ELSE 1]
  <2>1. barrier' = [barrier EXCEPT !.reduction = r]
    BY <1>3 DEF AppendReduction
  <2>2. input.parts \subseteq Parts
    BY ValidBytes DEF IInv, Input
  <2>3. \A k \in input.parts :
           /\ barrier.completion[k] \in Completion
           /\ evidence.selection[k] = barrier.completion[k].att
    BY <1>1, MemberSelected DEF Agreed
  <2>4. 1 \in Attempts
    BY InferenceAssumption DEF Attempts
  <2>5. r \in [Parts -> Attempts] /\ \A k \in input.parts : r[k] = evidence.selection[k]
    BY <2>2, <2>3, <2>4 DEF Completion
  <2> HIDE DEF r
  <2>6. /\ barrier' \in Barrier /\ barrier'.completion = barrier.completion
        /\ barrier'.member = barrier.member /\ barrier'.reduction = r
    BY <1>2, <2>1, <2>5 DEF Barrier
  <2>7. ReductionOK(evidence, input, r)
    BY <1>1, <2>5 DEF ReductionOK, Agreed
  <2>8. BarrierOK(evidence, input, barrier')
    BY <1>2, <2>6, <2>7 DEF BarrierOK
  <2>9. Keeps(barrier.reduction, barrier'.reduction)
    BY <1>3 DEF Keeps
  <2> QED
    BY <1>1, <2>6, <2>8, <2>9, LeaveOK
<1>4. CASE barrier.reduction # None
  <2>1. barrier' = barrier
    BY <1>2, <1>4 DEF AppendReduction, Barrier
  <2>2. Keeps(barrier.reduction, barrier'.reduction)
    BY <2>1 DEF Keeps
  <2> QED
    BY <1>1, <1>2, <2>1, <2>2, LeaveOK
<1> QED
  BY <1>3, <1>4

-----------------------------------------------------------------------------
(* The invariant.                                                          *)

LEMMA InitOK == Init => IInv
<1> SUFFICES ASSUME Init PROVE IInv
  OBVIOUS
<1>1. 1 \in Attempts /\ \A b \in Attempts : ~(b < 1)
  BY InferenceAssumption DEF Attempts
<1>2. Fresh \in Task /\ Fresh.step = "look" /\ Fresh.grp = {} /\ Fresh.att = 1
  BY <1>1 DEF Fresh, Task, Steps
<1>3. task \in [Procs -> [Parts -> Task]] /\ \A p \in Procs, k \in Parts : task[p][k] = Fresh
  BY <1>2 DEF Init, AllFresh
<1>4. \A p \in Procs : bucket[p] = [queue |-> {}, timer |-> FALSE]
  BY DEF Init, EmptyBucket
<1>5. bucket \in [Procs -> [queue: SUBSET Parts, timer: BOOLEAN]]
  BY DEF Init, EmptyBucket
<1>6. /\ evidence \in Evidence
      /\ \A k \in Parts : evidence.intent[k] = {} /\ evidence.selection[k] = None
      /\ \A k \in Parts, a \in Attempts : evidence.terminal[k][a] = None
  BY DEF Init, Evidence
<1>7. LedgerOK(evidence, input.valid)
  BY <1>6, InferenceAssumption DEF LedgerOK, AttemptOK
<1>8. /\ barrier \in Barrier /\ barrier.reduction = None
      /\ \A k \in Parts : barrier.completion[k] = None /\ barrier.member[k] = None
  BY DEF Init, Barrier
<1>9. BarrierOK(evidence, input, barrier)
  BY <1>8 DEF BarrierOK, PartOK, ReductionOK
<1>10. \A p \in Procs, k \in Parts :
          /\ TaskOK(evidence, input.valid, barrier.completion, k, task[p][k])
          /\ UnsentOK(evidence, k, task[p][k])
  BY <1>1, <1>2, <1>3 DEF TaskOK, Begun, Holding, Closing, UnsentOK
<1>11. \A p \in Procs : QueueOK(bucket[p].queue, task[p])
  BY <1>2, <1>3, <1>4 DEF QueueOK
<1>12. input \in Inputs /\ proc \in [Procs -> Phases] /\ faults \in 0..MaxFaults
  BY InferenceAssumption DEF Init, Phases
<1> QED
  BY <1>3, <1>5, <1>7, <1>9, <1>10, <1>11, <1>12 DEF IInv

\* Every step keeps the invariant and everything that was stored.
LEMMA NextOK ==
    ASSUME IInv, ReducesOK, [Next]_vars
    PROVE  IInv' /\ Grows
<1>1. CASE UNCHANGED vars
  <2>1. IInv'
    BY <1>1 DEF vars, IInv
  <2> QED
    BY <1>1, <2>1, GrowsStill DEF vars
<1>2. CASE Next
  <2>1. PICK p \in Procs : StepOf(p)
    BY <1>2 DEF Next
  <2>2. /\ barrier \in Barrier /\ BarrierOK(evidence, input, barrier)
        /\ {"create", "define", "bind", "up", "reduce", "stopping", "over"} = Phases
    BY DEF IInv, BarrierOK, Phases
  <2>3. CASE Rerun(p)
    BY <2>2, <2>3, PhaseStep DEF Rerun
  <2>4. CASE CreateBarrier(p)
    <3> DEFINE d == IF barrier.declared = "NONE" THEN "GENERIC" ELSE barrier.declared
    <3>1. /\ barrier' = [barrier EXCEPT !.declared = d]
          /\ d \in {"NONE", "GENERIC", "DEFINED"}
      BY <2>2, <2>4 DEF CreateBarrier, Barrier
    <3> HIDE DEF d
    <3> QED
      BY <2>2, <2>4, <3>1, DeclareOK, PhaseStep DEF CreateBarrier
  <2>5. CASE Define(p) \/ AppendDefinition(p)
    <3>1. CASE Define(p)
      <4>1. PICK ph \in {"up", "bind"} : Enter(p, ph)
        BY <3>1 DEF Define
      <4> QED
        BY <2>2, <3>1, <4>1, PhaseStep DEF Define
    <3>2. CASE AppendDefinition(p)
      BY <2>2, <3>2, DeclareOK, PhaseStep DEF AppendDefinition
    <3> QED
      BY <2>5, <3>1, <3>2
  <2>6. CASE Abort(p)
    BY <2>2, <2>6, PhaseStep DEF Abort
  <2>7. CASE Interrupt(p)
    BY <2>2, <2>7, PhaseStep DEF Interrupt
  <2>8. CASE Stopped(p)
    BY <2>2, <2>8, LeaveOK DEF Stopped, Keeps
  <2>9. CASE Reduce(p) \/ AppendReduction(p)
    <3>1. CASE Reduce(p) /\ Leave(p)
      BY <2>2, <3>1, LeaveOK DEF Reduce, Keeps
    <3>2. CASE Reduce(p) /\ Enter(p, "reduce") /\ UNCHANGED <<task, bucket>>
      BY <2>2, <3>2, PhaseStep DEF Reduce
    <3> QED
      BY <2>9, <3>1, <3>2, AppendReductionStep DEF Reduce
  <2>10. CASE Crash(p)
    BY <2>2, <2>10, LeaveOK DEF Crash, Keeps
  <2>11. CASE TimerFires(p)
    BY <2>11, TimerStep
  <2>12. CASE \E g \in Batches(p) : \/ TakeOff(p, g) \/ BatchExpires(p, g)
                                    \/ BatchTimesOut(p, g) \/ Settle(p, g)
    BY <2>12, TakeOffStep, BatchExpiresStep, BatchTimesOutStep, SettleStep
  <2>13. ASSUME NEW k \in Parts,
                \/ Look(p, k) \/ Intent(p, k) \/ AppendIntent(p, k)
                \/ GateFails(p, k) \/ Enqueue(p, k)
                \/ Answer(p, k) \/ Refusal(p, k) \/ Persist(p, k)
                \/ PersistAgain(p, k) \/ Lineage(p, k) \/ Complete(p, k)
                \/ SubmitMember(p, k) \/ Cancel(p, k)
         PROVE  IInv' /\ Grows
    BY <2>13, LookStep, IntentStep, AppendIntentStep, GateFailsStep, EnqueueStep, AnswerStep,
       RefusalStep, PersistStep, PersistAgainStep, LineageStep, CompleteStep,
       SubmitMemberStep, CancelStep
  <2> QED
    BY <2>1, <2>3, <2>4, <2>5, <2>6, <2>7, <2>8, <2>9, <2>10, <2>11, <2>12, <2>13
       DEF StepOf
<1> QED
  BY <1>1, <1>2

\* Who begins to reduce has seen that the parts agree.
LEMMA PhaseChange ==
    ASSUME IInv, [Next]_vars
    PROVE  /\ input' = input
           /\ \A p \in Procs : proc'[p] = "reduce" =>
                 proc[p] = "reduce" \/ Agreed(evidence, input, barrier.member)
<1>1. CASE UNCHANGED vars
  BY <1>1 DEF vars
<1>2. ASSUME NEW q \in Procs, StepOf(q)
      PROVE  /\ input' = input
             /\ \/ UNCHANGED proc
                \/ \E ph \in Phases \ {"reduce"} : Enter(q, ph)
                \/ Enter(q, "reduce") /\ Agreed(evidence, input, barrier.member)
  <2>1. CASE Rerun(q) \/ CreateBarrier(q) \/ Define(q) \/ AppendDefinition(q)
               \/ Abort(q) \/ Interrupt(q) \/ Stopped(q) \/ Crash(q)
               \/ AppendReduction(q)
    BY <2>1 DEF Rerun, CreateBarrier, Define, AppendDefinition, Abort, Interrupt,
       Stopped, Crash, AppendReduction, Leave, Phases, NoFault, Fault
  <2>2. CASE Reduce(q)
    <3>1. CASE Leave(q)
      BY <2>2, <3>1 DEF Reduce, Leave, Phases, NoFault
    <3>2. CASE /\ Closed /\ input.parts \subseteq evidence.lineage /\ Unanimous
               /\ Enter(q, "reduce")
      BY <2>2, <3>2 DEF Reduce, Closed, Unanimous, Raw, Agreed, NoFault
    <3> QED
      BY <2>2, <3>1, <3>2 DEF Reduce
  <2>3. CASE TimerFires(q)
    BY <2>3 DEF TimerFires, NoFault
  <2>4. ASSUME NEW g \in Batches(q), \/ TakeOff(q, g) \/ BatchExpires(q, g)
                                     \/ BatchTimesOut(q, g) \/ Settle(q, g)
        PROVE  input' = input /\ UNCHANGED proc
    BY <2>4 DEF TakeOff, BatchExpires, BatchTimesOut, Settle, NoFault, Fault
  <2>5. ASSUME NEW k \in Parts,
               \/ Look(q, k) \/ Intent(q, k) \/ AppendIntent(q, k)
               \/ GateFails(q, k) \/ Enqueue(q, k)
               \/ Answer(q, k) \/ Refusal(q, k) \/ Persist(q, k)
               \/ PersistAgain(q, k) \/ Lineage(q, k) \/ Complete(q, k)
               \/ SubmitMember(q, k) \/ Cancel(q, k)
        PROVE  input' = input /\ UNCHANGED proc
    BY <2>5 DEF Look, Intent, AppendIntent, GateFails, Enqueue, Answer, Refusal,
       Persist, PersistAgain, Lineage, Complete, SubmitMember, Cancel, NoFault, Fault
  <2> QED
    BY <1>2, <2>1, <2>2, <2>3, <2>4, <2>5 DEF StepOf
<1>3. ASSUME NEW q \in Procs, NEW ph, Enter(q, ph), NEW p \in Procs
      PROVE  proc'[p] = IF p = q THEN ph ELSE proc[p]
  BY <1>3 DEF Enter, IInv
<1> QED
  BY <1>1, <1>2, <1>3 DEF Next

LEMMA InvariantHolds == Spec => [](IInv /\ ReducesOK)
<1>1. Init => ReducesOK
  BY DEF Init, ReducesOK
<1>2. ASSUME IInv, ReducesOK, [Next]_vars PROVE IInv' /\ ReducesOK'
  <2>1. IInv' /\ Grows
    BY <1>2, NextOK
  <2>2. Agreed(evidence, input, barrier.member) => Agreed(evidence', input, barrier'.member)
    BY <1>2, <2>1, AgreedStable
  <2>3. /\ input' = input
        /\ \A p \in Procs : proc'[p] = "reduce" =>
              proc[p] = "reduce" \/ Agreed(evidence, input, barrier.member)
    BY <1>2, PhaseChange
  <2>4. \A p \in Procs : proc[p] = "reduce" => Agreed(evidence, input, barrier.member)
    BY <1>2 DEF ReducesOK
  <2>5. \A p \in Procs : proc'[p] = "reduce" => Agreed(evidence', input', barrier'.member)
    BY <2>2, <2>3, <2>4
  <2> QED
    BY <2>1, <2>5 DEF ReducesOK
<1> QED
  BY InitOK, <1>1, <1>2, PTL DEF Spec

-----------------------------------------------------------------------------
(* The properties.                                                         *)

\* Every variable keeps its type, through every crash, cancellation and
\* conflict of processes that work on the same parts.
THEOREM TypeCorrect == Spec => []TypeOK
<1>1. ASSUME IInv PROVE TypeOK
  <2>1. /\ evidence \in Evidence /\ barrier \in Barrier
        /\ task \in [Procs -> [Parts -> Task]]
    BY <1>1 DEF IInv, LedgerOK, BarrierOK
  <2> QED
    BY <1>1, <2>1 DEF IInv, TypeOK, Evidence, Raw, Terminal
<1> QED
  BY <1>1, InvariantHolds, PTL

\* The evidence of an attempt is a chain, and a further attempt follows only
\* one that ended retryably (append_intent, append, append_terminal).
THEOREM EvidenceIsChained == Spec => []EvidenceChain
<1>1. ASSUME IInv PROVE EvidenceChain
  <2> SUFFICES ASSUME NEW k \in Parts, NEW a \in Attempts
               PROVE  /\ Terminal(k, a) # None =>
                            /\ a \in evidence.intent[k]
                            /\ Raw(k, a) \in {None, Terminal(k, a).raw}
                            /\ Terminal(k, a).status = "SUCCEEDED" =>
                                  Raw(k, a) \in input.valid
                      /\ a + 1 \in evidence.intent[k] =>
                            /\ Terminal(k, a) # None
                            /\ Terminal(k, a).status \in {"RETRYABLE", "CANCELLED"}
    BY DEF EvidenceChain
  <2>1. LedgerOK(evidence, input.valid) /\ evidence \in Evidence
    BY <1>1 DEF IInv, LedgerOK
  <2>2. AttemptOK(evidence, input.valid, k, a)
    BY <2>1 DEF LedgerOK
  <2>3. ASSUME a + 1 \in evidence.intent[k] PROVE RetryableAt(evidence, k, a)
    <3>1. a + 1 \in Attempts /\ a < a + 1
      BY <2>1, <2>3 DEF Evidence, Attempts
    <3>2. AttemptOK(evidence, input.valid, k, a + 1)
      BY <2>1, <3>1 DEF LedgerOK
    <3> QED
      BY <2>3, <3>1, <3>2 DEF AttemptOK
  <2> QED
    BY <2>2, <2>3 DEF AttemptOK, Terminal, Raw, RetryableAt
<1> QED
  BY <1>1, InvariantHolds, PTL

\* A part that ended for good without a success has no selection: an attempt
\* after its last one does not exist, and those before ended retryably.
LEMMA FinalFailure ==
    ASSUME NEW e, NEW valid, LedgerOK(e, valid), NEW k \in Parts, NEW a \in Attempts,
           FinalAt(e, k, a), e.terminal[k][a].status # "SUCCEEDED"
    PROVE  e.selection[k] = None
<1> DEFINE s == e.selection[k]
<1> SUFFICES ASSUME s # None PROVE FALSE
  OBVIOUS
<1>1. s \in Attempts
  BY DEF LedgerOK, Evidence
<1>2. AttemptOK(e, valid, k, s) /\ AttemptOK(e, valid, k, a)
  BY <1>1 DEF LedgerOK
<1>3. /\ e.terminal[k][s] # None /\ e.terminal[k][s].status = "SUCCEEDED"
      /\ s \in e.intent[k] /\ a \in e.intent[k]
  BY <1>2 DEF AttemptOK, FinalAt
<1>4. CASE s < a
  BY <1>1, <1>2, <1>3, <1>4 DEF AttemptOK, RetryableAt
<1>5. CASE a < s
  <2>1. RetryableAt(e, k, a)
    BY <1>2, <1>3, <1>5 DEF AttemptOK
  <2>2. a = MaxAttempts
    BY <2>1 DEF FinalAt, RetryableAt
  <2> QED
    BY <1>1, <1>5, <2>2, InferenceAssumption DEF Attempts
<1>6. s # a
  BY <1>3
<1> QED
  BY <1>1, <1>4, <1>5, <1>6 DEF Attempts

\* Evidence ledger and barrier tables tell one story of every part, whichever
\* processes wrote it (submit_part_terminal, submit_member, reduce).
THEOREM OutcomesAgree == Spec => []OneOutcome
<1>1. ASSUME IInv PROVE OneOutcome
  <2>1. /\ LedgerOK(evidence, input.valid) /\ evidence \in Evidence
        /\ BarrierOK(evidence, input, barrier) /\ barrier \in Barrier
    BY <1>1 DEF IInv, LedgerOK, BarrierOK
  <2>2. ASSUME NEW k \in Parts, evidence.selection[k] # None
        PROVE  Terminal(k, evidence.selection[k]).status = "SUCCEEDED"
    <3>1. evidence.selection[k] \in Attempts
      BY <2>1, <2>2 DEF Evidence
    <3>2. AttemptOK(evidence, input.valid, k, evidence.selection[k])
      BY <2>1, <3>1 DEF LedgerOK
    <3> QED
      BY <3>2 DEF AttemptOK, Terminal
  <2>3. ASSUME NEW k \in Parts
        PROVE  LET s == evidence.selection[k]
                   c == barrier.completion[k]
               IN  /\ c # None =>
                        /\ Terminal(k, c.att) # None
                        /\ Terminal(k, c.att).status = c.status
                        /\ s = (IF c.status = "SUCCEEDED" THEN c.att ELSE None)
                        /\ c.status \in {"RETRYABLE", "CANCELLED"} => c.att = MaxAttempts
                   /\ barrier.member[k] # None => c # None /\ barrier.member[k] = c.status
    <3> DEFINE c == barrier.completion[k]
    <3>1. PartOK(evidence, k, c, barrier.member[k])
      BY <2>1 DEF BarrierOK
    <3>2. CASE c = None
      BY <3>1, <3>2 DEF PartOK
    <3>3. CASE c # None
      <4>1. c.att \in Attempts
        BY <2>1, <3>3 DEF Barrier, Completion
      <4>2. FinalAt(evidence, k, c.att) /\ evidence.terminal[k][c.att].status = c.status
        BY <3>1, <3>3 DEF PartOK
      <4>3. c.status # "SUCCEEDED" => evidence.selection[k] = None
        BY <2>1, <4>1, <4>2, FinalFailure
      <4> QED
        BY <3>1, <3>3, <4>2, <4>3 DEF PartOK, FinalAt, Terminal
    <3> QED
      BY <3>2, <3>3
  <2>4. ReductionOK(evidence, input, barrier.reduction)
    BY <2>1 DEF BarrierOK
  <2> QED
    BY <2>2, <2>3, <2>4 DEF OneOutcome, ReductionOK, Raw
<1> QED
  BY <1>1, InvariantHolds, PTL

\* No step changes a fact that was stored: every write of the evidence ledger
\* and of the barrier tables replays or conflicts.
THEOREM StoredFactsAreFinal == Spec => FactsAreFinal
<1>1. ASSUME IInv, ReducesOK, [Next]_vars
      PROVE  [/\ \A k \in Parts :
                    /\ \A a \in Attempts : /\ Keeps(Raw(k, a), Raw(k, a)')
                                           /\ Keeps(Terminal(k, a), Terminal(k, a)')
                    /\ Keeps(evidence.selection[k], evidence.selection'[k])
                    /\ Keeps(barrier.completion[k], barrier.completion'[k])
                    /\ Keeps(barrier.member[k], barrier.member'[k])
              /\ Keeps(barrier.reduction, barrier.reduction')
             ]_<<evidence, barrier>>
  <2>1. Grows
    BY <1>1, NextOK
  <2> QED
    BY <2>1 DEF Grows, Extends, Raw, Terminal
<1> QED
  BY <1>1, InvariantHolds, PTL DEF Spec, FactsAreFinal

-----------------------------------------------------------------------------
(* What is sent to the provider.                                           *)

\* A request that is sent now was queued before.
FromQueue == \A p \in Procs, k \in Parts :
                task'[p][k].step = "flying" => task[p][k].step \in {"flying", "queued"}

LEMMA SetFromQueue ==
    ASSUME IInv, NEW p \in Procs, NEW k \in Parts, NEW t, Set(p, k, t),
           t.step = "flying" => task[p][k].step = "flying"
    PROVE  FromQueue
<1>1. task \in [Procs -> [Parts -> Task]]
  BY DEF IInv
<1>2. \A q \in Procs, j \in Parts : task'[q][j] = IF q = p /\ j = k THEN t ELSE task[q][j]
  BY <1>1 DEF Set
<1> QED
  BY <1>2 DEF FromQueue

LEMMA GotoFromQueue ==
    ASSUME IInv, NEW p \in Procs, NEW k \in Parts, NEW st, Goto(p, k, st), st # "flying"
    PROVE  FromQueue
<1> DEFINE u == [task[p][k] EXCEPT !.step = st]
<1>1. task[p][k] \in Task
  BY TaskFacts
<1>2. Set(p, k, u) /\ u.step = st
  BY <1>1 DEF Goto, Task
<1> HIDE DEF u
<1> QED
  BY <1>2, SetFromQueue

LEMMA AfterFromQueue ==
    ASSUME IInv, NEW p \in Procs, NEW k \in Parts, NEW t \in Task, NEW o, NEW e,
           Set(p, k, After(t, k, o, e))
    PROVE  FromQueue
<1> DEFINE u == After(t, k, o, e)
<1>1. u.step # "flying"
  BY DEF After, Task
<1> HIDE DEF u
<1> QED
  BY <1>1, SetFromQueue DEF u

LEMMA LaunchFromQueue ==
    ASSUME IInv, NEW p \in Procs, NEW q, task' = [task EXCEPT ![p] = Launch(p, q)]
    PROVE  FromQueue
<1>1. ASSUME NEW k \in Parts
      PROVE  Launch(p, q)[k].step = "flying" => task[p][k].step = "flying"
  <2>1. task[p][k] \in Task
    BY TaskFacts
  <2> QED
    BY <2>1 DEF Launch, Task
<1>2. task \in [Procs -> [Parts -> Task]]
  BY DEF IInv
<1>3. \A r \in Procs, k \in Parts : task'[r][k] = IF r = p THEN Launch(p, q)[k] ELSE task[r][k]
  BY <1>2
<1> QED
  BY <1>1, <1>3 DEF FromQueue

LEMMA ResolveFromQueue ==
    ASSUME IInv, NEW p \in Procs, NEW ks, NEW st, NEW o, Resolve(p, ks, st, o),
           st = "flying" => \A k \in ks : task[p][k].step = "queued"
    PROVE  FromQueue
<1> DEFINE ts == [k \in Parts |->
                    IF k \in ks THEN [task[p][k] EXCEPT !.step = st, !.out = o[k]]
                                ELSE task[p][k]]
<1>1. ASSUME NEW k \in Parts
      PROVE  ts[k].step = "flying" => task[p][k].step \in {"flying", "queued"}
  <2>1. task[p][k] \in Task
    BY TaskFacts
  <2>2. CASE k \in ks
    <3>1. ts[k] = [task[p][k] EXCEPT !.step = st, !.out = o[k]]
      BY <2>2
    <3>2. ts[k].step = st
      BY <2>1, <3>1 DEF Task
    <3> QED
      BY <2>2, <3>2
  <2>3. CASE k \notin ks
    BY <2>3
  <2> QED
    BY <2>2, <2>3
<1>2. task' = [task EXCEPT ![p] = ts]
  BY DEF Resolve
<1> HIDE DEF ts
<1>3. task \in [Procs -> [Parts -> Task]]
  BY DEF IInv
<1>4. \A r \in Procs, k \in Parts : task'[r][k] = IF r = p THEN ts[k] ELSE task[r][k]
  BY <1>2, <1>3
<1> QED
  BY <1>1, <1>4 DEF FromQueue

LEMMA LeaveFromQueue ==
    ASSUME IInv, NEW p \in Procs, Leave(p)
    PROVE  FromQueue
<1>1. task \in [Procs -> [Parts -> Task]]
  BY DEF IInv
<1>2. \A r \in Procs, k \in Parts : task'[r][k] = IF r = p THEN Fresh ELSE task[r][k]
  BY <1>1 DEF Leave, AllFresh
<1> QED
  BY <1>2 DEF FromQueue, Fresh

\* Only a queued task is sent.
LEMMA OnlyQueuedTakeOff ==
    ASSUME IInv, [Next]_vars
    PROVE  FromQueue
<1>1. CASE UNCHANGED task
  BY <1>1 DEF FromQueue
<1>2. CASE Next
  <2>1. PICK p \in Procs : StepOf(p)
    BY <1>2 DEF Next
  <2>2. CASE Rerun(p) \/ CreateBarrier(p) \/ Define(p) \/ AppendDefinition(p)
               \/ Abort(p) \/ Interrupt(p)
    BY <1>1, <2>2 DEF Rerun, CreateBarrier, Define, AppendDefinition, Abort, Interrupt
  <2>3. CASE Stopped(p) \/ Reduce(p) \/ AppendReduction(p) \/ Crash(p)
    BY <1>1, <2>3, LeaveFromQueue DEF Stopped, Reduce, AppendReduction, Crash
  <2>4. CASE TimerFires(p)
    BY <2>4, LaunchFromQueue DEF TimerFires
  <2>5. ASSUME NEW g \in Batches(p),
               TakeOff(p, g) \/ BatchExpires(p, g) \/ BatchTimesOut(p, g) \/ Settle(p, g)
        PROVE  FromQueue
    <3>1. CASE TakeOff(p, g)
      BY <3>1, MemberFacts, ResolveFromQueue DEF TakeOff
    <3>2. CASE BatchExpires(p, g) \/ BatchTimesOut(p, g) \/ Settle(p, g)
      BY <3>2, ResolveFromQueue DEF BatchExpires, BatchTimesOut, Settle
    <3> QED
      BY <2>5, <3>1, <3>2
  <2>6. ASSUME NEW k \in Parts,
               \/ Look(p, k) \/ Intent(p, k) \/ AppendIntent(p, k)
               \/ GateFails(p, k) \/ Enqueue(p, k)
               \/ Answer(p, k) \/ Refusal(p, k) \/ Persist(p, k)
               \/ PersistAgain(p, k) \/ Lineage(p, k) \/ Complete(p, k)
               \/ SubmitMember(p, k) \/ Cancel(p, k)
        PROVE  FromQueue
    <3> DEFINE t == task[p][k]
    <3>1. t \in Task /\ t.att \in Attempts
      BY TaskFacts
    <3>2. CASE Look(p, k)
      <4> DEFINE t0 == [Fresh EXCEPT !.att = evidence.selection[k]]
      <4>1. CASE evidence.selection[k] # None
        <5>1. evidence.selection[k] \in Attempts
          BY <4>1, TaskFacts DEF LedgerOK, Evidence
        <5>2. t0 \in Task
          BY <5>1 DEF Fresh, Task, Steps
        <5>3. Set(p, k, After(t0, k, Terminal(k, evidence.selection[k]), evidence))
          BY <3>2, <4>1 DEF Look
        <5> HIDE DEF t0
        <5> QED
          BY <5>2, <5>3, AfterFromQueue
      <4>2. CASE evidence.selection[k] = None
        BY <3>2, <4>2, GotoFromQueue DEF Look
      <4> QED
        BY <4>1, <4>2
    <3>3. CASE Intent(p, k) \/ AppendIntent(p, k)
      <4>1. ASSUME Resume(p, k), ExistingTerminal(k, t.att) = None PROVE FromQueue
        <5>1. Goto(p, k, "gate")
          BY <4>1 DEF Resume, Goto
        <5> QED
          BY <5>1, GotoFromQueue
      <4>2. ASSUME Resume(p, k), ExistingTerminal(k, t.att) # None PROVE FromQueue
        <5>1. Set(p, k, After(t, k, ExistingTerminal(k, t.att), evidence'))
          BY <4>2 DEF Resume
        <5> QED
          BY <3>1, <5>1, AfterFromQueue
      <4> QED
        BY <3>3, <4>1, <4>2, GotoFromQueue DEF Intent, AppendIntent
    <3>4. CASE GateFails(p, k)
      <4> DEFINE o == Fail("RETRYABLE")
                 u == [t EXCEPT !.step = "persist", !.out = o]
      <4>1. Set(p, k, u)
        BY <3>4 DEF GateFails
      <4> HIDE DEF o
      <4>2. u.step = "persist"
        BY <3>1 DEF Task
      <4> HIDE DEF u
      <4> QED
        BY <4>1, <4>2, SetFromQueue
    <3>5. CASE Enqueue(p, k)
      BY <3>5, GotoFromQueue, LaunchFromQueue DEF Enqueue
    <3>6. CASE Answer(p, k)
      <4>1. PICK u : Set(p, k, u)
        BY <3>6 DEF Answer
      <4>2. t.step = "flying"
        BY <3>6 DEF Answer, At
      <4> QED
        BY <4>1, <4>2, SetFromQueue
    <3>7. CASE Refusal(p, k)
      <4>1. PICK u : Set(p, k, u)
        BY <3>7 DEF Refusal
      <4>2. t.step = "flying"
        BY <3>7 DEF Refusal, At
      <4> QED
        BY <4>1, <4>2, SetFromQueue
    <3>8. CASE Persist(p, k) \/ PersistAgain(p, k)
      BY <3>1, <3>8, AfterFromQueue, GotoFromQueue DEF Persist, PersistAgain
    <3>9. CASE Lineage(p, k) \/ Complete(p, k) \/ SubmitMember(p, k)
      BY <3>9, GotoFromQueue DEF Lineage, Complete, SubmitMember
    <3>10. CASE Cancel(p, k)
      <4>1. CASE CancelEarly(p, k) \/ CancelWaiting(p, k)
        BY <4>1, GotoFromQueue DEF CancelEarly, CancelWaiting
      <4>2. CASE CancelFlying(p, k)
        <5> DEFINE u == [t EXCEPT !.late = TRUE]
        <5>1. Set(p, k, u)
          BY <4>2 DEF CancelFlying
        <5>2. u.step = t.step
          BY <3>1 DEF Task
        <5> HIDE DEF u
        <5> QED
          BY <5>1, <5>2, SetFromQueue
      <4> QED
        BY <3>10, <4>1, <4>2 DEF Cancel
    <3> QED
      BY <2>6, <3>2, <3>3, <3>4, <3>5, <3>6, <3>7, <3>8, <3>9, <3>10
  <2> QED
    BY <2>1, <2>2, <2>3, <2>4, <2>5, <2>6 DEF StepOf
<1> QED
  BY <1>1, <1>2 DEF vars

\* An attempt without a terminal has no selected output next to it.
LEMMA OpenUnselected ==
    ASSUME NEW e, NEW valid, LedgerOK(e, valid), NEW k \in Parts, NEW a \in Attempts,
           e.terminal[k][a] = None, \A b \in Attempts : b < a => RetryableAt(e, k, b)
    PROVE  e.selection[k] = None
<1> DEFINE s == e.selection[k]
<1> SUFFICES ASSUME s # None PROVE FALSE
  OBVIOUS
<1>1. s \in Attempts
  BY DEF LedgerOK, Evidence
<1>2. AttemptOK(e, valid, k, s)
  BY <1>1 DEF LedgerOK
<1>3. /\ e.terminal[k][s] # None /\ e.terminal[k][s].status = "SUCCEEDED"
      /\ s \in e.intent[k]
  BY <1>2 DEF AttemptOK
<1>4. ~(s < a) /\ ~(a < s) /\ s # a
  BY <1>1, <1>2, <1>3 DEF AttemptOK, RetryableAt
<1> QED
  BY <1>1, <1>4 DEF Attempts

\* A run that one process repeats sends no request whose attempt has ended,
\* and none for a part that has a selected output.
THEOREM SettledIsNotRepeated == Spec => SettledNotRepeated
<1>1. ASSUME IInv, [Next]_vars
      PROVE  [Cardinality(input.procs) = 1 =>
                \A p \in input.procs, k \in input.parts :
                   task[p][k].step # "flying" /\ task'[p][k].step = "flying" =>
                      Terminal(k, task[p][k].att) = None /\ evidence.selection[k] = None
             ]_vars
  <2> SUFFICES ASSUME Cardinality(input.procs) = 1,
                      NEW p \in input.procs, NEW k \in input.parts,
                      task[p][k].step # "flying", task'[p][k].step = "flying"
               PROVE  Terminal(k, task[p][k].att) = None /\ evidence.selection[k] = None
    OBVIOUS
  <2>1. input \in Input /\ input.procs \subseteq Procs /\ input.parts \subseteq Parts
    BY <1>1, ValidBytes DEF IInv, Input
  <2>2. IsFiniteSet(input.procs)
    BY <2>1, InferenceAssumption, FS_Subset
  <2>3. input.procs = {p}
    <3>1. PICK r : input.procs = {r}
      BY <2>2, FS_Singleton
    <3> QED
      BY <3>1
  <2>4. task[p][k].step = "queued"
    BY <1>1, <2>1, OnlyQueuedTakeOff DEF FromQueue
  <2>5. UnsentOK(evidence, k, task[p][k])
    BY <1>1, <2>1, <2>3 DEF IInv
  <2>6. Terminal(k, task[p][k].att) = None
    BY <2>4, <2>5 DEF UnsentOK, Terminal
  <2>7. evidence.selection[k] = None
    BY <1>1, <2>1, <2>6, OpenUnselected, TaskFacts DEF Terminal
  <2> QED
    BY <2>6, <2>7
<1> QED
  BY <1>1, InvariantHolds, PTL DEF Spec, SettledNotRepeated

=============================================================================
