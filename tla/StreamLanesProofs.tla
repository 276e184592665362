------------------------- MODULE StreamLanesProofs -------------------------
(***************************************************************************)
(* Proofs about StreamLanes for every number of items, threads, attempts   *)
(* and capacities.                                                         *)
(*                                                                         *)
(* A notification is a token: it enters with an admission, moves from a    *)
(* queue to a thread and on, and leaves with _finish_scheduled.  The       *)
(* tokens of an item are counted.                                          *)
(***************************************************************************)
EXTENDS StreamLanes, FiniteSetTheorems, FunctionTheorems, TLAPS

-----------------------------------------------------------------------------
(* Counting.                                                               *)

\* Two sets that agree but for one element.
LEMMA OneChange ==
    ASSUME NEW A, NEW B, NEW x, IsFiniteSet(A), \A y : y # x => (y \in A <=> y \in B)
    PROVE  /\ IsFiniteSet(B)
           /\ Cardinality(B) + (IF x \in A THEN 1 ELSE 0)
                = Cardinality(A) + (IF x \in B THEN 1 ELSE 0)
           /\ Cardinality(A) \in Nat /\ Cardinality(B) \in Nat
  <1>0. Cardinality(A) \in Nat
    BY FS_CardinalityType
  <1>1. CASE x \in A <=> x \in B
    <2>1. A = B
      BY <1>1
    <2> QED
      BY <1>0, <2>1
  <1>2. CASE x \in A /\ x \notin B
    <2>1. B = A \ {x}
      BY <1>2
    <2>2. IsFiniteSet(B) /\ Cardinality(B) = Cardinality(A) - 1
      BY <1>2, <2>1, FS_RemoveElement
    <2>3. Cardinality(B) \in Nat
      BY <2>2, FS_CardinalityType
    <2> QED
      BY <1>0, <1>2, <2>2, <2>3
  <1>3. CASE x \notin A /\ x \in B
    <2>1. B = A \cup {x}
      BY <1>3
    <2>2. IsFiniteSet(B) /\ Cardinality(B) = Cardinality(A) + 1
      BY <1>3, <2>1, FS_AddElement
    <2>3. Cardinality(B) \in Nat
      BY <2>2, FS_CardinalityType
    <2> QED
      BY <1>0, <1>3, <2>2, <2>3
  <1> QED
    BY <1>1, <1>2, <1>3

\* The positions at which a sequence has an element of G.
Positions(s, G) == {k \in 1..Len(s) : s[k] \in G}
Count(s, G) == Cardinality(Positions(s, G))

LEMMA CountType ==
    ASSUME NEW T, NEW s \in Seq(T), NEW G
    PROVE  /\ IsFiniteSet(Positions(s, G)) /\ Count(s, G) \in Nat
           /\ s = << >> => Count(s, G) = 0
  <1>1. Len(s) \in Nat /\ IsFiniteSet(1..Len(s))
    BY FS_Interval
  <1>2. Positions(s, G) \in SUBSET (1..Len(s))
    BY DEF Positions
  <1>3. IsFiniteSet(Positions(s, G))
    BY <1>1, <1>2, FS_Subset
  <1>4. s = << >> => Positions(s, G) = {}
    BY DEF Positions
  <1> QED
    BY <1>3, <1>4, FS_CardinalityType, FS_EmptySet DEF Count

LEMMA CountAppend ==
    ASSUME NEW T, NEW s \in Seq(T), NEW x \in T, NEW G
    PROVE  Count(Append(s, x), G) = Count(s, G) + (IF x \in G THEN 1 ELSE 0)
  <1> DEFINE q == Append(s, x)
             n == Len(s) + 1
             A == Positions(s, G)
             B == Positions(q, G)
  <1>1. q \in Seq(T) /\ Len(q) = n /\ n \in Nat
        /\ \A k \in 1..Len(s) : q[k] = s[k]
    OBVIOUS
  <1>2. q[n] = x
    OBVIOUS
  <1> HIDE DEF q
  <1>3. n \notin A /\ (n \in B <=> x \in G)
    BY <1>1, <1>2 DEF Positions
  <1>4. \A y : y # n => (y \in A <=> y \in B)
    BY <1>1 DEF Positions
  <1>5. IsFiniteSet(A)
    BY CountType
  <1> HIDE DEF A, B, n
  <1>6. /\ Cardinality(B) + (IF n \in A THEN 1 ELSE 0)
              = Cardinality(A) + (IF n \in B THEN 1 ELSE 0)
        /\ Cardinality(A) \in Nat /\ Cardinality(B) \in Nat
    BY <1>4, <1>5, OneChange
  <1>7. Cardinality(B) = Cardinality(A) + (IF x \in G THEN 1 ELSE 0)
    BY <1>3, <1>6
  <1> QED
    BY <1>7 DEF A, B, q, Count

LEMMA CountTail ==
    ASSUME NEW T, NEW s \in Seq(T), s # << >>, NEW G
    PROVE  Count(Tail(s), G) + (IF Head(s) \in G THEN 1 ELSE 0) = Count(s, G)
  <1> DEFINE q == Tail(s)
             A == Positions(s, G)
             B == {k \in A : k # 1}
             C == Positions(q, G)
             f == [k \in C |-> k + 1]
  <1>1. /\ q \in Seq(T) /\ Len(s) \in Nat \ {0} /\ Len(q) = Len(s) - 1
        /\ \A k \in 1..Len(q) : q[k] = s[k + 1]
    OBVIOUS
  <1>2. Head(s) = s[1]
    OBVIOUS
  <1> HIDE DEF q
  <1>3. f \in [C -> B]
    BY <1>1 DEF Positions
  <1>4. \A a, b \in C : f[a] = f[b] => a = b
    BY <1>1 DEF Positions
  <1>5. ASSUME NEW b \in B PROVE \E a \in C : f[a] = b
    <2>1. b - 1 \in C /\ b \in Nat
      BY <1>1 DEF Positions
    <2>2. f[b - 1] = b
      BY <2>1
    <2> QED
      BY <2>1, <2>2
  <1>6. IsFiniteSet(A) /\ IsFiniteSet(C)
    BY <1>1, CountType
  <1>7. 1 \notin B /\ (1 \in A <=> Head(s) \in G) /\ \A y : y # 1 => (y \in A <=> y \in B)
    BY <1>1, <1>2 DEF Positions
  <1> HIDE DEF f, A, B, C
  <1>8. f \in Bijection(C, B)
    BY <1>3, <1>4, <1>5, Fun_IsBij
  <1>9. Cardinality(B) = Cardinality(C)
    BY <1>6, <1>8, Fun_ExistsBij, FS_Bijection
  <1>10. /\ Cardinality(B) + (IF 1 \in A THEN 1 ELSE 0)
               = Cardinality(A) + (IF 1 \in B THEN 1 ELSE 0)
         /\ Cardinality(A) \in Nat /\ Cardinality(B) \in Nat
    BY <1>6, <1>7, OneChange
  <1>11. Cardinality(C) + (IF Head(s) \in G THEN 1 ELSE 0) = Cardinality(A)
    BY <1>7, <1>9, <1>10
  <1> QED
    BY <1>11 DEF A, C, q, Count

-----------------------------------------------------------------------------
(* The ledger rows.                                                        *)

\* A row of an item with n attempts: one that can be claimed has one left.
JobOK(x, n) ==
    /\ x \in [state: States, epoch: 0..n, live: BOOLEAN, by: {"none", "lanes", "peer"}]
    /\ x.state \in {"READY", "RETRY_WAIT"} => x.epoch < n

JobsOK(j, n) == j = [w \in Works |-> j[w]] /\ \A w \in Works : JobOK(j[w], n)

CancelledStay(j, q) ==
    \A w \in Works : j[w].state = "CANCELLED" => q[w].state = "CANCELLED"

\* Every write to the ledger keeps its rows well formed and cancelled rows
\* cancelled.
Advance(j, q) == JobsOK(q, left.attempts) /\ CancelledStay(j, q)

LEMMA Attempts == ASSUME left \in Script PROVE left.attempts \in 1..MaxAttempts
  BY DEF Script

LEMMA RowOK ==
    ASSUME NEW n \in Nat, NEW state \in States, NEW e \in 0..n,
           state \in {"READY", "RETRY_WAIT"} => e < n
    PROVE  /\ JobOK(Row(state, e), n)
           /\ Row(state, e).state = state /\ Row(state, e).epoch = e
  <1> DEFINE no == FALSE
             x == Row(state, e)
  <1>1. x = [state |-> state, epoch |-> e, live |-> no, by |-> "none"] /\ no \in BOOLEAN
    BY DEF Row
  <1> HIDE DEF no, x
  <1>2. x.state = state /\ x.epoch = e
    BY <1>1
  <1>3. JobOK(x, n)
    BY <1>1 DEF JobOK
  <1> QED
    BY <1>2, <1>3 DEF x

LEMMA SettledOK ==
    ASSUME left \in Script, NEW x, JobOK(x, left.attempts)
    PROVE  /\ JobOK(Settled(x), left.attempts) /\ Settled(x).epoch = x.epoch
           /\ x.state = "CANCELLED" => Settled(x).state = "CANCELLED"
  <1>1. left.attempts \in Nat /\ x.epoch \in 0..left.attempts
    BY Attempts, ScriptsAssumption DEF JobOK
  <1>2. CASE x.state = "RUNNING" /\ ~x.live /\ x.epoch < left.attempts
    <2>1. Settled(x) = Row("READY", x.epoch)
      BY <1>2 DEF Settled
    <2> QED
      BY <1>1, <1>2, <2>1, RowOK DEF States
  <1>3. CASE x.state = "RUNNING" /\ ~x.live /\ ~(x.epoch < left.attempts)
    <2>1. Settled(x) = Row("FAILED_PERMANENT", x.epoch)
      BY <1>3 DEF Settled
    <2> QED
      BY <1>1, <1>3, <2>1, RowOK DEF States, TerminalStates
  <1>4. CASE ~(x.state = "RUNNING" /\ ~x.live)
    BY <1>4 DEF Settled
  <1> QED
    BY <1>2, <1>3, <1>4

LEMMA MaintainOK ==
    ASSUME left \in Script, NEW j, JobsOK(j, left.attempts)
    PROVE  Advance(j, Maintain(j))
  <1> DEFINE q == Maintain(j)
  <1>1. q = [w \in Works |-> q[w]]
    BY DEF Maintain
  <1>2. ASSUME NEW w \in Works
        PROVE  /\ JobOK(q[w], left.attempts)
               /\ j[w].state = "CANCELLED" => q[w].state = "CANCELLED"
    <2>1. JobOK(j[w], left.attempts)
      BY DEF JobsOK
    <2>2. CASE j[w].state = "RETRY_WAIT"
      <3>1. q[w] = Row("READY", j[w].epoch)
        BY <2>2 DEF Maintain
      <3> HIDE DEF q
      <3>2. left.attempts \in Nat /\ j[w].epoch \in 0..left.attempts
            /\ j[w].epoch < left.attempts
        BY <2>1, <2>2, Attempts, ScriptsAssumption DEF JobOK
      <3> QED
        BY <2>2, <3>1, <3>2, RowOK DEF States
    <2>3. CASE j[w].state # "RETRY_WAIT"
      <3>1. q[w] = Settled(j[w])
        BY <2>3 DEF Maintain
      <3> HIDE DEF q
      <3> QED
        BY <2>1, <3>1, SettledOK
    <2> QED
      BY <2>2, <2>3
  <1> HIDE DEF q
  <1>3. Advance(j, q)
    BY <1>1, <1>2 DEF Advance, JobsOK, CancelledStay
  <1> QED
    BY <1>3 DEF q

LEMMA OneJob ==
    ASSUME NEW j, JobsOK(j, left.attempts), NEW w \in Works, NEW x,
           JobOK(x, left.attempts), j[w].state = "CANCELLED" => x.state = "CANCELLED"
    PROVE  Advance(j, [j EXCEPT ![w] = x]) /\ [j EXCEPT ![w] = x][w] = x
  <1> DEFINE q == [j EXCEPT ![w] = x]
  <1>1. q = [v \in Works |-> q[v]] /\ q[w] = x /\ \A v \in Works : v # w => q[v] = j[v]
    BY DEF JobsOK
  <1> HIDE DEF q
  <1>2. Advance(j, q)
    BY <1>1 DEF Advance, JobsOK, CancelledStay
  <1> QED
    BY <1>1, <1>2 DEF q

LEMMA AdvanceTrans ==
    ASSUME NEW j, NEW q, NEW r, Advance(j, q), Advance(q, r)
    PROVE  Advance(j, r)
  BY DEF Advance, CancelledStay

LEMMA AdvanceSame == ASSUME NEW j, JobsOK(j, left.attempts) PROVE Advance(j, j)
  BY DEF Advance, CancelledStay

LEMMA SettleOneOK ==
    ASSUME left \in Script, JobsOK(job, left.attempts), NEW w \in Works
    PROVE  Advance(job, [job EXCEPT ![w] = Settled(@)])
  <1> DEFINE x == Settled(job[w])
  <1>1. JobOK(x, left.attempts) /\ (job[w].state = "CANCELLED" => x.state = "CANCELLED")
    BY SettledOK DEF JobsOK
  <1> HIDE DEF x
  <1>2. Advance(job, [job EXCEPT ![w] = x])
    BY <1>1, OneJob
  <1> QED
    BY <1>2 DEF x

\* An answer under a live lease ends the attempt the row is in.
LEMMA AnsweredOK ==
    ASSUME left \in Script, JobsOK(job, left.attempts), NEW w \in Works, NEW e,
           NEW state \in States, state # "READY",
           state = "RETRY_WAIT" => e < left.attempts
    PROVE  Advance(job, Answered(w, e, state))
  <1>1. CASE ~LeaseIsLive(w, e)
    BY <1>1, SettleOneOK DEF Answered
  <1>2. CASE LeaseIsLive(w, e)
    <2> DEFINE x == Row(state, e)
               q == [job EXCEPT ![w] = x]
    <2>1. left.attempts \in Nat /\ e \in 0..left.attempts /\ job[w].state = "RUNNING"
      BY <1>2, Attempts, ScriptsAssumption DEF LeaseIsLive, JobsOK, JobOK
    <2>2. JobOK(x, left.attempts)
      BY <2>1, RowOK
    <2> HIDE DEF x
    <2>3. Advance(job, q) /\ JobsOK(q, left.attempts)
      BY <2>1, <2>2, OneJob DEF Advance
    <2>4. Answered(w, e, state) \in {q, Maintain(q)}
      BY <1>2 DEF Answered, x
    <2> HIDE DEF q
    <2> QED
      BY <2>3, <2>4, MaintainOK, AdvanceTrans
  <1> QED
    BY <1>1, <1>2

LEMMA FailedStateIs ==
    ASSUME NEW e, NEW why
    PROVE  LET s == FailedState(e, why) IN
           s \in States /\ s # "READY" /\ (s = "RETRY_WAIT" => e < left.attempts)
  BY DEF FailedState, States, TerminalStates

LEMMA CancelInLedgerOK ==
    ASSUME left \in Script, JobsOK(job, left.attempts), NEW w \in Works, CancelInLedger(w)
    PROVE  Advance(job, job') /\ job'[w].state = "CANCELLED"
  <1>1. CASE job[w].state = "CANCELLED"
    BY <1>1, AdvanceSame DEF CancelInLedger
  <1>2. CASE job[w].state # "CANCELLED"
    <2> DEFINE x == Row("CANCELLED", job[w].epoch)
               q == [job EXCEPT ![w] = x]
    <2>1. left.attempts \in Nat /\ job[w].epoch \in 0..left.attempts
      BY Attempts, ScriptsAssumption DEF JobsOK, JobOK
    <2>2. JobOK(x, left.attempts) /\ x.state = "CANCELLED"
      BY <2>1, RowOK DEF States, TerminalStates
    <2> HIDE DEF x
    <2>3. Advance(job, q) /\ JobsOK(q, left.attempts) /\ q[w].state = "CANCELLED"
      BY <2>1, <2>2, OneJob DEF Advance
    <2>4. job' = Maintain(q)
      BY <1>2 DEF CancelInLedger, x
    <2> HIDE DEF q
    <2>5. Advance(q, job')
      BY <2>3, <2>4, MaintainOK
    <2> QED
      BY <2>3, <2>5, AdvanceTrans DEF Advance, CancelledStay
  <1> QED
    BY <1>1, <1>2

\* A claim takes one of the attempts that are left.
LEMMA StartedOK ==
    ASSUME left \in Script, JobsOK(job, left.attempts), NEW w \in Works,
           NEW by \in {"lanes", "peer"}, Maintain(job)[w].state = "READY"
    PROVE  /\ Advance(job, [Maintain(job) EXCEPT ![w] = Started(@, by)])
           /\ Maintain(job)[w].epoch + 1 \in 1..MaxAttempts
  <1> DEFINE j == Maintain(job)
             x == Started(j[w], by)
             e == j[w].epoch + 1
             yes == TRUE
  <1>1. Advance(job, j) /\ JobsOK(j, left.attempts)
    BY MaintainOK DEF Advance
  <1>2. x = [j[w] EXCEPT !.state = "RUNNING", !.epoch = e, !.live = yes, !.by = by]
        /\ yes \in BOOLEAN
    BY DEF Started
  <1> HIDE DEF j
  <1>3. JobOK(j[w], left.attempts) /\ j[w].epoch < left.attempts
        /\ j[w].epoch \in 0..left.attempts /\ left.attempts \in 1..MaxAttempts
    BY <1>1, Attempts DEF JobsOK, JobOK, j
  <1>4. e \in 0..left.attempts /\ e \in 1..MaxAttempts
    BY <1>3, ScriptsAssumption
  <1> HIDE DEF x, e, yes
  <1>5. JobOK(x, left.attempts)
    BY <1>2, <1>3, <1>4 DEF JobOK, States
  <1>6. j[w].state = "READY"
    BY DEF j
  <1>7. Advance(j, [j EXCEPT ![w] = x])
    BY <1>1, <1>5, <1>6, OneJob
  <1>8. Advance(job, [j EXCEPT ![w] = x])
    BY <1>1, <1>7, AdvanceTrans
  <1> QED
    BY <1>4, <1>8 DEF x, j, e

-----------------------------------------------------------------------------
(* Types.                                                                  *)

Ats == {"wait", "put", "claim", "track", "run", "refused", "check", "succeed",
        "fail", "fin", "done"}

HandSpace == [at: Ats, work: Works \cup {0}, epoch: 0..MaxAttempts, why: Reasons]

\* A thread that waits holds nothing, one that goes on with a claim has won
\* it, and the ingress thread claims nothing.
HandOK(t, x) ==
    /\ x \in HandSpace
    /\ x.at \in {"wait", "done"} <=> x.work = 0
    /\ x.at \in {"wait", "done", "claim"} \/ t = "ingress" => x.epoch = 0
    /\ x.at \notin {"wait", "done", "claim", "fin"} /\ t # "ingress" => x.epoch # 0
    /\ x.at \in {"claim", "track"} => t \in Providers
    /\ t = "ingress" => x.at \in {"wait", "put", "fin", "done"}

HandsOK == hand = [t \in Workers |-> hand[t]] /\ \A t \in Workers : HandOK(t, hand[t])

QueuesOK ==
    /\ ingress \in Seq(Works) /\ Len(ingress) <= IngressCapacity
    /\ provider \in Seq(Works) /\ Len(provider) <= ProviderCapacity
    /\ publish \in Seq(Claims) /\ Len(publish) <= PublishCapacity

SetsOK ==
    /\ scheduled \subseteq Works /\ cancelReq \subseteq Works
    /\ optional \subseteq Works /\ shed \subseteq Works

Offer == [work: Works, ready: BOOLEAN]
OffersOK == offer \in [Offerers -> Seq(Offer)]

\* A cancel that is about to release the id has cancelled the item.
CancOK ==
    /\ canc \in [at: {"idle", "ledger", "drop"}, work: Works \cup {0}, tracked: BOOLEAN]
    /\ canc.at # "idle" => canc.work \in Works
    /\ canc.at = "drop" => job[canc.work].state = "CANCELLED"

\* A close that discards, or has stopped the renewers, has set _stop.
CloserOK ==
    /\ closer.ids \subseteq Works /\ closer.left \subseteq Works
    /\ DOMAIN closer = {"at", "mode", "ids", "left", "again"}
    /\ closer.at \in {"ledger", "beats", "join", "closed"} => stop

FlagsOK == closed \in BOOLEAN /\ stop \in BOOLEAN

TypeInv ==
    /\ left \in Script /\ JobsOK(job, left.attempts)
    /\ HandsOK /\ QueuesOK /\ SetsOK /\ OffersOK /\ CancOK /\ CloserOK /\ FlagsOK
    /\ beat \in [Claims -> Beats]

LEMMA SpendsKeeps ==
    ASSUME left \in Script,
           NEW what \in {"restarts", "stalls", "faults", "raises", "peers"}, Spends(what)
    PROVE  left' \in Script /\ left'.attempts = left.attempts
  <1> DEFINE n == left[what] - 1
  <1>1. left[what] \in Nat /\ left[what] > 0 /\ left' = [left EXCEPT ![what] = n]
    BY DEF Spends, Script
  <1>2. n \in Nat
    BY <1>1
  <1> HIDE DEF n
  <1>3. CASE what = "restarts"
    BY <1>1, <1>2, <1>3 DEF Script
  <1>4. CASE what = "stalls"
    BY <1>1, <1>2, <1>4 DEF Script
  <1>5. CASE what = "faults"
    BY <1>1, <1>2, <1>5 DEF Script
  <1>6. CASE what = "raises"
    BY <1>1, <1>2, <1>6 DEF Script
  <1>7. CASE what = "peers"
    BY <1>1, <1>2, <1>7 DEF Script
  <1> QED
    BY <1>3, <1>4, <1>5, <1>6, <1>7

LEMMA MakesKeeps ==
    ASSUME left \in Script, NEW x,
           Makes("admits", x) \/ Makes("cancels", x) \/ Makes("closes", x)
    PROVE  left' \in Script /\ left'.attempts = left.attempts
  <1>1. CASE Makes("admits", x)
    BY <1>1 DEF Makes, Script
  <1>2. CASE Makes("cancels", x)
    BY <1>2 DEF Makes, Script
  <1>3. CASE Makes("closes", x)
    BY <1>3 DEF Makes, Script
  <1> QED
    BY <1>1, <1>2, <1>3

\* The script is used up; the attempts of the items stay.
LEMMA LeftStep ==
    ASSUME left \in Script, [Next]_vars
    PROVE  left' \in Script /\ left'.attempts = left.attempts
  <1>1. \/ left' = left
        \/ Spends("restarts") \/ Spends("stalls") \/ Spends("faults")
        \/ Spends("raises") \/ Spends("peers")
        \/ \E x : Makes("admits", x) \/ Makes("cancels", x) \/ Makes("closes", x)
    <2>1. ASSUME NEW t \in Workers, WorkerStep(t)
          PROVE  left' = left \/ Spends("faults")
      BY <2>1 DEF WorkerStep, IngressGet, PutProvider, ProviderStep, ProviderGet,
           ClaimAndStart, NoClaim, TrackHeartbeat, ProviderReturns, PutPublish,
           Refused, PublisherStep, PublishGet, PublishCheck, PublisherReturns,
           Succeed, FailClaim, Finish, ThreadExit, LedgerRaises
    <2>2. CASE ClientStep \/ CloseStep \/ OfferStep("recovery")
      BY <2>2 DEF ClientStep, CloseStep, OfferStep, AdmitReady, Recover, CancelFails,
           CancelCommits, CancelDrops, DrainRaises, IsDrained, SetStop,
           CancelAdmitted, DiscardEntry, DiscardEnd, StopAllHeartbeats,
           JoinWorkers, JoinAgain, LedgerRaises
    <2>3. CASE UNCHANGED vars
      BY <2>3 DEF vars
    <2> QED
      BY <2>1, <2>2, <2>3 DEF Next, CallbackRaises, HeartbeatFails, Lapse, PeerClaim,
           PeerAnswers, Admit, CancelBegin, Close, CloseAgain, Reopen, LedgerRaises
  <1> QED
    BY <1>1, SpendsKeeps, MakesKeeps

\* What a thread holds, and where.
LEMMA HandFacts ==
    ASSUME HandsOK, NEW t \in Workers
    PROVE  /\ hand[t] \in HandSpace /\ HandOK(t, hand[t])
           /\ hand = [u \in Workers |-> hand[u]]
           /\ hand[t].work \in Works \cup {0} /\ hand[t].epoch \in 0..MaxAttempts
           /\ hand[t].at \notin {"wait", "done"} => hand[t].work \in Works
  BY WorksAssumption DEF HandsOK, HandOK, HandSpace

LEMMA ThreadsAre ==
    /\ Providers \subseteq Workers /\ Publishers \subseteq Workers /\ "ingress" \in Workers
    /\ \A t \in Providers \cup Publishers : t # "ingress"
    /\ IsFiniteSet(Workers)
  <1>1. IsFiniteSet(Providers \cup Publishers)
    BY ThreadsAssumption, FS_Union
  <1>2. IsFiniteSet((Providers \cup Publishers) \cup {"ingress"})
    BY <1>1, FS_AddElement
  <1>3. Workers = (Providers \cup Publishers) \cup {"ingress"}
    BY DEF Workers
  <1> QED
    BY <1>2, <1>3, ThreadsAssumption

\* No step of anybody tears a row or revives a cancelled one.
LEMMA JobStep ==
    ASSUME TypeInv, [Next]_vars
    PROVE  Advance(job, job')
  <1>0. left \in Script /\ JobsOK(job, left.attempts) /\ HandsOK
    BY DEF TypeInv
  <1>1. CASE job' = job
    BY <1>0, <1>1, AdvanceSame
  <1>2. ASSUME NEW t \in Workers, WorkerStep(t) PROVE Advance(job, job')
    <2>1. hand[t].at \notin {"wait", "done"} => hand[t].work \in Works
      BY <1>0, HandFacts
    <2>2. CASE FailClaim(t)
      <3>1. hand[t].work \in Works
        BY <2>1, <2>2 DEF FailClaim, Holding
      <3>2. \/ job' = Answered(hand[t].work, hand[t].epoch,
                              FailedState(hand[t].epoch, hand[t].why))
            \/ job' = job
        BY <2>2 DEF FailClaim, LedgerRaises
      <3> QED
        BY <1>0, <1>1, <3>1, <3>2, AnsweredOK, FailedStateIs
    <2>3. CASE Succeed(t)
      <3>1. hand[t].work \in Works
        BY <2>1, <2>3 DEF Succeed, Holding
      <3>2. job' = Answered(hand[t].work, hand[t].epoch, "SUCCEEDED") \/ job' = job
        BY <2>3 DEF Succeed
      <3> QED
        BY <1>0, <1>1, <3>1, <3>2, AnsweredOK DEF States, TerminalStates
    <2>4. CASE ClaimAndStart(t)
      <3>1. hand[t].work \in Works
        BY <2>1, <2>4 DEF ClaimAndStart, Holding
      <3> QED
        BY <1>0, <2>4, <3>1, StartedOK DEF ClaimAndStart
    <2>5. CASE NoClaim(t)
      <3> DEFINE w == hand[t].work
                 j == Maintain(job)
      <3>1. w \in Works
        BY <2>1, <2>5 DEF NoClaim, Holding
      <3>2. \/ job' = job \/ job' = j
            \/ j[w].state = "READY" /\ job' = [j EXCEPT ![w] = Started(@, "lanes")]
        BY <2>5 DEF NoClaim
      <3> QED
        BY <1>0, <1>1, <3>1, <3>2, MaintainOK, StartedOK
    <2> QED
      BY <1>1, <1>2, <2>2, <2>3, <2>4, <2>5 DEF WorkerStep, IngressGet, PutProvider,
           ProviderStep, ProviderGet, TrackHeartbeat, ProviderReturns, PutPublish,
           Refused, PublisherStep, PublishGet, PublishCheck, PublisherReturns,
           Finish, ThreadExit
  <1>3. ASSUME NEW c \in Claims, HeartbeatFails(c) PROVE Advance(job, job')
    <2>1. c[1] \in Works
      BY DEF Claims
    <2> QED
      BY <1>0, <1>1, <1>3, <2>1, SettleOneOK DEF HeartbeatFails, LedgerRaises
  <1>4. ASSUME NEW w \in Works, Lapse(w) PROVE Advance(job, job')
    <2> DEFINE no == FALSE
               x == [job[w] EXCEPT !.live = no]
    <2>1. no \in BOOLEAN /\ JobOK(job[w], left.attempts)
          /\ job[w].state = "RUNNING"
      BY <1>0, <1>4 DEF JobsOK, Lapse
    <2>2. job' = [job EXCEPT ![w].live = no]
      BY <1>4 DEF Lapse
    <2> HIDE DEF no
    <2>3. JobOK(x, left.attempts)
      BY <2>1 DEF JobOK
    <2>4. job' = [job EXCEPT ![w] = x]
      BY <1>0, <2>2 DEF JobsOK
    <2> HIDE DEF x
    <2> QED
      BY <1>0, <2>1, <2>3, <2>4, OneJob
  <1>5. ASSUME NEW w \in Works, PeerClaim(w) PROVE Advance(job, job')
    BY <1>0, <1>5, StartedOK DEF PeerClaim
  <1>6. ASSUME NEW w \in Works, PeerAnswers(w) PROVE Advance(job, job')
    BY <1>0, <1>6, AnsweredOK, FailedStateIs DEF PeerAnswers, States, TerminalStates
  <1>7. ASSUME NEW o, OfferStep(o) PROVE Advance(job, job')
    BY <1>0, <1>1, <1>7, MaintainOK DEF OfferStep, Recover, AdmitReady
  <1>8. CASE ClientStep
    <2>1. canc.at = "ledger" => canc.work \in Works
      BY DEF TypeInv, CancOK
    <2> QED
      BY <1>0, <1>1, <1>8, <2>1, CancelInLedgerOK DEF ClientStep, AdmitReady,
         CancelFails, CancelCommits, CancelDrops, LedgerRaises
  <1>9. CASE CloseStep
    <2>1. ASSUME NEW w \in Works, CancelAdmitted(w) PROVE Advance(job, job')
      BY <1>0, <1>1, <2>1, CancelInLedgerOK DEF CancelAdmitted, LedgerRaises
    <2> QED
      BY <1>1, <1>7, <1>9, <2>1 DEF CloseStep, DrainRaises, IsDrained, SetStop,
         DiscardEntry, DiscardEnd, StopAllHeartbeats, JoinWorkers, JoinAgain, LedgerRaises
  <1>10. CASE UNCHANGED vars
    BY <1>1, <1>10 DEF vars
  <1> QED
    BY <1>1, <1>2, <1>3, <1>4, <1>5, <1>6, <1>7, <1>8, <1>9, <1>10 DEF Next,
       CallbackRaises, Admit, CancelBegin, Close, CloseAgain, Reopen

-----------------------------------------------------------------------------
(* Threads.                                                                *)

LEMMA HandChange ==
    ASSUME HandsOK, NEW t \in Workers, NEW x, HandOK(t, x), hand' = [hand EXCEPT ![t] = x]
    PROVE  HandsOK'
  <1>1. /\ hand' = [u \in Workers |-> hand'[u]] /\ hand'[t] = x
        /\ \A u \in Workers : u # t => hand'[u] = hand[u]
    BY DEF HandsOK
  <1>2. \A u \in Workers : HandOK(u, hand'[u])
    BY <1>1 DEF HandsOK
  <1> QED
    BY <1>1, <1>2 DEF HandsOK, HandOK, HandSpace

LEMMA IdleHand ==
    ASSUME NEW t
    PROVE  HandOK(t, Idle) /\ HandOK(t, [Idle EXCEPT !.at = "done"])
  BY WorksAssumption, ScriptsAssumption DEF Idle, HandOK, HandSpace, Ats, Reasons

Taken(at, w, e) == [at |-> at, work |-> w, epoch |-> e, why |-> "none"]

LEMMA TakesIs ==
    ASSUME NEW t, NEW at, NEW w, NEW e, Takes(t, at, w, e)
    PROVE  hand' = [hand EXCEPT ![t] = Taken(at, w, e)]
  <1> DEFINE z == 0
  <1>1. Idle = [at |-> "wait", work |-> z, epoch |-> z, why |-> "none"]
    BY DEF Idle
  <1> HIDE DEF z
  <1> DEFINE a == [Idle EXCEPT !.at = at]
             b == [a EXCEPT !.work = w]
             c == [b EXCEPT !.epoch = e]
  <1>a. a = [at |-> at, work |-> z, epoch |-> z, why |-> "none"]
    BY <1>1
  <1> HIDE DEF a
  <1>b. b = [at |-> at, work |-> w, epoch |-> z, why |-> "none"]
    BY <1>a
  <1> HIDE DEF b
  <1>c. c = Taken(at, w, e)
    BY <1>b DEF Taken
  <1>2. [Idle EXCEPT !.at = at, !.work = w, !.epoch = e] = Taken(at, w, e)
    BY <1>c DEF a, b
  <1> QED
    BY <1>2 DEF Takes

LEMMA TakenIs ==
    ASSUME NEW at \in Ats, NEW w \in Works, NEW e \in 0..MaxAttempts
    PROVE  LET x == Taken(at, w, e)
           IN  x \in HandSpace /\ x.at = at /\ x.work = w /\ x.epoch = e
  BY DEF Taken, HandSpace, Reasons

\* A thread takes up a notification, or a claim of it.
LEMMA TakesHand ==
    ASSUME HandsOK, NEW t \in Workers, NEW at \in {"put", "claim", "track", "check"},
           NEW w \in Works, NEW e \in 0..MaxAttempts, Takes(t, at, w, e),
           at = "put" <=> t = "ingress", at \in {"claim", "track"} => t \in Providers,
           e = 0 <=> at \in {"put", "claim"}
    PROVE  HandsOK'
  <1> DEFINE x == Taken(at, w, e)
  <1>0. at \in Ats /\ w # 0
    BY WorksAssumption DEF Ats
  <1>1. /\ hand' = [hand EXCEPT ![t] = x] /\ x \in HandSpace
        /\ x.at = at /\ x.work = w /\ x.epoch = e
    BY <1>0, TakesIs, TakenIs
  <1> HIDE DEF x
  <1>2. HandOK(t, x)
    BY <1>0, <1>1 DEF HandOK
  <1> QED
    BY <1>1, <1>2, HandChange

\* A thread goes on with what it holds.
LEMMA GoesHand ==
    ASSUME HandsOK, NEW t \in Workers,
           NEW at \in {"put", "run", "refused", "succeed", "fail", "fin"},
           Goes(t, at), hand[t].at \notin {"wait", "done"},
           at # "fin" => t # "ingress" /\ hand[t].at \notin {"claim", "fin"}
    PROVE  HandsOK'
  <1> DEFINE x == [hand[t] EXCEPT !.at = at]
  <1>0. hand[t] \in HandSpace /\ HandOK(t, hand[t]) /\ hand = [u \in Workers |-> hand[u]]
    BY HandFacts
  <1>1. hand' = [hand EXCEPT ![t] = x]
    BY <1>0 DEF Goes
  <1>2. x \in HandSpace /\ x.at = at /\ x.work = hand[t].work /\ x.epoch = hand[t].epoch
    BY <1>0 DEF HandSpace, Ats
  <1> HIDE DEF x
  <1>3. HandOK(t, x)
    BY <1>0, <1>2 DEF HandOK
  <1> QED
    BY <1>1, <1>3, HandChange

\* A thread goes on to fail the claim it holds.
LEMMA FailsHand ==
    ASSUME HandsOK, NEW t \in Workers, NEW why \in Reasons, t # "ingress",
           hand[t].at \in {"run", "refused"},
           hand' = [hand EXCEPT ![t].at = "fail", ![t].why = why]
    PROVE  HandsOK'
  <1> DEFINE x == [hand[t] EXCEPT !.at = "fail", !.why = why]
  <1>0. hand[t] \in HandSpace /\ HandOK(t, hand[t]) /\ hand = [u \in Workers |-> hand[u]]
    BY HandFacts
  <1>1. hand' = [hand EXCEPT ![t] = x]
    BY <1>0
  <1>2. x \in HandSpace /\ x.at = "fail" /\ x.work = hand[t].work
        /\ x.epoch = hand[t].epoch
    BY <1>0 DEF HandSpace, Ats
  <1> HIDE DEF x
  <1>3. HandOK(t, x)
    BY <1>0, <1>2 DEF HandOK
  <1> QED
    BY <1>1, <1>3, HandChange

LEMMA HeadTail ==
    ASSUME NEW T, NEW s \in Seq(T), s # << >>
    PROVE  Head(s) \in T /\ Tail(s) \in Seq(T) /\ Len(Tail(s)) <= Len(s)
  OBVIOUS

LEMMA HandsStep ==
    ASSUME TypeInv, [Next]_vars
    PROVE  HandsOK'
  <1>0. /\ left \in Script /\ JobsOK(job, left.attempts) /\ HandsOK /\ QueuesOK
        /\ MaxAttempts \in Nat
    BY ScriptsAssumption DEF TypeInv
  <1>1. CASE hand' = hand
    BY <1>0, <1>1 DEF HandsOK, HandOK, HandSpace
  <1>2. ASSUME NEW t \in Workers, Rests(t) PROVE HandsOK'
    BY <1>0, <1>2, IdleHand, HandChange DEF Rests
  <1>3. CASE IngressGet
    <2>1. Head(ingress) \in Works /\ Takes("ingress", "put", Head(ingress), 0)
      BY <1>0, <1>3, HeadTail DEF IngressGet, QueuesOK
    <2> QED
      BY <1>0, <2>1, TakesHand, ThreadsAre
  <1>4. CASE PutProvider
    BY <1>0, <1>2, <1>4, GoesHand, ThreadsAre DEF PutProvider, Holding
  <1>5. ASSUME NEW t \in Providers, ProviderStep(t) PROVE HandsOK'
    <2>0. t \in Workers /\ t # "ingress"
      BY ThreadsAre
    <2>1. CASE ProviderGet(t)
      <3>1. Head(provider) \in Works /\ Takes(t, "claim", Head(provider), 0)
        BY <1>0, <2>1, HeadTail DEF ProviderGet, QueuesOK
      <3> QED
        BY <1>0, <2>0, <3>1, TakesHand
    <2>2. CASE ClaimAndStart(t)
      <3> DEFINE w == hand[t].work
                 e == Maintain(job)[w].epoch + 1
      <3>1. w \in Works /\ Takes(t, "track", w, e)
        BY <1>0, <2>0, <2>2, HandFacts DEF ClaimAndStart, Holding
      <3>2. e \in 1..MaxAttempts
        BY <1>0, <2>2, <3>1, StartedOK DEF ClaimAndStart
      <3> HIDE DEF w, e
      <3> QED
        BY <1>0, <2>0, <3>1, <3>2, TakesHand
    <2>3. CASE NoClaim(t)
      BY <1>0, <2>0, <2>3, GoesHand DEF NoClaim, Holding
    <2>4. CASE TrackHeartbeat(t)
      BY <1>0, <2>0, <2>4, GoesHand DEF TrackHeartbeat, Holding
    <2>5. CASE ProviderReturns(t)
      BY <1>0, <2>0, <2>5, GoesHand DEF ProviderReturns, Holding
    <2>6. CASE PutPublish(t)
      BY <1>0, <1>2, <2>0, <2>6, GoesHand DEF PutPublish, Holding
    <2>7. CASE Refused(t)
      BY <1>0, <2>0, <2>7, GoesHand, FailsHand DEF Refused, Holding, Reasons
    <2> QED
      BY <1>5, <2>1, <2>2, <2>3, <2>4, <2>5, <2>6, <2>7 DEF ProviderStep
  <1>6. ASSUME NEW t \in Publishers, PublisherStep(t) PROVE HandsOK'
    <2>0. t \in Workers /\ t # "ingress"
      BY ThreadsAre
    <2>1. CASE PublishGet(t)
      <3>1. Head(publish) \in Claims
        BY <1>0, <2>1, HeadTail DEF PublishGet, QueuesOK
      <3>2. Head(publish)[1] \in Works /\ Head(publish)[2] \in 1..MaxAttempts
        BY <3>1 DEF Claims
      <3>3. Takes(t, "check", Head(publish)[1], Head(publish)[2])
        BY <2>1 DEF PublishGet
      <3> QED
        BY <1>0, <2>0, <3>2, <3>3, TakesHand
    <2>2. CASE PublishCheck(t)
      BY <1>0, <2>0, <2>2, GoesHand DEF PublishCheck, Holding
    <2>3. CASE PublisherReturns(t)
      BY <1>0, <2>0, <2>3, GoesHand DEF PublisherReturns, Holding
    <2>4. CASE Succeed(t)
      BY <1>0, <2>0, <2>4, GoesHand DEF Succeed, Holding
    <2> QED
      BY <1>6, <2>1, <2>2, <2>3, <2>4 DEF PublisherStep
  <1>7. ASSUME NEW t \in Workers, FailClaim(t) \/ Finish(t) \/ ThreadExit(t)
        PROVE  HandsOK'
    <2>1. CASE FailClaim(t)
      BY <1>0, <2>1, GoesHand DEF FailClaim, Holding
    <2>2. CASE Finish(t)
      BY <1>2, <2>2 DEF Finish
    <2>3. CASE ThreadExit(t)
      <3> DEFINE x == [hand[t] EXCEPT !.at = "done"]
      <3>0. hand[t] \in HandSpace /\ HandOK(t, hand[t])
            /\ hand = [u \in Workers |-> hand[u]] /\ hand[t].at = "wait"
        BY <1>0, <2>3, HandFacts DEF ThreadExit, Holding
      <3>1. hand' = [hand EXCEPT ![t] = x]
        BY <2>3, <3>0 DEF ThreadExit, Goes
      <3>2. x \in HandSpace /\ x.at = "done" /\ x.work = hand[t].work
            /\ x.epoch = hand[t].epoch
        BY <3>0 DEF HandSpace, Ats
      <3> HIDE DEF x
      <3>3. HandOK(t, x)
        BY <3>0, <3>2 DEF HandOK
      <3> QED
        BY <1>0, <3>1, <3>3, HandChange
    <2> QED
      BY <1>7, <2>1, <2>2, <2>3
  <1>8. ASSUME NEW t \in Providers \cup Publishers, NEW why \in {"RETRY", "PERMANENT"},
               CallbackRaises(t, why)
        PROVE  HandsOK'
    BY <1>0, <1>8, FailsHand, ThreadsAre DEF CallbackRaises, Holding, Reasons
  <1>9. CASE hand' = Fresh
    <2>1. \A t \in Workers : HandOK(t, Fresh[t])
      BY IdleHand DEF Fresh
    <2> QED
      BY <1>9, <2>1 DEF HandsOK, HandOK, HandSpace, Fresh
  <1>10. CASE ClientStep \/ CloseStep \/ OfferStep("recovery")
    BY <1>1, <1>10 DEF ClientStep, CloseStep, OfferStep, AdmitReady, Recover,
       CancelFails, CancelCommits, CancelDrops, DrainRaises, IsDrained, SetStop,
       CancelAdmitted, DiscardEntry, DiscardEnd, StopAllHeartbeats, JoinWorkers, JoinAgain
  <1>11. CASE UNCHANGED vars
    BY <1>1, <1>11 DEF vars
  <1> QED
    BY <1>1, <1>3, <1>4, <1>5, <1>6, <1>7, <1>8, <1>9, <1>10, <1>11 DEF Next,
       WorkerStep, HeartbeatFails, Lapse, PeerClaim, PeerAnswers, Admit,
       CancelBegin, Close, CloseAgain, Reopen

-----------------------------------------------------------------------------
(* The slice a recovery offers.                                            *)

\* The members of a finite set of numbers can be counted off in order.
LEMMA NthIs ==
    ASSUME NEW S \in SUBSET Nat, IsFiniteSet(S), NEW k \in 1..Cardinality(S)
    PROVE  \E w \in S : Cardinality({v \in S : v < w}) = k - 1
  <1> DEFINE Below(w) == {v \in S : v < w}
             n == Cardinality(S)
             T == 0..(n - 1)
             r == [w \in S |-> Cardinality(Below(w))]
  <1>1. n \in Nat
    BY FS_CardinalityType
  <1>2. ASSUME NEW w \in S PROVE IsFiniteSet(Below(w)) /\ Cardinality(Below(w)) \in T
    <2>1. Below(w) \in SUBSET S /\ w \notin Below(w)
      OBVIOUS
    <2> HIDE DEF Below
    <2>2. IsFiniteSet(Below(w)) /\ Cardinality(Below(w)) <= n /\ Cardinality(Below(w)) # n
      BY <2>1, FS_Subset
    <2> QED
      BY <1>1, <2>2, FS_CardinalityType
  <1>3. ASSUME NEW a \in S, NEW b \in S, a < b
        PROVE  Cardinality(Below(a)) # Cardinality(Below(b))
    <2>a. ASSUME NEW v \in Below(a) PROVE v \in Below(b)
      <3>1. v \in S /\ v < a /\ v \in Nat /\ a \in Nat /\ b \in Nat
        OBVIOUS
      <3>2. v < b
        BY <1>3, <3>1
      <3> QED
        BY <3>1, <3>2
    <2>b. ~(a < a)
      <3>1. a \in Nat
        OBVIOUS
      <3> QED
        BY <3>1
    <2>1. Below(a) \in SUBSET Below(b) /\ a \in Below(b) /\ a \notin Below(a)
      BY <1>3, <2>a, <2>b
    <2>2. IsFiniteSet(Below(b))
      BY <1>2
    <2> HIDE DEF Below
    <2> QED
      BY <2>1, <2>2, FS_Subset
  <1> HIDE DEF Below
  <1>4. \A a, b \in S : r[a] = r[b] => a = b
    <2> SUFFICES ASSUME NEW a \in S, NEW b \in S, r[a] = r[b], a # b PROVE FALSE
      OBVIOUS
    <2>1. a < b \/ b < a
      OBVIOUS
    <2> QED
      BY <1>3, <2>1
  <1>5. r \in [S -> T]
    BY <1>2
  <1>6. r \in Injection(S, T)
    BY <1>4, <1>5, Fun_IsInj
  <1>7. IsFiniteSet(T) /\ Cardinality(T) = n
    <2> HIDE DEF n
    <2> DEFINE m == n - 1
    <2>1. m \in Int /\ 0 \in Int /\ n = m + 1 /\ m >= -1
      BY <1>1
    <2> HIDE DEF m
    <2>2. IsFiniteSet(0..m) /\ Cardinality(0..m) = IF 0 > m THEN 0 ELSE m - 0 + 1
      BY <2>1, FS_Interval
    <2>3. Cardinality(0..m) = n
      BY <2>1, <2>2
    <2> QED
      BY <2>2, <2>3 DEF m
  <1> HIDE DEF T
  <1>8. r \in Surjection(S, T)
    BY <1>6, <1>7, FS_Injection
  <1>9. k - 1 \in T
    BY <1>1 DEF T
  <1>10. \E w \in S : r[w] = k - 1
    <2> HIDE DEF r
    <2> QED
      BY <1>8, <1>9 DEF Surjection
  <1> QED
    BY <1>10 DEF Below

LEMMA ReadyForRunOK ==
    ASSUME left \in Script, NEW j
    PROVE  ReadyForRun(j) \in Seq(Offer)
  <1> DEFINE S == {w \in Works : j[w].state = "READY"}
             c == Cardinality(S)
             l == ReadyLimit
             n == IF c <= l THEN c ELSE l
             nth(k) == CHOOSE w \in S : Cardinality({v \in S : v < w}) = k - 1
             yes == TRUE
  <1>1. IsFiniteSet(S) /\ S \in SUBSET Works /\ S \in SUBSET Nat
    <2>1. S \in SUBSET Works
      OBVIOUS
    <2> HIDE DEF S
    <2> QED
      BY <2>1, WorksAssumption, FS_Subset
  <1>2. c \in Nat
    BY <1>1, FS_CardinalityType
  <1>3. l \in Nat
    <2>1. left.providers \in SUBSET Providers
      BY DEF Script
    <2>2. Cardinality(left.providers) \in Nat /\ Cardinality(Publishers) \in Nat
      BY <2>1, ThreadsAssumption, FS_Subset, FS_CardinalityType
    <2> QED
      BY <2>2, CapacityAssumption DEF ReadyLimit
  <1>4. n \in Nat /\ {i \in 1..c : i <= l} = 1..n
    <2> HIDE DEF c, l
    <2> QED
      BY <1>2, <1>3
  <1>5. ReadyForRun(j) = [k \in 1..n |-> [work |-> nth(k), ready |-> yes]]
    BY <1>4 DEF ReadyForRun
  <1>6. ASSUME NEW k \in 1..n PROVE nth(k) \in Works
    <2>1. k \in 1..c
      BY <1>2, <1>3
    <2> HIDE DEF S
    <2>2. \E w \in S : Cardinality({v \in S : v < w}) = k - 1
      BY <1>1, <2>1, NthIs
    <2> QED
      BY <1>1, <2>2
  <1>7. yes \in BOOLEAN
    OBVIOUS
  <1> HIDE DEF nth, n, yes
  <1>8. \A k \in 1..n : [work |-> nth(k), ready |-> yes] \in Offer
    BY <1>6, <1>7 DEF Offer
  <1> QED
    BY <1>4, <1>5, <1>8

LEMMA OfferFacts ==
    ASSUME OffersOK, NEW o \in Offerers
    PROVE  /\ offer[o] \in Seq(Offer)
           /\ offer[o] # << >> => Head(offer[o]).work \in Works /\ Tail(offer[o]) \in Seq(Offer)
           /\ \A todo \in Seq(Offer) :
                 [offer EXCEPT ![o] = todo] \in [Offerers -> Seq(Offer)]
  <1>1. offer[o] \in Seq(Offer)
    BY DEF OffersOK
  <1>2. offer[o] # << >> => Head(offer[o]) \in Offer /\ Tail(offer[o]) \in Seq(Offer)
    BY <1>1, HeadTail
  <1>3. \A todo \in Seq(Offer) : [offer EXCEPT ![o] = todo] \in [Offerers -> Seq(Offer)]
    BY DEF OffersOK
  <1> QED
    BY <1>1, <1>2, <1>3 DEF Offer

LEMMA OffersStep ==
    ASSUME TypeInv, [Next]_vars
    PROVE  OffersOK'
  <1>0. left \in Script /\ OffersOK
    BY DEF TypeInv
  <1>1. CASE offer' = offer
    BY <1>0, <1>1 DEF OffersOK
  <1>2. ASSUME NEW o \in Offerers, OfferStep(o) PROVE OffersOK'
    <2>1. CASE Recover(o)
      <3>1. offer' = [offer EXCEPT ![o] = ReadyForRun(Maintain(job))]
        BY <2>1 DEF Recover, Offers
      <3> QED
        BY <1>0, <3>1, ReadyForRunOK, OfferFacts DEF OffersOK
    <2>2. CASE AdmitReady(o)
      <3>1. offer[o] # << >>
            /\ \E todo \in {<< >>, Tail(offer[o])} : offer' = [offer EXCEPT ![o] = todo]
        BY <2>2 DEF AdmitReady, Offers
      <3>2. << >> \in Seq(Offer) /\ Tail(offer[o]) \in Seq(Offer)
        BY <1>0, <3>1, OfferFacts
      <3> QED
        BY <1>0, <3>1, <3>2, OfferFacts DEF OffersOK
    <2> QED
      BY <1>2, <2>1, <2>2 DEF OfferStep
  <1>3. ASSUME NEW w \in Works, NEW opt \in BOOLEAN, Admit(w, opt) PROVE OffersOK'
    <2> DEFINE ready == job[w].state = "READY"
               x == [work |-> w, ready |-> ready]
    <2>1. ready \in BOOLEAN /\ (offer' = offer \/ offer' = [offer EXCEPT !["client"] = <<x>>])
      BY <1>3 DEF Admit, Offers
    <2> HIDE DEF ready
    <2>2. x \in Offer
      BY <2>1 DEF Offer
    <2> HIDE DEF x
    <2>3. <<x>> \in Seq(Offer) /\ "client" \in Offerers
      BY <2>2 DEF Offerers
    <2> QED
      BY <1>0, <1>1, <2>1, <2>3, OfferFacts DEF OffersOK
  <1>4. CASE offer' = [o \in Offerers |-> << >>]
    BY <1>4 DEF OffersOK
  <1>5. "client" \in Offerers /\ "recovery" \in Offerers /\ "closer" \in Offerers
    BY DEF Offerers
  <1>6. CASE ClientStep \/ CloseStep
    BY <1>1, <1>2, <1>5, <1>6 DEF ClientStep, CloseStep, OfferStep,
       CancelFails, CancelCommits, CancelDrops, DrainRaises, IsDrained, SetStop,
       CancelAdmitted, DiscardEntry, DiscardEnd, StopAllHeartbeats, JoinWorkers, JoinAgain,
       clients
  <1>7. ASSUME NEW t \in Workers, WorkerStep(t) PROVE offer' = offer
    BY <1>7 DEF WorkerStep, IngressGet, PutProvider, ProviderStep, ProviderGet,
       ClaimAndStart, NoClaim, TrackHeartbeat, ProviderReturns, PutPublish,
       Refused, PublisherStep, PublishGet, PublishCheck, PublisherReturns,
       Succeed, FailClaim, Finish, ThreadExit, clients
  <1>8. CASE UNCHANGED vars
    BY <1>1, <1>8 DEF vars, clients
  <1> QED
    BY <1>1, <1>2, <1>3, <1>4, <1>5, <1>6, <1>7, <1>8 DEF Next, CallbackRaises,
       HeartbeatFails, Lapse, PeerClaim, PeerAnswers, CancelBegin, Close, CloseAgain, Reopen,
       clients

-----------------------------------------------------------------------------
(* The queues, the sets, the renewers and the calls.                       *)

LEMMA Fits ==
    ASSUME NEW T, NEW s \in Seq(T), NEW n \in Nat, Len(s) <= n
    PROVE  /\ \A x \in T : Len(s) < n => Append(s, x) \in Seq(T) /\ Len(Append(s, x)) <= n
           /\ s # << >> => Tail(s) \in Seq(T) /\ Len(Tail(s)) <= n
  OBVIOUS

LEMMA QueuesStep ==
    ASSUME TypeInv, [Next]_vars
    PROVE  QueuesOK'
  <1>0. QueuesOK /\ OffersOK /\ HandsOK
    BY DEF TypeInv
  <1>c. IngressCapacity \in Nat /\ ProviderCapacity \in Nat /\ PublishCapacity \in Nat
    BY CapacityAssumption
  <1>1. CASE UNCHANGED queues
    BY <1>0, <1>1 DEF QueuesOK, queues
  <1>2. CASE IngressGet
    BY <1>0, <1>2, HeadTail, <1>c DEF IngressGet, QueuesOK
  <1>3. CASE PutProvider
    <2>1. hand["ingress"].work \in Works
      BY <1>0, <1>3, HandFacts, ThreadsAre DEF PutProvider, Holding
    <2>2. UNCHANGED queues
          \/ /\ Len(provider) < ProviderCapacity
             /\ provider' = Append(provider, hand["ingress"].work)
             /\ UNCHANGED <<ingress, publish>>
      BY <1>3 DEF PutProvider, queues
    <2> QED
      BY <1>0, <1>1, <1>c, <2>1, <2>2, Fits DEF QueuesOK
  <1>4. ASSUME NEW t \in Providers, ProviderStep(t) PROVE QueuesOK'
    <2>1. CASE ProviderGet(t)
      BY <1>0, <2>1, HeadTail, <1>c DEF ProviderGet, QueuesOK
    <2>2. CASE PutPublish(t)
      <3>0. t \in Workers /\ t # "ingress"
        BY ThreadsAre
      <3>1. ClaimOf(t) \in Claims
        <4>1. hand[t].at = "put" /\ HandOK(t, hand[t]) /\ hand[t].work \in Works
              /\ hand[t].epoch \in 0..MaxAttempts
          BY <1>0, <2>2, <3>0, HandFacts DEF PutPublish, Holding
        <4>2. hand[t].epoch # 0
          BY <3>0, <4>1 DEF HandOK
        <4> QED
          BY <4>1, <4>2, ScriptsAssumption DEF Claims, ClaimOf
      <3>2. UNCHANGED queues
            \/ /\ Len(publish) < PublishCapacity /\ publish' = Append(publish, ClaimOf(t))
               /\ UNCHANGED <<ingress, provider>>
        BY <2>2 DEF PutPublish, queues
      <3> HIDE DEF ClaimOf
      <3> QED
        BY <1>0, <1>1, <1>c, <3>1, <3>2 DEF QueuesOK
    <2> QED
      BY <1>1, <1>4, <2>1, <2>2 DEF ProviderStep, ClaimAndStart, NoClaim,
         TrackHeartbeat, ProviderReturns, Refused
  <1>5. ASSUME NEW t \in Publishers, PublisherStep(t) PROVE QueuesOK'
    <2>1. CASE PublishGet(t)
      BY <1>0, <2>1, HeadTail, <1>c DEF PublishGet, QueuesOK
    <2> QED
      BY <1>1, <1>5, <2>1 DEF PublisherStep, PublishCheck, PublisherReturns, Succeed
  <1>6. ASSUME NEW o \in Offerers, OfferStep(o) PROVE QueuesOK'
    <2>1. CASE AdmitReady(o)
      <3> DEFINE w == Head(offer[o]).work
      <3>1. w \in Works
        BY <1>0, <2>1, OfferFacts DEF AdmitReady
      <3>2. UNCHANGED queues
            \/ /\ Status(o, Head(offer[o])) = "ACCEPTED" /\ ingress' = Append(ingress, w)
               /\ UNCHANGED <<provider, publish>>
        BY <2>1 DEF AdmitReady, queues
      <3>3. Status(o, Head(offer[o])) = "ACCEPTED" => ~Full
        BY DEF Status
      <3> HIDE DEF w
      <3>4. UNCHANGED queues
            \/ /\ Len(ingress) < IngressCapacity /\ ingress' = Append(ingress, w)
               /\ UNCHANGED <<provider, publish>>
        BY <1>0, <1>c, <3>2, <3>3 DEF Full, QueuesOK
      <3> QED
        BY <1>0, <1>1, <1>c, <3>1, <3>4, Fits DEF QueuesOK
    <2> QED
      BY <1>1, <1>6, <2>1 DEF OfferStep, Recover
  <1>7. CASE DiscardEntry
    BY <1>0, <1>7, Fits, <1>c DEF DiscardEntry, QueuesOK
  <1>8. CASE Reopen
    BY <1>8, <1>c DEF Reopen, QueuesOK
  <1>9. "client" \in Offerers /\ "recovery" \in Offerers /\ "closer" \in Offerers
    BY DEF Offerers
  <1>10. CASE ClientStep \/ CloseStep
    BY <1>1, <1>6, <1>7, <1>9, <1>10 DEF ClientStep, CloseStep, OfferStep,
       CancelFails, CancelCommits, CancelDrops, DrainRaises, IsDrained, SetStop,
       CancelAdmitted, DiscardEnd, StopAllHeartbeats, JoinWorkers, JoinAgain
  <1>11. CASE UNCHANGED vars
    BY <1>1, <1>11 DEF vars
  <1> QED
    BY <1>1, <1>2, <1>3, <1>4, <1>5, <1>6, <1>8, <1>9, <1>10, <1>11 DEF Next,
       WorkerStep, FailClaim, Finish, ThreadExit, CallbackRaises, HeartbeatFails,
       Lapse, PeerClaim, PeerAnswers, Admit, CancelBegin, Close, CloseAgain

LEMMA SetsStep ==
    ASSUME TypeInv, [Next]_vars
    PROVE  SetsOK'
  <1>0. SetsOK /\ OffersOK
    BY DEF TypeInv
  <1>1. CASE UNCHANGED sets
    BY <1>0, <1>1 DEF SetsOK, sets
  <1>2. ASSUME NEW S, Dropped(S), cancelReq' \subseteq cancelReq PROVE SetsOK'
    BY <1>0, <1>2 DEF Dropped, SetsOK
  <1>3. ASSUME NEW t \in Workers, WorkerStep(t) PROVE SetsOK'
    <2>1. CASE Finish(t)
      BY <1>2, <2>1 DEF Finish
    <2> QED
      BY <1>1, <1>3, <2>1 DEF WorkerStep, IngressGet, PutProvider, ProviderStep,
         ProviderGet, ClaimAndStart, NoClaim, TrackHeartbeat, ProviderReturns,
         PutPublish, Refused, PublisherStep, PublishGet, PublishCheck,
         PublisherReturns, Succeed, FailClaim, ThreadExit
  <1>4. ASSUME NEW o \in Offerers, OfferStep(o) PROVE SetsOK'
    <2>1. CASE AdmitReady(o)
      <3> DEFINE w == Head(offer[o]).work
      <3>1. w \in Works
        BY <1>0, <2>1, OfferFacts DEF AdmitReady
      <3>2. /\ scheduled' \in {scheduled, scheduled \cup {w}} /\ cancelReq' = cancelReq
            /\ optional' \in {optional, optional \cup {w}, optional \ {w}}
            /\ shed' \in {shed, shed \cup {w}, shed \ {w}}
        BY <2>1 DEF AdmitReady
      <3> HIDE DEF w
      <3> QED
        BY <1>0, <3>1, <3>2 DEF SetsOK
    <2> QED
      BY <1>1, <1>4, <2>1 DEF OfferStep, Recover
  <1>5. "client" \in Offerers /\ "recovery" \in Offerers /\ "closer" \in Offerers
    BY DEF Offerers
  <1>6. CASE ClientStep
    <2>1. CASE CancelFails
      BY <1>0, <2>1 DEF CancelFails, SetsOK
    <2>2. CASE CancelDrops
      BY <1>2, <2>2 DEF CancelDrops
    <2> QED
      BY <1>1, <1>4, <1>5, <1>6, <2>1, <2>2 DEF ClientStep, OfferStep, CancelCommits
  <1>7. CASE CloseStep
    <2>1. CASE DiscardEntry
      BY <1>2, <2>1 DEF DiscardEntry
    <2>2. CASE DiscardEnd
      BY <1>2, <2>2 DEF DiscardEnd
    <2> QED
      BY <1>1, <1>4, <1>5, <1>7, <2>1, <2>2 DEF CloseStep, DrainRaises, IsDrained,
         SetStop, CancelAdmitted, StopAllHeartbeats, JoinWorkers, JoinAgain
  <1>8. ASSUME NEW w \in Works, NEW opt \in BOOLEAN, Admit(w, opt) PROVE SetsOK'
    BY <1>0, <1>8 DEF Admit, SetsOK
  <1>9. ASSUME NEW w \in Works, CancelBegin(w) PROVE SetsOK'
    BY <1>0, <1>9 DEF CancelBegin, SetsOK
  <1>10. ASSUME NEW mode, Close(mode) \/ CloseAgain(mode) PROVE SetsOK'
    BY <1>0, <1>1, <1>10 DEF Close, CloseAgain, SetsOK
  <1>11. CASE Reopen
    BY <1>11 DEF Reopen, SetsOK
  <1>12. CASE UNCHANGED vars
    BY <1>1, <1>12 DEF vars
  <1> QED
    BY <1>1, <1>3, <1>4, <1>5, <1>6, <1>7, <1>8, <1>9, <1>10, <1>11, <1>12 DEF Next,
       CallbackRaises, HeartbeatFails, Lapse, PeerClaim, PeerAnswers

LEMMA BeatStep ==
    ASSUME TypeInv, [Next]_vars
    PROVE  beat' \in [Claims -> Beats]
  <1>0. beat \in [Claims -> Beats]
    BY DEF TypeInv
  <1>1. CASE beat' = beat
    BY <1>0, <1>1
  <1>2. ASSUME NEW c, NEW b \in Beats, beat' = [beat EXCEPT ![c] = b]
        PROVE  beat' \in [Claims -> Beats]
    BY <1>0, <1>2
  <1>3. ASSUME NEW c, beat' = Stopped(c) PROVE beat' \in [Claims -> Beats]
    BY <1>0, <1>3 DEF Stopped, Beats
  <1>4. "none" \in Beats /\ "new" \in Beats /\ "error" \in Beats
    BY DEF Beats
  <1>5. ASSUME NEW t \in Workers, WorkerStep(t) PROVE beat' \in [Claims -> Beats]
    <2>1. CASE Finish(t)
      BY <1>1, <1>2, <1>4, <2>1 DEF Finish
    <2>2. CASE ClaimAndStart(t)
      BY <1>2, <1>4, <2>2 DEF ClaimAndStart
    <2>3. CASE TrackHeartbeat(t)
      <3>1. CASE stop
        BY <1>3, <2>3, <3>1 DEF TrackHeartbeat
      <3>2. CASE ~stop
        <4>1. beat' = [beat EXCEPT ![ClaimOf(t)] =
                         IF beat[ClaimOf(t)] = "new" THEN "alive" ELSE beat[ClaimOf(t)]]
          BY <2>3, <3>2 DEF TrackHeartbeat
        <4> HIDE DEF ClaimOf
        <4> QED
          BY <1>0, <4>1 DEF Beats
      <3> QED
        BY <3>1, <3>2
    <2>4. CASE Refused(t)
      BY <1>1, <1>3, <2>4 DEF Refused
    <2>5. CASE PublisherReturns(t)
      BY <1>1, <1>3, <2>5 DEF PublisherReturns
    <2> QED
      BY <1>1, <1>5, <2>1, <2>2, <2>3, <2>4, <2>5 DEF WorkerStep, IngressGet,
         PutProvider, ProviderStep, ProviderGet, NoClaim, ProviderReturns,
         PutPublish, PublisherStep, PublishGet, PublishCheck, Succeed, FailClaim,
         ThreadExit
  <1>6. CASE ClientStep \/ CloseStep \/ OfferStep("recovery")
    <2>1. CASE DiscardEntry
      BY <1>1, <1>2, <1>4, <2>1 DEF DiscardEntry
    <2>2. CASE StopAllHeartbeats
      BY <1>0, <2>2 DEF StopAllHeartbeats, Beats
    <2> QED
      BY <1>1, <1>6, <2>1, <2>2 DEF ClientStep, CloseStep, OfferStep, AdmitReady,
         Recover, CancelFails, CancelCommits, CancelDrops, DrainRaises, IsDrained,
         SetStop, CancelAdmitted, DiscardEnd, JoinWorkers, JoinAgain
  <1>7. ASSUME NEW t, NEW why, CallbackRaises(t, why) PROVE beat' \in [Claims -> Beats]
    BY <1>3, <1>7 DEF CallbackRaises
  <1>8. ASSUME NEW c, HeartbeatFails(c) PROVE beat' \in [Claims -> Beats]
    BY <1>2, <1>4, <1>8 DEF HeartbeatFails
  <1>9. CASE Reopen
    BY <1>4, <1>9 DEF Reopen
  <1>10. CASE UNCHANGED vars
    BY <1>1, <1>10 DEF vars
  <1> QED
    BY <1>1, <1>5, <1>6, <1>7, <1>8, <1>9, <1>10 DEF Next, Lapse, PeerClaim,
       PeerAnswers, Admit, CancelBegin, Close, CloseAgain

\* Only a new process clears _stop.
LEMMA FlagsStep ==
    ASSUME FlagsOK, [Next]_vars
    PROVE  FlagsOK' /\ (stop => stop' \/ Reopen)
  <1>1. ASSUME NEW t \in Workers, WorkerStep(t) PROVE UNCHANGED <<closed, stop>>
    BY <1>1 DEF WorkerStep, IngressGet, PutProvider, ProviderStep, ProviderGet,
       ClaimAndStart, NoClaim, TrackHeartbeat, ProviderReturns, PutPublish,
       Refused, PublisherStep, PublishGet, PublishCheck, PublisherReturns,
       Succeed, FailClaim, Finish, ThreadExit
  <1>2. CASE ClientStep \/ CloseStep \/ OfferStep("recovery")
    <2>1. UNCHANGED <<closed, stop>> \/ SetStop
      BY <1>2 DEF ClientStep, CloseStep, OfferStep, AdmitReady, Recover, CancelFails,
         CancelCommits, CancelDrops, DrainRaises, IsDrained, CancelAdmitted,
         DiscardEntry, DiscardEnd, StopAllHeartbeats, JoinWorkers, JoinAgain
    <2> QED
      BY <2>1 DEF FlagsOK, SetStop
  <1>3. CASE UNCHANGED vars
    BY <1>3 DEF vars, FlagsOK
  <1>4. CASE Reopen
    BY <1>4 DEF Reopen, FlagsOK
  <1>5. ASSUME NEW mode, Close(mode) \/ CloseAgain(mode)
        PROVE  FlagsOK' /\ (stop => stop')
    BY <1>5 DEF Close, CloseAgain, FlagsOK
  <1> QED
    BY <1>1, <1>2, <1>3, <1>4, <1>5 DEF Next, FlagsOK, CallbackRaises, HeartbeatFails,
       Lapse, PeerClaim, PeerAnswers, Admit, CancelBegin

LEMMA CancStep ==
    ASSUME TypeInv, [Next]_vars
    PROVE  CancOK'
  <1>0. left \in Script /\ JobsOK(job, left.attempts) /\ CancOK
    BY DEF TypeInv
  <1>1. CASE canc' = canc
    BY <1>0, <1>1, JobStep DEF Advance, CancelledStay, CancOK
  <1>2. CASE canc' = NoCancel
    <2> DEFINE no == FALSE
    <2>1. canc' = [at |-> "idle", work |-> 0, tracked |-> no] /\ no \in BOOLEAN
      BY <1>2 DEF NoCancel
    <2> HIDE DEF no
    <2> QED
      BY <2>1 DEF CancOK
  <1>3. CASE CancelCommits
    <2>1. canc' = [canc EXCEPT !.at = "drop"] /\ canc.work \in Works
          /\ canc'.work = canc.work
      BY <1>0, <1>3 DEF CancelCommits, CancOK
    <2>2. job'[canc.work].state = "CANCELLED"
      BY <1>0, <1>3, <2>1, CancelInLedgerOK DEF CancelCommits
    <2> QED
      BY <1>0, <2>1, <2>2 DEF CancOK
  <1>4. ASSUME NEW w \in Works, CancelBegin(w) PROVE CancOK'
    <2> DEFINE b == w \in scheduled
    <2>1. canc' = [at |-> "ledger", work |-> w, tracked |-> b] /\ b \in BOOLEAN
      BY <1>4 DEF CancelBegin
    <2> HIDE DEF b
    <2> QED
      BY <2>1 DEF CancOK
  <1>5. ASSUME NEW t \in Workers, WorkerStep(t) PROVE canc' = canc
    BY <1>5 DEF WorkerStep, IngressGet, PutProvider, ProviderStep, ProviderGet,
       ClaimAndStart, NoClaim, TrackHeartbeat, ProviderReturns, PutPublish,
       Refused, PublisherStep, PublishGet, PublishCheck, PublisherReturns,
       Succeed, FailClaim, Finish, ThreadExit, clients
  <1>6. CASE ClientStep \/ CloseStep \/ OfferStep("recovery")
    BY <1>1, <1>2, <1>3, <1>6 DEF ClientStep, CloseStep, OfferStep, AdmitReady,
       Recover, CancelFails, CancelDrops, DrainRaises, IsDrained, SetStop,
       CancelAdmitted, DiscardEntry, DiscardEnd, StopAllHeartbeats, JoinWorkers, JoinAgain,
       clients
  <1>7. CASE UNCHANGED vars
    BY <1>1, <1>7 DEF vars, clients
  <1> QED
    BY <1>1, <1>2, <1>4, <1>5, <1>6, <1>7 DEF Next, CallbackRaises, HeartbeatFails,
       Lapse, PeerClaim, PeerAnswers, Admit, Close, CloseAgain, Reopen, clients

\* A repeated close, which leaves the first one alone.
AgainGoes(a) == closer' = [closer EXCEPT !.again = a]

\* What each step does to the close in progress.
LEMMA CloserChange ==
    ASSUME [Next]_vars
    PROVE  \/ UNCHANGED closer
           \/ \E mode : Close(mode)
           \/ \E a : AgainGoes(a)
           \/ \E w : CancelAdmitted(w)
           \/ Reopen
           \/ SetStop \/ DiscardEnd \/ StopAllHeartbeats \/ JoinWorkers
           \/ CloserGoes("drained?") \/ CloserGoes("raised")
           \/ CloserGoes("stop") \/ CloserGoes("drain")
  <1>1. ASSUME NEW t \in Workers, WorkerStep(t) PROVE UNCHANGED closer
    BY <1>1 DEF WorkerStep, IngressGet, PutProvider, ProviderStep, ProviderGet,
       ClaimAndStart, NoClaim, TrackHeartbeat, ProviderReturns, PutPublish,
       Refused, PublisherStep, PublishGet, PublishCheck, PublisherReturns,
       Succeed, FailClaim, Finish, ThreadExit, clients
  <1>2. CASE ClientStep
    BY <1>2 DEF ClientStep, AdmitReady, CancelFails, CancelCommits, CancelDrops
  <1>3. CASE CloseStep \/ OfferStep("recovery")
    BY <1>3 DEF CloseStep, OfferStep, AdmitReady, Recover, DrainRaises, IsDrained,
       DiscardEntry, JoinAgain, AgainGoes, clients
  <1>4. CASE UNCHANGED vars
    BY <1>4 DEF vars, clients
  <1>5. ASSUME NEW mode, CloseAgain(mode) PROVE \E a : AgainGoes(a)
    BY <1>5 DEF CloseAgain, AgainGoes
  <1> QED
    BY <1>1, <1>2, <1>3, <1>4, <1>5 DEF Next, CallbackRaises, HeartbeatFails, Lapse,
       PeerClaim, PeerAnswers, Admit, CancelBegin, clients

LEMMA CloserStep ==
    ASSUME TypeInv, [Next]_vars
    PROVE  CloserOK'
  <1>0. CloserOK /\ FlagsOK /\ SetsOK
    BY DEF TypeInv
  <1>s. stop => stop' \/ Reopen
    BY <1>0, FlagsStep
  <1>1. CASE Reopen
    BY <1>1 DEF Reopen, NotClosing, CloserOK
  <1>2. CASE ~Reopen /\ UNCHANGED closer
    BY <1>0, <1>2, <1>s DEF CloserOK
  <1>3. ASSUME NEW at, CloserGoes(at)
        PROVE  /\ closer'.ids = closer.ids /\ closer'.left = closer.left
               /\ DOMAIN closer' = DOMAIN closer /\ closer'.at = at
    BY <1>0, <1>3 DEF CloserOK, CloserGoes
  <1>4. ASSUME NEW at \in {"drained?", "raised", "stop", "drain"}, CloserGoes(at)
        PROVE  CloserOK'
    BY <1>0, <1>3, <1>4 DEF CloserOK
  <1>5. CASE SetStop
    <2>1. stop' /\ \E at \in {"ledger", "beats"} : CloserGoes(at)
      BY <1>5 DEF SetStop
    <2> QED
      BY <1>0, <1>3, <2>1 DEF CloserOK
  <1>6. CASE DiscardEnd
    BY <1>0, <1>3, <1>6 DEF DiscardEnd, CloserOK, Closing
  <1>7. CASE StopAllHeartbeats
    BY <1>0, <1>3, <1>7 DEF StopAllHeartbeats, CloserOK, Closing
  <1>8. CASE JoinWorkers
    BY <1>0, <1>3, <1>8 DEF JoinWorkers, CloserOK, Closing
  <1>9. ASSUME NEW mode, Close(mode) PROVE CloserOK'
    <2> DEFINE ids == IF mode = "cancel" THEN scheduled \cup shed ELSE {}
               at == IF mode = "graceful" THEN "drain" ELSE "stop"
    <2>1. ids \subseteq Works /\ at \in {"drain", "stop"}
          /\ closer' = [at |-> at, mode |-> mode, ids |-> ids, left |-> ids,
                        again |-> "none"]
      BY <1>0, <1>9 DEF Close, SetsOK
    <2> HIDE DEF ids, at
    <2> QED
      BY <2>1 DEF CloserOK
  <1>10. ASSUME NEW w, CancelAdmitted(w) PROVE CloserOK'
    <2>1. closer' = [closer EXCEPT !.left = @ \ {w}] /\ stop' = stop
      BY <1>10 DEF CancelAdmitted
    <2> QED
      BY <1>0, <2>1 DEF CloserOK
  <1>11. ASSUME NEW a, AgainGoes(a), ~Reopen PROVE CloserOK'
    BY <1>0, <1>s, <1>11 DEF CloserOK, AgainGoes
  <1> QED
    BY <1>1, <1>2, <1>4, <1>5, <1>6, <1>7, <1>8, <1>9, <1>10, <1>11, CloserChange

LEMMA TypeInit == Init => TypeInv
  <1> SUFFICES ASSUME Init PROVE TypeInv
    OBVIOUS
  <1>1. left \in Script
    BY ScriptsAssumption DEF Init
  <1>2. left.attempts \in Nat \ {0} /\ 0 \in 0..left.attempts /\ 0 < left.attempts
    BY <1>1, Attempts, ScriptsAssumption
  <1>3. JobsOK(job, left.attempts)
    <2> DEFINE st(w) == IF w \in left.ready THEN "READY" ELSE "SUCCEEDED"
    <2>1. job = [w \in Works |-> Row(st(w), 0)]
      BY DEF Init
    <2>2. \A w \in Works : st(w) \in States
      BY DEF States, TerminalStates
    <2> HIDE DEF st
    <2>3. \A w \in Works : JobOK(Row(st(w), 0), left.attempts)
      BY <1>2, <2>2, RowOK
    <2> QED
      BY <2>1, <2>3 DEF JobsOK
  <1>4. HandsOK
    <2>1. hand = Fresh /\ \A t \in Workers : HandOK(t, Fresh[t])
      BY IdleHand DEF Init, Fresh
    <2> QED
      BY <2>1 DEF HandsOK, Fresh
  <1>5. QueuesOK
    BY CapacityAssumption DEF Init, QueuesOK
  <1>6. SetsOK /\ OffersOK
    BY DEF Init, SetsOK, OffersOK
  <1>7. CancOK
    <2> DEFINE no == FALSE
    <2>1. canc = [at |-> "idle", work |-> 0, tracked |-> no] /\ no \in BOOLEAN
      BY DEF Init, NoCancel
    <2> HIDE DEF no
    <2> QED
      BY <2>1 DEF CancOK
  <1>8. CloserOK /\ FlagsOK
    BY DEF Init, NotClosing, CloserOK, FlagsOK
  <1>9. beat \in [Claims -> Beats]
    BY DEF Init, Beats
  <1> QED
    BY <1>1, <1>3, <1>4, <1>5, <1>6, <1>7, <1>8, <1>9 DEF TypeInv

LEMMA TypeStep == TypeInv /\ [Next]_vars => TypeInv'
  <1> SUFFICES ASSUME TypeInv, [Next]_vars PROVE TypeInv'
    OBVIOUS
  <1>1. left' \in Script /\ JobsOK(job', left'.attempts)
    BY LeftStep, JobStep DEF TypeInv, Advance
  <1>2. HandsOK' /\ QueuesOK' /\ SetsOK' /\ OffersOK' /\ CancOK' /\ CloserOK'
    BY HandsStep, QueuesStep, SetsStep, OffersStep, CancStep, CloserStep
  <1>3. FlagsOK' /\ beat' \in [Claims -> Beats]
    BY FlagsStep, BeatStep DEF TypeInv
  <1> QED
    BY <1>1, <1>2, <1>3 DEF TypeInv, JobsOK, JobOK

LEMMA TypeInvIsTypeOK == TypeInv => TypeOK
  <1> SUFFICES ASSUME TypeInv PROVE TypeOK
    OBVIOUS
  <1>1. left.attempts \in Nat /\ left.attempts <= MaxAttempts /\ MaxAttempts \in Nat
    BY Attempts, ScriptsAssumption DEF TypeInv
  <1>2. job \in [Works -> [state: States, epoch: 0..MaxAttempts, live: BOOLEAN,
                           by: {"none", "lanes", "peer"}]]
    <2>1. job = [w \in Works |-> job[w]] /\ \A w \in Works : JobOK(job[w], left.attempts)
      BY DEF TypeInv, JobsOK
    <2>2. ASSUME NEW n \in Nat, NEW m \in Nat, n <= m, NEW x,
                 x \in [state: States, epoch: 0..n, live: BOOLEAN,
                        by: {"none", "lanes", "peer"}]
          PROVE  x \in [state: States, epoch: 0..m, live: BOOLEAN,
                        by: {"none", "lanes", "peer"}]
      BY <2>2
    <2> QED
      BY <1>1, <2>1, <2>2 DEF JobOK
  <1>3. \A t \in Workers : hand[t].work \in Works \cup {0}
                           /\ hand[t].epoch \in 0..MaxAttempts /\ hand[t].why \in Reasons
    BY DEF TypeInv, HandsOK, HandOK, HandSpace
  <1> QED
    BY <1>2, <1>3 DEF TypeInv, TypeOK, QueuesOK, SetsOK, FlagsOK

-----------------------------------------------------------------------------
(* The tokens of an item.                                                  *)

Bit(b) == IF b THEN 1 ELSE 0

\* The claims of an item.
Of(w) == {c \in Claims : c[1] = w}

\* The notifications of w that wait in a queue or are in a thread's hands, and
\* those of them that come with a claim.
InHands(w) == Cardinality({t \in Workers : hand[t].work = w})
WonHands(w) == Cardinality({t \in Workers : hand[t].work = w /\ hand[t].epoch # 0})
Tokens(w) == Count(ingress, {w}) + Count(provider, {w}) + Count(publish, Of(w))
               + InHands(w)
Claimers(w) == Count(publish, Of(w)) + WonHands(w)

LEMMA HandCounts ==
    ASSUME NEW w
    PROVE  /\ IsFiniteSet({t \in Workers : hand[t].work = w})
           /\ IsFiniteSet({t \in Workers : hand[t].work = w /\ hand[t].epoch # 0})
           /\ InHands(w) \in Nat /\ WonHands(w) \in Nat /\ WonHands(w) <= InHands(w)
  <1> DEFINE A == {t \in Workers : hand[t].work = w}
             B == {t \in Workers : hand[t].work = w /\ hand[t].epoch # 0}
  <1>1. A \in SUBSET Workers /\ B \in SUBSET A
    OBVIOUS
  <1> HIDE DEF A, B
  <1>2. IsFiniteSet(A)
    BY <1>1, ThreadsAre, FS_Subset
  <1>3. IsFiniteSet(B) /\ Cardinality(B) <= Cardinality(A)
    BY <1>1, <1>2, FS_Subset
  <1>4. Cardinality(A) \in Nat /\ Cardinality(B) \in Nat
    BY <1>2, <1>3, FS_CardinalityType
  <1> QED
    BY <1>2, <1>3, <1>4 DEF A, B, InHands, WonHands

LEMMA TokensType ==
    ASSUME QueuesOK, NEW w
    PROVE  /\ Count(ingress, {w}) \in Nat /\ Count(provider, {w}) \in Nat
           /\ Count(publish, Of(w)) \in Nat
           /\ Tokens(w) \in Nat /\ Claimers(w) \in Nat /\ Claimers(w) <= Tokens(w)
  <1>1. /\ Count(ingress, {w}) \in Nat /\ Count(provider, {w}) \in Nat
        /\ Count(publish, Of(w)) \in Nat
    BY CountType DEF QueuesOK
  <1>2. InHands(w) \in Nat /\ WonHands(w) \in Nat /\ WonHands(w) <= InHands(w)
    BY HandCounts
  <1> HIDE DEF Count, InHands, WonHands
  <1> QED
    BY <1>1, <1>2 DEF Tokens, Claimers

LEMMA NextTokensType ==
    ASSUME QueuesOK', NEW w
    PROVE  Tokens(w)' \in Nat /\ Claimers(w)' \in Nat
  <1> DEFINE A == {t \in Workers : hand'[t].work = w}
             B == {t \in Workers : hand'[t].work = w /\ hand'[t].epoch # 0}
  <1>1. A \in SUBSET Workers /\ B \in SUBSET Workers
    OBVIOUS
  <1>2. InHands(w)' = Cardinality(A) /\ WonHands(w)' = Cardinality(B)
    BY DEF InHands, WonHands
  <1> HIDE DEF A, B
  <1>3. InHands(w)' \in Nat /\ WonHands(w)' \in Nat
    BY <1>1, <1>2, ThreadsAre, FS_Subset, FS_CardinalityType
  <1>4. ingress' \in Seq(Works) /\ provider' \in Seq(Works) /\ publish' \in Seq(Claims)
    BY DEF QueuesOK
  <1>5. /\ Count(ingress', {w}) \in Nat /\ Count(provider', {w}) \in Nat
        /\ Count(publish', Of(w)) \in Nat
    BY <1>4, CountType
  <1> QED
    BY <1>3, <1>5 DEF Tokens, Claimers

\* What one thread picks up or puts down.
LEMMA HandMove ==
    ASSUME HandsOK, NEW t \in Workers, NEW x, hand' = [hand EXCEPT ![t] = x], NEW w
    PROVE  /\ InHands(w)' + Bit(hand[t].work = w) = InHands(w) + Bit(x.work = w)
           /\ WonHands(w)' + Bit(hand[t].work = w /\ hand[t].epoch # 0)
                = WonHands(w) + Bit(x.work = w /\ x.epoch # 0)
           /\ InHands(w)' \in Nat /\ WonHands(w)' \in Nat
  <1> DEFINE A == {u \in Workers : hand[u].work = w}
             B == {u \in Workers : hand'[u].work = w}
             C == {u \in Workers : hand[u].work = w /\ hand[u].epoch # 0}
             D == {u \in Workers : hand'[u].work = w /\ hand'[u].epoch # 0}
  <1>1. hand'[t] = x /\ \A u \in Workers : u # t => hand'[u] = hand[u]
    BY DEF HandsOK
  <1>2. /\ t \in A <=> hand[t].work = w
        /\ t \in B <=> x.work = w
        /\ t \in C <=> hand[t].work = w /\ hand[t].epoch # 0
        /\ t \in D <=> x.work = w /\ x.epoch # 0
        /\ \A u : u # t => (u \in A <=> u \in B) /\ (u \in C <=> u \in D)
    BY <1>1
  <1>3. IsFiniteSet(A) /\ IsFiniteSet(C)
    BY HandCounts
  <1>4. /\ InHands(w) = Cardinality(A) /\ WonHands(w) = Cardinality(C)
        /\ InHands(w)' = Cardinality(B) /\ WonHands(w)' = Cardinality(D)
    BY DEF InHands, WonHands
  <1> HIDE DEF A, B, C, D, InHands, WonHands
  <1>5. /\ Cardinality(B) + Bit(t \in A) = Cardinality(A) + Bit(t \in B)
        /\ Cardinality(B) \in Nat
    BY <1>2, <1>3, OneChange DEF Bit
  <1>6. /\ Cardinality(D) + Bit(t \in C) = Cardinality(C) + Bit(t \in D)
        /\ Cardinality(D) \in Nat
    BY <1>2, <1>3, OneChange DEF Bit
  <1> QED
    BY <1>2, <1>4, <1>5, <1>6 DEF Bit

\* A thread that goes on keeps what it holds.
HandsSame == \A t \in Workers : hand'[t].work = hand[t].work
                                /\ hand'[t].epoch = hand[t].epoch

LEMMA HandsSameCounts ==
    ASSUME HandsSame, NEW w
    PROVE  InHands(w)' = InHands(w) /\ WonHands(w)' = WonHands(w)
  <1>1. /\ {t \in Workers : hand'[t].work = w} = {t \in Workers : hand[t].work = w}
        /\ {t \in Workers : hand'[t].work = w /\ hand'[t].epoch # 0}
             = {t \in Workers : hand[t].work = w /\ hand[t].epoch # 0}
    BY DEF HandsSame
  <1> QED
    BY <1>1 DEF InHands, WonHands

LEMMA GoesSame ==
    ASSUME HandsOK, NEW t \in Workers,
           \/ \E at : Goes(t, at)
           \/ \E why : hand' = [hand EXCEPT ![t].at = "fail", ![t].why = why]
           \/ hand' = hand
    PROVE  HandsSame
  <1>0. \A u \in Workers : hand[u] \in HandSpace
    BY HandFacts
  <1>1. hand = [u \in Workers |-> hand[u]]
    BY DEF HandsOK
  <1>2. ASSUME NEW at, Goes(t, at) PROVE HandsSame
    BY <1>0, <1>1, <1>2 DEF Goes, HandsSame, HandSpace
  <1>3. ASSUME NEW why, hand' = [hand EXCEPT ![t].at = "fail", ![t].why = why]
        PROVE  HandsSame
    BY <1>0, <1>1, <1>3 DEF HandsSame, HandSpace
  <1> QED
    BY <1>2, <1>3 DEF HandsSame

\* The cases of a step, for one item.
Stays(w) ==
    /\ Tokens(w)' = Tokens(w) /\ Claimers(w)' = Claimers(w)
    /\ w \in scheduled' <=> w \in scheduled
Enters(w) ==
    /\ Tokens(w)' = Tokens(w) + 1 /\ Claimers(w)' = Claimers(w)
    /\ w \notin scheduled /\ ~stop /\ w \in scheduled'
Leaves(w) ==
    /\ Tokens(w)' = Tokens(w) - 1 /\ Claimers(w)' <= Claimers(w)
    /\ w \notin scheduled'
Released(w) ==
    /\ Tokens(w)' = Tokens(w) /\ Claimers(w)' = Claimers(w)
    /\ stop \/ job[w].state = "CANCELLED"
Won(w) ==
    /\ Tokens(w)' = Tokens(w) /\ Claimers(w)' = Claimers(w) + 1
    /\ Claimers(w) < Tokens(w) /\ job[w].state # "CANCELLED"
    /\ w \in scheduled' <=> w \in scheduled
Vanishes(w) == Tokens(w)' = 0 /\ Claimers(w)' = 0 /\ w \notin scheduled'

TokenStep(w) ==
    Stays(w) \/ Enters(w) \/ Leaves(w) \/ Released(w) \/ Won(w) \/ Vanishes(w)

\* Nothing moves.
LEMMA SameTokens ==
    ASSUME HandsSame, UNCHANGED queues, NEW w
    PROVE  Tokens(w)' = Tokens(w) /\ Claimers(w)' = Claimers(w)
  BY HandsSameCounts DEF Tokens, Claimers, queues

\* A thread with empty hands takes up notification v of item w, or another.
LEMMA TakeMove ==
    ASSUME HandsOK, NEW t \in Workers, NEW at \in Ats, NEW v \in Works,
           NEW e \in 0..MaxAttempts, Takes(t, at, v, e), NEW w \in Works
    PROVE  /\ hand[t].work = 0 =>
                 /\ InHands(w)' = InHands(w) + Bit(v = w)
                 /\ WonHands(w)' = WonHands(w) + Bit(v = w /\ e # 0)
           /\ hand[t].work = v /\ hand[t].epoch = 0 =>
                 /\ InHands(w)' = InHands(w)
                 /\ WonHands(w)' = WonHands(w) + Bit(v = w /\ e # 0)
  <1> DEFINE x == Taken(at, v, e)
  <1>1. hand' = [hand EXCEPT ![t] = x] /\ x.work = v /\ x.epoch = e
    BY TakesIs, TakenIs
  <1> HIDE DEF x
  <1>2. /\ InHands(w)' + Bit(hand[t].work = w) = InHands(w) + Bit(v = w)
        /\ WonHands(w)' + Bit(hand[t].work = w /\ hand[t].epoch # 0)
             = WonHands(w) + Bit(v = w /\ e # 0)
        /\ InHands(w)' \in Nat /\ WonHands(w)' \in Nat
    <2>1. /\ InHands(w)' + Bit(hand[t].work = w) = InHands(w) + Bit(x.work = w)
          /\ WonHands(w)' + Bit(hand[t].work = w /\ hand[t].epoch # 0)
               = WonHands(w) + Bit(x.work = w /\ x.epoch # 0)
          /\ InHands(w)' \in Nat /\ WonHands(w)' \in Nat
      BY <1>1, HandMove
    <2> HIDE DEF InHands, WonHands
    <2> QED
      BY <1>1, <2>1 DEF Bit
  <1>3. InHands(w) \in Nat /\ WonHands(w) \in Nat /\ w # 0
    BY HandCounts, WorksAssumption
  <1> HIDE DEF InHands, WonHands
  <1> QED
    BY <1>2, <1>3 DEF Bit

\* A thread puts down what it holds.
LEMMA RestMove ==
    ASSUME HandsOK, NEW t \in Workers, Rests(t), NEW w \in Works
    PROVE  /\ InHands(w)' = InHands(w) - Bit(hand[t].work = w)
           /\ WonHands(w)' = WonHands(w) - Bit(hand[t].work = w /\ hand[t].epoch # 0)
  <1>1. hand' = [hand EXCEPT ![t] = Idle] /\ Idle.work = 0
    BY DEF Rests, Idle
  <1>2. /\ InHands(w)' + Bit(hand[t].work = w) = InHands(w) + Bit(Idle.work = w)
        /\ WonHands(w)' + Bit(hand[t].work = w /\ hand[t].epoch # 0)
             = WonHands(w) + Bit(Idle.work = w /\ Idle.epoch # 0)
        /\ InHands(w)' \in Nat /\ WonHands(w)' \in Nat
    BY <1>1, HandMove
  <1>3. InHands(w) \in Nat /\ WonHands(w) \in Nat /\ w # 0
    BY HandCounts, WorksAssumption
  <1> HIDE DEF InHands, WonHands
  <1> QED
    BY <1>1, <1>2, <1>3 DEF Bit

LEMMA IngressTokens ==
    ASSUME TypeInv, IngressGet \/ PutProvider, NEW w \in Works
    PROVE  Stays(w)
  <1>0. HandsOK /\ QueuesOK /\ "ingress" \in Workers /\ MaxAttempts \in Nat
    BY ThreadsAre, ScriptsAssumption DEF TypeInv
  <1>h. HandOK("ingress", hand["ingress"]) /\ InHands(w) \in Nat /\ WonHands(w) \in Nat
    BY <1>0, HandFacts, HandCounts
  <1>t. /\ Count(ingress, {w}) \in Nat /\ Count(provider, {w}) \in Nat
        /\ Count(publish, Of(w)) \in Nat
    BY <1>0, TokensType
  <1>1. CASE IngressGet
    <2> DEFINE v == Head(ingress)
    <2>1. /\ ingress # << >> /\ ingress' = Tail(ingress) /\ UNCHANGED <<provider, publish>>
          /\ Takes("ingress", "put", v, 0) /\ hand["ingress"].at = "wait"
          /\ scheduled' = scheduled
      BY <1>1 DEF IngressGet, Holding, sets
    <2>2. v \in Works /\ "put" \in Ats /\ 0 \in 0..MaxAttempts
      BY <1>0, <2>1, HeadTail DEF QueuesOK, Ats
    <2>3. hand["ingress"].work = 0
      BY <1>h, <2>1 DEF HandOK
    <2>4. InHands(w)' = InHands(w) + Bit(v = w) /\ WonHands(w)' = WonHands(w)
      <3>1. /\ InHands(w)' = InHands(w) + Bit(v = w)
            /\ WonHands(w)' = WonHands(w) + Bit(v = w /\ 0 # 0)
        BY <1>0, <2>1, <2>2, <2>3, TakeMove
      <3> HIDE DEF InHands, WonHands
      <3> QED
        BY <1>h, <3>1 DEF Bit
    <2>5. Count(Tail(ingress), {w}) + Bit(v \in {w}) = Count(ingress, {w})
      BY <1>0, <2>1, CountTail DEF QueuesOK, Bit
    <2>6. Count(Tail(ingress), {w}) \in Nat
      BY <1>0, <2>1, HeadTail, CountType DEF QueuesOK
    <2> HIDE DEF v, InHands, WonHands, Count
    <2>7. Tokens(w)' = Tokens(w) /\ Claimers(w)' = Claimers(w)
      BY <1>h, <1>t, <2>1, <2>4, <2>5, <2>6 DEF Tokens, Claimers, Bit
    <2> QED
      BY <2>1, <2>7 DEF Stays
  <1>2. CASE PutProvider
    <2> DEFINE v == hand["ingress"].work
    <2>1. /\ UNCHANGED <<ingress, publish>> /\ scheduled' = scheduled
          /\ hand["ingress"].at = "put"
          /\ \/ Goes("ingress", "fin") /\ UNCHANGED provider
             \/ provider' = Append(provider, v) /\ Rests("ingress")
      BY <1>2 DEF PutProvider, Holding, sets
    <2>2. v \in Works /\ hand["ingress"].epoch = 0
      BY <1>0, <1>h, <2>1, HandFacts DEF HandOK
    <2>3. CASE Goes("ingress", "fin") /\ UNCHANGED provider
      BY <1>0, <2>1, <2>3, GoesSame, SameTokens DEF Stays, queues
    <2>4. CASE provider' = Append(provider, v) /\ Rests("ingress")
      <3>1. InHands(w)' = InHands(w) - Bit(v = w) /\ WonHands(w)' = WonHands(w) - Bit(FALSE)
        BY <1>0, <2>2, <2>4, RestMove
      <3>2. Count(Append(provider, v), {w}) = Count(provider, {w}) + Bit(v \in {w})
        BY <1>0, <2>2, CountAppend DEF QueuesOK, Bit
      <3> HIDE DEF v, InHands, WonHands, Count
      <3>3. Tokens(w)' = Tokens(w) /\ Claimers(w)' = Claimers(w)
        BY <1>h, <1>t, <2>1, <2>4, <3>1, <3>2 DEF Tokens, Claimers, Bit
      <3> QED
        BY <2>1, <3>3 DEF Stays
    <2> QED
      BY <2>1, <2>3, <2>4
  <1> QED
    BY <1>1, <1>2

LEMMA ProviderTokens ==
    ASSUME TypeInv, NEW t \in Providers, ProviderStep(t), NEW w \in Works
    PROVE  Stays(w) \/ Won(w)
  <1>0. HandsOK /\ QueuesOK /\ t \in Workers /\ t # "ingress" /\ MaxAttempts \in Nat
        /\ left \in Script /\ JobsOK(job, left.attempts)
    BY ThreadsAre, ScriptsAssumption DEF TypeInv
  <1>h. HandOK(t, hand[t]) /\ InHands(w) \in Nat /\ WonHands(w) \in Nat
        /\ WonHands(w) <= InHands(w)
    BY <1>0, HandFacts, HandCounts
  <1>t. /\ Count(ingress, {w}) \in Nat /\ Count(provider, {w}) \in Nat
        /\ Count(publish, Of(w)) \in Nat
    BY <1>0, TokensType
  <1>1. CASE ProviderGet(t)
    <2> DEFINE v == Head(provider)
    <2>1. /\ provider # << >> /\ provider' = Tail(provider) /\ UNCHANGED <<ingress, publish>>
          /\ Takes(t, "claim", v, 0) /\ hand[t].at = "wait" /\ scheduled' = scheduled
      BY <1>1 DEF ProviderGet, Holding, sets
    <2>2. v \in Works /\ "claim" \in Ats /\ 0 \in 0..MaxAttempts
      BY <1>0, <2>1, HeadTail DEF QueuesOK, Ats
    <2>3. hand[t].work = 0
      BY <1>h, <2>1 DEF HandOK
    <2>4. InHands(w)' = InHands(w) + Bit(v = w) /\ WonHands(w)' = WonHands(w)
      <3>1. /\ InHands(w)' = InHands(w) + Bit(v = w)
            /\ WonHands(w)' = WonHands(w) + Bit(v = w /\ 0 # 0)
        BY <1>0, <2>1, <2>2, <2>3, TakeMove
      <3> HIDE DEF InHands, WonHands
      <3> QED
        BY <1>h, <3>1 DEF Bit
    <2>5. Count(Tail(provider), {w}) + Bit(v \in {w}) = Count(provider, {w})
      BY <1>0, <2>1, CountTail DEF QueuesOK, Bit
    <2>6. Count(Tail(provider), {w}) \in Nat
      BY <1>0, <2>1, HeadTail, CountType DEF QueuesOK
    <2> HIDE DEF v, InHands, WonHands, Count
    <2>7. Tokens(w)' = Tokens(w) /\ Claimers(w)' = Claimers(w)
      BY <1>h, <1>t, <2>1, <2>4, <2>5, <2>6 DEF Tokens, Claimers, Bit
    <2> QED
      BY <2>1, <2>7 DEF Stays
  <1>2. CASE ClaimAndStart(t)
    <2> DEFINE v == hand[t].work
               e == Maintain(job)[v].epoch + 1
    <2>1. /\ hand[t].at = "claim" /\ Takes(t, "track", v, e)
          /\ Maintain(job)[v].state = "READY"
          /\ UNCHANGED queues /\ scheduled' = scheduled
      BY <1>2 DEF ClaimAndStart, Holding, sets
    <2>2. v \in Works /\ hand[t].epoch = 0 /\ "track" \in Ats
      BY <1>0, <1>h, <2>1, HandFacts DEF HandOK, Ats
    <2>3. e \in 1..MaxAttempts
      BY <1>0, <2>1, <2>2, StartedOK
    <2>4. job[v].state # "CANCELLED"
      BY <1>0, <2>1, <2>2, MaintainOK DEF Advance, CancelledStay
    <2>5. v = hand[t].work /\ e \in 0..MaxAttempts /\ e # 0
      BY <2>3
    <2>6. WonHands(v) < InHands(v)
      <3> DEFINE A == {u \in Workers : hand[u].work = v}
                 B == {u \in Workers : hand[u].work = v /\ hand[u].epoch # 0}
      <3>1. B \in SUBSET A /\ t \in A /\ t \notin B
        BY <1>0, <2>2
      <3>2. IsFiniteSet(A) /\ Cardinality(A) = InHands(v) /\ Cardinality(B) = WonHands(v)
            /\ InHands(v) \in Nat /\ WonHands(v) \in Nat
        BY HandCounts DEF InHands, WonHands
      <3> HIDE DEF A, B, InHands, WonHands
      <3>3. Cardinality(B) <= Cardinality(A) /\ Cardinality(B) # Cardinality(A)
        BY <3>1, <3>2, FS_Subset
      <3> QED
        BY <3>2, <3>3
    <2> HIDE DEF v, e
    <2>7. InHands(w)' = InHands(w) /\ WonHands(w)' = WonHands(w) + Bit(v = w /\ e # 0)
      BY <1>0, <2>1, <2>2, <2>5, TakeMove
    <2> HIDE DEF InHands, WonHands, Count
    <2>8. CASE v = w
      <3>1. Tokens(w)' = Tokens(w) /\ Claimers(w)' = Claimers(w) + 1 /\ Claimers(w) < Tokens(w)
        BY <1>h, <1>t, <2>1, <2>5, <2>6, <2>7, <2>8 DEF Tokens, Claimers, Bit, queues
      <3> QED
        BY <2>1, <2>4, <2>8, <3>1 DEF Won
    <2>9. CASE v # w
      <3>1. Tokens(w)' = Tokens(w) /\ Claimers(w)' = Claimers(w)
        BY <1>h, <1>t, <2>1, <2>7, <2>9 DEF Tokens, Claimers, Bit, queues
      <3> QED
        BY <2>1, <3>1 DEF Stays
    <2> QED
      BY <2>8, <2>9
  <1>3. CASE PutPublish(t)
    <2> DEFINE v == hand[t].work
               c == ClaimOf(t)
    <2>1. /\ UNCHANGED <<ingress, provider>> /\ scheduled' = scheduled /\ hand[t].at = "put"
          /\ \/ Goes(t, "refused") /\ UNCHANGED publish
             \/ publish' = Append(publish, c) /\ Rests(t)
      BY <1>3 DEF PutPublish, Holding, sets
    <2>2. v \in Works /\ hand[t].epoch # 0 /\ hand[t].epoch \in 0..MaxAttempts
      BY <1>0, <1>h, <2>1, HandFacts DEF HandOK
    <2>3. CASE Goes(t, "refused") /\ UNCHANGED publish
      BY <1>0, <2>1, <2>3, GoesSame, SameTokens DEF Stays, queues
    <2>4. CASE publish' = Append(publish, c) /\ Rests(t)
      <3>1. /\ InHands(w)' = InHands(w) - Bit(v = w)
            /\ WonHands(w)' = WonHands(w) - Bit(v = w)
        BY <1>0, <2>2, <2>4, RestMove DEF Bit
      <3>2. c \in Claims /\ (c \in Of(w) <=> v = w)
        BY <1>0, <2>2 DEF Claims, ClaimOf, Of
      <3> HIDE DEF c
      <3>3. Count(Append(publish, c), Of(w)) = Count(publish, Of(w)) + Bit(v = w)
        BY <1>0, <3>2, CountAppend DEF QueuesOK, Bit
      <3> HIDE DEF v, InHands, WonHands, Count
      <3>4. Tokens(w)' = Tokens(w) /\ Claimers(w)' = Claimers(w)
        <4>1. Count(publish, Of(w))' = Count(publish, Of(w)) + Bit(v = w)
          BY <2>4, <3>3
        <4>2. UNCHANGED <<ingress, provider>>
          BY <2>1
        <4> QED
          BY <1>h, <1>t, <3>1, <4>1, <4>2 DEF Tokens, Claimers, Bit
      <3> QED
        BY <2>1, <3>4 DEF Stays
    <2> QED
      BY <2>1, <2>3, <2>4
  <1>4. CASE NoClaim(t) \/ TrackHeartbeat(t) \/ ProviderReturns(t) \/ Refused(t)
    <2>1. /\ UNCHANGED queues /\ scheduled' = scheduled
          /\ \/ \E at : Goes(t, at)
             \/ \E why : hand' = [hand EXCEPT ![t].at = "fail", ![t].why = why]
      BY <1>4 DEF NoClaim, TrackHeartbeat, ProviderReturns, Refused, sets
    <2> QED
      BY <1>0, <2>1, GoesSame, SameTokens DEF Stays
  <1> QED
    BY <1>1, <1>2, <1>3, <1>4 DEF ProviderStep

LEMMA PublisherTokens ==
    ASSUME TypeInv, NEW t \in Publishers, PublisherStep(t), NEW w \in Works
    PROVE  Stays(w)
  <1>0. HandsOK /\ QueuesOK /\ t \in Workers /\ MaxAttempts \in Nat
    BY ThreadsAre, ScriptsAssumption DEF TypeInv
  <1>h. HandOK(t, hand[t]) /\ InHands(w) \in Nat /\ WonHands(w) \in Nat
    BY <1>0, HandFacts, HandCounts
  <1>t. /\ Count(ingress, {w}) \in Nat /\ Count(provider, {w}) \in Nat
        /\ Count(publish, Of(w)) \in Nat
    BY <1>0, TokensType
  <1>1. CASE PublishGet(t)
    <2> DEFINE c == Head(publish)
               v == c[1]
               e == c[2]
    <2>1. /\ publish # << >> /\ publish' = Tail(publish) /\ UNCHANGED <<ingress, provider>>
          /\ Takes(t, "check", v, e) /\ hand[t].at = "wait" /\ scheduled' = scheduled
      BY <1>1 DEF PublishGet, Holding, sets
    <2>2. c \in Claims
      BY <1>0, <2>1, HeadTail DEF QueuesOK
    <2>3. v \in Works /\ "check" \in Ats /\ e \in 0..MaxAttempts /\ e # 0
          /\ (c \in Of(w) <=> v = w)
      BY <1>0, <2>2 DEF Claims, Ats, Of
    <2>4. hand[t].work = 0
      BY <1>h, <2>1 DEF HandOK
    <2>5. Count(Tail(publish), Of(w)) + Bit(v = w) = Count(publish, Of(w))
      BY <1>0, <2>1, <2>3, CountTail DEF QueuesOK, Bit
    <2>6. Count(Tail(publish), Of(w)) \in Nat
      BY <1>0, <2>1, HeadTail, CountType DEF QueuesOK
    <2> HIDE DEF c, v, e
    <2>7. InHands(w)' = InHands(w) + Bit(v = w)
          /\ WonHands(w)' = WonHands(w) + Bit(v = w /\ e # 0)
      BY <1>0, <2>1, <2>3, <2>4, TakeMove
    <2> HIDE DEF InHands, WonHands, Count
    <2>8. Tokens(w)' = Tokens(w) /\ Claimers(w)' = Claimers(w)
      <3>1. /\ Count(publish, Of(w))' + Bit(v = w) = Count(publish, Of(w))
            /\ Count(publish, Of(w))' \in Nat
        BY <2>1, <2>5, <2>6
      <3>2. UNCHANGED <<ingress, provider>> /\ e # 0
        BY <2>1, <2>3
      <3> QED
        BY <1>h, <1>t, <2>7, <3>1, <3>2 DEF Tokens, Claimers, Bit
    <2> QED
      BY <2>1, <2>8 DEF Stays
  <1>2. CASE PublishCheck(t) \/ PublisherReturns(t) \/ Succeed(t)
    <2>1. UNCHANGED queues /\ scheduled' = scheduled /\ \E at : Goes(t, at)
      BY <1>2 DEF PublishCheck, PublisherReturns, Succeed, sets
    <2> QED
      BY <1>0, <2>1, GoesSame, SameTokens DEF Stays
  <1> QED
    BY <1>1, <1>2 DEF PublisherStep

LEMMA FinishTokens ==
    ASSUME TypeInv, NEW t \in Workers, FailClaim(t) \/ Finish(t) \/ ThreadExit(t),
           NEW w \in Works
    PROVE  Stays(w) \/ Leaves(w)
  <1>0. HandsOK /\ QueuesOK
    BY DEF TypeInv
  <1>h. InHands(w) \in Nat /\ WonHands(w) \in Nat
    BY HandCounts
  <1>t. /\ Count(ingress, {w}) \in Nat /\ Count(provider, {w}) \in Nat
        /\ Count(publish, Of(w)) \in Nat
    BY <1>0, TokensType
  <1>1. CASE FailClaim(t) \/ ThreadExit(t)
    <2>1. UNCHANGED queues /\ scheduled' = scheduled /\ \E at : Goes(t, at)
      BY <1>1 DEF FailClaim, ThreadExit, sets
    <2> QED
      BY <1>0, <2>1, GoesSame, SameTokens DEF Stays
  <1>2. CASE Finish(t)
    <2> DEFINE v == hand[t].work
    <2>1. UNCHANGED queues /\ scheduled' = scheduled \ {v} /\ Rests(t)
      BY <1>2 DEF Finish, Dropped
    <2>2. /\ InHands(w)' = InHands(w) - Bit(v = w)
          /\ WonHands(w)' = WonHands(w) - Bit(v = w /\ hand[t].epoch # 0)
      BY <1>0, <2>1, RestMove
    <2> HIDE DEF v, InHands, WonHands, Count
    <2>3. CASE v = w
      <3>1. Tokens(w)' = Tokens(w) - 1 /\ Claimers(w)' <= Claimers(w)
        BY <1>h, <1>t, <2>1, <2>2, <2>3 DEF Tokens, Claimers, Bit, queues
      <3> QED
        BY <2>1, <2>3, <3>1 DEF Leaves
    <2>4. CASE v # w
      <3>1. Tokens(w)' = Tokens(w) /\ Claimers(w)' = Claimers(w)
        BY <1>h, <1>t, <2>1, <2>2, <2>4 DEF Tokens, Claimers, Bit, queues
      <3> QED
        BY <2>1, <2>4, <3>1 DEF Stays
    <2> QED
      BY <2>3, <2>4
  <1> QED
    BY <1>1, <1>2

\* An admission makes a token only of an item that has none tracked, and only
\* while the runtime works.
LEMMA OfferTokens ==
    ASSUME TypeInv, NEW o \in Offerers, OfferStep(o), NEW w \in Works
    PROVE  Stays(w) \/ Enters(w)
  <1>0. HandsOK /\ QueuesOK /\ OffersOK
    BY DEF TypeInv
  <1>s. HandsSame
    BY DEF OfferStep, Recover, AdmitReady, HandsSame
  <1>t. /\ Count(ingress, {w}) \in Nat /\ Count(provider, {w}) \in Nat
        /\ Count(publish, Of(w)) \in Nat /\ InHands(w) \in Nat /\ WonHands(w) \in Nat
        /\ InHands(w)' = InHands(w) /\ WonHands(w)' = WonHands(w)
    BY <1>0, <1>s, TokensType, HandCounts, HandsSameCounts
  <1>1. CASE UNCHANGED queues /\ scheduled' = scheduled
    BY <1>1, <1>s, SameTokens DEF Stays
  <1>2. CASE AdmitReady(o) /\ Status(o, Head(offer[o])) = "ACCEPTED"
    <2> DEFINE v == Head(offer[o]).work
    <2>1. /\ ingress' = Append(ingress, v) /\ UNCHANGED <<provider, publish>>
          /\ scheduled' = scheduled \cup {v} /\ v \notin scheduled /\ ~stop
      BY <1>2 DEF AdmitReady, Status
    <2>2. v \in Works
      BY <1>0, <1>2, OfferFacts DEF AdmitReady
    <2>3. Count(Append(ingress, v), {w}) = Count(ingress, {w}) + Bit(v \in {w})
      BY <1>0, <2>2, CountAppend DEF QueuesOK, Bit
    <2> HIDE DEF v, InHands, WonHands, Count
    <2>4. Tokens(w)' = Tokens(w) + Bit(v = w) /\ Claimers(w)' = Claimers(w)
      BY <1>t, <2>1, <2>3 DEF Tokens, Claimers, Bit
    <2>5. Tokens(w) \in Nat
      BY <1>0, TokensType
    <2> HIDE DEF Tokens, Claimers
    <2> QED
      BY <2>1, <2>4, <2>5 DEF Stays, Enters, Bit
  <1>3. Recover(o) \/ (AdmitReady(o) /\ Status(o, Head(offer[o])) # "ACCEPTED")
        => UNCHANGED queues /\ scheduled' = scheduled
    BY DEF Recover, AdmitReady, queues, sets
  <1> QED
    BY <1>1, <1>2, <1>3 DEF OfferStep

LEMMA DiscardTokens ==
    ASSUME TypeInv, DiscardEntry, NEW w \in Works
    PROVE  Stays(w) \/ Leaves(w)
  <1>0. HandsOK /\ QueuesOK
    BY DEF TypeInv
  <1>s. HandsSame
    BY DEF DiscardEntry, HandsSame
  <1>t. /\ Count(ingress, {w}) \in Nat /\ Count(provider, {w}) \in Nat
        /\ Count(publish, Of(w)) \in Nat /\ InHands(w) \in Nat /\ WonHands(w) \in Nat
        /\ InHands(w)' = InHands(w) /\ WonHands(w)' = WonHands(w)
    BY <1>0, <1>s, TokensType, HandCounts, HandsSameCounts
  <1>q. ingress \in Seq(Works) /\ provider \in Seq(Works) /\ publish \in Seq(Claims)
    BY <1>0 DEF QueuesOK
  <1>1. ASSUME NEW v, scheduled' = scheduled \ {v},
               Tokens(w)' = Tokens(w) - Bit(v = w), Claimers(w)' <= Claimers(w),
               v # w => Claimers(w)' = Claimers(w)
        PROVE  Stays(w) \/ Leaves(w)
    <2>1. Tokens(w) \in Nat
      BY <1>0, TokensType
    <2> HIDE DEF Tokens, Claimers
    <2> QED
      BY <1>1, <2>1 DEF Stays, Leaves, Bit
  <1>2. CASE /\ ingress # << >> /\ scheduled' = scheduled \ {Head(ingress)}
             /\ ingress' = Tail(ingress) /\ UNCHANGED <<provider, publish>>
    <2> DEFINE v == Head(ingress)
    <2>1. Count(Tail(ingress), {w}) + Bit(v \in {w}) = Count(ingress, {w})
      BY <1>q, <1>2, CountTail DEF Bit
    <2>2. Count(Tail(ingress), {w}) \in Nat
      BY <1>q, <1>2, HeadTail, CountType
    <2> HIDE DEF v, InHands, WonHands, Count
    <2>3. Tokens(w)' = Tokens(w) - Bit(v = w) /\ Claimers(w)' <= Claimers(w)
          /\ (v # w => Claimers(w)' = Claimers(w))
      BY <1>t, <1>2, <2>1, <2>2 DEF Tokens, Claimers, Bit
    <2>4. scheduled' = scheduled \ {v}
      BY <1>2 DEF v
    <2> HIDE DEF Tokens, Claimers
    <2> QED
      BY <1>1, <2>3, <2>4
  <1>3. CASE /\ provider # << >> /\ scheduled' = scheduled \ {Head(provider)}
             /\ provider' = Tail(provider) /\ UNCHANGED <<ingress, publish>>
    <2> DEFINE v == Head(provider)
    <2>1. Count(Tail(provider), {w}) + Bit(v \in {w}) = Count(provider, {w})
      BY <1>q, <1>3, CountTail DEF Bit
    <2>2. Count(Tail(provider), {w}) \in Nat
      BY <1>q, <1>3, HeadTail, CountType
    <2> HIDE DEF v, InHands, WonHands, Count
    <2>3. Tokens(w)' = Tokens(w) - Bit(v = w) /\ Claimers(w)' <= Claimers(w)
          /\ (v # w => Claimers(w)' = Claimers(w))
      BY <1>t, <1>3, <2>1, <2>2 DEF Tokens, Claimers, Bit
    <2>4. scheduled' = scheduled \ {v}
      BY <1>3 DEF v
    <2> HIDE DEF Tokens, Claimers
    <2> QED
      BY <1>1, <2>3, <2>4
  <1>4. CASE /\ publish # << >> /\ scheduled' = scheduled \ {Head(publish)[1]}
             /\ publish' = Tail(publish) /\ UNCHANGED <<ingress, provider>>
    <2> DEFINE c == Head(publish)
               v == c[1]
    <2>1. c \in Claims /\ (c \in Of(w) <=> v = w)
      BY <1>q, <1>4, HeadTail DEF Of
    <2>2. Count(Tail(publish), Of(w)) + Bit(v = w) = Count(publish, Of(w))
      BY <1>q, <1>4, <2>1, CountTail DEF Bit
    <2>3. Count(Tail(publish), Of(w)) \in Nat
      BY <1>q, <1>4, HeadTail, CountType
    <2>4. scheduled' = scheduled \ {v}
      BY <1>4
    <2> HIDE DEF c, v, InHands, WonHands, Count
    <2>5. Tokens(w)' = Tokens(w) - Bit(v = w) /\ Claimers(w)' <= Claimers(w)
          /\ (v # w => Claimers(w)' = Claimers(w))
      <3>1. /\ Count(publish, Of(w))' + Bit(v = w) = Count(publish, Of(w))
            /\ Count(publish, Of(w))' \in Nat
        BY <1>4, <2>2, <2>3
      <3>2. UNCHANGED <<ingress, provider>>
        BY <1>4
      <3> QED
        BY <1>t, <3>1, <3>2 DEF Tokens, Claimers, Bit
    <2> HIDE DEF Tokens, Claimers
    <2> QED
      BY <1>1, <2>4, <2>5
  <1> QED
    BY <1>2, <1>3, <1>4 DEF DiscardEntry, Dropped

LEMMA EmptyTokens ==
    ASSUME ingress = << >>, provider = << >>, publish = << >>, NEW w,
           \A t \in Workers : hand[t].work # w
    PROVE  Tokens(w) = 0 /\ Claimers(w) = 0
  <1>1. {t \in Workers : hand[t].work = w} = {}
        /\ {t \in Workers : hand[t].work = w /\ hand[t].epoch # 0} = {}
    OBVIOUS
  <1>2. InHands(w) = 0 /\ WonHands(w) = 0
    BY <1>1, FS_EmptySet DEF InHands, WonHands
  <1>3. << >> \in Seq(Works) /\ << >> \in Seq(Claims)
    OBVIOUS
  <1>4. Count(ingress, {w}) = 0 /\ Count(provider, {w}) = 0 /\ Count(publish, Of(w)) = 0
    BY <1>3, CountType
  <1> QED
    BY <1>2, <1>4 DEF Tokens, Claimers

LEMMA FreshEmpty == \A t \in Workers : Fresh[t].work = 0
  BY DEF Fresh, Idle

LEMMA ReopenTokens ==
    ASSUME Reopen, NEW w \in Works
    PROVE  Vanishes(w)
  <1>1. /\ ingress' = << >> /\ provider' = << >> /\ publish' = << >>
        /\ hand' = Fresh /\ scheduled' = {}
    BY DEF Reopen
  <1>2. \A t \in Workers : hand'[t].work # w
    BY <1>1, FreshEmpty, WorksAssumption
  <1>3. Tokens(w)' = 0 /\ Claimers(w)' = 0
    <2>1. {t \in Workers : hand'[t].work = w} = {}
          /\ {t \in Workers : hand'[t].work = w /\ hand'[t].epoch # 0} = {}
      BY <1>2
    <2>2. InHands(w)' = 0 /\ WonHands(w)' = 0
      BY <2>1, FS_EmptySet DEF InHands, WonHands
    <2>3. << >> \in Seq(Works) /\ << >> \in Seq(Claims)
      OBVIOUS
    <2>4. Count(<< >>, {w}) = 0 /\ Count(<< >>, Of(w)) = 0
      BY <2>3, CountType
    <2> QED
      BY <1>1, <2>2, <2>4 DEF Tokens, Claimers
  <1> QED
    BY <1>1, <1>3 DEF Vanishes

\* Every step, for every item.
LEMMA EveryTokenStep ==
    ASSUME TypeInv, [Next]_vars, NEW w \in Works
    PROVE  TokenStep(w)
  <1>0. HandsOK /\ QueuesOK /\ CancOK /\ CloserOK
    BY DEF TypeInv
  <1>1. CASE hand' = hand /\ UNCHANGED queues /\ scheduled' = scheduled
    <2>1. HandsSame
      BY <1>1 DEF HandsSame
    <2> QED
      BY <1>1, <2>1, SameTokens DEF TokenStep, Stays
  <1>2. ASSUME NEW t \in Workers, WorkerStep(t) PROVE TokenStep(w)
    BY <1>2, IngressTokens, ProviderTokens, PublisherTokens, FinishTokens
       DEF WorkerStep, TokenStep
  <1>3. ASSUME NEW t \in Providers \cup Publishers, NEW why, CallbackRaises(t, why)
        PROVE  TokenStep(w)
    <2>1. t \in Workers
      BY ThreadsAre
    <2>2. UNCHANGED queues /\ scheduled' = scheduled
          /\ hand' = [hand EXCEPT ![t].at = "fail", ![t].why = why]
      BY <1>3 DEF CallbackRaises, sets
    <2> QED
      BY <1>0, <2>1, <2>2, GoesSame, SameTokens DEF TokenStep, Stays
  <1>4. "client" \in Offerers /\ "recovery" \in Offerers /\ "closer" \in Offerers
    BY DEF Offerers
  <1>5. ASSUME NEW o \in Offerers, OfferStep(o) PROVE TokenStep(w)
    BY <1>5, OfferTokens DEF TokenStep
  <1>6. CASE ClientStep
    <2>1. CASE CancelDrops
      <3>1. hand' = hand /\ UNCHANGED queues /\ scheduled' = scheduled \ {canc.work}
            /\ job[canc.work].state = "CANCELLED"
        BY <1>0, <2>1 DEF CancelDrops, Dropped, CancOK
      <3>2. HandsSame
        BY <3>1 DEF HandsSame
      <3>3. Tokens(w)' = Tokens(w) /\ Claimers(w)' = Claimers(w)
        BY <3>1, <3>2, SameTokens
      <3> QED
        BY <3>1, <3>3 DEF TokenStep, Stays, Released
    <2> QED
      BY <1>1, <1>4, <1>5, <1>6, <2>1 DEF ClientStep, OfferStep, CancelFails,
         CancelCommits, sets
  <1>7. CASE CloseStep
    <2>1. CASE DiscardEntry
      BY <2>1, DiscardTokens DEF TokenStep
    <2>2. CASE DiscardEnd
      <3>1. hand' = hand /\ UNCHANGED queues /\ stop
        BY <1>0, <2>2 DEF DiscardEnd, CloserOK, Closing
      <3>2. HandsSame
        BY <3>1 DEF HandsSame
      <3> QED
        BY <3>1, <3>2, SameTokens DEF TokenStep, Released
    <2> QED
      BY <1>1, <1>4, <1>5, <1>7, <2>1, <2>2 DEF CloseStep, DrainRaises, IsDrained,
         SetStop, CancelAdmitted, StopAllHeartbeats, JoinWorkers, JoinAgain, sets
  <1>8. CASE Reopen
    BY <1>8, ReopenTokens DEF TokenStep
  <1>9. CASE UNCHANGED vars
    BY <1>1, <1>9 DEF vars, sets
  <1> QED
    BY <1>1, <1>2, <1>3, <1>4, <1>5, <1>6, <1>7, <1>8, <1>9 DEF Next, HeartbeatFails,
       Lapse, PeerClaim, PeerAnswers, Admit, CancelBegin, Close, CloseAgain, sets

\* An item that was not cancelled has at most one token, which _scheduled knows
\* of while the runtime works; no item has two claims in hand.
ItemOK(w) ==
    /\ Claimers(w) <= 1
    /\ job[w].state # "CANCELLED" =>
          /\ Tokens(w) <= 1
          /\ ~stop => Tokens(w) = Bit(w \in scheduled)

TokenInv == \A w \in Works : ItemOK(w)

LEMMA TokenInit == Init => TokenInv
  <1> SUFFICES ASSUME Init, NEW w \in Works PROVE ItemOK(w)
    BY DEF TokenInv
  <1>1. ingress = << >> /\ provider = << >> /\ publish = << >> /\ scheduled = {}
        /\ hand = Fresh
    BY DEF Init
  <1>2. \A t \in Workers : hand[t].work # w
    BY <1>1, FreshEmpty, WorksAssumption
  <1>3. Tokens(w) = 0 /\ Claimers(w) = 0
    BY <1>1, <1>2, EmptyTokens
  <1> QED
    BY <1>1, <1>3 DEF ItemOK, Bit

LEMMA TokenInvStep == TypeInv /\ TokenInv /\ [Next]_vars => TokenInv'
  <1> SUFFICES ASSUME TypeInv, TokenInv, [Next]_vars, NEW w \in Works PROVE ItemOK(w)'
    BY DEF TokenInv
  <1>1. ItemOK(w) /\ TokenStep(w)
    BY EveryTokenStep DEF TokenInv
  <1>2. job'[w].state # "CANCELLED" => job[w].state # "CANCELLED"
    BY JobStep DEF Advance, CancelledStay
  <1>3. stop => stop' \/ Reopen
    BY FlagsStep DEF TypeInv
  <1>4. Tokens(w) \in Nat /\ Claimers(w) \in Nat /\ Claimers(w) <= Tokens(w)
    BY TokensType DEF TypeInv
  <1>5. Tokens(w)' \in Nat /\ Claimers(w)' \in Nat
    BY QueuesStep, NextTokensType
  <1> HIDE DEF Tokens, Claimers
  <1>6. CASE Reopen
    <2>1. stop' = FALSE /\ scheduled' = {} /\ job' = job
      BY <1>6 DEF Reopen
    <2>2. Vanishes(w)
      BY <1>6, ReopenTokens
    <2> QED
      BY <2>1, <2>2 DEF ItemOK, Vanishes, Bit
  <1>7. CASE ~Reopen
    <2>1. ItemOK(w)' = /\ Claimers(w)' <= 1
                       /\ job'[w].state # "CANCELLED" =>
                             /\ Tokens(w)' <= 1
                             /\ ~stop' => Tokens(w)' = Bit(w \in scheduled')
      BY DEF ItemOK
    <2>2. ~stop' => ~stop
      BY <1>3, <1>7
    <2> QED
      BY <1>1, <1>2, <1>4, <1>5, <2>2 DEF ItemOK, TokenStep, Stays, Enters, Leaves,
         Released, Won, Vanishes, Bit
  <1> QED
    BY <1>6, <1>7

LEMMA HoldersAreTokens ==
    ASSUME QueuesOK, NEW w \in Works
    PROVE  Holders(w) = Tokens(w)
  <1>q. ingress \in Seq(Works) /\ provider \in Seq(Works) /\ publish \in Seq(Claims)
    BY DEF QueuesOK
  <1>d. /\ DOMAIN ingress = 1..Len(ingress) /\ DOMAIN provider = 1..Len(provider)
        /\ DOMAIN publish = 1..Len(publish)
    BY <1>q
  <1>1. {k \in DOMAIN ingress : ingress[k] = w} = Positions(ingress, {w})
        /\ {k \in DOMAIN provider : provider[k] = w} = Positions(provider, {w})
    BY <1>d DEF Positions
  <1>2. {k \in DOMAIN [j \in DOMAIN publish |-> publish[j][1]] :
            [j \in DOMAIN publish |-> publish[j][1]][k] = w} = Positions(publish, Of(w))
    BY <1>q, <1>d DEF Positions, Of
  <1> QED
    BY <1>1, <1>2 DEF Holders, Tokens, Count, InHands

-----------------------------------------------------------------------------
(* The renewers.                                                           *)

\* A renewer that is not yet in _heartbeats belongs to a thread that is about
\* to track it; none is in it once a close has been through them.
RenewInv ==
    /\ \A c \in Claims : beat[c] = "new" =>
          \E t \in Providers : Holding(t, "track") /\ ClaimOf(t) = c
    /\ closer.at \in {"join", "closed"} => \A c \in Claims : beat[c] # "alive"

\* What a step may do to the renewers.
LEMMA BeatChange ==
    ASSUME TypeInv, [Next]_vars
    PROVE  \/ \A c \in Claims : beat'[c] \in {beat[c], "none", "error", "stopped"}
           \/ \E t \in Providers : ClaimAndStart(t) \/ TrackHeartbeat(t)
  <1> DEFINE Calms == \A c \in Claims : beat'[c] \in {beat[c], "none", "error", "stopped"}
  <1>0. beat \in [Claims -> Beats]
    BY DEF TypeInv
  <1>1. CASE beat' = beat
    BY <1>1
  <1>2. ASSUME NEW c, NEW b \in {"none", "error"}, beat' = [beat EXCEPT ![c] = b]
        PROVE  Calms
    BY <1>0, <1>2
  <1>3. ASSUME NEW c, beat' = Stopped(c) PROVE Calms
    BY <1>0, <1>3 DEF Stopped
  <1>5. ASSUME NEW t \in Workers, WorkerStep(t)
        PROVE  Calms \/ \E u \in Providers : ClaimAndStart(u) \/ TrackHeartbeat(u)
    <2>1. CASE Finish(t)
      BY <1>1, <1>2, <2>1 DEF Finish
    <2>2. CASE Refused(t)
      BY <1>1, <1>3, <2>2 DEF Refused
    <2>3. CASE PublisherReturns(t)
      BY <1>1, <1>3, <2>3 DEF PublisherReturns
    <2> QED
      BY <1>1, <1>5, <2>1, <2>2, <2>3 DEF WorkerStep, IngressGet,
         PutProvider, ProviderStep, ProviderGet, NoClaim, ProviderReturns,
         PutPublish, PublisherStep, PublishGet, PublishCheck, Succeed, FailClaim,
         ThreadExit
  <1>6. CASE ClientStep \/ CloseStep \/ OfferStep("recovery")
    <2>1. CASE DiscardEntry
      BY <1>1, <1>2, <2>1 DEF DiscardEntry
    <2>2. CASE StopAllHeartbeats
      BY <1>0, <2>2 DEF StopAllHeartbeats
    <2> QED
      BY <1>1, <1>6, <2>1, <2>2 DEF ClientStep, CloseStep, OfferStep, AdmitReady,
         Recover, CancelFails, CancelCommits, CancelDrops, DrainRaises, IsDrained,
         SetStop, CancelAdmitted, DiscardEnd, JoinWorkers, JoinAgain
  <1>7. ASSUME NEW t, NEW why, CallbackRaises(t, why) PROVE Calms
    BY <1>3, <1>7 DEF CallbackRaises
  <1>8. ASSUME NEW c, HeartbeatFails(c) PROVE Calms
    BY <1>2, <1>8 DEF HeartbeatFails
  <1>9. CASE Reopen
    BY <1>9 DEF Reopen
  <1>10. CASE UNCHANGED vars
    BY <1>1, <1>10 DEF vars
  <1> QED
    BY <1>1, <1>5, <1>6, <1>7, <1>8, <1>9, <1>10 DEF Next, Lapse, PeerClaim,
       PeerAnswers, Admit, CancelBegin, Close, CloseAgain

\* A thread that is to track its renewer is left alone until it does.
LEMMA TrackStays ==
    ASSUME TypeInv, [Next]_vars, NEW t \in Providers, Holding(t, "track")
    PROVE  hand'[t] = hand[t] \/ TrackHeartbeat(t) \/ Reopen
  <1>0. HandsOK /\ t \in Workers /\ t # "ingress" /\ t \notin Publishers
        /\ hand[t].at = "track" /\ hand = [u \in Workers |-> hand[u]]
    BY ThreadsAre, ThreadsAssumption DEF TypeInv, HandsOK, Holding
  <1>1. CASE hand' = hand
    BY <1>1
  <1>2. ASSUME NEW u \in Workers, u # t,
               \/ \E at : Goes(u, at)
               \/ \E x : hand' = [hand EXCEPT ![u] = x]
               \/ \E why : hand' = [hand EXCEPT ![u].at = "fail", ![u].why = why]
        PROVE  hand'[t] = hand[t]
    BY <1>0, <1>2 DEF Goes
  <1>3. ASSUME NEW u \in Workers, WorkerStep(u)
        PROVE  hand'[t] = hand[t] \/ TrackHeartbeat(t)
    <2>1. CASE u = t
      BY <1>0, <1>3, <2>1 DEF WorkerStep, ProviderStep, ProviderGet, ClaimAndStart,
         NoClaim, ProviderReturns, PutPublish, Refused, FailClaim, Finish,
         ThreadExit, Holding
    <2>2. CASE u # t
      <3>1. \/ \E at : Goes(u, at)
            \/ \E x : hand' = [hand EXCEPT ![u] = x]
            \/ \E why : hand' = [hand EXCEPT ![u].at = "fail", ![u].why = why]
        BY <1>3 DEF WorkerStep, IngressGet, PutProvider, ProviderStep, ProviderGet,
           ClaimAndStart, NoClaim, TrackHeartbeat, ProviderReturns, PutPublish,
           Refused, PublisherStep, PublishGet, PublishCheck, PublisherReturns,
           Succeed, FailClaim, Finish, ThreadExit, Takes, Rests
      <3> QED
        BY <1>2, <2>2, <3>1
    <2> QED
      BY <2>1, <2>2
  <1>4. ASSUME NEW u \in Providers \cup Publishers, NEW why, CallbackRaises(u, why)
        PROVE  hand'[t] = hand[t]
    <2>1. u \in Workers /\ u # t
      BY <1>0, <1>4, ThreadsAre DEF CallbackRaises, Holding
    <2> QED
      BY <1>2, <1>4, <2>1 DEF CallbackRaises
  <1>5. CASE ClientStep \/ CloseStep \/ OfferStep("recovery")
    BY <1>1, <1>5 DEF ClientStep, CloseStep, OfferStep, AdmitReady, Recover,
       CancelFails, CancelCommits, CancelDrops, DrainRaises, IsDrained, SetStop,
       CancelAdmitted, DiscardEntry, DiscardEnd, StopAllHeartbeats, JoinWorkers, JoinAgain
  <1>6. CASE UNCHANGED vars
    BY <1>1, <1>6 DEF vars
  <1> QED
    BY <1>1, <1>3, <1>4, <1>5, <1>6 DEF Next, HeartbeatFails, Lapse, PeerClaim,
       PeerAnswers, Admit, CancelBegin, Close, CloseAgain

LEMMA TrackedBeat ==
    ASSUME TypeInv, NEW t, TrackHeartbeat(t), NEW c \in Claims
    PROVE  /\ beat'[c] = "alive" => beat[c] = "alive" \/ ~stop
           /\ beat'[c] = "new" => beat[c] = "new" /\ c # ClaimOf(t)
  <1>0. beat \in [Claims -> Beats]
    BY DEF TypeInv
  <1>1. CASE stop
    <2>1. beat' = Stopped(ClaimOf(t))
      BY <1>1 DEF TrackHeartbeat
    <2> HIDE DEF ClaimOf
    <2> QED
      BY <1>0, <1>1, <2>1 DEF Stopped
  <1>2. CASE ~stop
    <2>1. beat' = [beat EXCEPT ![ClaimOf(t)] =
                     IF beat[ClaimOf(t)] = "new" THEN "alive" ELSE beat[ClaimOf(t)]]
      BY <1>2 DEF TrackHeartbeat
    <2> HIDE DEF ClaimOf
    <2> QED
      BY <1>0, <1>2, <2>1
  <1> QED
    BY <1>1, <1>2

LEMMA RenewInit == Init => RenewInv
  BY DEF Init, RenewInv, NotClosing

LEMMA RenewStep == TypeInv /\ RenewInv /\ [Next]_vars => RenewInv'
  <1> SUFFICES ASSUME TypeInv, RenewInv, [Next]_vars PROVE RenewInv'
    OBVIOUS
  <1>0. HandsOK /\ CloserOK /\ FlagsOK /\ beat \in [Claims -> Beats]
    BY DEF TypeInv
  <1>1. ASSUME NEW c \in Claims, beat'[c] = "new"
        PROVE  \E t \in Providers : hand'[t].at = "track"
                                    /\ <<hand'[t].work, hand'[t].epoch>> = c
    <2>1. CASE beat[c] = "new"
      <3>1. PICK t \in Providers : Holding(t, "track") /\ ClaimOf(t) = c
        BY <2>1 DEF RenewInv
      <3>2. ~TrackHeartbeat(t)
        BY <1>1, <3>1, TrackedBeat
      <3>3. ~Reopen
        BY <1>1 DEF Reopen
      <3>4. hand'[t] = hand[t]
        BY <3>1, <3>2, <3>3, TrackStays
      <3> QED
        BY <3>1, <3>4 DEF Holding, ClaimOf
    <2>2. CASE beat[c] # "new"
      <3>1. PICK t \in Providers : ClaimAndStart(t)
        BY <1>1, <2>2, BeatChange, TrackedBeat
      <3> DEFINE w == hand[t].work
                 e == Maintain(job)[w].epoch + 1
                 x == Taken("track", w, e)
      <3>2. beat' = [beat EXCEPT ![<<w, e>>] = "new"] /\ Takes(t, "track", w, e)
            /\ Holding(t, "claim") /\ Maintain(job)[w].state = "READY"
        BY <3>1 DEF ClaimAndStart
      <3>3. t \in Workers /\ w \in Works
        BY <1>0, <3>2, ThreadsAre, HandFacts DEF Holding
      <3>4. e \in 1..MaxAttempts /\ e \in 0..MaxAttempts
        <4>1. left \in Script /\ JobsOK(job, left.attempts) /\ MaxAttempts \in Nat
          BY ScriptsAssumption DEF TypeInv
        <4>2. e \in 1..MaxAttempts
          BY <3>2, <3>3, <4>1, StartedOK
        <4> HIDE DEF e
        <4> QED
          BY <4>1, <4>2
      <3> HIDE DEF w, e
      <3>5. c = <<w, e>>
        BY <1>0, <1>1, <2>2, <3>2
      <3>6. hand' = [hand EXCEPT ![t] = x] /\ x.at = "track" /\ x.work = w /\ x.epoch = e
        BY <3>2, <3>3, <3>4, TakesIs, TakenIs DEF Ats
      <3> HIDE DEF x
      <3>7. hand'[t] = x
        BY <1>0, <3>3, <3>6 DEF HandsOK
      <3> QED
        BY <3>5, <3>6, <3>7
    <2> QED
      BY <2>1, <2>2
  <1>2. ASSUME closer'.at \in {"join", "closed"}, NEW c \in Claims
        PROVE  beat'[c] # "alive"
    <2>1. CASE closer.at \in {"join", "closed"}
      <3>1. beat[c] # "alive" /\ stop
        BY <1>0, <2>1 DEF RenewInv, CloserOK
      <3>2. ASSUME NEW t \in Providers, ClaimAndStart(t) PROVE beat'[c] \in {beat[c], "new"}
        BY <1>0, <3>2 DEF ClaimAndStart
      <3> QED
        BY <3>1, <3>2, BeatChange, TrackedBeat
    <2>2. CASE closer.at \notin {"join", "closed"}
      <3>1. ASSUME NEW at, CloserGoes(at) PROVE closer'.at = at
        BY <1>0, <3>1 DEF CloserGoes, CloserOK
      <3>2. ~SetStop
        <4> SUFFICES ASSUME SetStop PROVE FALSE
          OBVIOUS
        <4>1. \E at \in {"ledger", "beats"} : CloserGoes(at)
          BY DEF SetStop
        <4> QED
          BY <1>2, <3>1, <4>1
      <3>3. ~DiscardEnd /\ ~JoinWorkers
        BY <1>2, <2>2, <3>1 DEF DiscardEnd, JoinWorkers, Closing
      <3>4. ASSUME NEW mode, Close(mode) PROVE FALSE
        <4> DEFINE ids == IF mode = "cancel" THEN scheduled \cup shed ELSE {}
                   at == IF mode = "graceful" THEN "drain" ELSE "stop"
        <4>1. at \in {"drain", "stop"}
              /\ closer' = [at |-> at, mode |-> mode, ids |-> ids, left |-> ids,
                        again |-> "none"]
          BY <3>4 DEF Close
        <4> HIDE DEF ids, at
        <4> QED
          BY <1>2, <4>1
      <3>5. ASSUME NEW w, CancelAdmitted(w) PROVE FALSE
        <4>1. closer' = [closer EXCEPT !.left = @ \ {w}]
          BY <3>5 DEF CancelAdmitted
        <4>2. closer'.at = closer.at
          BY <1>0, <4>1 DEF CloserOK
        <4> QED
          BY <1>2, <2>2, <4>2
      <3>6. ~Reopen
        BY <1>2 DEF Reopen, NotClosing
      <3>7. ASSUME NEW a, AgainGoes(a) PROVE FALSE
        <4>1. closer'.at = closer.at
          BY <1>0, <3>7 DEF CloserOK, AgainGoes
        <4> QED
          BY <1>2, <2>2, <4>1
      <3>8. StopAllHeartbeats
        BY <1>2, <2>2, <3>1, <3>2, <3>3, <3>4, <3>5, <3>6, <3>7, CloserChange
      <3> QED
        BY <3>8 DEF StopAllHeartbeats
    <2> QED
      BY <2>1, <2>2
  <1> QED
    BY <1>1, <1>2 DEF RenewInv, Holding, ClaimOf

-----------------------------------------------------------------------------
(* The theorems.                                                           *)

LanesInv == TypeInv /\ TokenInv /\ RenewInv

\* The inductive invariant: rows, threads, queues and calls are well formed,
\* tokens are counted, renewers are accounted for.
THEOREM LanesInvariance == Spec => []LanesInv
  <1>1. Init => LanesInv
    BY TypeInit, TokenInit, RenewInit DEF LanesInv
  <1>2. LanesInv /\ [Next]_vars => LanesInv'
    BY TypeStep, TokenInvStep, RenewStep DEF LanesInv
  <1> QED
    BY <1>1, <1>2, PTL DEF Spec

\* Type correctness: every lane stays within its capacity and every row within
\* its attempts, whatever is admitted, recovered, cancelled, closed or reopened.
THEOREM TypeCorrect == Spec => []TypeOK
  <1>1. LanesInv => TypeOK
    BY TypeInvIsTypeOK DEF LanesInv
  <1> QED
    BY <1>1, LanesInvariance, PTL

\* While the runtime works, an item that was not durably cancelled is in
\* exactly one queue or thread if _scheduled_work_ids has it, and in none
\* otherwise: admission, recovery, the lanes and _finish_scheduled neither lose
\* nor duplicate a notification.
THEOREM ScheduledAreHeld == Spec => []ScheduledIsHeld
  <1>1. LanesInv => ScheduledIsHeld
    <2> SUFFICES ASSUME LanesInv, ~stop, NEW w \in Works, job[w].state # "CANCELLED"
                 PROVE  Holders(w) = IF w \in scheduled THEN 1 ELSE 0
      BY DEF ScheduledIsHeld
    <2>1. Holders(w) = Tokens(w)
      BY HoldersAreTokens DEF LanesInv, TypeInv
    <2>2. Tokens(w) = Bit(w \in scheduled)
      BY DEF LanesInv, TokenInv, ItemOK
    <2> QED
      BY <2>1, <2>2 DEF Bit
  <1> QED
    BY <1>1, LanesInvariance, PTL

\* No two threads of the runtime are in callbacks of one item, although its
\* lease may lapse, be recovered by maintenance and be offered again while the
\* first callback runs, and although cancel releases the id at once.
THEOREM CallbacksAreExclusive == Spec => []ExclusiveCallbacks
  <1>1. LanesInv => ExclusiveCallbacks
    <2> SUFFICES ASSUME LanesInv, NEW s \in Providers \cup Publishers,
                        NEW t \in Providers \cup Publishers,
                        s # t, Holding(s, "run"), Holding(t, "run"),
                        hand[s].work = hand[t].work
                 PROVE  FALSE
      BY DEF ExclusiveCallbacks
    <2> DEFINE w == hand[s].work
               A == {u \in Workers : hand[u].work = w /\ hand[u].epoch # 0}
    <2>0. HandsOK /\ QueuesOK /\ s \in Workers /\ t \in Workers
          /\ s # "ingress" /\ t # "ingress"
      BY ThreadsAre DEF LanesInv, TypeInv
    <2>1. w \in Works /\ hand[s].epoch # 0 /\ hand[t].epoch # 0
      BY <2>0, HandFacts DEF Holding, HandOK
    <2>2. Count(publish, Of(w)) \in Nat /\ Claimers(w) <= 1
      BY <2>0, <2>1, TokensType DEF LanesInv, TokenInv, ItemOK
    <2>3. IsFiniteSet(A) /\ WonHands(w) = Cardinality(A) /\ WonHands(w) \in Nat
      BY HandCounts DEF WonHands
    <2>4. {s, t} \in SUBSET A
      BY <2>0, <2>1
    <2>5. Cardinality({s, t}) = 2
      <3> DEFINE S == {s}
      <3>1. IsFiniteSet(S) /\ Cardinality(S) = 1
        BY FS_Singleton
      <3>2. t \notin S /\ S \cup {t} = {s, t}
        OBVIOUS
      <3> HIDE DEF S
      <3>3. Cardinality(S \cup {t}) = IF t \in S THEN Cardinality(S) ELSE Cardinality(S) + 1
        BY <3>1, FS_AddElement
      <3> QED
        BY <3>1, <3>2, <3>3
    <2> HIDE DEF w, A, WonHands, Count
    <2>6. 2 <= WonHands(w)
      BY <2>3, <2>4, <2>5, FS_Subset
    <2> QED
      BY <2>2, <2>3, <2>6 DEF Claimers
  <1> QED
    BY <1>1, LanesInvariance, PTL

\* Once close has been through _stop_all_heartbeats no renewer is left running,
\* but for one whose thread is in _track_heartbeat and about to stop it: a
\* closed runtime does not keep leases from the next one.
THEOREM RenewersAreReleased == Spec => []RenewersReleased
  <1>1. LanesInv => RenewersReleased
    BY DEF LanesInv, RenewInv, RenewersReleased, Renewing
  <1> QED
    BY <1>1, LanesInvariance, PTL

=============================================================================
