------------------------- MODULE OutboxRelayProofs -------------------------
(***************************************************************************)
(* Proofs about OutboxRelay, for every number of messages, relays,         *)
(* attempts and crashes, every lease, delay and lag, and either clock.     *)
(*                                                                         *)
(* The inductive invariant has a part per row (RowOK: what a delivery row  *)
(* may say about its attempts) and a part per relay (ClaimOK: a claim is   *)
(* never ahead of its row, and one marked published is in the sink).       *)
(* Lemmas say what the row helpers do; then one step per action.           *)
(***************************************************************************)
EXTENDS OutboxRelay, FiniteSetTheorems, TLAPS

\* A row that is still to be claimed has an attempt left; a dead letter has
\* none.
RowOK(x) ==
    /\ x \in Row
    /\ x.status \in {"NEW", "PENDING", "RETRY_WAIT"} => x.epoch < MaxAttempts
    /\ x.status = "ABSENT" => x.epoch < MaxAttempts
    /\ x.status = "DEAD_LETTER" => x.epoch = MaxAttempts

\* The sink's side of one message.
SinkOK(x, n) ==
    /\ n \in 0..1
    /\ x.status = "DELIVERED" => n = 1
    /\ n = 1 => x.epoch > 0

ClaimOK(c) ==
    c # None =>
        /\ c.epoch <= row[c.m].epoch
        /\ c.stage = "published" => sink[c.m] = 1

IInv ==
    /\ DOMAIN row = Messages /\ row = [m \in Messages |-> row[m]]
    /\ \A m \in Messages : RowOK(row[m]) /\ SinkOK(row[m], sink[m])
    /\ sink \in [Messages -> Nat]
    /\ claim \in [Relays -> Claims \cup {None}] /\ crashes \in 0..MaxCrashes
    /\ \A p \in Relays : ClaimOK(claim[p])

-----------------------------------------------------------------------------
(* Arithmetic.                                                             *)

\* A power of two is a natural number: it counts the subsets of 1..k.
LEMMA PowerNat == ASSUME NEW k \in Nat PROVE 2^k \in Nat
<1>1. IsFiniteSet(1..k) /\ Cardinality(1..k) = k
  BY FS_Interval
<1>2. IsFiniteSet(SUBSET (1..k)) /\ Cardinality(SUBSET (1..k)) = 2^k
  BY <1>1, FS_SUBSET
<1> QED
  BY <1>2, FS_CardinalityType

\* The delay of the retry policy stays within its bound.
LEMMA DelayBound ==
    ASSUME NEW n \in 1..MaxAttempts PROVE DelayAfter(n) \in 0..MaxDelay
<1>1. n - 1 \in Nat
  BY BoundsAssumption
<1>2. 2^(n - 1) \in Nat
  BY <1>1, PowerNat
<1> DEFINE pw == 2^(n - 1)
<1>3. pw \in Nat
  BY <1>2
<1> HIDE DEF pw
<1>4. BaseDelay * pw \in Nat
  BY <1>3, BoundsAssumption
<1>5. DelayAfter(n) = IF BaseDelay * pw < MaxDelay THEN BaseDelay * pw ELSE MaxDelay
  BY DEF DelayAfter, pw
<1> DEFINE d == BaseDelay * pw
<1>6. d \in Nat /\ DelayAfter(n) = IF d < MaxDelay THEN d ELSE MaxDelay
  BY <1>4, <1>5
<1> HIDE DEF d
<1> QED
  BY <1>6, BoundsAssumption

LEMMA TickFacts ==
    /\ 0 \in Ticks
    /\ \A s \in Lags : -s \in Ticks /\ LeaseDuration - s \in Ticks
    /\ \A s \in Lags, d \in 0..MaxDelay : d - s \in Ticks
BY BoundsAssumption DEF Ticks, Lags, Longest

-----------------------------------------------------------------------------
(* The row helpers.                                                        *)

\* Giving a leased row up or back keeps RowOK and the epoch, and it is
\* neither delivered nor leased afterwards.
LEMMA UnleaseOK ==
    ASSUME NEW x, RowOK(x), NEW w \in Ticks
    PROVE  /\ RowOK(Unlease(x, w))
           /\ Unlease(x, w).epoch = x.epoch
           /\ Unlease(x, w).status \in {"DEAD_LETTER", "RETRY_WAIT"}
<1> DEFINE st == IF Exhausted(x) THEN "DEAD_LETTER" ELSE "RETRY_WAIT"
           wt == IF Exhausted(x) THEN 0 ELSE w
           y  == [x EXCEPT !.status = st, !.lease = 0, !.wait = wt]
<1>1. Unlease(x, w) = y
  BY DEF Unlease
<1>2. st \in {"DEAD_LETTER", "RETRY_WAIT"} /\ wt \in Ticks /\ 0 \in Ticks
  BY TickFacts
<1>3. x \in Row /\ x.epoch \in 0..MaxAttempts
  BY DEF RowOK, Row
<1>4. st = "DEAD_LETTER" <=> x.epoch >= MaxAttempts
  BY DEF Exhausted
<1> HIDE DEF st, wt
<1>5. y \in Row /\ y.status = st /\ y.epoch = x.epoch
  BY <1>2, <1>3 DEF Row, Statuses, Settled
<1> HIDE DEF y
<1>6. RowOK(y)
  BY <1>2, <1>3, <1>4, <1>5, BoundsAssumption DEF RowOK
<1> QED
  BY <1>1, <1>2, <1>5, <1>6

\* Discovery and expiry keep RowOK and the epoch; they neither deliver nor
\* touch a settled row.
LEMMA DiscoverOK ==
    ASSUME NEW x, RowOK(x), NEW s \in Lags
    PROVE  /\ RowOK(Discover(x, s))
           /\ Discover(x, s).epoch = x.epoch
           /\ Discover(x, s).status = "DELIVERED" <=> x.status = "DELIVERED"
           /\ x.status \in Settled => Discover(x, s) = x
           /\ Discover(x, s).status = "LEASED" => Discover(x, s) = x
BY TickFacts DEF RowOK, Row, Discover, Statuses, Settled

LEMMA ExpireOK ==
    ASSUME NEW x, RowOK(x), NEW s \in Lags
    PROVE  /\ RowOK(ExpireLease(x, s))
           /\ ExpireLease(x, s).epoch = x.epoch
           /\ ExpireLease(x, s).status = "DELIVERED" <=> x.status = "DELIVERED"
           /\ x.status \in Settled => ExpireLease(x, s) = x
           /\ ExpireLease(x, s).status = "LEASED" => ExpireLease(x, s) = x
<1>1. CASE x.status = "LEASED" /\ x.lease <= -s
  <2>1. -s \in Ticks
    BY TickFacts
  <2>2. ExpireLease(x, s) = Unlease(x, -s)
    BY <1>1 DEF ExpireLease
  <2> QED
    BY <1>1, <2>1, <2>2, UnleaseOK DEF Settled
<1>2. CASE ~(x.status = "LEASED" /\ x.lease <= -s)
  BY <1>2 DEF ExpireLease
<1> QED
  BY <1>1, <1>2

\* The same for the two table updates.
LEMMA ReconciledOK ==
    ASSUME IInv, NEW s \in Lags, NEW m \in Messages
    PROVE  /\ RowOK(Reconciled(s)[m])
           /\ Reconciled(s)[m].epoch = row[m].epoch
           /\ Reconciled(s)[m].status = "DELIVERED" <=> row[m].status = "DELIVERED"
           /\ row[m].status \in Settled => Reconciled(s)[m] = row[m]
<1>1. RowOK(row[m])
  BY DEF IInv
<1> DEFINE y == Discover(row[m], s)
<1>2. /\ RowOK(y) /\ y.epoch = row[m].epoch
      /\ y.status = "DELIVERED" <=> row[m].status = "DELIVERED"
      /\ row[m].status \in Settled => y = row[m]
  BY <1>1, DiscoverOK
<1>3. Reconciled(s)[m] = ExpireLease(y, s)
  BY DEF Reconciled
<1> HIDE DEF y
<1>4. /\ RowOK(ExpireLease(y, s)) /\ ExpireLease(y, s).epoch = y.epoch
      /\ ExpireLease(y, s).status = "DELIVERED" <=> y.status = "DELIVERED"
      /\ y.status \in Settled => ExpireLease(y, s) = y
  BY <1>2, ExpireOK
<1> QED
  BY <1>2, <1>3, <1>4

LEMMA ExpiredOK ==
    ASSUME IInv, NEW s \in Lags, NEW m \in Messages
    PROVE  /\ RowOK(Expired(s)[m])
           /\ Expired(s)[m].epoch = row[m].epoch
           /\ Expired(s)[m].status = "DELIVERED" <=> row[m].status = "DELIVERED"
           /\ row[m].status \in Settled => Expired(s)[m] = row[m]
           /\ Expired(s)[m].status = "LEASED" => Expired(s)[m] = row[m]
BY ExpireOK DEF IInv, Expired
-----------------------------------------------------------------------------
(* The inductive invariant.                                                *)

\* What every step does to the tables: rows stay well formed, epochs and the
\* sink only grow.
TablesOK ==
    /\ DOMAIN row' = Messages /\ row' = [m \in Messages |-> row'[m]]
    /\ sink' \in [Messages -> Nat]
    /\ \A m \in Messages : /\ RowOK(row'[m]) /\ SinkOK(row'[m], sink'[m])
                            /\ row'[m].epoch >= row[m].epoch
                            /\ sink'[m] >= sink[m]

\* Then a claim that was sound and did not change still is.
LEMMA ClaimKept ==
    ASSUME IInv, TablesOK, NEW p \in Relays
    PROVE  ClaimOK(claim[p])'  <=> (claim'[p] # None =>
                /\ claim'[p].epoch <= row'[claim'[p].m].epoch
                /\ claim'[p].stage = "published" => sink'[claim'[p].m] = 1)
BY DEF ClaimOK

LEMMA ClaimUntouched ==
    ASSUME IInv, TablesOK, NEW p \in Relays, claim'[p] \in {claim[p], None}
    PROVE  ClaimOK(claim[p])'
<1>1. CASE claim'[p] = None
  BY <1>1 DEF ClaimOK
<1>2. CASE claim'[p] = claim[p] /\ claim[p] # None
  <2> DEFINE c == claim[p]
  <2>1. c \in Claims /\ ClaimOK(c) /\ c # None
    BY <1>2 DEF IInv
  <2>2. c.m \in Messages /\ c.epoch \in Nat
    BY <2>1, BoundsAssumption DEF Claims
  <2>3. c.epoch <= row[c.m].epoch /\ (c.stage = "published" => sink[c.m] = 1)
    BY <2>1 DEF ClaimOK
  <2>4. /\ row[c.m].epoch \in Nat /\ row'[c.m].epoch \in Nat
        /\ row'[c.m].epoch >= row[c.m].epoch
    BY <2>2, BoundsAssumption DEF TablesOK, IInv, RowOK, Row
  <2>5. sink'[c.m] \in 0..1 /\ sink'[c.m] >= sink[c.m] /\ sink[c.m] \in Nat
    BY <2>2 DEF TablesOK, SinkOK, IInv
  <2>6. c.epoch <= row'[c.m].epoch
    <3> DEFINE ce == c.epoch
               e0 == row[c.m].epoch
               e1 == row'[c.m].epoch
    <3>1. ce \in Nat /\ e0 \in Nat /\ e1 \in Nat /\ ce <= e0 /\ e0 <= e1
      BY <2>2, <2>3, <2>4
    <3> HIDE DEF ce, e0, e1
    <3>2. ce <= e1
      BY <3>1
    <3> QED
      BY <3>2 DEF ce, e1
  <2>7. c.stage = "published" => sink'[c.m] = 1
    <3> DEFINE n0 == sink[c.m]
               n1 == sink'[c.m]
    <3>1. n1 \in 0..1 /\ n1 >= n0 /\ n0 \in Nat /\ (c.stage = "published" => n0 = 1)
      BY <2>3, <2>5
    <3> HIDE DEF n0, n1
    <3>2. c.stage = "published" => n1 = 1
      BY <3>1
    <3> QED
      BY <3>2 DEF n1
  <2> QED
    BY <1>2, <2>6, <2>7, ClaimKept
<1> QED
  BY <1>1, <1>2

\* A step that changes only rows, RowOK to RowOK, and drops at most claims.
LEMMA RowStep ==
    ASSUME IInv, row' = [m \in Messages |-> row'[m]], UNCHANGED sink,
           \A m \in Messages : /\ RowOK(row'[m]) /\ row'[m].epoch >= row[m].epoch
                               /\ row'[m].status = "DELIVERED" => sink[m] = 1
    PROVE  TablesOK
<1> SUFFICES ASSUME NEW m \in Messages
             PROVE  SinkOK(row'[m], sink'[m]) /\ sink'[m] >= sink[m]
  BY DEF TablesOK, IInv
<1> DEFINE e0 == row[m].epoch
           e1 == row'[m].epoch
           n  == sink[m]
<1>1. e0 \in Nat /\ e1 \in Nat /\ e1 >= e0
  BY BoundsAssumption DEF IInv, RowOK, Row
<1>2. n \in 0..1 /\ (n = 1 => e0 > 0)
  BY DEF IInv, SinkOK
<1>3. sink'[m] = n
  OBVIOUS
<1>4. row'[m].status = "DELIVERED" => n = 1
  OBVIOUS
<1> HIDE DEF e0, n
<1>5. n = 1 => e1 > 0
  <2> HIDE DEF e1
  <2> QED BY <1>1, <1>2
<1>6. n >= n
  BY <1>2
<1>7. SinkOK(row'[m], n)
  BY <1>2, <1>4, <1>5 DEF SinkOK
<1> QED
  BY <1>3, <1>6, <1>7 DEF n

\* Nothing but the tables and claims: the rest of IInv'.
LEMMA StepOK ==
    ASSUME IInv, TablesOK, claim' \in [Relays -> Claims \cup {None}],
           crashes' \in 0..MaxCrashes, \A p \in Relays : ClaimOK(claim[p])'
    PROVE  IInv'
BY DEF IInv, TablesOK

LEMMA InitOK == Init => IInv
<1> SUFFICES ASSUME Init PROVE IInv
  OBVIOUS
<1> DEFINE x == [status |-> "ABSENT", epoch |-> 0, lease |-> 0, wait |-> 0]
<1>1. x \in Row /\ RowOK(x) /\ SinkOK(x, 0)
  BY TickFacts, BoundsAssumption DEF RowOK, Row, SinkOK, Statuses
<1>2. \A m \in Messages : row[m] = x /\ sink[m] = 0
  BY DEF Init
<1> HIDE DEF x
<1>3. \A m \in Messages : RowOK(row[m]) /\ SinkOK(row[m], sink[m])
  BY <1>1, <1>2
<1>4. \A p \in Relays : ClaimOK(claim[p])
  BY DEF Init, ClaimOK
<1> QED
  BY <1>3, <1>4, BoundsAssumption DEF Init, IInv

LEMMA EnqueueOK ==
    ASSUME IInv, NEW m \in Messages, NEW b \in BOOLEAN, Enqueue(m, b)
    PROVE  TablesOK
<1> DEFINE st == IF b THEN "PENDING" ELSE "NEW"
           y  == [row[m] EXCEPT !.status = st]
<1>1. row[m].status = "ABSENT" /\ row' = [row EXCEPT ![m] = y] /\ UNCHANGED sink
  BY DEF Enqueue
<1>2. RowOK(row[m]) /\ DOMAIN row = Messages
  BY DEF IInv
<1>3. st \in {"PENDING", "NEW"}
  OBVIOUS
<1> HIDE DEF st
<1>4. y \in Row /\ y.status = st /\ y.epoch = row[m].epoch
  BY <1>2, <1>3 DEF RowOK, Row, Statuses
<1>5. row[m].epoch < MaxAttempts /\ row[m].epoch \in Nat
  BY <1>1, <1>2, BoundsAssumption DEF RowOK, Row
<1> HIDE DEF y
<1>6. RowOK(y)
  BY <1>3, <1>4, <1>5 DEF RowOK
<1>7. \A n \in Messages : row'[n] = IF n = m THEN y ELSE row[n]
  BY <1>1, <1>2
<1>8. row' = [n \in Messages |-> row'[n]]
  BY <1>1, <1>2 DEF IInv
<1>9. ASSUME NEW n \in Messages
      PROVE  /\ RowOK(row'[n]) /\ row'[n].epoch >= row[n].epoch
             /\ row'[n].status = "DELIVERED" => sink[n] = 1
  <2>1. CASE n = m
    BY <2>1, <1>3, <1>4, <1>5, <1>6, <1>7
  <2>2. CASE n # m
    <3>1. row'[n] = row[n]
      BY <2>2, <1>7
    <3>2. RowOK(row[n]) /\ row[n].epoch \in Nat /\ SinkOK(row[n], sink[n])
      BY BoundsAssumption DEF IInv, RowOK, Row
    <3> QED
      BY <3>1, <3>2 DEF SinkOK
  <2> QED
    BY <2>1, <2>2
<1> QED
  BY <1>1, <1>8, <1>9, RowStep

LEMMA ClaimStepOK ==
    ASSUME IInv, NEW p \in Relays, NEW s \in Lags, Claim(p, s)
    PROVE  IInv'
<1> DEFINE r == Reconciled(s)
<1>1. PICK m \in Messages :
        /\ Eligible(r[m], s)
        /\ row' = [r EXCEPT ![m].status = "LEASED", ![m].epoch = @ + 1,
                            ![m].lease = LeaseDuration - s]
        /\ claim' = [claim EXCEPT ![p] = [m |-> m, epoch |-> r[m].epoch + 1,
                                          stage |-> "claimed"]]
        /\ UNCHANGED <<sink, crashes>>
  BY DEF Claim
<1> DEFINE y == [r[m] EXCEPT !.status = "LEASED", !.epoch = @ + 1,
                            !.lease = LeaseDuration - s]
<1>2. DOMAIN r = Messages
  BY DEF Reconciled
<1>3. \A n \in Messages : row'[n] = IF n = m THEN y ELSE r[n]
  BY <1>1, <1>2
<1>4. row' = [n \in Messages |-> row'[n]]
  BY <1>1, <1>2 DEF Reconciled
<1>5. \A n \in Messages :
        /\ RowOK(r[n]) /\ r[n].epoch = row[n].epoch
        /\ r[n].status = "DELIVERED" <=> row[n].status = "DELIVERED"
  BY ReconciledOK
<1> HIDE DEF r
<1>6. r[m] \in Row /\ r[m].epoch < MaxAttempts /\ r[m].epoch \in Nat
  BY <1>1, <1>5, BoundsAssumption DEF RowOK, Row, Eligible
<1>7. r[m].epoch + 1 \in 1..MaxAttempts
  BY <1>6, BoundsAssumption
<1>8. y \in Row /\ y.status = "LEASED" /\ y.epoch = r[m].epoch + 1
  <2> DEFINE e == r[m].epoch + 1
             l == LeaseDuration - s
             x == r[m]
  <2>1. e \in 0..MaxAttempts /\ l \in Ticks /\ x \in Row
    BY <1>6, <1>7, TickFacts, BoundsAssumption
  <2>2. y = [x EXCEPT !.status = "LEASED", !.epoch = e, !.lease = l]
    OBVIOUS
  <2> HIDE DEF e, l, x, y
  <2>3. y \in Row /\ y.status = "LEASED" /\ y.epoch = e
    BY <2>1, <2>2 DEF Row, Statuses
  <2> QED
    BY <2>3 DEF e
<1> HIDE DEF y
<1>9. RowOK(y) /\ y.epoch >= row[m].epoch
  BY <1>5, <1>6, <1>8 DEF RowOK
<1>10. ASSUME NEW n \in Messages
       PROVE  /\ RowOK(row'[n]) /\ row'[n].epoch >= row[n].epoch
              /\ row'[n].status = "DELIVERED" => sink[n] = 1
  <2>1. CASE n = m
    BY <2>1, <1>3, <1>8, <1>9
  <2>2. CASE n # m
    <3>1. row'[n] = r[n]
      BY <2>2, <1>3
    <3>2. row[n].epoch \in Nat /\ (row[n].status = "DELIVERED" => sink[n] = 1)
      BY BoundsAssumption DEF IInv, RowOK, Row, SinkOK
    <3> QED
      BY <1>5, <3>1, <3>2
  <2> QED
    BY <2>1, <2>2
<1>11. TablesOK
  BY <1>1, <1>4, <1>10, RowStep
<1> DEFINE c == [m |-> m, epoch |-> r[m].epoch + 1, stage |-> "claimed"]
<1>12. c \in Claims /\ c.m = m /\ c.epoch = r[m].epoch + 1 /\ c.stage = "claimed"
  BY <1>7 DEF Claims
<1>13. claim' = [claim EXCEPT ![p] = c] /\ claim \in [Relays -> Claims \cup {None}]
  BY <1>1 DEF IInv
<1> HIDE DEF c
<1>14. claim' \in [Relays -> Claims \cup {None}] /\ claim'[p] = c
  BY <1>12, <1>13
<1>15. c.epoch <= row'[c.m].epoch
  BY <1>3, <1>6, <1>8, <1>12
<1>16. ASSUME NEW q \in Relays PROVE ClaimOK(claim[q])'
  <2>1. CASE q = p
    BY <2>1, <1>11, <1>12, <1>14, <1>15, ClaimKept
  <2>2. CASE q # p
    BY <2>2, <1>11, <1>13, ClaimUntouched
  <2> QED
    BY <2>1, <2>2
<1> QED
  BY <1>1, <1>11, <1>14, <1>16, StepOK DEF IInv

LEMMA ReconcileStepOK ==
    ASSUME IInv, NEW s \in Lags, row' = Reconciled(s), UNCHANGED sink
    PROVE  TablesOK
<1>1. row' = Reconciled(s) /\ UNCHANGED sink
  OBVIOUS
<1>2. row' = [n \in Messages |-> row'[n]]
  BY <1>1 DEF Reconciled
<1>3. ASSUME NEW n \in Messages
      PROVE  /\ RowOK(row'[n]) /\ row'[n].epoch >= row[n].epoch
             /\ row'[n].status = "DELIVERED" => sink[n] = 1
  <2>1. /\ RowOK(row'[n]) /\ row'[n].epoch = row[n].epoch
        /\ row'[n].status = "DELIVERED" <=> row[n].status = "DELIVERED"
    BY <1>1, ReconciledOK
  <2>2. row[n].epoch \in Nat /\ (row[n].status = "DELIVERED" => sink[n] = 1)
    BY BoundsAssumption DEF IInv, RowOK, Row, SinkOK
  <2> QED
    BY <2>1, <2>2
<1> QED
  BY <1>1, <1>2, <1>3, RowStep

\* Both publish steps store the message once.
LEMMA PublishOK ==
    ASSUME IInv, NEW p \in Relays, claim[p] # None, UNCHANGED row,
           sink' = [sink EXCEPT ![claim[p].m] = Stored(claim[p].m)]
    PROVE  TablesOK /\ sink'[claim[p].m] = 1
<1> DEFINE m == claim[p].m
<1>1. claim[p] \in Claims /\ ClaimOK(claim[p])
  BY DEF IInv
<1>2. m \in Messages /\ claim[p].epoch \in 1..MaxAttempts /\ claim[p].epoch <= row[m].epoch
  BY <1>1 DEF Claims, ClaimOK
<1>3. row[m].epoch \in Nat /\ row[m].epoch > 0
  BY <1>2, BoundsAssumption DEF IInv, RowOK, Row
<1>4. sink[m] \in 0..1
  BY <1>2 DEF IInv, SinkOK
<1>5. Stored(m) = 1
  BY <1>4 DEF Stored
<1>6. sink' = [sink EXCEPT ![m] = 1] /\ sink \in [Messages -> Nat]
  BY <1>5 DEF IInv
<1>7. sink' \in [Messages -> Nat] /\ sink'[m] = 1
  BY <1>2, <1>6
<1>8. ASSUME NEW n \in Messages
      PROVE  /\ RowOK(row'[n]) /\ SinkOK(row'[n], sink'[n])
             /\ row'[n].epoch >= row[n].epoch /\ sink'[n] >= sink[n]
  <2>1. row'[n] = row[n] /\ RowOK(row[n]) /\ SinkOK(row[n], sink[n])
        /\ row[n].epoch \in Nat
    BY BoundsAssumption DEF IInv, RowOK, Row
  <2>2. CASE n = m
    <3>1. sink'[n] = 1 /\ sink[n] \in 0..1
      BY <2>2, <1>4, <1>7
    <3> QED
      BY <2>1, <2>2, <3>1, <1>3 DEF SinkOK
  <2>3. CASE n # m
    <3>1. sink'[n] = sink[n]
      BY <2>3, <1>6
    <3> QED
      BY <2>1, <3>1 DEF SinkOK
  <2> QED
    BY <2>2, <2>3
<1> QED
  BY <1>7, <1>8 DEF TablesOK, IInv

\* The answer of a relay: one leased row becomes y, the others expire.
LEMMA AnswerOK ==
    ASSUME IInv, NEW s \in Lags, NEW m \in Messages, NEW y,
           RowOK(y), y.epoch = row[m].epoch,
           y.status = "DELIVERED" => sink[m] = 1,
           row' = [Expired(s) EXCEPT ![m] = y], UNCHANGED sink
    PROVE  TablesOK
<1>1. \A n \in Messages : row'[n] = IF n = m THEN y ELSE Expired(s)[n]
  BY DEF Expired
<1>2. row' = [n \in Messages |-> row'[n]]
  BY DEF Expired
<1>3. ASSUME NEW n \in Messages
      PROVE  /\ RowOK(row'[n]) /\ row'[n].epoch >= row[n].epoch
             /\ row'[n].status = "DELIVERED" => sink[n] = 1
  <2>1. row[n].epoch \in Nat /\ (row[n].status = "DELIVERED" => sink[n] = 1)
    BY BoundsAssumption DEF IInv, RowOK, Row, SinkOK
  <2>2. CASE n = m
    BY <2>1, <2>2, <1>1
  <2>3. CASE n # m
    <3>1. /\ RowOK(row'[n]) /\ row'[n].epoch = row[n].epoch
          /\ row'[n].status = "DELIVERED" <=> row[n].status = "DELIVERED"
      BY <2>3, <1>1, ExpiredOK
    <3> QED
      BY <2>1, <3>1
  <2> QED
    BY <2>2, <2>3
<1> QED
  BY <1>2, <1>3, RowStep

LEMMA AcknowledgeOK ==
    ASSUME IInv, NEW p \in Relays, NEW s \in Lags, NEW b \in BOOLEAN,
           Acknowledge(p, s, b)
    PROVE  TablesOK
<1> DEFINE m == claim[p].m
           x == Expired(s)[m]
           y == [x EXCEPT !.status = "DELIVERED", !.lease = 0, !.wait = 0]
<1>1. /\ claim[p] # None /\ claim[p].stage = "published"
      /\ x.status = "LEASED" /\ UNCHANGED sink
      /\ row' = [Expired(s) EXCEPT ![m].status = "DELIVERED", ![m].lease = 0, ![m].wait = 0]
  BY DEF Acknowledge, FenceHolds
<1>2. m \in Messages /\ sink[m] = 1
  BY <1>1 DEF IInv, Claims, ClaimOK
<1>3. row' = [Expired(s) EXCEPT ![m] = y]
  BY <1>1, <1>2 DEF Expired
<1>4. RowOK(x) /\ x.epoch = row[m].epoch
  BY <1>2, ExpiredOK
<1> HIDE DEF x
<1>5. y \in Row /\ y.status = "DELIVERED" /\ y.epoch = x.epoch
  BY <1>4, TickFacts DEF RowOK, Row, Statuses, Settled
<1> HIDE DEF y
<1>6. RowOK(y)
  BY <1>5 DEF RowOK
<1> HIDE DEF m
<1> QED
  BY <1>1, <1>2, <1>3, <1>4, <1>5, <1>6, AnswerOK

LEMMA RecordFailureOK ==
    ASSUME IInv, NEW p \in Relays, NEW s \in Lags, NEW b \in BOOLEAN,
           RecordFailure(p, s, b)
    PROVE  TablesOK
<1> DEFINE m == claim[p].m
           x == Expired(s)[m]
           w == DelayAfter(x.epoch) - s
           y == Unlease(x, w)
<1>1. /\ claim[p] # None
      /\ x.status = "LEASED" /\ x.epoch = claim[p].epoch /\ UNCHANGED sink
      /\ row' = [Expired(s) EXCEPT ![m] = Unlease(@, DelayAfter(@.epoch) - s)]
  BY DEF RecordFailure, FenceHolds
<1>2. m \in Messages /\ claim[p].epoch \in 1..MaxAttempts
  BY <1>1 DEF IInv, Claims
<1>3. row' = [Expired(s) EXCEPT ![m] = y]
  BY <1>1, <1>2 DEF Expired
<1>4. RowOK(x) /\ x.epoch = row[m].epoch
  BY <1>2, ExpiredOK
<1> HIDE DEF x
<1>5. w \in Ticks
  <2>1. DelayAfter(x.epoch) \in 0..MaxDelay
    BY <1>1, <1>2, DelayBound
  <2> QED
    BY <2>1, TickFacts
<1> HIDE DEF w
<1>6. RowOK(y) /\ y.epoch = x.epoch /\ y.status # "DELIVERED"
  BY <1>4, <1>5, UnleaseOK
<1> HIDE DEF y, m
<1> QED
  BY <1>1, <1>2, <1>3, <1>4, <1>6, AnswerOK

LEMMA TickOK == ASSUME IInv, Tick PROVE TablesOK
<1>1. UNCHANGED sink /\ row' = [m \in Messages |-> row'[m]]
  BY DEF Tick
<1>2. ASSUME NEW m \in Messages
      PROVE  /\ RowOK(row'[m]) /\ row'[m].epoch >= row[m].epoch
             /\ row'[m].status = "DELIVERED" => sink[m] = 1
  <2> DEFINE x == row[m]
             l == IF x.status = "LEASED" THEN Sooner(x.lease) ELSE x.lease
             w == IF x.status \in {"PENDING", "RETRY_WAIT"} THEN Sooner(x.wait) ELSE x.wait
             y == [x EXCEPT !.lease = l, !.wait = w]
  <2>1. row'[m] = y
    BY DEF Tick
  <2>2. RowOK(x) /\ (x.status = "DELIVERED" => sink[m] = 1)
    BY DEF IInv, SinkOK
  <2> HIDE DEF x
  <2>3. x \in Row /\ x.lease \in Ticks /\ x.wait \in Ticks /\ x.epoch \in Nat
    BY <2>2, BoundsAssumption DEF RowOK, Row
  <2>4. \A t \in Ticks : Sooner(t) \in Ticks
    BY BoundsAssumption DEF Sooner, Ticks, Longest
  <2>5. l \in Ticks /\ w \in Ticks
    BY <2>3, <2>4
  <2> HIDE DEF l, w
  <2>6. y \in Row /\ y.status = x.status /\ y.epoch = x.epoch
    BY <2>3, <2>5 DEF Row
  <2> HIDE DEF y
  <2>7. RowOK(y)
    BY <2>2, <2>6 DEF RowOK
  <2>8. y.epoch >= x.epoch
    BY <2>3, <2>6
  <2> QED
    BY <2>1, <2>2, <2>6, <2>7, <2>8 DEF x
<1> QED
  BY <1>1, <1>2, RowStep

\* A step that leaves every claim alone or drops it.
LEMMA DropOK ==
    ASSUME IInv, TablesOK, crashes' \in 0..MaxCrashes, NEW p \in Relays,
           claim' \in {claim, [claim EXCEPT ![p] = None]}
    PROVE  IInv'
<1>1. claim \in [Relays -> Claims \cup {None}]
  BY DEF IInv
<1>2. claim' \in [Relays -> Claims \cup {None}]
  BY <1>1
<1>3. \A q \in Relays : claim'[q] \in {claim[q], None}
  BY <1>1
<1>4. \A q \in Relays : ClaimOK(claim[q])'
  BY <1>3, ClaimUntouched
<1> QED
  BY <1>2, <1>4, StepOK

\* An unchanged table is sound.
LEMMA SameTables == ASSUME IInv, UNCHANGED <<row, sink>> PROVE TablesOK
<1>1. ASSUME NEW m \in Messages
      PROVE  /\ RowOK(row'[m]) /\ row'[m].epoch >= row[m].epoch
             /\ row'[m].status = "DELIVERED" => sink[m] = 1
  <2>1. RowOK(row[m]) /\ row[m].epoch \in Nat /\ SinkOK(row[m], sink[m])
    BY BoundsAssumption DEF IInv, RowOK, Row
  <2> QED
    BY <2>1 DEF SinkOK
<1> QED
  BY <1>1, RowStep DEF IInv

\* Publish and PublishFails move one claim to a stage the sink backs.
LEMMA StageOK ==
    ASSUME IInv, TablesOK, UNCHANGED crashes, NEW p \in Relays, claim[p] # None,
           NEW st \in {"published", "failed"},
           claim' = [claim EXCEPT ![p].stage = st],
           row' = row, st = "published" => sink'[claim[p].m] = 1
    PROVE  IInv'
<1> DEFINE c == claim[p]
           d == [c EXCEPT !.stage = st]
<1>1. claim \in [Relays -> Claims \cup {None}] /\ c \in Claims /\ ClaimOK(c)
  BY DEF IInv
<1>2. claim' = [claim EXCEPT ![p] = d]
  BY <1>1
<1>3. c.epoch <= row[c.m].epoch
  BY <1>1 DEF ClaimOK
<1>4. st = "published" => sink'[c.m] = 1
  OBVIOUS
<1> HIDE DEF c
<1>5. d \in Claims /\ d.m = c.m /\ d.epoch = c.epoch /\ d.stage = st
  BY <1>1 DEF Claims
<1> HIDE DEF d
<1>6. claim' \in [Relays -> Claims \cup {None}]
  BY <1>1, <1>2, <1>5
<1>7. ASSUME NEW q \in Relays PROVE ClaimOK(claim[q])'
  <2>1. CASE q = p
    <3>1. claim'[q] = d
      BY <2>1, <1>1, <1>2
    <3> QED
      BY <3>1, <1>3, <1>4, <1>5, ClaimKept
  <2>2. CASE q # p
    BY <2>2, <1>1, <1>2, ClaimUntouched
  <2> QED
    BY <2>1, <2>2
<1> QED
  BY <1>6, <1>7, StepOK DEF IInv

\* Every step keeps the invariant.
LEMMA NextOK == IInv /\ [Next]_vars => IInv'
<1> SUFFICES ASSUME IInv, [Next]_vars PROVE IInv'
  OBVIOUS
<1>0. crashes \in 0..MaxCrashes
  BY DEF IInv
<1>1. ASSUME NEW m \in Messages, NEW b \in BOOLEAN, Enqueue(m, b) PROVE IInv'
  <2>1. TablesOK
    BY <1>1, EnqueueOK
  <2>2. UNCHANGED <<claim, crashes>>
    BY <1>1 DEF Enqueue
  <2>3. \A q \in Relays : ClaimOK(claim[q])'
    BY <2>1, <2>2, ClaimUntouched
  <2> QED
    BY <1>0, <2>1, <2>2, <2>3, StepOK DEF IInv
<1>2. ASSUME NEW p \in Relays, NEW s \in Lags, Claim(p, s) PROVE IInv'
  BY <1>2, ClaimStepOK
<1>3. ASSUME NEW p \in Relays, NEW s \in Lags, NEW b \in BOOLEAN,
             ClaimNothing(p, s) \/ BeginPass(p, s, b)
      PROVE  IInv'
  <2>1. TablesOK /\ UNCHANGED <<claim, crashes>>
    BY <1>3, ReconcileStepOK, SameTables DEF ClaimNothing, BeginPass
  <2> QED
    BY <1>0, <2>1, DropOK
<1>4. ASSUME NEW p \in Relays, Publish(p) PROVE IInv'
  <2>1. /\ claim[p] # None /\ UNCHANGED row /\ UNCHANGED crashes
        /\ sink' = [sink EXCEPT ![claim[p].m] = Stored(claim[p].m)]
        /\ claim' = [claim EXCEPT ![p].stage = "published"]
    BY <1>4 DEF Publish
  <2>2. TablesOK /\ sink'[claim[p].m] = 1
    BY <2>1, PublishOK
  <2> QED
    BY <2>1, <2>2, StageOK
<1>5. ASSUME NEW p \in Relays, NEW b \in BOOLEAN, PublishFails(p, b) PROVE IInv'
  <2>1. /\ claim[p] # None /\ UNCHANGED row /\ UNCHANGED crashes
        /\ \/ sink' = [sink EXCEPT ![claim[p].m] = Stored(claim[p].m)]
           \/ sink' = sink
        /\ claim' = [claim EXCEPT ![p].stage = "failed"]
    BY <1>5 DEF PublishFails
  <2>2. TablesOK
    BY <2>1, PublishOK, SameTables
  <2> QED
    BY <2>1, <2>2, StageOK
<1>6. ASSUME NEW p \in Relays, NEW s \in Lags, NEW b \in BOOLEAN,
             Acknowledge(p, s, b)
      PROVE  IInv'
  <2>1. TablesOK
    BY <1>6, AcknowledgeOK
  <2>2. claim' = [claim EXCEPT ![p] = None] /\ UNCHANGED crashes
    BY <1>6 DEF Acknowledge
  <2> QED
    BY <1>0, <2>1, <2>2, DropOK
<1>7. ASSUME NEW p \in Relays, NEW s \in Lags, NEW b \in BOOLEAN,
             RecordFailure(p, s, b)
      PROVE  IInv'
  <2>1. TablesOK
    BY <1>7, RecordFailureOK
  <2>2. claim' = [claim EXCEPT ![p] = None] /\ UNCHANGED crashes
    BY <1>7 DEF RecordFailure
  <2> QED
    BY <1>0, <2>1, <2>2, DropOK
<1>8. ASSUME NEW p \in Relays, NEW s \in Lags, FenceRaises(p, s) PROVE IInv'
  <2>1. TablesOK
    BY <1>8, SameTables DEF FenceRaises
  <2>2. claim' = [claim EXCEPT ![p] = None] /\ UNCHANGED crashes
    BY <1>8 DEF FenceRaises
  <2> QED
    BY <1>0, <2>1, <2>2, DropOK
<1>9. ASSUME NEW p \in Relays, Crash(p) PROVE IInv'
  <2>1. TablesOK
    BY <1>9, SameTables DEF Crash
  <2>2. claim' = [claim EXCEPT ![p] = None] /\ crashes < MaxCrashes /\ crashes' = crashes + 1
    BY <1>9 DEF Crash
  <2>3. crashes' \in 0..MaxCrashes
    BY <1>0, <2>2, BoundsAssumption
  <2> QED
    BY <2>1, <2>2, <2>3, DropOK
<1>10. CASE Tick
  <2>1. TablesOK /\ UNCHANGED <<claim, crashes>>
    BY <1>10, TickOK DEF Tick
  <2>2. \A q \in Relays : ClaimOK(claim[q])'
    BY <2>1, ClaimUntouched
  <2> QED
    BY <1>0, <2>1, <2>2, StepOK DEF IInv
<1>11. CASE UNCHANGED vars
  <2>1. TablesOK /\ UNCHANGED <<claim, crashes>>
    BY <1>11, SameTables DEF vars
  <2>2. \A q \in Relays : ClaimOK(claim[q])'
    BY <2>1, ClaimUntouched
  <2> QED
    BY <1>0, <2>1, <2>2, StepOK DEF IInv
<1> QED
  BY <1>1, <1>2, <1>3, <1>4, <1>5, <1>6, <1>7, <1>8, <1>9, <1>10, <1>11
     DEF Next, Poll, Finish

-----------------------------------------------------------------------------
(* Theorems.                                                               *)

\* The inductive invariant holds in every reachable state.
THEOREM Invariance == Spec => []IInv
<1> QED
  BY InitOK, NextOK, PTL DEF Spec

RunningOK == running \in [Relays -> BOOLEAN]

\* A step starts or ends at most one pass.
LEMMA RunningStep ==
    ASSUME [Next]_vars
    PROVE  \/ running' = running
           \/ \E p \in Relays, b \in BOOLEAN : running' = [running EXCEPT ![p] = b]
<1>1. ASSUME NEW p \in Relays, NEW s \in Lags, NEW b \in BOOLEAN,
             \/ BeginPass(p, s, b) \/ ClaimNothing(p, s) \/ FenceRaises(p, s)
             \/ Acknowledge(p, s, b) \/ RecordFailure(p, s, b) \/ Crash(p)
      PROVE  \E q \in Relays, c \in BOOLEAN : running' = [running EXCEPT ![q] = c]
  <2>1. running' = [running EXCEPT ![p] = TRUE] \/ running' = [running EXCEPT ![p] = FALSE]
    BY <1>1 DEF BeginPass, ClaimNothing, FenceRaises, Acknowledge, RecordFailure, Crash
  <2> QED
    BY <2>1
<1>2. ASSUME NEW p \in Relays, Crash(p)
      PROVE  \E q \in Relays, c \in BOOLEAN : running' = [running EXCEPT ![q] = c]
  BY <1>2 DEF Crash
<1>3. ASSUME NEW p \in Relays, NEW s \in Lags, Claim(p, s) PROVE running' = running
  BY <1>3 DEF Claim
<1>4. ASSUME NEW p \in Relays, NEW b \in BOOLEAN, Publish(p) \/ PublishFails(p, b)
      PROVE  running' = running
  BY <1>4 DEF Publish, PublishFails
<1>5. ASSUME NEW m \in Messages, NEW b \in BOOLEAN, Enqueue(m, b) PROVE running' = running
  BY <1>5 DEF Enqueue
<1>6. CASE Tick \/ UNCHANGED vars
  BY <1>6 DEF Tick, vars
<1> QED
  BY <1>1, <1>2, <1>3, <1>4, <1>5, <1>6 DEF Next, Poll, Finish

LEMMA RunningTyped == Spec => []RunningOK
<1>1. Init => RunningOK
  BY DEF Init, RunningOK
<1>2. RunningOK /\ [Next]_vars => RunningOK'
  BY RunningStep DEF RunningOK
<1> QED
  BY <1>1, <1>2, PTL DEF Spec

\* Type correctness: in particular claim never starts an attempt beyond
\* max_attempts.
THEOREM TypeCorrect == Spec => []TypeOK
<1>1. IInv /\ RunningOK => TypeOK
  <2> SUFFICES ASSUME IInv, RunningOK PROVE TypeOK
    OBVIOUS
  <2>1. \A m \in Messages : row[m] \in Row
    BY DEF IInv, RowOK
  <2> QED
    BY <2>1 DEF IInv, RunningOK, TypeOK
<1> QED
  BY <1>1, Invariance, RunningTyped, PTL

\* An acknowledged message is in the sink, and in it once.
THEOREM NeverLostNeverTwice == Spec => []DeliveredOnce
<1>1. IInv => DeliveredOnce
  <2> SUFFICES ASSUME IInv, NEW m \in Messages
               PROVE  /\ row[m].status = "DELIVERED" => sink[m] = 1
                      /\ sink[m] <= 1
                      /\ sink[m] = 1 => row[m].epoch > 0
    BY DEF DeliveredOnce
  <2> QED
    BY DEF IInv, SinkOK
<1> QED
  BY <1>1, Invariance, PTL

\* A message is given up only after its last attempt.
THEOREM NoEarlyDeadLetter == Spec => []DeadLettersAreSpent
<1>1. IInv => DeadLettersAreSpent
  BY DEF IInv, RowOK, DeadLettersAreSpent
<1> QED
  BY <1>1, Invariance, PTL

\* One step leaves a settled row alone.
LEMMA SettledStep ==
    ASSUME IInv, [Next]_vars, NEW m \in Messages, row[m].status \in Settled
    PROVE  row'[m] = row[m]
<1>0. DOMAIN row = Messages /\ RowOK(row[m])
  BY DEF IInv
<1>1. ASSUME NEW n \in Messages, NEW b \in BOOLEAN, Enqueue(n, b) PROVE row'[m] = row[m]
  BY <1>0, <1>1 DEF Enqueue, Settled
<1>2. ASSUME NEW p \in Relays, NEW s \in Lags, Claim(p, s) PROVE row'[m] = row[m]
  <2>1. Reconciled(s)[m] = row[m] /\ DOMAIN Reconciled(s) = Messages
    BY ReconciledOK DEF Reconciled
  <2>2. PICK n \in Messages :
          /\ Eligible(Reconciled(s)[n], s)
          /\ row' = [Reconciled(s) EXCEPT ![n].status = "LEASED", ![n].epoch = @ + 1,
                                          ![n].lease = LeaseDuration - s]
    BY <1>2 DEF Claim
  <2>3. n # m
    BY <2>1, <2>2 DEF Eligible, Settled
  <2> QED
    BY <2>1, <2>2, <2>3
<1>3. ASSUME NEW p \in Relays, NEW s \in Lags, NEW b \in BOOLEAN,
             ClaimNothing(p, s) \/ BeginPass(p, s, b)
      PROVE  row'[m] = row[m]
  BY <1>3, ReconciledOK DEF ClaimNothing, BeginPass
<1>4. ASSUME NEW p \in Relays, NEW s \in Lags, NEW b \in BOOLEAN,
             Acknowledge(p, s, b) \/ RecordFailure(p, s, b)
      PROVE  row'[m] = row[m]
  <2>1. Expired(s)[m] = row[m] /\ DOMAIN Expired(s) = Messages
    BY ExpiredOK DEF Expired
  <2>2. Expired(s)[claim[p].m].status = "LEASED"
    BY <1>4 DEF Acknowledge, RecordFailure, FenceHolds
  <2>3. claim[p].m # m
    BY <2>1, <2>2 DEF Settled
  <2>4. \E y : row' = [Expired(s) EXCEPT ![claim[p].m] = y]
    BY <1>4 DEF Acknowledge, RecordFailure
  <2> QED
    BY <2>1, <2>3, <2>4
<1>5. CASE Tick
  <2> DEFINE x == row[m]
  <2>1. row'[m] = [x EXCEPT !.lease = x.lease, !.wait = x.wait]
    BY <1>5 DEF Tick, Settled
  <2>2. x \in Row
    BY <1>0 DEF RowOK
  <2> HIDE DEF x
  <2>3. [x EXCEPT !.lease = x.lease, !.wait = x.wait] = x
    BY <2>2 DEF Row
  <2> QED
    BY <2>1, <2>3 DEF x
<1>6. CASE UNCHANGED row
  BY <1>6
<1> QED
  BY <1>1, <1>2, <1>3, <1>4, <1>5, <1>6
     DEF Next, Poll, Finish, vars, Publish, PublishFails, FenceRaises, Crash

\* DELIVERED and DEAD_LETTER are final.
THEOREM SettledRowsAreFinal == Spec => SettledIsFinal
<1>1. IInv /\ [Next]_vars =>
        [\A m \in Messages : row[m].status \in Settled => row'[m] = row[m]]_vars
  BY SettledStep
<1> QED
  BY <1>1, Invariance, PTL DEF Spec, SettledIsFinal

\* Only acknowledge delivers, and only for the claim that is the row's
\* current lease, after its publish.
LEMMA AnswerStep ==
    ASSUME IInv, Next, NEW m \in Messages,
           row[m].status = "LEASED", row'[m].status = "DELIVERED"
    PROVE  \E p \in Relays :
              /\ claim[p] = [m |-> m, epoch |-> row[m].epoch, stage |-> "published"]
              /\ claim'[p] = None
<1>0. DOMAIN row = Messages /\ RowOK(row[m]) /\ claim \in [Relays -> Claims \cup {None}]
  BY DEF IInv
<1>1. ASSUME NEW n \in Messages, NEW b \in BOOLEAN, Enqueue(n, b) PROVE FALSE
  BY <1>0, <1>1 DEF Enqueue
<1>2. ASSUME NEW p \in Relays, NEW s \in Lags, Claim(p, s) PROVE FALSE
  <2>1. Reconciled(s)[m].status # "DELIVERED" /\ DOMAIN Reconciled(s) = Messages
    BY ReconciledOK DEF Reconciled
  <2>2. RowOK(Reconciled(s)[m])
    BY ReconciledOK
  <2>3. PICK n \in Messages :
          row' = [Reconciled(s) EXCEPT ![n].status = "LEASED", ![n].epoch = @ + 1,
                                       ![n].lease = LeaseDuration - s]
    BY <1>2 DEF Claim
  <2>4. CASE n = m
    <3> DEFINE x == Reconciled(s)[m]
    <3>1. row'[m] = [x EXCEPT !.status = "LEASED", !.epoch = @ + 1,
                              !.lease = LeaseDuration - s]
      BY <2>1, <2>3, <2>4
    <3>2. x \in Row
      BY <2>2 DEF RowOK
    <3> HIDE DEF x
    <3>3. [x EXCEPT !.status = "LEASED", !.epoch = @ + 1,
                    !.lease = LeaseDuration - s].status = "LEASED"
      BY <3>2 DEF Row
    <3> QED
      BY <3>1, <3>3
  <2>5. CASE n # m
    BY <2>1, <2>3, <2>5
  <2> QED
    BY <2>4, <2>5
<1>3. ASSUME NEW p \in Relays, NEW s \in Lags, NEW b \in BOOLEAN,
             ClaimNothing(p, s) \/ BeginPass(p, s, b)
      PROVE  FALSE
  BY <1>3, ReconciledOK DEF ClaimNothing, BeginPass
<1>4. ASSUME NEW p \in Relays, NEW s \in Lags, NEW b \in BOOLEAN,
             RecordFailure(p, s, b)
      PROVE  FALSE
  <2> DEFINE k == claim[p].m
             x == Expired(s)[k]
             w == DelayAfter(x.epoch) - s
  <2>1. /\ claim[p] # None /\ x.epoch = claim[p].epoch
        /\ row' = [Expired(s) EXCEPT ![k] = Unlease(@, DelayAfter(@.epoch) - s)]
    BY <1>4 DEF RecordFailure, FenceHolds
  <2>2. k \in Messages /\ claim[p].epoch \in 1..MaxAttempts
    BY <1>0, <2>1 DEF Claims
  <2>3. row' = [Expired(s) EXCEPT ![k] = Unlease(x, w)] /\ DOMAIN Expired(s) = Messages
    BY <2>1, <2>2 DEF Expired
  <2>4. DelayAfter(x.epoch) \in 0..MaxDelay
    BY <2>1, <2>2, DelayBound
  <2>5. w \in Ticks
    BY <2>4, TickFacts
  <2>6. RowOK(x)
    BY <2>2, ExpiredOK
  <2>7. Expired(s)[m].status # "DELIVERED"
    BY ExpiredOK
  <2> HIDE DEF x, w
  <2>8. Unlease(x, w).status # "DELIVERED"
    BY <2>5, <2>6, UnleaseOK
  <2> QED
    BY <2>2, <2>3, <2>7, <2>8
<1>5. ASSUME NEW p \in Relays, NEW s \in Lags, NEW b \in BOOLEAN,
             Acknowledge(p, s, b)
      PROVE  /\ claim[p] = [m |-> m, epoch |-> row[m].epoch, stage |-> "published"]
             /\ claim'[p] = None
  <2> DEFINE k == claim[p].m
  <2>1. /\ claim[p] # None /\ claim[p].stage = "published"
        /\ Expired(s)[k].epoch = claim[p].epoch
        /\ \E y : row' = [Expired(s) EXCEPT ![k] = y]
        /\ claim' = [claim EXCEPT ![p] = None]
    BY <1>5 DEF Acknowledge, FenceHolds
  <2>2. claim[p] \in Claims /\ k \in Messages
    BY <1>0, <2>1 DEF Claims
  <2>3. Expired(s)[m].status # "DELIVERED" /\ DOMAIN Expired(s) = Messages
    BY ExpiredOK DEF Expired
  <2>4. k = m
    BY <2>1, <2>3
  <2>5. claim[p].epoch = row[m].epoch
    BY <2>1, <2>4, ExpiredOK
  <2>6. claim[p] = [m |-> m, epoch |-> row[m].epoch, stage |-> "published"]
    BY <2>1, <2>2, <2>4, <2>5 DEF Claims
  <2> QED
    BY <1>0, <2>1, <2>6
<1>6. ~Tick
  <2> SUFFICES ASSUME Tick PROVE FALSE
    OBVIOUS
  <2> DEFINE x == row[m]
             l == IF x.status = "LEASED" THEN Sooner(x.lease) ELSE x.lease
             w == IF x.status \in {"PENDING", "RETRY_WAIT"} THEN Sooner(x.wait) ELSE x.wait
  <2>1. row'[m] = [x EXCEPT !.lease = l, !.wait = w]
    BY DEF Tick
  <2>2. x \in Row
    BY <1>0 DEF RowOK
  <2> HIDE DEF l, w
  <2>3. row'[m].status = x.status
    BY <2>1, <2>2 DEF Row
  <2> QED
    BY <2>3
<1>7. row' # row
  OBVIOUS
<1> QED
  BY <1>1, <1>2, <1>3, <1>4, <1>5, <1>6, <1>7
     DEF Next, Poll, Finish, Publish, PublishFails, FenceRaises, Crash

\* A message is settled as delivered only by the relay that holds its
\* current lease and has published it: the epoch alone keeps relays with one
\* worker id apart.
THEOREM FencedAnswers == Spec => AnsweredByHolder
<1>1. IInv /\ [Next]_vars =>
        [\A m \in Messages : row[m].status = "LEASED" /\ row'[m].status = "DELIVERED" =>
          \E p \in Relays :
              /\ claim[p] = [m |-> m, epoch |-> row[m].epoch, stage |-> "published"]
              /\ claim'[p] = None]_vars
  BY AnswerStep
<1> QED
  BY <1>1, Invariance, PTL DEF Spec, AnsweredByHolder
=============================================================================
