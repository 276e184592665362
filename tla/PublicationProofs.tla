------------------------- MODULE PublicationProofs -------------------------
(***************************************************************************)
(* Proofs about Publication for every set of processes, runs, hypotheses   *)
(* and fingerprints.                                                       *)
(*                                                                         *)
(* The heart of it is the compare and swap on the registry partition: a    *)
(* command whose generation is still the partition's was prepared from     *)
(* the very registry it is applied to, because every commit that changes   *)
(* the registry bumps the generation.  RepoInv says so of every process    *)
(* and carries the registry's own invariant; LedgerInv adds the work       *)
(* ledger: a capability is one for its holder's command, and only succeed  *)
(* makes a row SUCCEEDED.                                                  *)
(***************************************************************************)
EXTENDS Publication, Sequences, FiniteSetTheorems, WellFoundedInduction, TLAPS

EventSpace == [hyp: Hyps, gen: Nat]

\* The commands of run r when it found the hypotheses F.
Commands(r, F) == [run: {r}, gen: Nat, fence: Nat, new: SUBSET F,
                   assigned: [F -> EventSpace]]

RegistrySpace == [gen: Nat, fence: Nat, identities: SUBSET EventSpace,
                  assigned: [Hyps -> EventSpace \cup {None}],
                  published: SUBSET EventSpace, outbox: SUBSET (Runs \X Hyps)]

UniqueFingerprints(I) ==
    \A d, e \in I : Fingerprint[d.hyp] = Fingerprint[e.hyp] => d = e

Announcers(reg, h) == {r \in Runs : <<r, h>> \in reg.outbox}

RegistryOK(reg) ==
    /\ reg \in RegistrySpace
    /\ reg.fence = reg.gen + 1 /\ reg.published = reg.identities
    /\ UniqueFingerprints(reg.identities)
    /\ \A h \in Hyps : reg.assigned[h] # None => reg.assigned[h] \in reg.identities
    /\ \A h \in Hyps : reg.assigned[h] = None => Announcers(reg, h) = {}
    /\ \A h \in Hyps : reg.assigned[h] # None =>
                          \E r \in Runs : Announcers(reg, h) = {r}

\* The runs whose completion created events.
Creators(comp) == {r \in Runs : comp[r] # None /\ comp[r].new # {}}

CompletionOK(c, r, F, status, reg) ==
    c = None \/ /\ c \in Commands(r, F)
                /\ status = "CLOSED" /\ c.gen < MaxGeneration
                /\ \A h \in F : reg.assigned[h] = c.assigned[h]

Early == {"idle", "begin", "snapshot"}

\* A command that can still commit was prepared from the present registry.
FromRegistry(c, r, reg) ==
    /\ c.gen <= reg.gen
    /\ c.gen = reg.gen => c = Prepare(reg, r) /\ ~Reuses(reg, r)

CommandOK(o, r, F, c, reg) ==
    /\ o.cmd \in Commands(r, F)
    /\ o.step \in {"get", "commit"} => ~o.recovering
    /\ o.recovering \/ o.step = "succeed" => o.cmd = c
    /\ o.step # "get" => o.cmd.gen < MaxGeneration
    /\ ~o.recovering /\ F # {} => FromRegistry(o.cmd, r, reg)
    /\ ~o.recovering /\ F = {} => o.cmd.gen = 0

OpOK(o, r, F, c, reg) ==
    /\ o \in [step: Steps, cmd: Commands(r, F) \cup {None}, recovering: BOOLEAN]
    /\ o.step \in Early => o.cmd = None /\ ~o.recovering
    /\ o.step \notin Early => CommandOK(o, r, F, c, reg)

\* What holds when the repository is st, comp and reg, and processes are at o.
RepoOK(st, comp, reg, o) ==
    /\ st \in [Runs -> {"NONE", "RUNNING", "CLOSED"}]
    /\ comp = [r \in Runs |-> comp[r]] /\ o = [p \in Procs |-> o[p]]
    /\ RegistryOK(reg) /\ reg.gen = Cardinality(Creators(comp))
    /\ \A r \in Runs : CompletionOK(comp[r], r, Found(r), st[r], reg)
    /\ \A p \in Procs : OpOK(o[p], RunOf(p), Found(RunOf(p)), comp[RunOf(p)], reg)

RepoInv == input \in Inputs /\ RepoOK(run, completion, registry, op)

-----------------------------------------------------------------------------
(* The inputs and the identities.                                          *)

LEMMA InputTypes ==
    ASSUME input \in Inputs
    PROVE  /\ \A p \in Procs : RunOf(p) \in Runs
           /\ \A r \in Runs : Found(r) \subseteq Hyps
  BY PublicationAssumption DEF RunOf, Found

\* Every set of naturals that is not empty has a least element.
LEMMA LeastNatural ==
    ASSUME NEW T \in SUBSET Nat, T # {}
    PROVE  \E x \in T : \A y \in T : x <= y
  <1> DEFINE R == {ss \in Nat \X Nat : ss[1] < ss[2]}
  <1>1. IsWellFoundedOn(R, Nat)
    BY NatLessThanWellFounded DEF OpToRel
  <1>2. PICK x \in T : \A y \in T : ~(<<y, x>> \in R)
    <2> HIDE DEF R
    <2> QED
      BY <1>1, WFMin
  <1>3. ASSUME NEW y \in T PROVE x <= y
    <2>1. x \in Nat /\ y \in Nat /\ ~(<<y, x>> \in R)
      BY <1>2
    <2>2. y < x => <<y, x>> \in R
      BY <2>1
    <2> QED
      BY <2>1, <2>2
  <1> QED
    BY <1>3

LEMMA MatchesAre ==
    ASSUME NEW reg, NEW new, NEW h, NEW m
    PROVE  m \in Matches(reg, new, h) <=>
              \/ m \in reg.identities /\ Fingerprint[m.hyp] = Fingerprint[h]
              \/ \E g \in new : /\ g < h /\ Fingerprint[g] = Fingerprint[h]
                                /\ m = [hyp |-> g, gen |-> reg.gen + 1]
  BY DEF Matches

\* A batch in which nothing is REUSED has no match at all: the first
\* hypothesis that matched anything would match exactly one identity, since
\* identities of one partition have different fingerprints.  AMBIGUOUS never
\* happens.
LEMMA NothingMatches ==
    ASSUME NEW reg, NEW r \in Runs, input \in Inputs,
           UniqueFingerprints(reg.identities), ~Reuses(reg, r),
           NEW h \in NewHyps(reg, r)
    PROVE  Matches(reg, NewHyps(reg, r), h) = {}
  <1> DEFINE new == NewHyps(reg, r)
             T == {g \in new : /\ Matches(reg, new, g) # {}
                               /\ Fingerprint[g] = Fingerprint[h]}
  <1> SUFFICES ASSUME Matches(reg, new, h) # {} PROVE FALSE
    OBVIOUS
  <1>1. new \subseteq Nat
    BY InputTypes, PublicationAssumption DEF NewHyps
  <1> HIDE DEF new
  <1>2. T \in SUBSET Nat /\ T # {}
    BY <1>1 DEF new
  <1>3. PICK g \in T : \A f \in T : g <= f
    BY <1>2, LeastNatural
  <1>4. g \in new /\ Fingerprint[g] = Fingerprint[h] /\ Matches(reg, new, g) # {}
    BY <1>3
  <1>5. PICK m : m \in Matches(reg, new, g)
    BY <1>4
  <1>6. \A f \in new : f < g /\ Fingerprint[f] = Fingerprint[g]
            => Matches(reg, new, f) = {}
    BY <1>1, <1>3, <1>4
  <1>7. ASSUME NEW n \in Matches(reg, new, g) PROVE n = m
    <2>1. CASE /\ m \in reg.identities /\ Fingerprint[m.hyp] = Fingerprint[g]
               /\ n \in reg.identities /\ Fingerprint[n.hyp] = Fingerprint[g]
      BY <2>1 DEF UniqueFingerprints
    <2>2. ASSUME NEW e \in reg.identities, Fingerprint[e.hyp] = Fingerprint[g],
                 NEW f \in new, f < g, Fingerprint[f] = Fingerprint[g]
          PROVE  FALSE
      <3>1. e \in Matches(reg, new, f)
        BY <2>2, MatchesAre
      <3> QED
        BY <1>6, <2>2, <3>1
    <2>3. ASSUME NEW e \in new, NEW f \in new, e < g, f < g, e < f,
                 Fingerprint[e] = Fingerprint[g], Fingerprint[f] = Fingerprint[g]
          PROVE  FALSE
      <3>1. [hyp |-> e, gen |-> reg.gen + 1] \in Matches(reg, new, f)
        BY <2>3, MatchesAre
      <3> QED
        BY <1>6, <2>3, <3>1
    <2>4. /\ \/ m \in reg.identities /\ Fingerprint[m.hyp] = Fingerprint[g]
             \/ \E f \in new : /\ f < g /\ Fingerprint[f] = Fingerprint[g]
                               /\ m = [hyp |-> f, gen |-> reg.gen + 1]
          /\ \/ n \in reg.identities /\ Fingerprint[n.hyp] = Fingerprint[g]
             \/ \E f \in new : /\ f < g /\ Fingerprint[f] = Fingerprint[g]
                               /\ n = [hyp |-> f, gen |-> reg.gen + 1]
      BY <1>5, <1>7, MatchesAre
    <2>5. CASE /\ \E f \in new : /\ f < g /\ Fingerprint[f] = Fingerprint[g]
                                 /\ m = [hyp |-> f, gen |-> reg.gen + 1]
               /\ \E f \in new : /\ f < g /\ Fingerprint[f] = Fingerprint[g]
                                 /\ n = [hyp |-> f, gen |-> reg.gen + 1]
      <3>1. PICK e \in new : /\ e < g /\ Fingerprint[e] = Fingerprint[g]
                             /\ m = [hyp |-> e, gen |-> reg.gen + 1]
        BY <2>5
      <3>2. PICK f \in new : /\ f < g /\ Fingerprint[f] = Fingerprint[g]
                             /\ n = [hyp |-> f, gen |-> reg.gen + 1]
        BY <2>5
      <3>3. e \in Nat /\ f \in Nat /\ ~(e < f) /\ ~(f < e)
        BY <1>1, <2>3, <3>1, <3>2
      <3>4. e = f
        BY <3>3
      <3> QED
        BY <3>1, <3>2, <3>4
    <2> QED
      BY <2>1, <2>2, <2>4, <2>5
  <1>8. Matches(reg, new, g) = {m}
    BY <1>5, <1>7
  <1>9. Cardinality(Matches(reg, new, g)) = 1
    BY <1>8, FS_Singleton
  <1> QED
    BY <1>4, <1>9 DEF Reuses, new

\* So the new events of a command clash with no event, old or new.
LEMMA NewEventsAreNew ==
    ASSUME NEW reg, NEW r \in Runs, input \in Inputs,
           UniqueFingerprints(reg.identities), ~Reuses(reg, r)
    PROVE  /\ \A h \in NewHyps(reg, r) : \A e \in reg.identities :
                 Fingerprint[e.hyp] # Fingerprint[h]
           /\ \A g, h \in NewHyps(reg, r) :
                 Fingerprint[g] = Fingerprint[h] => g = h
  <1> DEFINE new == NewHyps(reg, r)
  <1>0. new \subseteq Nat
    BY InputTypes, PublicationAssumption DEF NewHyps
  <1>1. \A h \in new : Matches(reg, new, h) = {}
    BY NothingMatches
  <1> HIDE DEF new
  <1>2. \A h \in new : \A e \in reg.identities : Fingerprint[e.hyp] # Fingerprint[h]
    BY <1>1, MatchesAre
  <1>3. ASSUME NEW g \in new, NEW h \in new, Fingerprint[g] = Fingerprint[h], g < h
        PROVE  FALSE
    <2>1. [hyp |-> g, gen |-> reg.gen + 1] \in Matches(reg, new, h)
      BY <1>3, MatchesAre
    <2> QED
      BY <1>1, <2>1
  <1>4. ASSUME NEW g \in new, NEW h \in new, Fingerprint[g] = Fingerprint[h]
        PROVE  g = h
    <2>1. g \in Nat /\ h \in Nat /\ ~(g < h) /\ ~(h < g)
      BY <1>0, <1>3, <1>4
    <2> QED
      BY <2>1
  <1> QED
    BY <1>2, <1>4 DEF new

-----------------------------------------------------------------------------
(* Commands.                                                               *)

LEMMA PreparedIs ==
    ASSUME NEW reg, NEW r
    PROVE  LET c == Prepare(reg, r) IN
           /\ c.run = r /\ c.gen = reg.gen /\ c.fence = reg.fence
           /\ c.new = NewHyps(reg, r) /\ DOMAIN c.assigned = Found(r)
           /\ \A h \in Found(r) : c.assigned[h] =
                 IF reg.assigned[h] # None THEN reg.assigned[h]
                 ELSE [hyp |-> h, gen |-> reg.gen + 1]
  BY DEF Prepare

\* A prepared command assigns an event to every hypothesis found.
LEMMA PreparedIsCommand ==
    ASSUME NEW reg, RegistryOK(reg), NEW r \in Runs, input \in Inputs
    PROVE  Prepare(reg, r) \in Commands(r, Found(r))
  <1> DEFINE a == [h \in Found(r) |->
                     IF reg.assigned[h] # None THEN reg.assigned[h]
                     ELSE [hyp |-> h, gen |-> reg.gen + 1]]
             new == NewHyps(reg, r)
  <1>1. /\ reg.gen \in Nat /\ reg.fence \in Nat
        /\ reg.assigned \in [Hyps -> EventSpace \cup {None}]
    BY DEF RegistryOK, RegistrySpace
  <1>2. Found(r) \subseteq Hyps
    BY InputTypes
  <1>3. a \in [Found(r) -> EventSpace]
    BY <1>1, <1>2 DEF EventSpace
  <1>4. new \in SUBSET Found(r)
    BY DEF NewHyps
  <1>5. Prepare(reg, r) = [run |-> r, gen |-> reg.gen, fence |-> reg.fence,
                           new |-> new, assigned |-> a]
    BY DEF Prepare
  <1> HIDE DEF a, new
  <1> QED
    BY <1>1, <1>3, <1>4, <1>5 DEF Commands

LEMMA EmptyIsCommand ==
    ASSUME NEW r, Found(r) = {}
    PROVE  /\ EmptyCommand(r) \in Commands(r, Found(r))
           /\ EmptyCommand(r).gen = 0 /\ EmptyCommand(r).new = {}
  <1> DEFINE a == [h \in {} |-> None]
  <1>1. a \in [{} -> EventSpace]
    OBVIOUS
  <1>2. EmptyCommand(r) = [run |-> r, gen |-> 0, fence |-> 0, new |-> {},
                           assigned |-> a]
    BY DEF EmptyCommand
  <1> HIDE DEF a
  <1> QED
    BY <1>1, <1>2 DEF Commands

LEMMA CommandIsNotNone ==
    ASSUME NEW r \in Runs, NEW F \in SUBSET Hyps
    PROVE  None \notin Commands(r, F)
  BY NoneAssumption DEF Commands, EventSpace

\* A command that is nothing new leaves the registry as it is.
LEMMA NothingNew ==
    ASSUME RegistryOK(registry), NEW r \in Runs, input \in Inputs,
           NEW c, c = Prepare(registry, r), c.new = {}
    PROVE  Apply(c) = registry
  <1>0. /\ registry \in RegistrySpace
        /\ registry.assigned \in [Hyps -> EventSpace \cup {None}]
    BY DEF RegistryOK, RegistrySpace
  <1>1. /\ c.run = r /\ c.new = NewHyps(registry, r)
        /\ \A h \in Found(r) : c.assigned[h] =
              IF registry.assigned[h] # None THEN registry.assigned[h]
              ELSE [hyp |-> h, gen |-> registry.gen + 1]
    BY PreparedIs
  <1>2. Found(r) \subseteq Hyps /\ \A h \in Found(r) : registry.assigned[h] # None
    BY <1>1, InputTypes DEF NewHyps
  <1>3. {c.assigned[h] : h \in Found(r)} \subseteq registry.published
    <2>1. \A h \in Found(r) : c.assigned[h] = registry.assigned[h]
      BY <1>1, <1>2
    <2>2. \A h \in Found(r) : registry.assigned[h] \in registry.published
      BY <1>2 DEF RegistryOK
    <2> QED
      BY <2>1, <2>2
  <1>4. {c.assigned[h] : h \in c.new} = {} /\ OutboxOf(c) = {}
    BY DEF OutboxOf
  <1>5. [h \in Hyps |-> IF h \in c.new THEN c.assigned[h] ELSE registry.assigned[h]]
          = registry.assigned
    BY <1>0
  <1>6. registry.published \cup {c.assigned[h] : h \in Found(c.run)} = registry.published
    BY <1>1, <1>3
  <1>7. Apply(c) = [gen |-> registry.gen, fence |-> registry.fence,
                    identities |-> registry.identities,
                    assigned |-> registry.assigned,
                    published |-> registry.published, outbox |-> registry.outbox]
    BY <1>4, <1>5, <1>6 DEF Apply
  <1> QED
    BY <1>0, <1>7 DEF RegistrySpace

\* _apply_identity_and_publications keeps the registry consistent, bumps its
\* generation and takes nothing back.
LEMMA ApplyOK ==
    ASSUME RegistryOK(registry), NEW r \in Runs, input \in Inputs,
           NEW c, c = Prepare(registry, r), ~Reuses(registry, r), c.new # {}
    PROVE  /\ RegistryOK(Apply(c)) /\ Apply(c).gen = registry.gen + 1
           /\ \A h \in Hyps : registry.assigned[h] # None =>
                 Apply(c).assigned[h] = registry.assigned[h]
           /\ \A h \in Found(r) : Apply(c).assigned[h] = c.assigned[h]
  <1> DEFINE q == Apply(c)
             new == NewHyps(registry, r)
             made == {c.assigned[h] : h \in new}
             ids == registry.identities \cup made
             asg == [h \in Hyps |-> IF h \in new THEN c.assigned[h]
                                    ELSE registry.assigned[h]]
             pub == registry.published \cup {c.assigned[h] : h \in Found(r)}
             out == registry.outbox \cup OutboxOf(c)
             n == registry.gen + 1
             f == registry.fence + 1
  <1>0. /\ registry \in RegistrySpace /\ registry.gen \in Nat
        /\ registry.fence = registry.gen + 1
        /\ registry.assigned \in [Hyps -> EventSpace \cup {None}]
        /\ registry.identities \subseteq EventSpace
        /\ registry.published = registry.identities
        /\ registry.outbox \subseteq Runs \X Hyps
    BY DEF RegistryOK, RegistrySpace
  <1>1. /\ c.run = r /\ c.gen = registry.gen /\ c.new = new
        /\ \A h \in Found(r) : c.assigned[h] =
              IF registry.assigned[h] # None THEN registry.assigned[h]
              ELSE [hyp |-> h, gen |-> registry.gen + 1]
    BY PreparedIs
  <1>2. /\ Found(r) \subseteq Hyps /\ new \subseteq Found(r)
        /\ \A h \in Found(r) : registry.assigned[h] = None <=> h \in new
    BY InputTypes DEF NewHyps
  <1>3. \A h \in new : /\ c.assigned[h] = [hyp |-> h, gen |-> n]
                       /\ c.assigned[h] \in EventSpace /\ c.assigned[h].hyp = h
                       /\ c.assigned[h] # None
    BY <1>0, <1>1, <1>2, NoneAssumption DEF EventSpace
  <1>4. q = [gen |-> n, fence |-> f, identities |-> ids, assigned |-> asg,
             published |-> pub, outbox |-> out]
    BY <1>1 DEF Apply
  <1>5. made \subseteq EventSpace
    BY <1>3
  <1>6. pub = ids
    <2>1. \A h \in Found(r) \ new : c.assigned[h] \in registry.identities
      BY <1>1, <1>2 DEF RegistryOK
    <2> QED
      BY <1>0, <1>2, <1>5, <2>1
  <1>7. asg \in [Hyps -> EventSpace \cup {None}]
    BY <1>0, <1>3
  <1>8. out \subseteq Runs \X Hyps
    BY <1>0, <1>1, <1>2 DEF OutboxOf
  <1>9. UniqueFingerprints(ids)
    <2>1. /\ \A h \in new : \A e \in registry.identities :
                Fingerprint[e.hyp] # Fingerprint[h]
          /\ \A g, h \in new : Fingerprint[g] = Fingerprint[h] => g = h
      BY NewEventsAreNew DEF RegistryOK
    <2>2. UniqueFingerprints(registry.identities)
      BY DEF RegistryOK
    <2>a. ASSUME NEW e \in made PROVE e.hyp \in new /\ e = c.assigned[e.hyp]
      <3>1. PICK h \in new : e = c.assigned[h]
        BY <2>a
      <3>2. c.assigned[h].hyp = h
        BY <1>3, <3>1
      <3> QED
        BY <3>1, <3>2
    <2>b. ids = registry.identities \cup made
      OBVIOUS
    <2> HIDE DEF new, made, ids
    <2>3. ASSUME NEW d \in ids, NEW e \in ids,
                 Fingerprint[d.hyp] = Fingerprint[e.hyp]
          PROVE  d = e
      <3>1. CASE d \in registry.identities /\ e \in registry.identities
        BY <2>2, <2>3, <3>1 DEF UniqueFingerprints
      <3>2. CASE d \in made /\ e \in made
        BY <2>1, <2>3, <2>a, <3>2
      <3>3. CASE d \in made /\ e \in registry.identities
        BY <2>1, <2>3, <2>a, <3>3
      <3>4. CASE d \in registry.identities /\ e \in made
        BY <2>1, <2>3, <2>a, <3>4
      <3> QED
        BY <2>b, <3>1, <3>2, <3>3, <3>4
    <2> QED
      BY <2>3 DEF UniqueFingerprints
  <1>10. \A h \in Hyps : asg[h] # None => asg[h] \in ids
    BY <1>3 DEF RegistryOK
  <1>11. \A h \in Hyps : h \in new => asg[h] = c.assigned[h]
    OBVIOUS
  <1>12. \A h \in Hyps : h \notin new => asg[h] = registry.assigned[h]
    OBVIOUS
  <1>13. \A k \in Runs, h \in Hyps :
            <<k, h>> \in out <=> <<k, h>> \in registry.outbox \/ (k = r /\ h \in new)
    BY <1>1 DEF OutboxOf
  <1> HIDE DEF new, made, ids, asg, pub, out, q, n, f
  <1>14. q \in RegistrySpace
    <2>1. n \in Nat /\ f \in Nat
      BY <1>0 DEF n, f
    <2>2. ids \subseteq EventSpace
      BY <1>0, <1>5 DEF ids
    <2> QED
      BY <1>4, <1>6, <1>7, <1>8, <2>1, <2>2 DEF RegistrySpace
  <1>15. /\ q.gen = n /\ q.fence = f /\ q.identities = ids /\ q.assigned = asg
         /\ q.published = pub /\ q.outbox = out
    BY <1>4
  <1>16. q.fence = q.gen + 1
    BY <1>0, <1>15 DEF n, f
  <1>17. ASSUME NEW h \in Hyps
         PROVE  /\ asg[h] = None => Announcers(q, h) = {}
                /\ asg[h] # None => \E k \in Runs : Announcers(q, h) = {k}
    <2>1. CASE h \in new
      <3>1. asg[h] # None /\ Announcers(registry, h) = {}
        BY <1>2, <1>3, <1>11, <2>1 DEF RegistryOK
      <3>2. Announcers(q, h) = {r}
        BY <1>13, <1>15, <2>1, <3>1 DEF Announcers
      <3> QED
        BY <3>1, <3>2
    <2>2. CASE h \notin new
      <3>1. asg[h] = registry.assigned[h]
        BY <1>12, <2>2
      <3>2. Announcers(q, h) = Announcers(registry, h)
        BY <1>13, <1>15, <2>2 DEF Announcers
      <3> QED
        BY <3>1, <3>2 DEF RegistryOK
    <2> QED
      BY <2>1, <2>2
  <1>18. RegistryOK(q)
    BY <1>6, <1>9, <1>10, <1>14, <1>15, <1>16, <1>17 DEF RegistryOK
  <1>19. \A h \in Hyps : registry.assigned[h] # None => asg[h] = registry.assigned[h]
    BY <1>2, <1>12
  <1>20. \A h \in Found(r) : asg[h] = c.assigned[h]
    BY <1>1, <1>2, <1>11, <1>12
  <1> QED
    BY <1>15, <1>18, <1>19, <1>20 DEF q, n

-----------------------------------------------------------------------------
(* The steps of a process, as far as the repository is concerned.          *)

LEMMA RepoFacts ==
    ASSUME RepoInv, NEW p \in Procs
    PROVE  /\ RunOf(p) \in Runs /\ Found(RunOf(p)) \subseteq Hyps
           /\ OpOK(op[p], RunOf(p), Found(RunOf(p)), completion[RunOf(p)], registry)
           /\ CompletionOK(completion[RunOf(p)], RunOf(p), Found(RunOf(p)),
                           run[RunOf(p)], registry)
           /\ RegistryOK(registry) /\ op = [q \in Procs |-> op[q]]
           /\ completion = [r \in Runs |-> completion[r]]
  BY InputTypes DEF RepoInv, RepoOK

RepoGoal == input' = input /\ RepoOK(run', completion', registry', op')

\* Only the program counter of p moves.
LEMMA OpChange ==
    ASSUME RepoInv, NEW p \in Procs, NEW o,
           OpOK(o, RunOf(p), Found(RunOf(p)), completion[RunOf(p)], registry),
           op' = [op EXCEPT ![p] = o], UNCHANGED repo
    PROVE  RepoGoal
  <1>1. input' = input /\ run' = run /\ completion' = completion /\ registry' = registry
    BY DEF repo
  <1>2. op = [q \in Procs |-> op[q]]
    BY RepoFacts
  <1>3. op' = [q \in Procs |-> op'[q]] /\ op'[p] = o
        /\ \A q \in Procs : q # p => op'[q] = op[q]
    BY <1>2
  <1>4. \A q \in Procs : OpOK(op'[q], RunOf(q), Found(RunOf(q)),
                              completion[RunOf(q)], registry)
    BY <1>3 DEF RepoInv, RepoOK
  <1>5. RepoOK(run, completion, registry, op')
    BY <1>3, <1>4 DEF RepoInv, RepoOK
  <1> QED
    BY <1>1, <1>5 DEF RepoGoal

LEMMA IdleOK ==
    ASSUME NEW r, NEW F, NEW c, NEW reg
    PROVE  OpOK(Idle, r, F, c, reg) /\ OpOK([Idle EXCEPT !.step = "begin"], r, F, c, reg)
  <1> DEFINE no == FALSE
  <1>1. /\ Idle = [step |-> "idle", cmd |-> None, recovering |-> no]
        /\ no \in BOOLEAN /\ ~no
    BY DEF Idle
  <1> HIDE DEF no
  <1> QED
    BY <1>1 DEF OpOK, Early, Steps

LEMMA ReconcilingOK ==
    ASSUME NEW r, NEW F, NEW c, NEW st, NEW reg, CompletionOK(c, r, F, st, reg),
           c # None
    PROVE  OpOK(Reconciling(c), r, F, c, reg)
  <1> DEFINE yes == TRUE
             o == Reconciling(c)
  <1>1. /\ o = [step |-> "plan", cmd |-> c, recovering |-> yes]
        /\ yes \in BOOLEAN /\ yes
    BY DEF Reconciling
  <1>2. c \in Commands(r, F) /\ c.gen < MaxGeneration
    BY DEF CompletionOK
  <1> HIDE DEF yes, o
  <1>3. o \in [step: Steps, cmd: Commands(r, F) \cup {None}, recovering: BOOLEAN]
        /\ o.step = "plan" /\ o.cmd = c /\ o.recovering
    BY <1>1, <1>2 DEF Steps
  <1> QED
    BY <1>2, <1>3 DEF OpOK, CommandOK, Early, o

\* A later step of the same invocation with the same command.
LEMMA GotoOK ==
    ASSUME NEW o, NEW r, NEW F, NEW c, NEW reg, OpOK(o, r, F, c, reg),
           o.step \notin Early, NEW s \in Steps \ Early, s # "get",
           s = "commit" => ~o.recovering, s = "succeed" => o.cmd = c,
           o.step = "get" => o.cmd.gen < MaxGeneration
    PROVE  OpOK([o EXCEPT !.step = s], r, F, c, reg)
  <1> DEFINE y == [o EXCEPT !.step = s]
  <1>1. /\ y \in [step: Steps, cmd: Commands(r, F) \cup {None}, recovering: BOOLEAN]
        /\ y.step = s /\ y.cmd = o.cmd /\ y.recovering = o.recovering
    BY DEF OpOK
  <1> HIDE DEF y
  <1>2. CommandOK(y, r, F, c, reg)
    BY <1>1 DEF OpOK, CommandOK
  <1> QED
    BY <1>1, <1>2 DEF OpOK, y

LEMMA RaiseOK ==
    ASSUME RepoInv, NEW p \in Procs, op' = [op EXCEPT ![p] = Idle], UNCHANGED repo
    PROVE  RepoGoal
  BY IdleOK, OpChange

LEMMA LookupOK ==
    ASSUME RepoInv, NEW p \in Procs, Lookup(p)
    PROVE  RepoGoal
  <1> DEFINE c == completion[RunOf(p)]
             o == IF c # None THEN Reconciling(c) ELSE [Idle EXCEPT !.step = "begin"]
  <1>1. op' = [op EXCEPT ![p] = o] /\ UNCHANGED repo
    BY DEF Lookup
  <1>2. OpOK(o, RunOf(p), Found(RunOf(p)), c, registry)
    BY RepoFacts, IdleOK, ReconcilingOK
  <1> HIDE DEF o
  <1> QED
    BY <1>1, <1>2, OpChange

\* begin_run touches no closed run, hence no completed one.
LEMMA BeginRunOK ==
    ASSUME RepoInv, NEW p \in Procs, BeginRun(p)
    PROVE  RepoGoal
  <1>1. CASE Raise(p)
    BY <1>1, RaiseOK DEF Raise
  <1>2. CASE /\ run[RunOf(p)] # "CLOSED"
             /\ run' = [run EXCEPT ![RunOf(p)] = "RUNNING"]
             /\ Goto(p, "snapshot")
             /\ UNCHANGED <<work, input, completion, registry, crashes>>
    <2> DEFINE o == [op[p] EXCEPT !.step = "snapshot"]
               r == RunOf(p)
    <2>0. RepoOK(run, completion, registry, op)
      BY DEF RepoInv
    <2>1. r \in Runs /\ OpOK(op[p], r, Found(r), completion[r], registry)
          /\ op = [q \in Procs |-> op[q]]
      BY RepoFacts
    <2>2. op[p].step = "begin"
      BY DEF BeginRun, At
    <2>3. op' = [op EXCEPT ![p] = o]
      BY <1>2 DEF Goto
    <2>4. OpOK(o, r, Found(r), completion[r], registry)
      <3>1. /\ o \in [step: Steps, cmd: Commands(r, Found(r)) \cup {None},
                      recovering: BOOLEAN]
            /\ o.step = "snapshot" /\ o.cmd = op[p].cmd
            /\ o.recovering = op[p].recovering
        BY <2>1 DEF OpOK, Steps
      <3> HIDE DEF o
      <3> QED
        BY <2>1, <2>2, <3>1 DEF OpOK, Early
    <2> HIDE DEF o
    <2>5. /\ run' \in [Runs -> {"NONE", "RUNNING", "CLOSED"}]
          /\ \A k \in Runs : run[k] = "CLOSED" => run'[k] = "CLOSED"
      BY <1>2, <2>0, <2>1 DEF RepoOK
    <2>6. \A k \in Runs : CompletionOK(completion[k], k, Found(k), run'[k], registry)
      BY <2>0, <2>5 DEF RepoOK, CompletionOK
    <2>7. /\ op' = [q \in Procs |-> op'[q]]
          /\ \A q \in Procs : OpOK(op'[q], RunOf(q), Found(RunOf(q)),
                                   completion[RunOf(q)], registry)
      BY <2>0, <2>1, <2>3, <2>4 DEF RepoOK
    <2>8. RepoOK(run', completion, registry, op')
      BY <2>0, <2>5, <2>6, <2>7 DEF RepoOK
    <2> QED
      BY <1>2, <2>8 DEF RepoGoal
  <1> QED
    BY <1>1, <1>2 DEF BeginRun

LEMMA SnapshotOK ==
    ASSUME RepoInv, NEW p \in Procs, Snapshot(p)
    PROVE  RepoGoal
  <1>1. CASE Raise(p)
    BY <1>1, RaiseOK DEF Raise
  <1> DEFINE r == RunOf(p)
             F == Found(r)
             c == IF F = {} THEN EmptyCommand(r) ELSE Prepare(registry, r)
             o == [op[p] EXCEPT !.step = "get", !.cmd = c]
  <1>2. CASE /\ ~(F # {} /\ Reuses(registry, r))
             /\ op' = [op EXCEPT ![p].step = "get", ![p].cmd = c]
             /\ UNCHANGED <<work, repo, crashes>>
    <2>1. r \in Runs /\ OpOK(op[p], r, F, completion[r], registry)
          /\ op = [q \in Procs |-> op[q]] /\ RegistryOK(registry)
          /\ input \in Inputs
      BY RepoFacts DEF RepoInv
    <2>2. op[p].step \in Early
      BY DEF Snapshot, At, Early
    <2>3. op' = [op EXCEPT ![p] = o]
      BY <1>2, <2>1
    <2>4. c \in Commands(r, F)
      BY <2>1, PreparedIsCommand, EmptyIsCommand
    <2>5. F # {} => FromRegistry(c, r, registry)
      <3>1. registry.gen \in Nat
        BY <2>1 DEF RegistryOK, RegistrySpace
      <3> QED
        BY <1>2, <3>1, PreparedIs DEF FromRegistry
    <2>9. F = {} => c.gen = 0
      BY EmptyIsCommand
    <2> HIDE DEF c
    <2>6. /\ o \in [step: Steps, cmd: Commands(r, F) \cup {None}, recovering: BOOLEAN]
          /\ o.step = "get" /\ o.cmd = c /\ o.recovering = op[p].recovering
      BY <2>1, <2>4 DEF OpOK, Steps
    <2> HIDE DEF o
    <2>7. ~o.recovering
      BY <2>1, <2>2, <2>6 DEF OpOK
    <2>8. OpOK(o, r, F, completion[r], registry)
      BY <2>4, <2>5, <2>6, <2>7, <2>9 DEF OpOK, CommandOK, Early
    <2> QED
      BY <1>2, <2>3, <2>8, OpChange
  <1> QED
    BY <1>1, <1>2 DEF Snapshot

\* While a run is not complete, the generation is below its bound.
LEMMA RoomForRun ==
    ASSUME RepoInv, NEW r \in Runs, completion[r] = None
    PROVE  registry.gen < MaxGeneration /\ MaxGeneration \in Nat
  <1> DEFINE S == Creators(completion)
  <1>1. S \in SUBSET Runs /\ r \notin S /\ IsFiniteSet(Runs)
    BY PublicationAssumption DEF Creators
  <1>2. registry.gen = Cardinality(S)
    BY DEF RepoInv, RepoOK
  <1> HIDE DEF S
  <1>3. /\ IsFiniteSet(S) /\ Cardinality(S) <= Cardinality(Runs)
        /\ Cardinality(Runs) # Cardinality(S)
    BY <1>1, FS_Subset
  <1>4. Cardinality(S) \in Nat /\ Cardinality(Runs) \in Nat
    BY <1>1, <1>3, FS_CardinalityType
  <1> QED
    BY <1>2, <1>3, <1>4 DEF MaxGeneration

LEMMA GetOK ==
    ASSUME RepoInv, NEW p \in Procs, Get(p)
    PROVE  RepoGoal
  <1> DEFINE r == RunOf(p)
             F == Found(r)
             c == completion[r]
  <1>0. /\ r \in Runs /\ OpOK(op[p], r, F, c, registry)
        /\ CompletionOK(c, r, F, run[r], registry)
        /\ op = [q \in Procs |-> op[q]] /\ RegistryOK(registry)
    BY RepoFacts
  <1>1. CASE Raise(p)
    BY <1>1, RaiseOK DEF Raise
  <1>2. CASE c # None /\ op' = [op EXCEPT ![p] = Reconciling(c)] /\ UNCHANGED repo
    BY <1>0, <1>2, ReconcilingOK, OpChange
  <1>3. CASE c = None /\ Goto(p, "plan") /\ UNCHANGED repo
    <2> DEFINE o == [op[p] EXCEPT !.step = "plan"]
    <2>1. op[p].step = "get"
      BY DEF Get, At
    <2>2. op' = [op EXCEPT ![p] = o]
      BY <1>0, <1>3 DEF Goto
    <2>3. CommandOK(op[p], r, F, c, registry) /\ ~op[p].recovering
      BY <1>0, <2>1 DEF OpOK, CommandOK, Early
    <2>4. op[p].cmd \in Commands(r, F) /\ op[p].cmd.gen \in Nat
      BY <2>3 DEF CommandOK, Commands
    <2>5. registry.gen < MaxGeneration /\ MaxGeneration \in Nat /\ registry.gen \in Nat
      BY <1>0, <1>3, RoomForRun DEF RegistryOK, RegistrySpace
    <2>6. op[p].cmd.gen < MaxGeneration
      <3>1. CASE F # {}
        BY <2>3, <2>4, <2>5, <3>1 DEF CommandOK, FromRegistry
      <3>2. CASE F = {}
        BY <2>3, <2>4, <2>5, <3>2 DEF CommandOK, Commands
      <3> QED
        BY <3>1, <3>2
    <2>7. OpOK(o, r, F, c, registry)
      BY <1>0, <2>1, <2>6, GotoOK DEF Steps, Early
    <2> HIDE DEF o
    <2> QED
      BY <1>3, <2>2, <2>7, OpChange
  <1> QED
    BY <1>1, <1>2, <1>3 DEF Get

\* The later steps of an invocation: the command stays.
Later == Steps \ (Early \cup {"get"})

LEMMA MoveOK ==
    ASSUME RepoInv, NEW p \in Procs, op[p].step \in Later, NEW s \in Later,
           s = "commit" => ~op[p].recovering,
           s = "succeed" => op[p].recovering \/ op[p].cmd = completion[RunOf(p)],
           Goto(p, s), UNCHANGED repo
    PROVE  RepoGoal
  <1> DEFINE r == RunOf(p)
             F == Found(r)
             c == completion[r]
             o == [op[p] EXCEPT !.step = s]
  <1>0. OpOK(op[p], r, F, c, registry) /\ op = [q \in Procs |-> op[q]]
    BY RepoFacts
  <1>1. op' = [op EXCEPT ![p] = o]
    BY <1>0 DEF Goto
  <1>2. /\ op[p].step \notin Early /\ op[p].step # "get"
        /\ s \in Steps \ Early /\ s # "get"
    BY DEF Later
  <1>3. s = "succeed" => op[p].cmd = c
    BY <1>0, <1>2 DEF OpOK, CommandOK
  <1>4. OpOK(o, r, F, c, registry)
    BY <1>0, <1>2, <1>3, GotoOK
  <1> HIDE DEF o
  <1> QED
    BY <1>1, <1>4, OpChange

LEMMA PlanOK ==
    ASSUME RepoInv, NEW p \in Procs, Plan(p)
    PROVE  RepoGoal
  <1>0. op = [q \in Procs |-> op[q]]
    BY RepoFacts
  <1>1. op[p].step \in Later /\ UNCHANGED repo
    BY DEF Plan, At, Later, Steps, Early
  <1>2. CASE op[p].recovering
    <2>1. Goto(p, "tidy")
      BY <1>0, <1>2 DEF Plan, Goto
    <2> QED
      BY <1>1, <2>1, MoveOK DEF Later, Steps, Early
  <1>3. CASE ~op[p].recovering /\ row[ItemOf(op[p].cmd)].state = "SUCCEEDED"
    BY <1>1, <1>3, RaiseOK DEF Plan
  <1>4. CASE ~op[p].recovering /\ row[ItemOf(op[p].cmd)].state # "SUCCEEDED"
    <2>1. Goto(p, "ready")
      BY <1>0, <1>4 DEF Plan, Goto
    <2> QED
      BY <1>1, <2>1, MoveOK DEF Later, Steps, Early
  <1> QED
    BY <1>2, <1>3, <1>4

LEMMA MaintainOK ==
    ASSUME RepoInv, NEW p \in Procs, NEW now, Maintain(p, now)
    PROVE  RepoGoal
  <1>1. op[p].step \in Later /\ UNCHANGED repo
    BY DEF Maintain, At, Later, Steps, Early
  <1>2. Goto(p, "inspect") \/ Goto(p, "claim")
    BY DEF Maintain
  <1> QED
    BY <1>1, <1>2, MoveOK DEF Later, Steps, Early

LEMMA InspectOK ==
    ASSUME RepoInv, NEW p \in Procs, Inspect(p)
    PROVE  RepoGoal
  <1>1. op[p].step \in Later /\ UNCHANGED repo
    BY DEF Inspect, At, Later, Steps, Early, Raise
  <1>2. \/ Goto(p, "done") \/ Goto(p, "start") \/ Goto(p, "beat") \/ Goto(p, "ready")
        \/ op' = [op EXCEPT ![p] = Idle]
    BY DEF Inspect, Raise
  <1>3. CASE op' = [op EXCEPT ![p] = Idle]
    BY <1>1, <1>3, RaiseOK
  <1> QED
    BY <1>1, <1>2, <1>3, MoveOK DEF Later, Steps, Early

LEMMA ClaimOK ==
    ASSUME RepoInv, NEW p \in Procs, NEW now, Claim(p, now)
    PROVE  RepoGoal
  <1>1. op[p].step \in Later /\ UNCHANGED repo
    BY DEF Claim, At, Later, Steps, Early
  <1>2. Goto(p, "beat") \/ Goto(p, "start") \/ op' = [op EXCEPT ![p] = Idle]
    BY DEF Claim
  <1>3. CASE op' = [op EXCEPT ![p] = Idle]
    BY <1>1, <1>3, RaiseOK
  <1> QED
    BY <1>1, <1>2, <1>3, MoveOK DEF Later, Steps, Early

LEMMA StartOK ==
    ASSUME RepoInv, NEW p \in Procs, NEW now, Start(p, now)
    PROVE  RepoGoal
  <1>1. op[p].step \in Later /\ UNCHANGED repo /\ Goto(p, "beat")
    BY DEF Start, At, Later, Steps, Early
  <1> QED
    BY <1>1, MoveOK DEF Later, Steps, Early

LEMMA BeatOK ==
    ASSUME RepoInv, NEW p \in Procs, NEW now, Beat(p, now)
    PROVE  RepoGoal
  <1>1. op[p].step \in Later /\ UNCHANGED repo
    BY DEF Beat, At, Later, Steps, Early
  <1>2. CASE op[p].recovering
    <2>1. Goto(p, "succeed")
      BY <1>2 DEF Beat
    <2> QED
      BY <1>1, <1>2, <2>1, MoveOK DEF Later, Steps, Early
  <1>3. CASE ~op[p].recovering
    <2>1. Goto(p, "commit")
      BY <1>3 DEF Beat
    <2> QED
      BY <1>1, <1>3, <2>1, MoveOK DEF Later, Steps, Early
  <1> QED
    BY <1>2, <1>3

LEMMA SucceedOK ==
    ASSUME RepoInv, NEW p \in Procs, NEW now, Succeed(p, now)
    PROVE  RepoGoal
  <1>1. op[p].step \in Later /\ UNCHANGED repo
    BY DEF Succeed, At, Later, Steps, Early, Raise
  <1>2. Goto(p, "done") \/ op' = [op EXCEPT ![p] = Idle]
    BY DEF Succeed, Raise
  <1>3. CASE op' = [op EXCEPT ![p] = Idle]
    BY <1>1, <1>3, RaiseOK
  <1> QED
    BY <1>1, <1>2, <1>3, MoveOK DEF Later, Steps, Early

\* A command that is in the hands of a process names the process's run.
LEMMA CommandOf ==
    ASSUME RepoInv, NEW p \in Procs, op[p].step \in Later
    PROVE  /\ CommandOK(op[p], RunOf(p), Found(RunOf(p)), completion[RunOf(p)], registry)
           /\ op[p].cmd \in Commands(RunOf(p), Found(RunOf(p)))
           /\ op[p].cmd.run = RunOf(p) /\ op[p].cmd.gen \in Nat
  <1>1. CommandOK(op[p], RunOf(p), Found(RunOf(p)), completion[RunOf(p)], registry)
    BY RepoFacts DEF OpOK, Later
  <1> QED
    BY <1>1 DEF CommandOK, Commands

LEMMA CommitReplayOK ==
    ASSUME RepoInv, NEW p \in Procs, CommitReplay(p)
    PROVE  RepoGoal
  <1>1. op[p].step \in Later /\ UNCHANGED repo
    BY DEF CommitReplay, At, Later, Steps, Early, Raise
  <1>2. op[p].cmd.run = RunOf(p)
    BY <1>1, CommandOf
  <1>3. CASE op' = [op EXCEPT ![p] = Idle]
    BY <1>1, <1>3, RaiseOK
  <1>4. CASE completion[op[p].cmd.run] = op[p].cmd /\ Goto(p, "succeed")
    BY <1>1, <1>2, <1>4, MoveOK DEF Later, Steps, Early
  <1> QED
    BY <1>3, <1>4 DEF CommitReplay, Raise

\* A commit disturbs no other process: a process that reconciles holds a
\* completion, and none is replaced; a command of an older generation is
\* merely stale.
LEMMA OpStable ==
    ASSUME NEW o, NEW r \in Runs, NEW F \in SUBSET Hyps, NEW c, NEW reg,
           OpOK(o, r, F, c, reg), NEW d, d = c \/ c = None,
           NEW q, reg.gen \in Nat, q = reg \/ q.gen = reg.gen + 1
    PROVE  OpOK(o, r, F, d, q)
  <1>1. CASE o.step \in Early
    BY <1>1 DEF OpOK
  <1>2. CASE o.step \notin Early
    <2>1. CommandOK(o, r, F, c, reg) /\ o.cmd \in Commands(r, F)
      BY <1>2 DEF OpOK, CommandOK
    <2>2. o.cmd # None /\ o.cmd.gen \in Nat
      BY <2>1, CommandIsNotNone DEF Commands
    <2>3. o.recovering \/ o.step = "succeed" => o.cmd = d
      BY <2>1, <2>2 DEF CommandOK
    <2>4. FromRegistry(o.cmd, r, reg) => FromRegistry(o.cmd, r, q)
      <3>1. CASE q = reg
        BY <3>1
      <3>2. CASE q.gen = reg.gen + 1
        BY <2>2, <3>2 DEF FromRegistry
      <3> QED
        BY <3>1, <3>2
    <2>5. CommandOK(o, r, F, d, q)
      BY <2>1, <2>3, <2>4 DEF CommandOK
    <2> QED
      BY <1>2, <2>5 DEF OpOK
  <1> QED
    BY <1>1, <1>2

\* A completion keeps its facts when the registry takes nothing back.
LEMMA CompletionStable ==
    ASSUME NEW c, NEW r, NEW F \in SUBSET Hyps, NEW st, NEW reg,
           CompletionOK(c, r, F, st, reg), NEW su, st = "CLOSED" => su = "CLOSED",
           NEW q, \A h \in Hyps : reg.assigned[h] # None =>
                                    q.assigned[h] = reg.assigned[h]
    PROVE  CompletionOK(c, r, F, su, q)
  <1>1. CASE c = None
    BY <1>1 DEF CompletionOK
  <1>2. CASE c # None
    <2>1. /\ c \in Commands(r, F) /\ st = "CLOSED" /\ c.gen < MaxGeneration
          /\ \A h \in F : reg.assigned[h] = c.assigned[h]
      BY <1>2 DEF CompletionOK
    <2>2. \A h \in F : c.assigned[h] \in EventSpace
      BY <2>1 DEF Commands
    <2>3. \A h \in F : reg.assigned[h] # None
      BY <2>1, <2>2, NoneAssumption DEF EventSpace
    <2> QED
      BY <2>1, <2>3 DEF CompletionOK
  <1> QED
    BY <1>1, <1>2

\* What the completion transaction does to the registry: nothing, when the
\* command creates no event, else one generation more.
LEMMA CommitRegistry ==
    ASSUME RepoInv, NEW p \in Procs, NEW reported, Commit(p, reported)
    PROVE  LET c == op[p].cmd
           IN  /\ c \in Commands(RunOf(p), Found(RunOf(p))) /\ c.run = RunOf(p)
               /\ ~op[p].recovering /\ c.gen < MaxGeneration
               /\ RegistryOK(registry')
               /\ \/ c.new = {} /\ registry' = registry
                  \/ c.new # {} /\ registry'.gen = registry.gen + 1
               /\ \A h \in Hyps : registry.assigned[h] # None =>
                                    registry'.assigned[h] = registry.assigned[h]
               /\ \A h \in Found(RunOf(p)) : registry'.assigned[h] = c.assigned[h]
  <1> DEFINE r == RunOf(p)
             F == Found(r)
             c == op[p].cmd
  <1>0. /\ r \in Runs /\ F \subseteq Hyps /\ RegistryOK(registry) /\ input \in Inputs
        /\ op[p].step = "commit" /\ op[p].step \in Later
    BY RepoFacts DEF RepoInv, Commit, At, Later, Steps, Early
  <1>1. CommandOK(op[p], r, F, completion[r], registry) /\ c \in Commands(r, F)
        /\ c.run = r
    BY <1>0, CommandOf
  <1>2. ~op[p].recovering /\ c.gen < MaxGeneration
    BY <1>0, <1>1 DEF CommandOK
  <1>3. registry' = IF F = {} THEN registry ELSE Apply(c)
    BY <1>1 DEF Commit
  <1>4. CASE F = {}
    <2>1. c.new = {}
      BY <1>1, <1>4 DEF Commands
    <2> QED
      BY <1>0, <1>1, <1>2, <1>3, <1>4, <2>1
  <1>5. CASE F # {}
    <2>1. c.gen = registry.gen
      BY <1>1, <1>5 DEF Commit, FenceCurrent
    <2>2. c = Prepare(registry, r) /\ ~Reuses(registry, r)
      BY <1>1, <1>2, <1>5, <2>1 DEF CommandOK, FromRegistry
    <2>3. CASE c.new = {}
      <3>1. registry' = registry
        BY <1>0, <1>3, <1>5, <2>2, <2>3, NothingNew
      <3>2. \A h \in F : c.assigned[h] = IF registry.assigned[h] # None
                                         THEN registry.assigned[h]
                                         ELSE [hyp |-> h, gen |-> registry.gen + 1]
        BY <2>2, PreparedIs
      <3>3. \A h \in F : registry.assigned[h] # None
        BY <2>2, <2>3, PreparedIs DEF NewHyps
      <3> QED
        BY <1>0, <1>1, <1>2, <2>3, <3>1, <3>2, <3>3
    <2>4. CASE c.new # {}
      <3>1. registry' = Apply(c)
        BY <1>3, <1>5
      <3>2. /\ RegistryOK(Apply(c)) /\ Apply(c).gen = registry.gen + 1
            /\ \A h \in Hyps : registry.assigned[h] # None =>
                  Apply(c).assigned[h] = registry.assigned[h]
            /\ \A h \in F : Apply(c).assigned[h] = c.assigned[h]
        BY <1>0, <2>2, <2>4, ApplyOK
      <3> QED
        BY <1>1, <1>2, <2>4, <3>1, <3>2
    <2> QED
      BY <2>3, <2>4
  <1> QED
    BY <1>4, <1>5

LEMMA CommitOK ==
    ASSUME RepoInv, NEW p \in Procs, NEW reported \in BOOLEAN, Commit(p, reported)
    PROVE  RepoGoal
  <1> DEFINE r == RunOf(p)
             F == Found(r)
             c == op[p].cmd
             S == Creators(completion)
             done == [op[p] EXCEPT !.step = "succeed"]
             o == IF reported THEN done ELSE Idle
  <1>0. /\ r \in Runs /\ F \subseteq Hyps /\ input \in Inputs
        /\ OpOK(op[p], r, F, completion[r], registry)
        /\ RepoOK(run, completion, registry, op)
        /\ op[p].step = "commit" /\ registry.gen \in Nat
    BY RepoFacts DEF RepoInv, Commit, At, RegistryOK, RegistrySpace
  <1>1. /\ c \in Commands(r, F) /\ c.run = r /\ ~op[p].recovering
        /\ c.gen < MaxGeneration /\ RegistryOK(registry')
        /\ \/ c.new = {} /\ registry' = registry
           \/ c.new # {} /\ registry'.gen = registry.gen + 1
        /\ \A h \in Hyps : registry.assigned[h] # None =>
                             registry'.assigned[h] = registry.assigned[h]
        /\ \A h \in F : registry'.assigned[h] = c.assigned[h]
    BY CommitRegistry
  <1>2. /\ input' = input /\ completion[r] = None
        /\ completion' = [completion EXCEPT ![r] = c]
        /\ run' = [run EXCEPT ![r] = "CLOSED"]
        /\ op' = [op EXCEPT ![p] = o]
    BY <1>0, <1>1 DEF Commit, RepoOK
  <1>3. c # None
    BY <1>0, <1>1, CommandIsNotNone
  <1>4. /\ completion' = [k \in Runs |-> completion'[k]] /\ completion'[r] = c
        /\ \A k \in Runs : k # r => completion'[k] = completion[k]
    BY <1>0, <1>2 DEF RepoOK
  <1>5. /\ run' \in [Runs -> {"NONE", "RUNNING", "CLOSED"}]
        /\ \A k \in Runs : run[k] = "CLOSED" \/ k = r => run'[k] = "CLOSED"
    BY <1>0, <1>2 DEF RepoOK
  <1>6. registry'.gen = Cardinality(Creators(completion'))
    <2>1. registry.gen = Cardinality(S) /\ r \notin S /\ IsFiniteSet(S)
      BY <1>0, <1>2, PublicationAssumption, FS_Subset DEF RepoOK, Creators
    <2>2. CASE c.new = {}
      <3>1. Creators(completion') = S
        BY <1>2, <1>4, <2>2 DEF Creators
      <3> QED
        BY <1>1, <2>1, <2>2, <3>1
    <2>3. CASE c.new # {}
      <3>1. Creators(completion') = S \cup {r}
        BY <1>0, <1>2, <1>3, <1>4, <2>3 DEF Creators
      <3> HIDE DEF S
      <3>2. Cardinality(S \cup {r}) = Cardinality(S) + 1
        BY <2>1, FS_AddElement
      <3> QED
        BY <1>1, <2>1, <2>3, <3>1, <3>2
    <2> QED
      BY <2>2, <2>3
  <1>7. ASSUME NEW k \in Runs
        PROVE  CompletionOK(completion'[k], k, Found(k), run'[k], registry')
    <2>1. CASE k = r
      BY <1>1, <1>4, <1>5, <2>1 DEF CompletionOK
    <2>2. CASE k # r
      <3>1. CompletionOK(completion[k], k, Found(k), run[k], registry)
        BY <1>0 DEF RepoOK
      <3>2. Found(k) \subseteq Hyps
        BY <1>0, InputTypes
      <3>3. CompletionOK(completion[k], k, Found(k), run'[k], registry')
        BY <1>1, <1>5, <3>1, <3>2, CompletionStable
      <3> QED
        BY <1>4, <2>2, <3>3
    <2> QED
      BY <2>1, <2>2
  <1>8. OpOK(o, r, F, c, registry')
    <2>1. OpOK(op[p], r, F, c, registry')
      BY <1>0, <1>1, <1>2, OpStable
    <2>2. OpOK(done, r, F, c, registry')
      BY <1>0, <1>1, <2>1, GotoOK DEF Steps, Early
    <2> HIDE DEF done
    <2> QED
      BY <2>2, IdleOK
  <1> HIDE DEF o
  <1>9. ASSUME NEW q \in Procs
        PROVE  OpOK(op'[q], RunOf(q), Found(RunOf(q)), completion'[RunOf(q)], registry')
    <2>1. CASE q = p
      BY <1>0, <1>2, <1>4, <1>8, <2>1 DEF RepoOK
    <2>2. CASE q # p
      <3> DEFINE k == RunOf(q)
      <3>1. /\ op'[q] = op[q] /\ k \in Runs /\ Found(k) \in SUBSET Hyps
            /\ OpOK(op[q], k, Found(k), completion[k], registry)
        BY <1>0, <1>2, <2>2, RepoFacts DEF RepoOK
      <3>2. completion'[k] = completion[k] \/ completion[k] = None
        BY <1>2, <1>4, <3>1
      <3>3. registry' = registry \/ registry'.gen = registry.gen + 1
        BY <1>1
      <3> HIDE DEF k
      <3>4. OpOK(op[q], k, Found(k), completion'[k], registry')
        BY <1>0, <3>1, <3>2, <3>3, OpStable
      <3> QED
        BY <3>1, <3>4 DEF k
    <2> QED
      BY <2>1, <2>2
  <1>10. op' = [q \in Procs |-> op'[q]]
    BY <1>0, <1>2 DEF RepoOK
  <1>11. RepoOK(run', completion', registry', op')
    BY <1>1, <1>4, <1>5, <1>6, <1>7, <1>9, <1>10 DEF RepoOK
  <1> QED
    BY <1>2, <1>11 DEF RepoGoal

-----------------------------------------------------------------------------
(* The invariant and what follows from it.                                 *)

\* The inputs never change, so that the two ways to prime the invariant agree.
LEMMA SameInputs ==
    ASSUME RepoInv, RepoGoal
    PROVE  RepoInv'
  <1>1. input' = input /\ input \in Inputs /\ RepoOK(run', completion', registry', op')
    BY DEF RepoInv, RepoGoal
  <1> QED
    BY <1>1 DEF RepoInv, RepoOK, CompletionOK, OpOK, CommandOK, FromRegistry,
                Prepare, Reuses, NewHyps, Matches, Found, RunOf, Creators,
                RegistryOK, Announcers, UniqueFingerprints

LEMMA RepoInit == Init => RepoInv
  <1> SUFFICES ASSUME Init PROVE RepoInv
    OBVIOUS
  <1>1. /\ input \in Inputs /\ run = [r \in Runs |-> "NONE"]
        /\ completion = [r \in Runs |-> None] /\ registry = EmptyRegistry
        /\ op = [p \in Procs |-> Idle]
    BY DEF Init
  <1>2. RegistryOK(registry) /\ registry.gen = 0
    <2> DEFINE a == [h \in Hyps |-> None]
    <2>1. registry = [gen |-> 0, fence |-> 1, identities |-> {}, assigned |-> a,
                      published |-> {}, outbox |-> {}]
      BY <1>1 DEF EmptyRegistry
    <2>2. a \in [Hyps -> EventSpace \cup {None}] /\ \A h \in Hyps : a[h] = None
      OBVIOUS
    <2> HIDE DEF a
    <2>3. registry \in RegistrySpace
      BY <2>1, <2>2 DEF RegistrySpace
    <2>4. \A h \in Hyps : Announcers(registry, h) = {}
      BY <2>1 DEF Announcers
    <2> QED
      BY <2>1, <2>2, <2>3, <2>4 DEF RegistryOK, UniqueFingerprints
  <1>3. Cardinality(Creators(completion)) = 0
    <2>1. Creators(completion) = {}
      BY <1>1 DEF Creators
    <2> QED
      BY <2>1, FS_EmptySet
  <1>4. \A r \in Runs : CompletionOK(completion[r], r, Found(r), run[r], registry)
    BY <1>1 DEF CompletionOK
  <1>5. \A p \in Procs : OpOK(op[p], RunOf(p), Found(RunOf(p)),
                              completion[RunOf(p)], registry)
    BY <1>1, IdleOK
  <1>6. /\ run \in [Runs -> {"NONE", "RUNNING", "CLOSED"}]
        /\ completion = [r \in Runs |-> completion[r]]
        /\ op = [p \in Procs |-> op[p]]
    BY <1>1
  <1>7. RepoOK(run, completion, registry, op)
    BY <1>2, <1>3, <1>4, <1>5, <1>6 DEF RepoOK
  <1> QED
    BY <1>1, <1>7 DEF RepoInv

LEMMA RepoStep == RepoInv /\ [Next]_vars => RepoInv'
  <1> SUFFICES ASSUME RepoInv, [Next]_vars PROVE RepoInv'
    OBVIOUS
  <1>1. ASSUME NEW p \in Procs, Step(p) PROVE RepoGoal
    <2>1. ASSUME NEW now, Maintain(p, now) \/ Claim(p, now) \/ Start(p, now)
                            \/ Beat(p, now) \/ Succeed(p, now)
          PROVE  RepoGoal
      BY <2>1, MaintainOK, ClaimOK, StartOK, BeatOK, SucceedOK
    <2>2. ASSUME NEW now, Fenced(p, now) PROVE RepoGoal
      BY <2>2, RaiseOK DEF Fenced
    <2>3. ASSUME NEW reported \in BOOLEAN, Commit(p, reported) PROVE RepoGoal
      BY <2>3, CommitOK
    <2>4. CASE CommitStale(p)
      BY <2>4, RaiseOK DEF CommitStale, Raise
    <2> QED
      BY <1>1, <2>1, <2>2, <2>3, <2>4, LookupOK, BeginRunOK, SnapshotOK, GetOK,
         PlanOK, InspectOK, CommitReplayOK DEF Step
  <1>2. ASSUME NEW p \in Procs, Again(p) \/ Crash(p) PROVE RepoGoal
    BY <1>2, RaiseOK DEF Again, Crash, Raise
  <1>3. CASE UNCHANGED <<repo, op>>
    <2>1. /\ input' = input /\ run' = run /\ completion' = completion
          /\ registry' = registry /\ op' = op
      BY <1>3 DEF repo
    <2> QED
      BY <2>1, SameInputs DEF RepoGoal, RepoInv
  <1>4. CASE Tick
    BY <1>3, <1>4 DEF Tick
  <1>5. CASE UNCHANGED vars
    BY <1>3, <1>5 DEF vars, repo
  <1> QED
    BY <1>1, <1>2, <1>4, <1>5, SameInputs DEF Next

\* RepoInv is an invariant of every execution.
THEOREM RepositoryInvariance == Spec => []RepoInv
  BY RepoInit, RepoStep, PTL DEF Spec

\* No event is created twice, for every number of racing runs: identities of
\* the partition have different fingerprints, all of them are published, and
\* the generation counts the completions that created events.
THEOREM EventsUnique == Spec => []EventsAreUnique
  <1>1. RepoInv => EventsAreUnique
    BY DEF RepoInv, RepoOK, RegistryOK, UniqueFingerprints, Creators, EventsAreUnique
  <1> QED
    BY <1>1, RepositoryInvariance, PTL

\* Each assignment is announced by exactly one outbox row, that of the run
\* that made it, whatever is replayed.
THEOREM AnnouncementsAreUnique == Spec => []AnnouncedOnce
  <1>1. ASSUME RepoInv PROVE AnnouncedOnce
    <2>1. RegistryOK(registry)
      BY <1>1 DEF RepoInv, RepoOK
    <2>2. ASSUME NEW h \in Hyps
          PROVE  Cardinality(Announcers(registry, h))
                   = IF registry.assigned[h] = None THEN 0 ELSE 1
      <3>1. CASE registry.assigned[h] = None
        BY <2>1, <3>1, FS_EmptySet DEF RegistryOK
      <3>2. CASE registry.assigned[h] # None
        <4>1. PICK r \in Runs : Announcers(registry, h) = {r}
          BY <2>1, <3>2 DEF RegistryOK
        <4> QED
          BY <3>2, <4>1, FS_Singleton
      <3> QED
        BY <3>1, <3>2
    <2> QED
      BY <2>2 DEF AnnouncedOnce, Announcers
  <1> QED
    BY <1>1, RepositoryInvariance, PTL

\* A completion keeps its facts: its run stays closed, and what it assigned
\* stays assigned and published, whatever later runs commit.
THEOREM CompletionsKeepFacts == Spec => []CompletionsHold
  <1>1. ASSUME RepoInv PROVE CompletionsHold
    <2>1. RegistryOK(registry)
      BY <1>1 DEF RepoInv, RepoOK
    <2>2. ASSUME NEW r \in Runs, completion[r] # None, NEW h \in Found(r)
          PROVE  /\ registry.assigned[h] = completion[r].assigned[h]
                 /\ registry.assigned[h] \in registry.published
      <3>1. /\ completion[r] \in Commands(r, Found(r)) /\ h \in Hyps
            /\ registry.assigned[h] = completion[r].assigned[h]
        BY <1>1, <2>2, InputTypes DEF RepoInv, RepoOK, CompletionOK
      <3>2. completion[r].assigned[h] # None
        BY <3>1, <2>2, NoneAssumption DEF Commands, EventSpace
      <3> QED
        BY <2>1, <3>1, <3>2 DEF RegistryOK
    <2>3. \A r \in Runs : completion[r] # None => run[r] = "CLOSED"
      BY <1>1 DEF RepoInv, RepoOK, CompletionOK
    <2> QED
      BY <2>2, <2>3 DEF CompletionsHold
  <1> QED
    BY <1>1, RepositoryInvariance, PTL

-----------------------------------------------------------------------------
(* The work ledger.  All it takes of the scheduler is that no operation    *)
(* but succeed makes a row SUCCEEDED, and succeed only its own.            *)

Shaped(r) == DOMAIN r = Items /\ \A i \in Items : "state" \in DOMAIN r[i]

NoNewSuccess(r, q) ==
    Shaped(q) /\ \A i \in Items : q[i].state = "SUCCEEDED" => r[i].state = "SUCCEEDED"

LEMMA NoNewSuccessTrans ==
    ASSUME NEW r, NEW q, NEW t, NoNewSuccess(r, q), NoNewSuccess(q, t)
    PROVE  NoNewSuccess(r, t)
  BY DEF NoNewSuccess

LEMMA NoNewSuccessSame == ASSUME NEW r, Shaped(r) PROVE NoNewSuccess(r, r)
  BY DEF NoNewSuccess

\* What the UPDATEs of one row do to its state.
LEMMA RowStates ==
    ASSUME NEW x, "state" \in DOMAIN x, NEW s, NEW t, NEW o, NEW z
    PROVE  /\ WS!SetTerminal(x, s).state = s
           /\ WS!Release(x, s, t).state = s
           /\ WS!FinishAttempt(x, o).state = x.state
           /\ [x EXCEPT !.state = s, !.torn = z].state = s
           /\ "state" \in DOMAIN WS!SetTerminal(x, s)
           /\ "state" \in DOMAIN WS!Release(x, s, t)
           /\ "state" \in DOMAIN WS!FinishAttempt(x, o)
           /\ "state" \in DOMAIN [x EXCEPT !.state = s, !.torn = z]
           /\ [x EXCEPT !.torn = z].state = x.state
           /\ "state" \in DOMAIN [x EXCEPT !.torn = z]
  BY DEF WS!SetTerminal, WS!Release, WS!FinishAttempt

LEMMA RefreshNoSuccess ==
    ASSUME NEW r, Shaped(r), NEW now, NEW seeds
    PROVE  NoNewSuccess(r, WS!Refresh(r, now, seeds))
  <1> DEFINE failed  == WS!Cascade(r, seeds)
             visited == seeds \cup WS!Downstream(r, failed)
             ready   == {d \in visited \ failed :
                            /\ r[d].state = "PLANNED"
                            /\ \A u \in r[d].up : WS!Terminal(r, u) \/ u \in failed}
             late(i) == now < r[i].created
             dead(i) == WS!SetTerminal(r[i], "FAILED_PERMANENT")
             q == [i \in Items |->
                     IF i \in failed THEN [dead(i) EXCEPT !.torn = late(i)]
                     ELSE IF i \in ready
                     THEN [r[i] EXCEPT !.state = "READY", !.torn = late(i)]
                     ELSE r[i]]
  <1>1. WS!Refresh(r, now, seeds) = IF failed \cup ready = {} THEN r ELSE q
    BY DEF WS!Refresh
  <1> HIDE DEF failed, visited, ready, late
  <1>2. ASSUME NEW i \in Items
        PROVE  /\ "state" \in DOMAIN q[i]
               /\ q[i].state = "SUCCEEDED" => r[i].state = "SUCCEEDED"
    <2>1. "state" \in DOMAIN r[i]
      BY DEF Shaped
    <2>2. CASE i \in failed
      <3>1. q[i] = [dead(i) EXCEPT !.torn = late(i)]
        BY <2>2
      <3>2. dead(i).state = "FAILED_PERMANENT" /\ "state" \in DOMAIN dead(i)
        BY <2>1, RowStates
      <3> HIDE DEF q, dead
      <3>3. q[i].state = "FAILED_PERMANENT" /\ "state" \in DOMAIN q[i]
        BY <3>1, <3>2, RowStates
      <3> QED
        BY <3>3
    <2>3. CASE i \notin failed /\ i \in ready
      <3>1. q[i] = [r[i] EXCEPT !.state = "READY", !.torn = late(i)]
        BY <2>3
      <3> HIDE DEF q
      <3>2. q[i].state = "READY" /\ "state" \in DOMAIN q[i]
        BY <2>1, <3>1, RowStates
      <3> QED
        BY <3>2
    <2>4. CASE i \notin failed /\ i \notin ready
      BY <2>1, <2>4
    <2> QED
      BY <2>2, <2>3, <2>4
  <1>3. DOMAIN q = Items
    OBVIOUS
  <1> HIDE DEF q
  <1>4. NoNewSuccess(r, q)
    BY <1>2, <1>3 DEF NoNewSuccess, Shaped
  <1> QED
    BY <1>1, <1>4, NoNewSuccessSame

LEMMA ExpireNoSuccess ==
    ASSUME NEW r, Shaped(r), NEW now, NEW T
    PROVE  NoNewSuccess(r, WS!ExpireHardDeadlines(r, now, T))
  <1> DEFINE due == WS!Due(r, now, T)
             q == WS!ExpireRows(r, due)
  <1> HIDE DEF due
  <1>1. ASSUME NEW i \in Items
        PROVE  /\ "state" \in DOMAIN q[i]
               /\ q[i].state = "SUCCEEDED" => r[i].state = "SUCCEEDED"
    <2>1. "state" \in DOMAIN r[i]
      BY DEF Shaped
    <2>2. CASE i \in due
      <3> DEFINE x == IF r[i].state \in WS!ActiveStates
                      THEN WS!FinishAttempt(r[i], "EXPIRED") ELSE r[i]
      <3>1. q[i] = WS!SetTerminal(x, "EXPIRED")
        BY <2>2 DEF WS!ExpireRows, WS!ExpireRow
      <3>2. "state" \in DOMAIN x
        BY <2>1, RowStates
      <3> HIDE DEF x, q
      <3>3. q[i].state = "EXPIRED" /\ "state" \in DOMAIN q[i]
        BY <3>1, <3>2, RowStates
      <3> QED
        BY <3>3
    <2>3. CASE i \notin due
      BY <2>1, <2>3 DEF WS!ExpireRows
    <2> QED
      BY <2>2, <2>3
  <1>2. DOMAIN q = Items
    BY DEF WS!ExpireRows
  <1>3. WS!ExpireHardDeadlines(r, now, T) =
           IF due = {} THEN r ELSE WS!Refresh(q, now, WS!Downstream(r, due))
    BY DEF WS!ExpireHardDeadlines, due
  <1> HIDE DEF q
  <1>4. NoNewSuccess(r, q) /\ Shaped(q)
    BY <1>1, <1>2 DEF NoNewSuccess, Shaped
  <1>5. NoNewSuccess(r, WS!Refresh(q, now, WS!Downstream(r, due)))
    BY <1>4, RefreshNoSuccess, NoNewSuccessTrans
  <1> QED
    BY <1>3, <1>5, NoNewSuccessSame

LEMMA RecoverNoSuccess ==
    ASSUME NEW r, Shaped(r), NEW now, NEW T
    PROVE  NoNewSuccess(r, WS!RecoverExpiredLeases(r, now, T))
  <1> DEFINE lapsed    == {i \in T : WS!LeaseLapsed(r[i], now)}
             exhausted == {i \in lapsed : WS!AttemptsExhausted(r[i])}
             left(i) == WS!FinishAttempt(r[i], "ABANDONED")
             q == [i \in Items |->
                     IF i \in exhausted
                     THEN WS!SetTerminal(left(i), "FAILED_PERMANENT")
                     ELSE IF i \in lapsed THEN WS!Release(left(i), "READY", 0)
                     ELSE r[i]]
  <1>3. WS!RecoverExpiredLeases(r, now, T) =
           IF lapsed = {} THEN r ELSE WS!Refresh(q, now, WS!Downstream(r, exhausted))
    BY DEF WS!RecoverExpiredLeases
  <1> HIDE DEF lapsed, exhausted
  <1>1. ASSUME NEW i \in Items
        PROVE  /\ "state" \in DOMAIN q[i]
               /\ q[i].state = "SUCCEEDED" => r[i].state = "SUCCEEDED"
    <2>1. "state" \in DOMAIN r[i] /\ "state" \in DOMAIN left(i)
      BY RowStates DEF Shaped
    <2>2. CASE i \in exhausted
      <3>1. q[i] = WS!SetTerminal(left(i), "FAILED_PERMANENT")
        BY <2>2
      <3> HIDE DEF q, left
      <3>2. q[i].state = "FAILED_PERMANENT" /\ "state" \in DOMAIN q[i]
        BY <2>1, <3>1, RowStates
      <3> QED
        BY <3>2
    <2>3. CASE i \notin exhausted /\ i \in lapsed
      <3>1. q[i] = WS!Release(left(i), "READY", 0)
        BY <2>3
      <3> HIDE DEF q, left
      <3>2. q[i].state = "READY" /\ "state" \in DOMAIN q[i]
        BY <2>1, <3>1, RowStates
      <3> QED
        BY <3>2
    <2>4. CASE i \notin exhausted /\ i \notin lapsed
      BY <2>1, <2>4
    <2> QED
      BY <2>2, <2>3, <2>4
  <1>2. DOMAIN q = Items
    OBVIOUS
  <1> HIDE DEF q
  <1>4. NoNewSuccess(r, q) /\ Shaped(q)
    BY <1>1, <1>2 DEF NoNewSuccess, Shaped
  <1>5. NoNewSuccess(r, WS!Refresh(q, now, WS!Downstream(r, exhausted)))
    BY <1>4, RefreshNoSuccess, NoNewSuccessTrans
  <1> QED
    BY <1>3, <1>5, NoNewSuccessSame

LEMMA WakeNoSuccess ==
    ASSUME NEW r, Shaped(r), NEW now
    PROVE  NoNewSuccess(r, WS!WakeRetries(r, now))
  <1> DEFINE woken == {i \in Items : r[i].state = "RETRY_WAIT" /\ r[i].retryAt <= now}
             q == [i \in Items |-> IF i \in woken THEN WS!Release(r[i], "READY", 0)
                                                  ELSE r[i]]
  <1>1. WS!WakeRetries(r, now) = IF woken = {} THEN r ELSE q
    BY DEF WS!WakeRetries
  <1> HIDE DEF woken
  <1>2. ASSUME NEW i \in Items
        PROVE  /\ "state" \in DOMAIN q[i]
               /\ q[i].state = "SUCCEEDED" => r[i].state = "SUCCEEDED"
    <2>1. "state" \in DOMAIN r[i]
      BY DEF Shaped
    <2>2. CASE i \in woken
      <3>1. q[i] = WS!Release(r[i], "READY", 0)
        BY <2>2
      <3> HIDE DEF q
      <3>2. q[i].state = "READY" /\ "state" \in DOMAIN q[i]
        BY <2>1, <3>1, RowStates
      <3> QED
        BY <3>2
    <2> QED
      BY <2>1, <2>2
  <1>3. DOMAIN q = Items
    OBVIOUS
  <1> HIDE DEF q
  <1>4. NoNewSuccess(r, q)
    BY <1>2, <1>3 DEF NoNewSuccess, Shaped
  <1> QED
    BY <1>1, <1>4, NoNewSuccessSame

LEMMA MaintainNoSuccess ==
    ASSUME NEW r, Shaped(r), NEW now
    PROVE  NoNewSuccess(r, WS!Maintain(r, now))
  <1> DEFINE a == WS!ExpireHardDeadlines(r, now, Items)
             b == WS!RecoverExpiredLeases(a, now, Items)
  <1>1. NoNewSuccess(r, a) /\ Shaped(a)
    BY ExpireNoSuccess DEF NoNewSuccess
  <1> HIDE DEF a
  <1>2. NoNewSuccess(a, b) /\ Shaped(b)
    BY <1>1, RecoverNoSuccess DEF NoNewSuccess
  <1>3. WS!Maintain(r, now) = WS!WakeRetries(b, now)
    BY DEF WS!Maintain, a
  <1> HIDE DEF b
  <1> QED
    BY <1>1, <1>2, <1>3, WakeNoSuccess, NoNewSuccessTrans

LEMMA ExactNoSuccess ==
    ASSUME NEW r, Shaped(r), NEW now, NEW i
    PROVE  NoNewSuccess(r, WS!ReconcileExactDueState(r, now, i))
  <1> DEFINE a == WS!ExpireHardDeadlines(r, now, {i})
             q == WS!SettleItem(r, now, i)
  <1>1. NoNewSuccess(r, a) /\ Shaped(a)
    BY ExpireNoSuccess DEF NoNewSuccess
  <1>2. q = WS!RecoverExpiredLeases(a, now, {i})
    BY DEF WS!SettleItem
  <1> HIDE DEF a
  <1>3. NoNewSuccess(r, q) /\ Shaped(q)
    BY <1>1, <1>2, RecoverNoSuccess, NoNewSuccessTrans DEF NoNewSuccess
  <1>4. WS!ReconcileExactDueState(r, now, i) \in
           {q, WS!Refresh(q, now, WS!Downstream(q, {i}))}
    BY DEF WS!ReconcileExactDueState
  <1> HIDE DEF q
  <1> QED
    BY <1>3, <1>4, RefreshNoSuccess, NoNewSuccessTrans

\* Work items of different commands are different items.
LEMMA ItemsDiffer ==
    ASSUME NEW M \in Nat, NEW r \in Nat, NEW k \in Nat,
           NEW g \in 0..(M - 1), NEW h \in 0..(M - 1), r * M + g = k * M + h
    PROVE  r = k /\ g = h
  <1>1. ASSUME NEW a \in Nat, NEW b \in Nat, a < b,
               NEW x \in 0..(M - 1), NEW y \in 0..(M - 1)
        PROVE  a * M + x # b * M + y
    <2> DEFINE d == b - a - 1
    <2>1. d \in Nat /\ b = a + 1 + d
      BY <1>1
    <2> HIDE DEF d
    <2>2. b * M = a * M + M + d * M
      BY <2>1
    <2>3. d * M \in Nat /\ a * M \in Nat
      BY <2>1
    <2> DEFINE e == d * M
               c == a * M
               f == b * M
    <2>4. f = c + M + e /\ e \in Nat /\ c \in Nat
      BY <2>2, <2>3
    <2> HIDE DEF e, c, f
    <2>5. c + x # f + y
      BY <2>4
    <2> QED
      BY <2>5 DEF c, f
  <1>2. r = k
    BY <1>1
  <1>3. g = h
    <2> DEFINE c == r * M
    <2>1. c \in Nat /\ c + g = c + h
      BY <1>2
    <2> HIDE DEF c
    <2> QED
      BY <2>1
  <1> QED
    BY <1>2, <1>3

\* The steps at which a process holds a capability: one for its own command.
Holding == {"start", "beat", "commit", "succeed"}

HeldOK(l, o) == l # None => /\ o.step \in Holding /\ "item" \in DOMAIN l
                            /\ l.item = ItemOf(o.cmd)

HeldsOK == held = [p \in Procs |-> held[p]] /\ \A p \in Procs : HeldOK(held[p], op[p])

LedgerInv == Shaped(row) /\ HeldsOK /\ SuccessHasCompletion

\* Rows that win nothing, and completions that stay, keep the two databases
\* in agreement.
LEMMA QuietRows ==
    ASSUME SuccessHasCompletion, NoNewSuccess(row, row'),
           \A r \in Runs : completion[r] # None => completion'[r] = completion[r]
    PROVE  SuccessHasCompletion'
  <1>1. \A r \in Runs, g \in Generations : ItemOf([run |-> r, gen |-> g]) \in Items
    BY DEF Items
  <1> QED
    BY <1>1 DEF SuccessHasCompletion, NoNewSuccess

LEMMA HeldChange ==
    ASSUME HeldsOK, op = [q \in Procs |-> op[q]], NEW p \in Procs, NEW l, NEW o,
           HeldOK(l, o), op' = [op EXCEPT ![p] = o], held' = [held EXCEPT ![p] = l]
    PROVE  HeldsOK'
  <1>1. /\ held' = [q \in Procs |-> held'[q]] /\ held'[p] = l /\ op'[p] = o
        /\ \A q \in Procs : q # p => held'[q] = held[q] /\ op'[q] = op[q]
    BY DEF HeldsOK
  <1>2. \A q \in Procs : HeldOK(held'[q], op'[q])
    BY <1>1 DEF HeldsOK
  <1> QED
    BY <1>1, <1>2 DEF HeldsOK, HeldOK, ItemOf

\* A process that holds nothing may go anywhere; one that gives its
\* capability up, too.
LEMMA HeldNothing ==
    ASSUME HeldsOK, op = [q \in Procs |-> op[q]], NEW p \in Procs, NEW o,
           op' = [op EXCEPT ![p] = o],
           \/ held' = [held EXCEPT ![p] = None]
           \/ held' = held /\ op[p].step \notin Holding
    PROVE  HeldsOK'
  <1>1. held' = [held EXCEPT ![p] = None]
    BY DEF HeldsOK, HeldOK
  <1>2. HeldOK(None, o)
    BY DEF HeldOK
  <1> QED
    BY <1>1, <1>2, HeldChange

\* A process that goes on with its command and a capability for it.
LEMMA HeldGoto ==
    ASSUME HeldsOK, op = [q \in Procs |-> op[q]], NEW p \in Procs,
           op[p] \in [step: Steps, cmd: Commands(RunOf(p), Found(RunOf(p))) \cup {None},
                      recovering: BOOLEAN],
           NEW s \in Holding, Goto(p, s), NEW l,
           l = None \/ ("item" \in DOMAIN l /\ l.item = ItemOf(op[p].cmd)),
           held' = [held EXCEPT ![p] = l]
    PROVE  HeldsOK'
  <1> DEFINE o == [op[p] EXCEPT !.step = s]
  <1>1. op' = [op EXCEPT ![p] = o] /\ o.step = s /\ o.cmd = op[p].cmd
    BY DEF Goto
  <1> HIDE DEF o
  <1>2. HeldOK(l, o)
    BY <1>1 DEF HeldOK
  <1> QED
    BY <1>1, <1>2, HeldChange

LEMMA HeldSame ==
    ASSUME HeldsOK, NEW p \in Procs
    PROVE  /\ held = [held EXCEPT ![p] = held[p]]
           /\ \/ held[p] = None
              \/ "item" \in DOMAIN held[p] /\ held[p].item = ItemOf(op[p].cmd)
  BY DEF HeldsOK, HeldOK

\* What a step of process p does to its capability.
LEMMA HeldStep ==
    ASSUME RepoInv, HeldsOK, NEW p \in Procs, Step(p) \/ Again(p) \/ Crash(p)
    PROVE  HeldsOK'
  <1>0. /\ op = [q \in Procs |-> op[q]]
        /\ op[p] \in [step: Steps, cmd: Commands(RunOf(p), Found(RunOf(p))) \cup {None},
                      recovering: BOOLEAN]
    BY RepoFacts DEF OpOK
  <1>1. ASSUME NEW o, op' = [op EXCEPT ![p] = o],
               \/ held' = [held EXCEPT ![p] = None]
               \/ held' = held /\ op[p].step \notin Holding
        PROVE  HeldsOK'
    BY <1>0, <1>1, HeldNothing
  <1>2. ASSUME NEW s, Goto(p, s),
               \/ held' = [held EXCEPT ![p] = None]
               \/ held' = held /\ op[p].step \notin Holding
        PROVE  HeldsOK'
    <2> DEFINE o == [op[p] EXCEPT !.step = s]
    <2>1. op' = [op EXCEPT ![p] = o]
      BY <1>0, <1>2 DEF Goto
    <2> HIDE DEF o
    <2> QED
      BY <1>1, <1>2, <2>1
  <1>3. ASSUME NEW s \in Holding, Goto(p, s), held' = held PROVE HeldsOK'
    BY <1>0, <1>3, HeldSame, HeldGoto
  <1>4. CASE Raise(p)
    BY <1>1, <1>4 DEF Raise
  <1>5. CASE Lookup(p)
    BY <1>1, <1>5 DEF Lookup, At, Holding, work
  <1>6. CASE BeginRun(p)
    BY <1>2, <1>4, <1>6 DEF BeginRun, At, Holding, work
  <1>7. CASE Snapshot(p)
    <2>1. CASE ~Raise(p)
      <3> DEFINE c == IF Found(RunOf(p)) = {} THEN EmptyCommand(RunOf(p))
                      ELSE Prepare(registry, RunOf(p))
                 o == [op[p] EXCEPT !.step = "get", !.cmd = c]
      <3>1. /\ op' = [op EXCEPT ![p].step = "get", ![p].cmd = c]
            /\ held' = held /\ op[p].step \notin Holding
        BY <1>7, <2>1 DEF Snapshot, At, Holding, work
      <3>2. op' = [op EXCEPT ![p] = o]
        BY <1>0, <3>1
      <3> HIDE DEF o
      <3> QED
        BY <1>1, <3>1, <3>2
    <2> QED
      BY <1>4, <2>1
  <1>8. CASE Get(p)
    BY <1>1, <1>2, <1>4, <1>8 DEF Get, At, Holding, work
  <1>9. CASE Plan(p)
    BY <1>1, <1>9 DEF Plan, WS!PlanMany, At, Holding
  <1>10. CASE Inspect(p)
    <2>1. op[p].step \notin Holding
      BY <1>10 DEF Inspect, At, Holding
    <2>2. CASE held' = held
      BY <1>2, <1>4, <1>10, <2>1, <2>2 DEF Inspect
    <2>3. CASE /\ held' = [held EXCEPT ![p] = StoredLease(ItemOf(op[p].cmd))]
               /\ Goto(p, "start") \/ Goto(p, "beat")
      <3> DEFINE l == StoredLease(ItemOf(op[p].cmd))
      <3>1. "item" \in DOMAIN l /\ l.item = ItemOf(op[p].cmd)
        BY DEF StoredLease
      <3> HIDE DEF l
      <3> QED
        BY <1>0, <2>3, <3>1, HeldGoto DEF Holding, l
    <2> QED
      BY <1>4, <1>10, <2>2, <2>3 DEF Inspect, work
  <1>11. CASE CommitReplay(p)
    BY <1>3, <1>4, <1>11 DEF CommitReplay, Holding, work
  <1>12. CASE CommitStale(p)
    BY <1>4, <1>12 DEF CommitStale
  <1>13. ASSUME NEW reported \in BOOLEAN, Commit(p, reported) PROVE HeldsOK'
    <2>1. CASE reported
      <3>1. Goto(p, "succeed") /\ held' = held
        BY <1>0, <1>13, <2>1 DEF Commit, Goto, HeldsOK
      <3> QED
        BY <1>3, <3>1 DEF Holding
    <2>2. CASE ~reported
      BY <1>1, <1>13, <2>2 DEF Commit
    <2> QED
      BY <2>1, <2>2
  <1>14. ASSUME NEW now, Maintain(p, now) PROVE HeldsOK'
    BY <1>2, <1>14 DEF Maintain, WS!Reconcile, At, Holding
  <1>15. ASSUME NEW now, Claim(p, now) PROVE HeldsOK'
    <2>1. CASE op' = [op EXCEPT ![p] = Idle] /\ WS!ClaimNothing(now)
      BY <1>1, <1>15, <2>1 DEF Claim, WS!ClaimNothing, At, Holding
    <2>2. CASE /\ WS!Claim(p, ItemOf(op[p].cmd), FALSE, now)
               /\ Goto(p, "beat") \/ Goto(p, "start")
      <3> DEFINE i == ItemOf(op[p].cmd)
                 l == [item |-> i, worker |-> p,
                       epoch |-> WS!Maintain(row, now)[i].epoch + 1,
                       exp |-> now + LeaseDuration]
      <3>1. held' = [held EXCEPT ![p] = l]
        BY <2>2 DEF WS!Claim
      <3>2. "item" \in DOMAIN l /\ l.item = i
        OBVIOUS
      <3> HIDE DEF l
      <3> QED
        BY <1>0, <2>2, <3>1, <3>2, HeldGoto DEF Holding
    <2> QED
      BY <1>15, <2>1, <2>2 DEF Claim
  <1>16. ASSUME NEW now, Start(p, now) PROVE HeldsOK'
    BY <1>3, <1>16 DEF Start, WS!Start, Holding, work
  <1>17. ASSUME NEW now, Beat(p, now) PROVE HeldsOK'
    <2> DEFINE e == now + LeaseDuration
               l == [held[p] EXCEPT !.exp = e]
    <2>1. held' = [held EXCEPT ![p].exp = e] /\ held[p] # None
      BY <1>17 DEF Beat, WS!Heartbeat, WS!Presents
    <2> HIDE DEF e
    <2>2. held' = [held EXCEPT ![p] = l]
      BY <2>1 DEF HeldsOK
    <2>3. "item" \in DOMAIN l /\ l.item = ItemOf(op[p].cmd)
      BY <2>1, HeldSame
    <2>4. Goto(p, "succeed") \/ Goto(p, "commit")
      BY <1>17 DEF Beat
    <2> HIDE DEF l
    <2> QED
      BY <1>0, <2>2, <2>3, <2>4, HeldGoto DEF Holding
  <1>18. ASSUME NEW now, Succeed(p, now) PROVE HeldsOK'
    BY <1>2, <1>4, <1>18 DEF Succeed, WS!Succeed
  <1>19. ASSUME NEW now, Fenced(p, now) PROVE HeldsOK'
    BY <1>1, <1>19 DEF Fenced, WS!Fenced
  <1>20. CASE Again(p) \/ Crash(p)
    BY <1>1, <1>4, <1>20 DEF Again, Crash
  <1> QED
    BY <1>5, <1>6, <1>7, <1>8, <1>9, <1>10, <1>11, <1>12, <1>13, <1>14, <1>15,
       <1>16, <1>17, <1>18, <1>19, <1>20 DEF Step

\* One row, or one field of it, moves to a state that is not SUCCEEDED.
LEMMA OneRowNoSuccess ==
    ASSUME NEW r, Shaped(r), NEW i, NEW x, "state" \in DOMAIN x,
           x.state = "SUCCEEDED" => r[i].state = "SUCCEEDED"
    PROVE  NoNewSuccess(r, [r EXCEPT ![i] = x])
  BY DEF NoNewSuccess, Shaped

\* No step but a success makes a row SUCCEEDED.
LEMMA RowsStep ==
    ASSUME RepoInv, LedgerInv, NEW p \in Procs,
           Step(p) \/ Again(p) \/ Crash(p), ~\E now : Succeed(p, now)
    PROVE  NoNewSuccess(row, row')
  <1>0. Shaped(row)
    BY DEF LedgerInv
  <1>1. CASE row' = row
    BY <1>0, <1>1, NoNewSuccessSame
  <1>2. CASE Lookup(p) \/ BeginRun(p) \/ Snapshot(p) \/ Get(p) \/ Inspect(p)
               \/ CommitReplay(p) \/ CommitStale(p) \/ Again(p) \/ Crash(p)
    BY <1>1, <1>2 DEF Lookup, BeginRun, Snapshot, Get, Inspect, CommitReplay,
                      CommitStale, Again, Crash, Raise, work
  <1>3. ASSUME NEW reported \in BOOLEAN, Commit(p, reported)
        PROVE  NoNewSuccess(row, row')
    BY <1>1, <1>3 DEF Commit
  <1>4. CASE Plan(p)
    <2> DEFINE b == <<PlanOf(op[p].cmd)>>
               q == WS!InsertBatch(row, b, 0)
    <2>1. row' = WS!Refresh(q, 0, WS!BatchItems(b))
      BY <1>4 DEF Plan, WS!PlanMany
    <2>2. ASSUME NEW i \in Items
          PROVE  /\ "state" \in DOMAIN q[i]
                 /\ q[i].state = "SUCCEEDED" => row[i].state = "SUCCEEDED"
      <3>1. CASE i \in WS!BatchItems(b) /\ ~WS!Planned(row, i)
        <4> DEFINE e == b[CHOOSE k \in 1..Len(b) : b[k].item = i]
        <4>1. q[i] = WS!InsertedRow(e, 0)
          BY <3>1 DEF WS!InsertBatch
        <4> HIDE DEF e, q, b
        <4>2. q[i].state = "PLANNED" /\ "state" \in DOMAIN q[i]
          BY <4>1 DEF WS!InsertedRow, WS!AbsentRow
        <4> QED
          BY <4>2
      <3>2. CASE ~(i \in WS!BatchItems(b) /\ ~WS!Planned(row, i))
        <4>1. q[i] = row[i]
          BY <3>2 DEF WS!InsertBatch
        <4> HIDE DEF q, b
        <4> QED
          BY <1>0, <4>1 DEF Shaped
      <3> QED
        BY <3>1, <3>2
    <2>3. DOMAIN q = Items
      BY DEF WS!InsertBatch
    <2> HIDE DEF q, b
    <2>4. NoNewSuccess(row, q) /\ Shaped(q)
      BY <2>2, <2>3 DEF NoNewSuccess, Shaped
    <2> QED
      BY <2>1, <2>4, RefreshNoSuccess, NoNewSuccessTrans
  <1>5. ASSUME NEW now, WS!Reconcile(now) PROVE NoNewSuccess(row, row')
    <2>1. NoNewSuccess(row, WS!Maintain(row, now))
      BY <1>0, MaintainNoSuccess
    <2> QED
      BY <1>5, <2>1, RefreshNoSuccess, NoNewSuccessTrans DEF WS!Reconcile, NoNewSuccess
  <1>6. ASSUME NEW now, Claim(p, now) PROVE NoNewSuccess(row, row')
    <2> DEFINE r == WS!Maintain(row, now)
               i == ItemOf(op[p].cmd)
               x == WS!ClaimedRow(r[i], p, now, "LEASED")
    <2>1. NoNewSuccess(row, r) /\ Shaped(r)
      BY <1>0, MaintainNoSuccess DEF NoNewSuccess
    <2>2. CASE WS!ClaimNothing(now)
      BY <2>1, <2>2 DEF WS!ClaimNothing
    <2>3. CASE WS!Claim(p, i, FALSE, now)
      <3>1. r[i].state = "READY" /\ row' = [r EXCEPT ![i] = x]
        BY <2>3 DEF WS!Claim
      <3>2. CASE i \in Items
        <4>1. "state" \in DOMAIN x /\ x.state = "LEASED"
          <5> DEFINE no == FALSE
                     e == r[i].epoch + 1
                     a == r[i].attempt + 1
                     until == now + LeaseDuration
          <5>1. x = [r[i] EXCEPT !.state = "LEASED", !.epoch = e, !.attempt = a,
                                 !.leasedBy = p, !.leaseExp = until, !.torn = no,
                                 !.log = Append(@, "ACTIVE")]
            BY DEF WS!ClaimedRow
          <5>2. "state" \in DOMAIN r[i]
            BY <2>1, <3>2 DEF Shaped
          <5> HIDE DEF no, e, a, until, x, r, i
          <5> QED
            BY <5>1, <5>2
        <4> HIDE DEF x, r, i
        <4>2. NoNewSuccess(r, row')
          BY <2>1, <3>1, <4>1, OneRowNoSuccess
        <4> QED
          BY <2>1, <4>2, NoNewSuccessTrans
      <3>3. CASE i \notin Items
        <4> HIDE DEF x, r, i
        <4>1. NoNewSuccess(r, row')
          BY <2>1, <3>1, <3>3 DEF NoNewSuccess, Shaped
        <4> QED
          BY <2>1, <4>1, NoNewSuccessTrans
      <3> QED
        BY <3>2, <3>3
    <2> QED
      BY <1>6, <2>2, <2>3 DEF Claim
  <1>7. ASSUME NEW now, Start(p, now) PROVE NoNewSuccess(row, row')
    <2>1. CASE WS!Start(p, now)
      <3> DEFINE i == held[p].item
      <3>1. row' = [row EXCEPT ![i].state = "RUNNING"]
        BY <2>1 DEF WS!Start
      <3> HIDE DEF i
      <3> QED
        BY <1>0, <3>1 DEF NoNewSuccess, Shaped
    <2> QED
      BY <1>1, <1>7, <2>1 DEF Start, work
  <1>8. ASSUME NEW now, Beat(p, now) PROVE NoNewSuccess(row, row')
    <2> DEFINE i == held[p].item
               until == now + LeaseDuration
    <2>1. row' = [row EXCEPT ![i].leaseExp = until]
      BY <1>8 DEF Beat, WS!Heartbeat
    <2> HIDE DEF i, until
    <2> QED
      BY <1>0, <2>1 DEF NoNewSuccess, Shaped
  <1>10. ASSUME NEW now, Fenced(p, now) PROVE NoNewSuccess(row, row')
    BY <1>0, <1>10, ExactNoSuccess DEF Fenced, WS!Fenced
  <1>11. ASSUME NEW now, Maintain(p, now) PROVE NoNewSuccess(row, row')
    BY <1>5, <1>11 DEF Maintain
  <1> QED
    BY <1>2, <1>3, <1>4, <1>6, <1>7, <1>8, <1>10, <1>11 DEF Step

LEMMA CompletionsStay ==
    ASSUME RepoInv, NEW p \in Procs, Step(p) \/ Again(p) \/ Crash(p),
           NEW r \in Runs, completion[r] # None
    PROVE  completion'[r] = completion[r]
  <1>1. ASSUME NEW reported \in BOOLEAN, Commit(p, reported)
        PROVE  completion'[r] = completion[r]
    BY <1>1 DEF Commit, RepoInv, RepoOK
  <1>2. ASSUME NEW now, Maintain(p, now) \/ Claim(p, now) \/ Start(p, now)
                          \/ Beat(p, now) \/ Succeed(p, now) \/ Fenced(p, now)
        PROVE  completion' = completion
    BY <1>2 DEF Maintain, Claim, Start, Beat, Succeed, Fenced, Raise, repo
  <1>3. CASE Lookup(p) \/ BeginRun(p) \/ Snapshot(p) \/ Get(p) \/ Plan(p)
               \/ Inspect(p) \/ CommitReplay(p) \/ CommitStale(p)
               \/ Again(p) \/ Crash(p)
    BY <1>3 DEF Lookup, BeginRun, Snapshot, Get, Plan, Inspect, CommitReplay,
                CommitStale, Again, Crash, Raise, repo
  <1> QED
    BY <1>1, <1>2, <1>3 DEF Step

\* A process that presents its capability to succeed has seen its command
\* committed, and the item that becomes SUCCEEDED is that command's.
LEMMA SuccessOK ==
    ASSUME RepoInv, LedgerInv, NEW p \in Procs, NEW now,
           At(p, "succeed"), WS!Succeed(p, now), completion' = completion
    PROVE  Shaped(row') /\ SuccessHasCompletion'
  <1> DEFINE i == held[p].item
             y == WS!SetTerminal(WS!FinishAttempt(row[i], "SUCCEEDED"), "SUCCEEDED")
             r == [row EXCEPT ![i] = y]
             q == WS!SettleDownstream(r, now, i)
             c == op[p].cmd
             k == RunOf(p)
  <1>1. held[p] # None /\ row' = WS!Maintain(q, now)
    BY DEF WS!Succeed, WS!Presents
  <1>2. Shaped(row) /\ i = ItemOf(c)
    BY <1>1, HeldSame DEF LedgerInv
  <1>3. /\ k \in Runs /\ c \in Commands(k, Found(k)) /\ c.run = k /\ c.gen \in Nat
        /\ c = completion[k] /\ c.gen < MaxGeneration /\ Found(k) \subseteq Hyps
    <2>1. op[p].step = "succeed" /\ op[p].step \in Later
      BY DEF At, Later, Steps, Early
    <2> QED
      BY <2>1, CommandOf, RepoFacts DEF CommandOK
  <1>4. c # None
    BY <1>3, CommandIsNotNone
  <1>5. Shaped(r) /\ \A j \in Items : j # i => r[j] = row[j]
    <2>1. CASE i \in Items
      <3>1. "state" \in DOMAIN y
        BY <1>2, <2>1, RowStates DEF Shaped
      <3> HIDE DEF y, i
      <3> QED
        BY <1>2, <3>1 DEF Shaped
    <2>2. CASE i \notin Items
      <3> HIDE DEF y, i
      <3> QED
        BY <1>2, <2>2 DEF Shaped
    <2> QED
      BY <2>1, <2>2
  <1> HIDE DEF r
  <1>6. NoNewSuccess(r, q) /\ Shaped(q)
    BY <1>5, RefreshNoSuccess DEF WS!SettleDownstream, NoNewSuccess
  <1> HIDE DEF q
  <1>7. NoNewSuccess(r, row')
    BY <1>1, <1>6, MaintainNoSuccess, NoNewSuccessTrans
  <1>8. ASSUME NEW s \in Runs, NEW g \in Generations,
               row'[ItemOf([run |-> s, gen |-> g])].state = "SUCCEEDED"
        PROVE  completion[s] # None /\ completion[s].gen = g
    <2> DEFINE j == ItemOf([run |-> s, gen |-> g])
    <2>1. j \in Items
      BY DEF Items
    <2>2. CASE j = i
      <3>1. s * MaxGeneration + g = k * MaxGeneration + c.gen
        BY <1>2, <1>3, <2>2 DEF ItemOf
      <3>2. MaxGeneration \in Nat /\ s \in Nat /\ k \in Nat
        BY <1>3, PublicationAssumption, FS_CardinalityType DEF MaxGeneration
      <3>3. g \in 0..(MaxGeneration - 1) /\ c.gen \in 0..(MaxGeneration - 1)
        BY <1>3, <3>2 DEF Generations
      <3> DEFINE h == c.gen
                 M == MaxGeneration
      <3> HIDE DEF k, h, M
      <3>4. s = k /\ g = h
        <4>1. M \in Nat /\ s \in Nat /\ k \in Nat
          BY <3>2 DEF M
        <4>2. g \in 0..(M - 1) /\ h \in 0..(M - 1) /\ s * M + g = k * M + h
          BY <3>1, <3>3 DEF M, h
        <4> QED
          BY <4>1, <4>2, ItemsDiffer
      <3> QED
        BY <1>3, <1>4, <3>4 DEF h
    <2>3. CASE j # i
      <3>1. row[j].state = "SUCCEEDED"
        BY <1>5, <1>7, <1>8, <2>1, <2>3 DEF NoNewSuccess
      <3> QED
        BY <3>1 DEF LedgerInv, SuccessHasCompletion
    <2> QED
      BY <2>2, <2>3
  <1> QED
    BY <1>7, <1>8 DEF SuccessHasCompletion, NoNewSuccess

LEMMA LedgerInit == Init => LedgerInv
  <1> SUFFICES ASSUME Init PROVE LedgerInv
    OBVIOUS
  <1>1. row = [i \in Items |-> WS!AbsentRow] /\ held = [p \in Procs |-> None]
    BY DEF Init, WS!Init
  <1>2. "state" \in DOMAIN WS!AbsentRow /\ WS!AbsentRow.state = "ABSENT"
    BY DEF WS!AbsentRow
  <1>3. Shaped(row) /\ \A i \in Items : row[i].state = "ABSENT"
    BY <1>1, <1>2 DEF Shaped
  <1>4. HeldsOK
    BY <1>1 DEF HeldsOK, HeldOK
  <1>5. SuccessHasCompletion
    BY <1>3 DEF SuccessHasCompletion, Items
  <1> QED
    BY <1>3, <1>4, <1>5 DEF LedgerInv

LEMMA LedgerStep == RepoInv /\ LedgerInv /\ [Next]_vars => LedgerInv'
  <1> SUFFICES ASSUME RepoInv, LedgerInv, [Next]_vars PROVE LedgerInv'
    OBVIOUS
  <1>1. ASSUME NEW p \in Procs, Step(p) \/ Again(p) \/ Crash(p) PROVE LedgerInv'
    <2>1. HeldsOK'
      BY <1>1, HeldStep DEF LedgerInv
    <2>2. \A r \in Runs : completion[r] # None => completion'[r] = completion[r]
      BY <1>1, CompletionsStay
    <2>3. CASE ~\E now : Succeed(p, now)
      <3>1. NoNewSuccess(row, row')
        BY <1>1, <2>3, RowsStep
      <3>2. SuccessHasCompletion'
        BY <2>2, <3>1, QuietRows DEF LedgerInv
      <3> QED
        BY <2>1, <3>1, <3>2 DEF LedgerInv, NoNewSuccess, Shaped
    <2>4. ASSUME NEW now, Succeed(p, now) PROVE LedgerInv'
      <3>1. CASE WS!Succeed(p, now)
        <4>1. At(p, "succeed") /\ completion' = completion
          BY <2>4 DEF Succeed, Raise, repo
        <4>2. Shaped(row') /\ SuccessHasCompletion'
          BY <3>1, <4>1, SuccessOK
        <4> QED
          BY <2>1, <4>2 DEF LedgerInv, Shaped
      <3>2. CASE row' = row /\ completion' = completion
        BY <2>1, <3>2 DEF LedgerInv, Shaped, SuccessHasCompletion
      <3> QED
        BY <2>4, <3>1, <3>2 DEF Succeed, Raise, repo
    <2> QED
      BY <2>3, <2>4
  <1>2. CASE UNCHANGED <<row, held, op, completion>>
    <2>1. row' = row /\ held' = held /\ op' = op /\ completion' = completion
      BY <1>2
    <2> QED
      BY <2>1 DEF LedgerInv, Shaped, HeldsOK, HeldOK, SuccessHasCompletion, ItemOf
  <1>3. CASE Tick
    BY <1>2, <1>3 DEF Tick, WS!Tick, repo
  <1>4. CASE UNCHANGED vars
    BY <1>2, <1>4 DEF vars
  <1> QED
    BY <1>1, <1>3, <1>4 DEF Next

\* The work ledger never contradicts the primary database, for every number
\* of processes, crashes and lapsed leases: work that SUCCEEDED is the work
\* of the command its run completed with.
THEOREM SuccessesAreCompletions == Spec => []SuccessHasCompletion
  <1>1. LedgerInv => SuccessHasCompletion
    BY DEF LedgerInv
  <1> QED
    BY <1>1, LedgerInit, LedgerStep, RepositoryInvariance, PTL DEF Spec

=============================================================================
