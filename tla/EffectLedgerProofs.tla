-------------------------- MODULE EffectLedgerProofs --------------------------
(***************************************************************************)
(* Proofs about the effect ledger and its lease table, for any number of   *)
(* effects, owners, bindings and clock readings and for any callers.       *)
(***************************************************************************)
EXTENDS EffectLedger, TLAPS

Launchable    == {"managed", "publish"}
NeverLaunched == {"scope", "accept"}
Deciding   == {"sealed", "indeterminate"}

(***************************************************************************)
(* What the journal and the row of one effect say of each other.  It is    *)
(* the strengthening that makes the journal properties inductive: ranks    *)
(* never go beyond the row's, and exactly the deciding observation carries *)
(* a result.                                                               *)
(***************************************************************************)
JournalInv(e) ==
  /\ \A o \in journal : o.effect = e =>
       /\ Prepared(e)
       /\ o.revision \in 1 .. row[e].revision
       /\ Rank(o.phase) <= Rank(row[e].phase)
       /\ o.revision = row[e].revision => o.phase = row[e].phase
       /\ o.result # None <=> o.phase \in Deciding
  /\ \A o, q \in journal : o.effect = e /\ q.effect = e =>
       /\ o.revision < q.revision => Rank(o.phase) < Rank(q.phase)
       /\ o.revision = q.revision => o = q
  /\ Prepared(e) =>
       /\ \A r \in 1 .. row[e].revision : \E o \in journal : o.effect = e /\ o.revision = r
       /\ row[e].revision <= Rank(row[e].phase)
       /\ row[e].phase \in Terminal => \E o \in journal : o.effect = e /\ o.phase \in Deciding

LaunchInv(e) ==
  Prepared(e) =>
    /\ row[e].phase = "prepared" => ~row[e].launch
    /\ row[e].phase \in Active => row[e].launch
    /\ row[e].launch => row[e].facts.kind \notin NeverLaunched
    /\ row[e].lease_epoch <= lease[e].epoch
    /\ \A o \in journal : o.effect = e /\ o.result # None =>
         \/ row[e].launch
         \/ row[e].facts.kind \in Launchable /\ o.result \in PrelaunchErrors
         \/ row[e].facts.kind \notin Launchable /\ o.result # Indeterminate

LeaseInv == LeaseTypeOK /\ IssuedWithinEpoch /\ EpochNamesOneOwner

IInv ==
  /\ TypeOK
  /\ LeaseInv
  /\ \A e \in Effects : JournalInv(e) /\ LaunchInv(e)

LEMMA RankType == ASSUME NEW p \in Phases PROVE Rank(p) \in 0 .. 4
BY DEF Rank, Phases

LEMMA RankValues ==
  /\ Rank("prepared") = 0
  /\ Rank("launching") = 1
  /\ Rank("running") = 2
  /\ Rank("sealed") = 3 /\ Rank("indeterminate") = 3
  /\ Rank("delivered") = 4
BY DEF Rank

LEMMA InitIInv == Init => IInv
<1> SUFFICES ASSUME Init PROVE IInv
  OBVIOUS
<1>1. TypeOK
  BY LeaseAssumption DEF Init, LeaseInit, TypeOK, LeaseTypeOK
<1>2. LeaseInv
  BY <1>1 DEF Init, LeaseInit, LeaseInv, TypeOK, IssuedWithinEpoch, EpochNamesOneOwner
<1>3. ASSUME NEW e \in Effects PROVE JournalInv(e) /\ LaunchInv(e)
  BY EffectsAssumption DEF Init, JournalInv, LaunchInv, Prepared
<1>4. QED
  BY <1>1, <1>2, <1>3 DEF IInv

(***************************************************************************)
(* The lease table's own steps.                                            *)
(***************************************************************************)
LEMMA AcquireLease ==
  ASSUME LeaseInv,
         NEW k \in Keys, NEW o \in Owners, NEW ttl \in Ttls, Acquire(k, o, ttl)
  PROVE  /\ LeaseInv'
         /\ \A j \in Keys : lease'[j].epoch >= lease[j].epoch
<1> DEFINE r == [owner |-> o, epoch |-> NextEpoch(k), expires |-> now + ttl]
           l == [key |-> k, owner |-> o, epoch |-> NextEpoch(k)]
<1> LeaseTypeOK /\ IssuedWithinEpoch /\ EpochNamesOneOwner
  BY DEF LeaseInv
<1>1. now + ttl \in Nat /\ now \in Nat
  BY LeaseAssumption DEF LeaseTypeOK
<1>2. r \in LeaseRow /\ l \in Lease
  <2>1. lease[k] \in LeaseRow \/ lease[k] = NoLease
    BY DEF LeaseTypeOK
  <2>2. NextEpoch(k) \in 1 .. MaxEpoch
    BY <1>1, <2>1 DEF Acquire, NextEpoch, LeaseRow, NoLease
  <2>3. QED
    BY <1>1, <2>2 DEF LeaseRow, Lease
<1>3. /\ lease' = [lease EXCEPT ![k] = r]
      /\ issued' = issued \cup {l}
      /\ now' = now
  BY DEF Acquire
<1>4. LeaseTypeOK'
  BY <1>2, <1>3 DEF LeaseTypeOK
<1>5. \A j \in Keys : lease[j].epoch \in Int /\ lease[j].expires \in Int
  BY LeaseAssumption DEF LeaseTypeOK, LeaseRow, NoLease
<1>6. /\ NextEpoch(k) \in Int
      /\ NextEpoch(k) >= lease[k].epoch
      /\ NextEpoch(k) = lease[k].epoch => o = lease[k].owner
  BY <1>1, <1>5 DEF Acquire, NextEpoch
<1>7. IssuedWithinEpoch'
  <2> SUFFICES ASSUME NEW m \in issued'
               PROVE  /\ m.epoch <= lease'[m.key].epoch
                      /\ m.epoch = lease'[m.key].epoch => m.owner = lease'[m.key].owner
    BY DEF IssuedWithinEpoch
  <2>1. CASE m = l
    BY <2>1, <1>3, <1>6 DEF LeaseTypeOK
  <2>2. CASE m \in issued
    <3>1. /\ m \in Lease
          /\ m.epoch <= lease[m.key].epoch
          /\ m.epoch = lease[m.key].epoch => m.owner = lease[m.key].owner
      BY <2>2 DEF LeaseTypeOK, IssuedWithinEpoch
    <3>2. CASE m.key # k
      BY <3>1, <3>2, <1>3 DEF LeaseTypeOK, Lease
    <3>3. CASE m.key = k
      <4>1. lease'[k].epoch = NextEpoch(k) /\ lease'[k].owner = o
        BY <1>3 DEF LeaseTypeOK
      <4>2. m.epoch \in Int
        BY <3>1 DEF Lease
      <4>3. QED
        BY <3>1, <3>3, <4>1, <4>2, <1>5, <1>6
    <3>4. QED
      BY <3>2, <3>3
  <2>3. QED
    BY <2>1, <2>2, <1>3
<1>8. \A j \in Keys : lease'[j].epoch >= lease[j].epoch
  BY <1>3, <1>5, <1>6 DEF LeaseTypeOK
<1>9. EpochNamesOneOwner'
  <2>1. ASSUME NEW m \in issued, m.key = k, m.epoch = NextEpoch(k)
        PROVE  m.owner = o
    <3>1. /\ m.epoch <= lease[k].epoch
          /\ m.epoch = lease[k].epoch => m.owner = lease[k].owner
          /\ m.epoch \in Int
      BY <2>1 DEF IssuedWithinEpoch, LeaseTypeOK, Lease
    <3>2. QED
      BY <2>1, <3>1, <1>5, <1>6
  <2>2. QED
    BY <2>1, <1>3 DEF EpochNamesOneOwner
<1>10. QED
  BY <1>4, <1>7, <1>8, <1>9 DEF LeaseInv

LEMMA LeaseStep ==
  ASSUME LeaseInv, LeaseNext
  PROVE  /\ LeaseInv'
         /\ \A j \in Keys : lease'[j].epoch >= lease[j].epoch
<1> LeaseTypeOK /\ IssuedWithinEpoch /\ EpochNamesOneOwner
  BY DEF LeaseInv
<1>1. \A j \in Keys : lease[j].epoch \in Int
  BY LeaseAssumption DEF LeaseTypeOK, LeaseRow, NoLease
<1>2. CASE ReadClock
  BY <1>1, <1>2 DEF ReadClock, LeaseInv, LeaseTypeOK, IssuedWithinEpoch, EpochNamesOneOwner
<1>3. ASSUME NEW k \in Keys, NEW o \in Owners, NEW ttl \in Ttls, Acquire(k, o, ttl)
      PROVE  /\ LeaseInv'
             /\ \A j \in Keys : lease'[j].epoch >= lease[j].epoch
  BY <1>3, AcquireLease
<1>4. ASSUME NEW l \in issued, Release(l)
      PROVE  /\ LeaseInv'
             /\ \A j \in Keys : lease'[j].epoch >= lease[j].epoch
  <2>1. l.key \in Keys /\ now \in Nat
    BY LeaseAssumption DEF LeaseTypeOK, Lease
  <2>2. /\ lease' = [lease EXCEPT ![l.key].expires = now]
        /\ issued' = issued /\ now' = now
    BY <1>4 DEF Release
  <2>3. lease[l.key] \in LeaseRow
    BY <1>4, <2>1 DEF Release, IsCurrent, LeaseTypeOK, Lease, NoLease
  <2>4. lease' \in [Keys -> LeaseRow \cup {NoLease}]
    BY <2>1, <2>2, <2>3 DEF LeaseTypeOK, LeaseRow
  <2>5. \A j \in Keys : /\ lease'[j].epoch = lease[j].epoch
                        /\ lease'[j].owner = lease[j].owner
    BY <2>1, <2>2, <2>3 DEF LeaseTypeOK, LeaseRow
  <2>6. \A m \in issued : m.key \in Keys
    BY DEF LeaseTypeOK, Lease
  <2>7. QED
    BY <1>1, <2>2, <2>4, <2>5, <2>6 DEF LeaseInv, LeaseTypeOK, IssuedWithinEpoch, EpochNamesOneOwner
<1>5. QED
  BY <1>2, <1>3, <1>4 DEF LeaseNext

(***************************************************************************)
(* A step of the lease table leaves rows and journal alone and epochs only *)
(* grow, so the ledger's invariant is kept.                                *)
(***************************************************************************)
LEMMA LeaseStepKeepsIInv ==
  ASSUME IInv, LeaseNext, UNCHANGED ledgerVars
  PROVE  IInv'
<1>1. /\ LeaseInv'
      /\ \A j \in Keys : lease'[j].epoch >= lease[j].epoch
  BY LeaseStep DEF IInv
<1>2. row' = row /\ journal' = journal
  BY DEF ledgerVars
<1>3. TypeOK'
  BY <1>1, <1>2 DEF IInv, TypeOK, LeaseInv
<1>4. ASSUME NEW e \in Effects PROVE JournalInv(e)' /\ LaunchInv(e)'
  <2>1. JournalInv(e) /\ LaunchInv(e) /\ e \in Keys
    BY EffectsAssumption DEF IInv
  <2>2. JournalInv(e)'
    BY <1>2, <2>1 DEF JournalInv, Prepared
  <2>3. lease[e].epoch \in Int /\ lease'[e].epoch \in Int
    BY <1>1, <2>1 DEF IInv, LeaseInv, LeaseTypeOK, LeaseRow, NoLease
  <2>4. Prepared(e) => row[e].lease_epoch \in Int
    BY DEF IInv, TypeOK, Prepared, Row
  <2>5. LaunchInv(e)'
    BY <1>1, <1>2, <2>1, <2>3, <2>4 DEF LaunchInv, Prepared
  <2>6. QED
    BY <2>2, <2>5
<1>5. QED
  BY <1>1, <1>3, <1>4 DEF IInv

LEMMA PrepareKeepsIInv ==
  ASSUME IInv, NEW e \in Effects, NEW f \in ValidFacts, NEW l \in Grants, Prepare(e, f, l)
  PROVE  IInv'
<1> DEFINE r == [facts |-> f, phase |-> "prepared", revision |-> 0,
                 lease_epoch |-> 0, launch |-> FALSE]
<1>1. /\ row' = [row EXCEPT ![e] = r]
      /\ journal' = journal /\ now' = now /\ lease' = lease /\ issued' = issued
      /\ ~Prepared(e)
  BY DEF Prepare, leaseVars
<1>2. r \in Row
  BY LeaseAssumption DEF Row, Phases
<1>3. TypeOK'
  BY <1>1, <1>2 DEF IInv, TypeOK, LeaseTypeOK
<1>4. LeaseInv'
  BY <1>1 DEF IInv, LeaseInv, LeaseTypeOK, IssuedWithinEpoch, EpochNamesOneOwner
<1>5. ASSUME NEW d \in Effects PROVE JournalInv(d)' /\ LaunchInv(d)'
  <2>1. JournalInv(d) /\ LaunchInv(d)
    BY DEF IInv
  <2>2. CASE d # e
    <3>1. row'[d] = row[d]
      BY <1>1, <2>2 DEF IInv, TypeOK
    <3>2. JournalInv(d)'
      BY <1>1, <2>1, <3>1 DEF JournalInv, Prepared
    <3>3. LaunchInv(d)'
      BY <1>1, <2>1, <3>1 DEF LaunchInv, Prepared
    <3>4. QED
      BY <3>2, <3>3
  <2>3. CASE d = e
    <3>1. row'[d] = r
      BY <1>1, <2>3 DEF IInv, TypeOK
    <3>2. \A o \in journal : o.effect # d
      BY <1>1, <2>1, <2>3 DEF JournalInv
    <3>3. JournalInv(d)'
      BY <1>1, <3>1, <3>2, RankValues DEF JournalInv, Terminal
    <3>4. lease[d].epoch \in Nat
      BY LeaseAssumption, EffectsAssumption DEF IInv, TypeOK, LeaseTypeOK, LeaseRow, NoLease
    <3>5. LaunchInv(d)'
      BY <1>1, <3>1, <3>2, <3>4 DEF LaunchInv, Active
    <3>6. QED
      BY <3>3, <3>5
  <2>4. QED
    BY <2>2, <2>3
<1>6. QED
  BY <1>3, <1>4, <1>5 DEF IInv

(***************************************************************************)
(* The one lemma every transition rests on: writing the next row and its   *)
(* observation keeps the invariant when the phase goes up, a result comes  *)
(* exactly with a deciding phase, delivery comes exactly after one, and    *)
(* the launch commitment and the result agree with the effect's kind.      *)
(***************************************************************************)
LEMMA AdvanceKeepsIInv ==
  ASSUME IInv, NEW e \in Effects, NEW target \in Phases, NEW l \in Grants,
         NEW launch \in BOOLEAN, NEW result \in Results \cup {None},
         Prepared(e),
         Advance(e, target, l, launch, result),
         Rank(row[e].phase) < Rank(target),
         result # None <=> target \in Deciding,
         target = "delivered" => row[e].phase \in Deciding,
         l # NoGrant => LiveLease(e, l),
         row[e].launch => launch,
         target \in Active => launch,
         launch => row[e].facts.kind \notin NeverLaunched,
         result # None => \/ launch
                          \/ row[e].facts.kind \in Launchable /\ result \in PrelaunchErrors
                          \/ row[e].facts.kind \notin Launchable /\ result # Indeterminate
  PROVE  IInv'
<1> DEFINE rec == row[e]
           new == [facts |-> rec.facts, phase |-> target, revision |-> rec.revision + 1,
                   lease_epoch |-> IF l = NoGrant THEN rec.lease_epoch ELSE l.epoch,
                   launch |-> launch]
           obs == [effect |-> e, revision |-> rec.revision + 1,
                   phase |-> target, result |-> result]
<1>1. /\ rec \in Row /\ JournalInv(e) /\ LaunchInv(e) /\ e \in Keys
      /\ row \in [Effects -> Row \cup {NoRow}]
  BY EffectsAssumption DEF IInv, TypeOK, Prepared
<1>2. row' = [row EXCEPT ![e] = new]
  BY <1>1 DEF Advance
<1>3. /\ journal' = journal \cup {obs}
      /\ now' = now /\ lease' = lease /\ issued' = issued
  BY DEF Advance, leaseVars
<1>4. lease[e].epoch \in 0 .. MaxEpoch
  BY <1>1, LeaseAssumption DEF IInv, TypeOK, LeaseTypeOK, LeaseRow, NoLease
<1>5. l # NoGrant => l.epoch = lease[e].epoch
  BY DEF LiveLease, IsCurrent
<1>6. /\ new.facts = rec.facts /\ new.phase = target /\ new.revision = rec.revision + 1
      /\ new.launch = launch /\ new.lease_epoch \in 0 .. MaxEpoch
      /\ new.lease_epoch <= lease[e].epoch
      /\ new \in Row
  <2>1. rec.lease_epoch \in 0 .. MaxEpoch /\ rec.lease_epoch <= lease[e].epoch
    BY <1>1 DEF Row, LaunchInv, Prepared
  <2>2. /\ (IF l = NoGrant THEN rec.lease_epoch ELSE l.epoch) \in 0 .. MaxEpoch
        /\ (IF l = NoGrant THEN rec.lease_epoch ELSE l.epoch) <= lease[e].epoch
    BY <2>1, <1>4, <1>5
  <2>3. QED
    BY <1>1, <2>2 DEF Row
<1>7. row'[e] = new /\ \A d \in Effects : d # e => row'[d] = row[d]
  BY <1>1, <1>2
<1>8. /\ obs \in Observation
      /\ obs.effect = e /\ obs.revision = rec.revision + 1
      /\ obs.phase = target /\ obs.result = result
  BY <1>1 DEF Observation, Row
<1> HIDE DEF new, obs
<1>9. TypeOK'
  BY <1>1, <1>2, <1>3, <1>6, <1>8 DEF IInv, TypeOK, LeaseTypeOK
<1>10. LeaseInv'
  BY <1>3 DEF IInv, LeaseInv, LeaseTypeOK, IssuedWithinEpoch, EpochNamesOneOwner
<1>11. ASSUME NEW d \in Effects, d # e PROVE JournalInv(d)' /\ LaunchInv(d)'
  <2>1. JournalInv(d) /\ LaunchInv(d)
    BY DEF IInv
  <2> row'[d] = row[d]
    BY <1>7, <1>11
  <2>2. \A o \in journal' : o.effect = d => o \in journal
    BY <1>3, <1>8, <1>11
  <2>3. journal \subseteq journal'
    BY <1>3
  <2>4. JournalInv(d)'
    BY <2>1, <2>2, <2>3 DEF JournalInv, Prepared
  <2>5. LaunchInv(d)'
    BY <1>3, <2>1, <2>2, <2>3 DEF LaunchInv, Prepared
  <2>6. QED
    BY <2>4, <2>5
<1>12. Prepared(e)'
  BY <1>6, <1>7 DEF Prepared, NoRow, Row, Phases, None
<1>13. rec.revision \in Nat /\ rec.phase \in Phases
  BY <1>1 DEF Row
<1>14. \A o \in journal : o.effect = e =>
         /\ o.revision \in 1 .. rec.revision
         /\ Rank(o.phase) \in Int /\ Rank(o.phase) <= Rank(rec.phase)
  <2>1. \A o \in journal : o.phase \in Phases
    BY DEF IInv, TypeOK, Observation
  <2>2. \A o \in journal : Rank(o.phase) \in Int
    BY <2>1, RankType
  <2>3. QED
    BY <1>1, <2>2 DEF JournalInv
<1>15. Rank(rec.phase) \in Int /\ Rank(target) \in Int
  BY <1>13, RankType
<1>16. JournalInv(e)'
  <2>1. ASSUME NEW o \in journal', o.effect = e
        PROVE  /\ o.revision \in 1 .. new.revision
               /\ Rank(o.phase) <= Rank(new.phase)
               /\ o.revision = new.revision => o.phase = new.phase
               /\ o.result # None <=> o.phase \in Deciding
    <3>1. CASE o = obs
      BY <3>1, <1>6, <1>13, <1>15, <1>8
    <3>2. CASE o \in journal
      BY <2>1, <3>2, <1>1, <1>6, <1>13, <1>14, <1>15 DEF JournalInv
    <3>3. QED
      BY <2>1, <3>1, <3>2, <1>3
  <2>2. ASSUME NEW o \in journal', NEW q \in journal', o.effect = e, q.effect = e
        PROVE  /\ o.revision < q.revision => Rank(o.phase) < Rank(q.phase)
               /\ o.revision = q.revision => o = q
    <3>1. CASE o \in journal /\ q \in journal
      BY <2>2, <3>1, <1>1 DEF JournalInv
    <3>2. CASE o \in journal /\ q = obs
      BY <2>2, <3>2, <1>13, <1>14, <1>15, <1>8
    <3>3. CASE o = obs /\ q \in journal
      BY <2>2, <3>3, <1>13, <1>14, <1>15, <1>8
    <3>4. CASE o = obs /\ q = obs
      BY <3>4, <1>13, <1>8
    <3>5. QED
      BY <2>2, <3>1, <3>2, <3>3, <3>4, <1>3
  <2>3. ASSUME NEW r \in 1 .. new.revision
        PROVE  \E o \in journal' : o.effect = e /\ o.revision = r
    <3>1. CASE r = new.revision
      BY <3>1, <1>3, <1>6, <1>8
    <3>2. CASE r \in 1 .. rec.revision
      <4>1. \E o \in journal : o.effect = e /\ o.revision = r
        BY <3>2, <1>1 DEF JournalInv
      <4>2. QED
        BY <4>1, <1>3
    <3>3. QED
      BY <2>3, <3>1, <3>2, <1>6, <1>13
  <2>4. new.revision <= Rank(new.phase)
    BY <1>1, <1>6, <1>13, <1>15 DEF JournalInv
  <2>5. new.phase \in Terminal => \E o \in journal' : o.effect = e /\ o.phase \in Deciding
    <3>1. CASE target \in Deciding
      BY <3>1, <1>3, <1>8
    <3>2. CASE target = "delivered"
      BY <3>2, <1>1, <1>3 DEF JournalInv, Terminal, Deciding
    <3>3. QED
      BY <1>6, <3>1, <3>2 DEF Terminal, Deciding
  <2>6. QED
    BY <1>7, <1>12, <2>1, <2>2, <2>3, <2>4, <2>5 DEF JournalInv
<1>17. LaunchInv(e)'
  <2>1. ASSUME NEW o \in journal', o.effect = e, o.result # None
        PROVE  \/ new.launch
               \/ new.facts.kind \in Launchable /\ o.result \in PrelaunchErrors
               \/ new.facts.kind \notin Launchable /\ o.result # Indeterminate
    <3>1. CASE o = obs
      BY <2>1, <3>1, <1>6, <1>8
    <3>2. CASE o \in journal
      BY <2>1, <3>2, <1>1, <1>6 DEF LaunchInv
    <3>3. QED
      BY <2>1, <3>1, <3>2, <1>3
  <2>2. new.phase # "prepared"
    <3>1. Rank(rec.phase) \in 0 .. 4
      BY <1>13, RankType
    <3>2. QED
      BY <3>1, <1>6, <1>15, RankValues
  <2>3. QED
    BY <1>3, <1>6, <1>7, <2>1, <2>2 DEF LaunchInv
<1>18. QED
  BY <1>9, <1>10, <1>11, <1>16, <1>17 DEF IInv

(***************************************************************************)
(* Each transition satisfies the conditions of AdvanceKeepsIInv.           *)
(***************************************************************************)
LEMMA EdgeFacts ==
  ASSUME IInv, NEW e \in Effects, NEW target \in Phases, NEW sources,
         NEW revision, NEW l \in Grants, Edge(e, target, sources, revision, l)
  PROVE  /\ Prepared(e)
         /\ row[e].phase \in sources
         /\ l # NoGrant => LiveLease(e, l)
         /\ row[e].phase \in Active => row[e].launch
         /\ row[e].launch => row[e].facts.kind \notin NeverLaunched
         /\ row[e].launch \in BOOLEAN
         /\ row[e].facts \in ValidFacts
<1>1. /\ Prepared(e) /\ row[e].phase \in sources
      /\ l # NoGrant => LiveLease(e, l)
  BY DEF Edge
<1>2. row[e] \in Row /\ LaunchInv(e)
  BY <1>1 DEF IInv, TypeOK, Prepared
<1>3. /\ row[e].phase \in Active => row[e].launch
      /\ row[e].launch => row[e].facts.kind \notin NeverLaunched
  BY <1>1, <1>2 DEF LaunchInv
<1>4. row[e].launch \in BOOLEAN /\ row[e].facts \in ValidFacts
  BY <1>2 DEF Row
<1>5. QED
  BY <1>1, <1>3, <1>4, Zenon

LEMMA MarkLaunchingKeepsIInv ==
  ASSUME IInv, NEW e \in Effects, NEW r \in Revisions, NEW l \in Grants, NEW b,
         MarkLaunching(e, r, l, b)
  PROVE  IInv'
<1>1. /\ Prepared(e) /\ row[e].phase = "prepared"
      /\ l # NoGrant => LiveLease(e, l)
      /\ row[e].facts \in ValidFacts
  BY EdgeFacts DEF MarkLaunching, Phases
<1>2. row[e].facts.kind \notin NeverLaunched
  BY <1>1 DEF MarkLaunching, Edge, ValidFacts, Facts, NeverLaunched, Active
<1>3. Advance(e, "launching", l, TRUE, None)
  BY DEF MarkLaunching
<1>4. Rank(row[e].phase) < Rank("launching")
  BY <1>1, RankValues
<1>5. "launching" \in Phases /\ "launching" \notin Deciding
  BY DEF Phases, Deciding
<1>6. QED
  BY <1>1, <1>2, <1>3, <1>4, <1>5, AdvanceKeepsIInv DEF None

LEMMA MarkRunningKeepsIInv ==
  ASSUME IInv, NEW e \in Effects, NEW r \in Revisions, NEW l \in Grants, NEW b,
         MarkRunning(e, r, l, b)
  PROVE  IInv'
<1>1. /\ Prepared(e) /\ row[e].phase = "launching"
      /\ l # NoGrant => LiveLease(e, l)
      /\ row[e].phase \in Active => row[e].launch
      /\ row[e].launch => row[e].facts.kind \notin NeverLaunched
      /\ row[e].launch \in BOOLEAN
  BY EdgeFacts DEF MarkRunning, Phases
<1>2. /\ Advance(e, "running", l, row[e].launch, None)
      /\ Rank(row[e].phase) < Rank("running")
      /\ row[e].launch
  BY <1>1, RankValues DEF MarkRunning, Active
<1>3. "running" \in Phases /\ "running" \notin Deciding
  BY DEF Phases, Deciding
<1>4. QED
  BY <1>1, <1>2, <1>3, AdvanceKeepsIInv DEF None

LEMMA SealKeepsIInv ==
  ASSUME IInv, NEW e \in Effects, NEW res \in Results, NEW r \in Revisions,
         NEW l \in Grants, NEW b, Seal(e, res, r, l, b)
  PROVE  IInv'
<1>1. /\ Prepared(e) /\ row[e].phase \in {"prepared"} \cup Active
      /\ l # NoGrant => LiveLease(e, l)
      /\ row[e].phase \in Active => row[e].launch
      /\ row[e].launch => row[e].facts.kind \notin NeverLaunched
      /\ row[e].launch \in BOOLEAN
  BY EdgeFacts DEF Seal, Phases
<1>2. /\ Advance(e, "sealed", l, row[e].launch, res)
      /\ Rank(row[e].phase) < Rank("sealed")
      /\ res # Indeterminate
  BY <1>1, RankValues DEF Seal, Active
<1>3. /\ "sealed" \in Phases /\ "sealed" \in Deciding /\ "sealed" \notin Active
      /\ res # None
  BY DEF Phases, Deciding, Active, Results, PrelaunchErrors, Indeterminate, None
<1>4. \/ row[e].launch
      \/ row[e].facts.kind \in Launchable /\ res \in PrelaunchErrors
      \/ row[e].facts.kind \notin Launchable
  BY <1>1 DEF Seal, PrelaunchSealAllowed, Launchable
<1>5. QED
  BY <1>1, <1>2, <1>3, <1>4, AdvanceKeepsIInv

LEMMA MarkIndeterminateKeepsIInv ==
  ASSUME IInv, NEW e \in Effects, NEW r \in Revisions, NEW l \in Grants,
         MarkIndeterminate(e, r, l)
  PROVE  IInv'
<1>1. /\ Prepared(e) /\ row[e].phase \in Active
      /\ l # NoGrant => LiveLease(e, l)
      /\ row[e].phase \in Active => row[e].launch
      /\ row[e].launch => row[e].facts.kind \notin NeverLaunched
      /\ row[e].launch \in BOOLEAN
  BY EdgeFacts DEF MarkIndeterminate, Phases
<1>2. /\ Advance(e, "indeterminate", l, row[e].launch, Indeterminate)
      /\ Rank(row[e].phase) < Rank("indeterminate")
      /\ row[e].launch
  BY <1>1, RankValues DEF MarkIndeterminate, Active
<1>3. /\ "indeterminate" \in Phases /\ "indeterminate" \in Deciding
      /\ "indeterminate" \notin Active
      /\ Indeterminate # None /\ Indeterminate \in Results
  BY DEF Phases, Deciding, Active, Indeterminate, None, Results
<1>4. QED
  BY <1>1, <1>2, <1>3, AdvanceKeepsIInv

LEMMA MarkDeliveredKeepsIInv ==
  ASSUME IInv, NEW e \in Effects, NEW r \in Revisions, NEW l \in Grants,
         MarkDelivered(e, r, l)
  PROVE  IInv'
<1>1. /\ Prepared(e) /\ row[e].phase \in Deciding
      /\ l # NoGrant => LiveLease(e, l)
      /\ row[e].launch => row[e].facts.kind \notin NeverLaunched
      /\ row[e].launch \in BOOLEAN
  BY EdgeFacts DEF MarkDelivered, Phases, Deciding
<1>2. /\ Advance(e, "delivered", l, row[e].launch, None)
      /\ Rank(row[e].phase) < Rank("delivered")
  BY <1>1, RankValues DEF MarkDelivered, Deciding
<1>3. "delivered" \in Phases /\ "delivered" \notin Deciding /\ "delivered" \notin Active
  BY DEF Phases, Deciding, Active
<1>4. QED
  BY <1>1, <1>2, <1>3, AdvanceKeepsIInv DEF None

LEMMA NextKeepsIInv == IInv /\ [Next]_vars => IInv'
<1> SUFFICES ASSUME IInv, [Next]_vars PROVE IInv'
  OBVIOUS
<1> issued \subseteq Grants
  BY DEF Grants
<1>1. CASE LeaseNext /\ UNCHANGED ledgerVars
  BY <1>1, LeaseStepKeepsIInv
<1>2. ASSUME NEW e \in Effects, NEW f \in ValidFacts, NEW l \in Grants, Prepare(e, f, l)
      PROVE  IInv'
  BY <1>2, PrepareKeepsIInv
<1>3. ASSUME NEW e \in Effects, NEW r \in Revisions, NEW l \in issued, NEW b \in Bindings,
             MarkLaunching(e, r, l, b) \/ MarkRunning(e, r, l, b)
      PROVE  IInv'
  BY <1>3, MarkLaunchingKeepsIInv, MarkRunningKeepsIInv
<1>4. ASSUME NEW e \in Effects, NEW r \in Revisions, NEW l \in Grants,
             NEW b \in Bindings \cup {None}, NEW res \in Results, Seal(e, res, r, l, b)
      PROVE  IInv'
  BY <1>4, SealKeepsIInv
<1>5. ASSUME NEW e \in Effects, NEW r \in Revisions, NEW l \in issued,
             MarkIndeterminate(e, r, l)
      PROVE  IInv'
  BY <1>5, MarkIndeterminateKeepsIInv
<1>6. ASSUME NEW e \in Effects, NEW r \in Revisions, NEW l \in Grants, MarkDelivered(e, r, l)
      PROVE  IInv'
  BY <1>6, MarkDeliveredKeepsIInv
<1>7. CASE UNCHANGED vars
  <2>1. /\ now' = now /\ lease' = lease /\ issued' = issued
        /\ row' = row /\ journal' = journal
    BY <1>7 DEF vars
  <2>2. TypeOK' /\ LeaseInv'
    BY <2>1 DEF IInv, TypeOK, LeaseInv, LeaseTypeOK, IssuedWithinEpoch, EpochNamesOneOwner
  <2>3. \A e \in Effects : JournalInv(e)' /\ LaunchInv(e)'
    BY <2>1 DEF IInv, JournalInv, LaunchInv, Prepared
  <2>4. QED
    BY <2>2, <2>3 DEF IInv
<1>8. QED
  BY <1>1, <1>2, <1>3, <1>4, <1>5, <1>6, <1>7 DEF Next

(***************************************************************************)
(* The inductive invariant holds: rows, journal and lease table agree      *)
(* whatever the callers do.                                                *)
(***************************************************************************)
THEOREM LedgerInvariant == Spec => []IInv
BY InitIInv, NextKeepsIInv, PTL DEF Spec

(* Rows, leases and observations keep their types under any calls. *)
THEOREM TypeCorrect == Spec => []TypeOK
<1>1. IInv => TypeOK
  BY DEF IInv
<1>2. QED
  BY <1>1, LedgerInvariant, PTL

(* An epoch of a lease names one owner for ever. *)
THEOREM EpochsFence == Spec => []EpochNamesOneOwner
<1>1. IInv => EpochNamesOneOwner
  BY DEF IInv, LeaseInv
<1>2. QED
  BY <1>1, LedgerInvariant, PTL

(* No race of callers records a second outcome. *)
THEOREM SingleOutcome == Spec => []OneOutcome
<1>1. IInv => OneOutcome
  <2> SUFFICES ASSUME IInv, NEW o \in journal, NEW q \in journal,
                      o.effect = q.effect, o.result # None, q.result # None
               PROVE  o = q
    BY DEF OneOutcome
  <2>1. /\ o.effect \in Effects /\ o.revision \in Nat
        /\ q.effect \in Effects /\ q.revision \in Nat
    BY DEF IInv, TypeOK, Observation
  <2>2. JournalInv(o.effect)
    BY <2>1 DEF IInv
  <2>3. /\ o.phase \in Deciding /\ q.phase \in Deciding
        /\ o.revision < q.revision => Rank(o.phase) < Rank(q.phase)
        /\ q.revision < o.revision => Rank(q.phase) < Rank(o.phase)
        /\ o.revision = q.revision => o = q
    BY <2>2 DEF JournalInv
  <2>4. Rank(o.phase) = 3 /\ Rank(q.phase) = 3
    BY <2>3, RankValues DEF Deciding
  <2>5. QED
    BY <2>1, <2>3, <2>4
<1>2. QED
  BY <1>1, LedgerInvariant, PTL

(* The journal tells the whole story of every row. *)
THEOREM JournalFaithful == Spec => []JournalMatchesRow
<1>1. IInv => JournalMatchesRow
  <2> SUFFICES ASSUME IInv, NEW e \in Effects
               PROVE  LET story == {o \in journal : o.effect = e} IN
                      /\ ~Prepared(e) => story = {}
                      /\ Prepared(e) =>
                           /\ {o.revision : o \in story} = 1 .. row[e].revision
                           /\ row[e].revision \in Revisions
                           /\ \A o, q \in story : o.revision < q.revision => Rank(o.phase) < Rank(q.phase)
                           /\ \A o, q \in story : o.revision = q.revision => o = q
                           /\ \A o \in story : o.revision = row[e].revision => o.phase = row[e].phase
    BY DEF JournalMatchesRow
  <2> DEFINE story == {o \in journal : o.effect = e}
  <2>1. JournalInv(e)
    BY DEF IInv
  <2>2. ~Prepared(e) => story = {}
    BY <2>1 DEF JournalInv
  <2>3. ASSUME Prepared(e)
        PROVE  /\ row[e].revision \in Nat
               /\ row[e].phase \in Phases
    BY <2>3 DEF IInv, TypeOK, Prepared, Row
  <2>4. Prepared(e) => row[e].revision \in Revisions
    BY <2>1, <2>3, RankType DEF JournalInv, Revisions
  <2>5. Prepared(e) => {o.revision : o \in story} = 1 .. row[e].revision
    BY <2>1, <2>3 DEF JournalInv
  <2>6. QED
    BY <2>1, <2>2, <2>4, <2>5 DEF JournalInv
<1>2. QED
  BY <1>1, LedgerInvariant, PTL

(* An effect has an outcome exactly when its phase says so. *)
THEOREM OutcomeMatchesPhase == Spec => []OutcomeIffTerminal
<1>1. IInv => OutcomeIffTerminal
  <2> SUFFICES ASSUME IInv, NEW e \in Effects
               PROVE  row[e].phase \in Terminal <=> ResultsOf(e) # {}
    BY DEF OutcomeIffTerminal
  <2>1. JournalInv(e)
    BY DEF IInv
  <2>2. ASSUME row[e].phase \in Terminal PROVE ResultsOf(e) # {}
    <3>1. Prepared(e)
      BY <2>2 DEF Prepared, NoRow, Terminal, None
    <3>2. PICK o \in journal : o.effect = e /\ o.phase \in Deciding
      BY <2>1, <2>2, <3>1 DEF JournalInv
    <3>3. o.result # None
      BY <2>1, <3>2 DEF JournalInv
    <3>4. QED
      BY <3>2, <3>3 DEF ResultsOf
  <2>3. ASSUME ResultsOf(e) # {} PROVE row[e].phase \in Terminal
    <3>1. PICK o \in journal : o.effect = e /\ o.result # None
      BY <2>3 DEF ResultsOf
    <3>2. /\ Prepared(e) /\ o.phase \in Deciding
          /\ Rank(o.phase) <= Rank(row[e].phase)
      BY <2>1, <3>1 DEF JournalInv
    <3>3. Rank(o.phase) = 3
      BY <3>2, RankValues DEF Deciding
    <3>4. row[e].phase \in Phases
      BY <3>2 DEF IInv, TypeOK, Prepared, Row
    <3>5. \A p \in Phases : 3 <= Rank(p) => p \in Terminal
      BY RankValues DEF Phases, Terminal
    <3>6. QED
      BY <3>2, <3>3, <3>4, <3>5
  <2>4. QED
    BY <2>2, <2>3
<1>2. QED
  BY <1>1, LedgerInvariant, PTL

(* An outcome other than a pre-launch error needs a recorded launch. *)
THEOREM LaunchBeforeOutcome == Spec => []OutcomeNeedsLaunch
<1>1. IInv => OutcomeNeedsLaunch
  <2> SUFFICES ASSUME IInv, NEW e \in Effects, NEW r \in ResultsOf(e)
               PROVE  \/ row[e].launch
                      \/ row[e].facts.kind \in {"managed", "publish"} /\ r \in PrelaunchErrors
                      \/ row[e].facts.kind \in {"manual", "scope", "accept"} /\ r # Indeterminate
    BY DEF OutcomeNeedsLaunch
  <2>1. PICK o \in journal : o.effect = e /\ o.result = r /\ r # None
    BY DEF ResultsOf
  <2>2. JournalInv(e) /\ LaunchInv(e)
    BY DEF IInv
  <2>3. Prepared(e)
    BY <2>1, <2>2 DEF JournalInv
  <2>4. row[e].facts.kind \in Kinds
    BY <2>3 DEF IInv, TypeOK, Prepared, Row, ValidFacts, Facts
  <2>5. QED
    BY <2>1, <2>2, <2>3, <2>4 DEF LaunchInv, Launchable, Kinds
<1>2. QED
  BY <1>1, LedgerInvariant, PTL

(***************************************************************************)
(* Whatever its callers race, the ledger stays coherent: its rows, leases  *)
(* and journal agree in all of the six ways proved above, at every moment. *)
(***************************************************************************)
THEOREM LedgerCoherent == Spec => []LedgerIsCoherent
<1>1. TypeOK /\ EpochNamesOneOwner /\ JournalMatchesRow /\ OneOutcome
      /\ OutcomeIffTerminal /\ OutcomeNeedsLaunch => LedgerIsCoherent
  BY DEF LedgerIsCoherent
<1> QED
  BY <1>1, TypeCorrect, EpochsFence, SingleOutcome, JournalFaithful,
     OutcomeMatchesPhase, LaunchBeforeOutcome, PTL

(***************************************************************************)
(* Which row a transition of the ledger writes, and under which lease.     *)
(***************************************************************************)
LEMMA TransitionWrites ==
  ASSUME IInv, Next, NEW e \in Effects, Prepared(e), row'[e] # row[e]
  PROVE  \E target \in Phases, l \in Grants : \E launch, result :
           /\ Advance(e, target, l, launch, result)
           /\ l # NoGrant => LiveLease(e, l)
           /\ row[e].phase \in Active => l # NoGrant
<1> DEFINE Goal == \E target \in Phases, l \in Grants : \E launch, result :
                     /\ Advance(e, target, l, launch, result)
                     /\ l # NoGrant => LiveLease(e, l)
                     /\ row[e].phase \in Active => l # NoGrant
<1>1. row \in [Effects -> Row \cup {NoRow}] /\ issued \subseteq Grants
  BY DEF IInv, TypeOK, Grants
<1>2. ASSUME NEW d \in Effects, NEW x, row' = [row EXCEPT ![d] = x] PROVE d = e
  BY <1>1, <1>2
<1>3. ~(LeaseNext /\ UNCHANGED ledgerVars)
  BY DEF ledgerVars
<1>4. ASSUME NEW d \in Effects, NEW f \in ValidFacts, NEW l \in Grants, Prepare(d, f, l)
      PROVE  FALSE
  BY <1>2, <1>4 DEF Prepare
<1>5. ASSUME NEW d \in Effects, NEW r \in Revisions, NEW l \in issued, NEW b \in Bindings,
             MarkLaunching(d, r, l, b) \/ MarkRunning(d, r, l, b)
      PROVE  Goal
  <2>1. d = e
    BY <1>2, <1>5 DEF MarkLaunching, MarkRunning, Advance
  <2>2. CASE MarkLaunching(d, r, l, b)
    BY <2>1, <2>2, <1>1 DEF MarkLaunching, Edge, LeaseRequired, Phases
  <2>3. CASE MarkRunning(d, r, l, b)
    BY <2>1, <2>3, <1>1 DEF MarkRunning, Edge, LeaseRequired, Phases
  <2>4. QED
    BY <1>5, <2>2, <2>3
<1>6. ASSUME NEW d \in Effects, NEW r \in Revisions, NEW l \in Grants,
             NEW b \in Bindings \cup {None}, NEW res \in Results, Seal(d, res, r, l, b)
      PROVE  Goal
  <2>1. d = e
    BY <1>2, <1>6 DEF Seal, Advance
  <2>2. QED
    BY <2>1, <1>6 DEF Seal, Edge, LeaseRequired, Phases
<1>7. ASSUME NEW d \in Effects, NEW r \in Revisions, NEW l \in issued,
             MarkIndeterminate(d, r, l)
      PROVE  Goal
  <2>1. d = e
    BY <1>2, <1>7 DEF MarkIndeterminate, Advance
  <2>2. QED
    BY <2>1, <1>1, <1>7 DEF MarkIndeterminate, Edge, LeaseRequired, Phases
<1>8. ASSUME NEW d \in Effects, NEW r \in Revisions, NEW l \in Grants, MarkDelivered(d, r, l)
      PROVE  Goal
  <2>1. d = e
    BY <1>2, <1>8 DEF MarkDelivered, Advance
  <2>2. row[e].phase \notin Active
    BY <2>1, <1>8 DEF MarkDelivered, Edge, Active
  <2>3. QED
    BY <2>1, <2>2, <1>8 DEF MarkDelivered, Edge, Phases
<1>9. QED
  BY <1>3, <1>4, <1>5, <1>6, <1>7, <1>8 DEF Next

(* Only the holder of the current epoch writes to a launched effect, and   *)
(* no write goes back to an older epoch.                                   *)
THEOREM Fencing == Spec => StaleHolderCannotWrite
<1>1. ASSUME IInv, [Next]_vars, NEW e \in Effects, Prepared(e), row'[e] # row[e]
      PROVE  /\ row'[e].lease_epoch >= row[e].lease_epoch
             /\ row[e].phase \in Active => row'[e].lease_epoch = lease[e].epoch
  <2>1. Next
    BY <1>1 DEF vars
  <2>2. PICK target \in Phases, l \in Grants : \E launch, result :
           /\ Advance(e, target, l, launch, result)
           /\ l # NoGrant => LiveLease(e, l)
           /\ row[e].phase \in Active => l # NoGrant
    BY <1>1, <2>1, TransitionWrites
  <2>3. row'[e].lease_epoch = IF l = NoGrant THEN row[e].lease_epoch ELSE l.epoch
    <3>1. row \in [Effects -> Row \cup {NoRow}]
      BY <1>1 DEF IInv, TypeOK
    <3>2. QED
      BY <2>2, <3>1 DEF Advance
  <2>4. l # NoGrant => l.epoch = lease[e].epoch
    BY <2>2 DEF LiveLease, IsCurrent
  <2>5. row[e].lease_epoch \in Int /\ row[e].lease_epoch <= lease[e].epoch
    BY <1>1 DEF IInv, TypeOK, Row, Prepared, LaunchInv
  <2>6. lease[e].epoch \in Int
    <3>1. lease \in [Keys -> LeaseRow \cup {NoLease}] /\ e \in Keys
      BY <1>1, EffectsAssumption DEF IInv, TypeOK, LeaseTypeOK
    <3>2. QED
      BY <3>1, LeaseAssumption DEF LeaseRow, NoLease
  <2>7. QED
    BY <2>2, <2>3, <2>4, <2>5, <2>6
<1>2. IInv /\ [Next]_vars =>
        [\A e \in Effects : Prepared(e) /\ row'[e] # row[e] =>
           /\ row'[e].lease_epoch >= row[e].lease_epoch
           /\ row[e].phase \in Active => row'[e].lease_epoch = lease[e].epoch]_vars
  BY <1>1
<1>3. QED
  BY <1>2, LedgerInvariant, PTL DEF Spec, StaleHolderCannotWrite

(***************************************************************************)
(* No step removes an observation.                                         *)
(***************************************************************************)
LEMMA JournalGrows == [Next]_vars => journal \subseteq journal'
<1> SUFFICES ASSUME [Next]_vars PROVE journal \subseteq journal'
  OBVIOUS
<1>1. ASSUME NEW e, NEW target, NEW l, NEW launch, NEW result,
             Advance(e, target, l, launch, result)
      PROVE  journal \subseteq journal'
  BY <1>1 DEF Advance
<1>2. CASE UNCHANGED vars
  BY <1>2 DEF vars
<1>3. CASE Next
  BY <1>1, <1>3 DEF Next, ledgerVars, Prepare, MarkLaunching, MarkRunning, Seal,
                    MarkIndeterminate, MarkDelivered
<1>4. QED
  BY <1>2, <1>3

(* The outcome an effect has is the outcome it keeps. *)
THEOREM FinalOutcome == Spec => OutcomeIsFinal
<1>1. ASSUME OneOutcome', [Next]_vars, NEW e \in Effects, ResultsOf(e) # {}
      PROVE  ResultsOf(e)' = ResultsOf(e)
  <2>1. ResultsOf(e) \subseteq ResultsOf(e)'
    BY <1>1, JournalGrows DEF ResultsOf
  <2>2. \A r, q \in ResultsOf(e)' : r = q
    BY <1>1 DEF OneOutcome, ResultsOf
  <2>3. QED
    BY <1>1, <2>1, <2>2
<1>2. OneOutcome' /\ [Next]_vars =>
        [\A e \in Effects : ResultsOf(e) # {} => ResultsOf(e)' = ResultsOf(e)]_vars
  BY <1>1
<1>3. QED
  BY <1>2, SingleOutcome, PTL DEF Spec, OutcomeIsFinal

(***************************************************************************)
(* Refinement.  What a transition of one effect does to the four things    *)
(* EffectPromise sees.                                                     *)
(***************************************************************************)
LEMMA OutcomeValue ==
  IInv => \A e \in Effects : \A r \in ResultsOf(e) : OutcomeOf(e) = r /\ r \in Results
<1> SUFFICES ASSUME IInv, NEW e \in Effects, NEW r \in ResultsOf(e)
             PROVE  OutcomeOf(e) = r /\ r \in Results
  OBVIOUS
<1>1. r \in Results /\ r # None
  BY DEF ResultsOf, IInv, TypeOK, Observation
<1>2. OneOutcome
  <2> SUFFICES ASSUME NEW o \in journal, NEW q \in journal,
                      o.effect = q.effect, o.result # None, q.result # None
               PROVE  o = q
    BY DEF OneOutcome
  <2>1. /\ o.effect \in Effects /\ o.revision \in Nat
        /\ q.effect \in Effects /\ q.revision \in Nat
    BY DEF IInv, TypeOK, Observation
  <2>2. JournalInv(o.effect)
    BY <2>1 DEF IInv
  <2>3. /\ o.phase \in Deciding /\ q.phase \in Deciding
        /\ o.revision < q.revision => Rank(o.phase) < Rank(q.phase)
        /\ q.revision < o.revision => Rank(q.phase) < Rank(o.phase)
        /\ o.revision = q.revision => o = q
    BY <2>2 DEF JournalInv
  <2>4. Rank(o.phase) = 3 /\ Rank(q.phase) = 3
    BY <2>3, RankValues DEF Deciding
  <2>5. QED
    BY <2>1, <2>3, <2>4
<1>3. \A q \in ResultsOf(e) : q = r
  BY <1>2 DEF OneOutcome, ResultsOf
<1>4. QED
  BY <1>1, <1>3 DEF OutcomeOf, OutcomeIn

LEMMA OutcomeValueNext ==
  (IInv => \A e \in Effects : \A r \in ResultsOf(e) : OutcomeOf(e) = r /\ r \in Results)'
BY OutcomeValue, PTL

LEMMA UndecidedHasNoResult ==
  ASSUME IInv, NEW e \in Effects, row[e].phase \notin Terminal
  PROVE  ResultsOf(e) = {} /\ OutcomeOf(e) = None /\ ~DeliveredOf(e)
<1>1. JournalInv(e)
  BY DEF IInv
<1>2. ASSUME NEW o \in journal, o.effect = e, o.result # None PROVE FALSE
  <2>1. /\ Prepared(e) /\ o.phase \in Deciding
        /\ Rank(o.phase) <= Rank(row[e].phase)
    BY <1>1, <1>2 DEF JournalInv
  <2>2. row[e].phase \in Phases
    BY <2>1 DEF IInv, TypeOK, Prepared, Row
  <2>3. Rank(o.phase) = 3
    BY <2>1, RankValues DEF Deciding
  <2>4. \A p \in Phases : 3 <= Rank(p) => p \in Terminal
    BY RankValues DEF Phases, Terminal
  <2>5. QED
    BY <2>1, <2>2, <2>3, <2>4
<1>3. QED
  BY <1>2 DEF ResultsOf, OutcomeOf, OutcomeIn, DeliveredOf, Terminal

LEMMA AdvanceSeen ==
  ASSUME IInv, IInv', NEW e \in Effects, NEW target \in Phases, NEW l, NEW launch \in BOOLEAN,
         NEW result \in Results \cup {None}, Prepared(e), Advance(e, target, l, launch, result)
  PROVE  /\ \A d \in Effects \ {e} :
              /\ KindOf(d)' = KindOf(d) /\ LaunchedOf(d)' = LaunchedOf(d)
              /\ OutcomeOf(d)' = OutcomeOf(d) /\ DeliveredOf(d)' = DeliveredOf(d)
         /\ KindOf(e)' = KindOf(e)
         /\ LaunchedOf(e)' = launch
         /\ OutcomeOf(e)' = IF result = None THEN OutcomeOf(e) ELSE result
         /\ DeliveredOf(e)' = (target = "delivered")
<1> DEFINE obs == [effect |-> e, revision |-> row[e].revision + 1,
                   phase |-> target, result |-> result]
<1>1. row \in [Effects -> Row \cup {NoRow}] /\ row[e] \in Row
  BY DEF IInv, TypeOK, Prepared
<1>2. /\ row'[e].facts = row[e].facts
      /\ row'[e].phase = target
      /\ row'[e].launch = launch
      /\ journal' = journal \cup {obs}
  BY <1>1 DEF Advance
<1>3. Prepared(e)'
  BY <1>2 DEF Prepared, NoRow, Phases, None
<1>4. KindOf(e)' = KindOf(e) /\ DeliveredOf(e)' = (target = "delivered")
  BY <1>2, <1>3 DEF KindOf, DeliveredOf
<1>5. LaunchedOf(e)' = launch
  BY <1>2, <1>3 DEF LaunchedOf
<1>6. ResultsOf(e)' = ResultsOf(e) \cup ({result} \ {None})
  <2>1. obs.effect = e /\ obs.result = result
    OBVIOUS
  <2>2. \A o : o \in journal' <=> o \in journal \/ o = obs
    BY <1>2
  <2> HIDE DEF obs
  <2>3. ASSUME NEW r \in ResultsOf(e)' PROVE r \in ResultsOf(e) \cup ({result} \ {None})
    <3>1. PICK o \in journal' : o.effect = e /\ o.result = r /\ r # None
      BY <2>3 DEF ResultsOf
    <3>2. QED
      BY <2>1, <2>2, <3>1 DEF ResultsOf
  <2>4. ResultsOf(e) \subseteq ResultsOf(e)'
    BY <2>2 DEF ResultsOf
  <2>5. result # None => result \in ResultsOf(e)'
    BY <2>1, <2>2 DEF ResultsOf
  <2>6. QED
    BY <2>3, <2>4, <2>5
<1>7. OutcomeOf(e)' = IF result = None THEN OutcomeOf(e) ELSE result
  <2>1. CASE result = None
    <3>1. ResultsOf(e)' = ResultsOf(e)
      BY <1>6, <2>1
    <3>2. QED
      BY <2>1, <3>1 DEF OutcomeOf
  <2>2. CASE result # None
    <3>1. result \in ResultsOf(e)'
      BY <1>6, <2>2
    <3>2. QED
      BY <2>2, <3>1, OutcomeValueNext
  <2>3. QED
    BY <2>1, <2>2
<1>8. ASSUME NEW d \in Effects \ {e}
      PROVE  /\ KindOf(d)' = KindOf(d) /\ LaunchedOf(d)' = LaunchedOf(d)
             /\ OutcomeOf(d)' = OutcomeOf(d) /\ DeliveredOf(d)' = DeliveredOf(d)
  <2>1. row'[d] = row[d]
    BY <1>1, <1>8 DEF Advance
  <2>2. ResultsOf(d)' = ResultsOf(d)
    BY <1>2, <1>8 DEF ResultsOf
  <2>3. QED
    BY <2>1, <2>2 DEF KindOf, LaunchedOf, OutcomeOf, DeliveredOf, Prepared
<1>9. QED
  BY <1>4, <1>5, <1>7, <1>8

(***************************************************************************)
(* One abstract step per transition that the promise can see.              *)
(***************************************************************************)
SeenVars == << [e \in Effects |-> KindOf(e)], [e \in Effects |-> LaunchedOf(e)],
               [e \in Effects |-> OutcomeOf(e)], [e \in Effects |-> DeliveredOf(e)] >>

LEMMA SameRowsSameView ==
  ASSUME UNCHANGED ledgerVars PROVE UNCHANGED SeenVars
<1>1. row' = row /\ journal' = journal
  BY DEF ledgerVars
<1>2. \A e \in Effects : ResultsOf(e)' = ResultsOf(e)
  BY <1>1 DEF ResultsOf
<1>3. \A e \in Effects : KindOf(e)' = KindOf(e)
  BY <1>1 DEF KindOf, Prepared
<1>4. \A e \in Effects : LaunchedOf(e)' = LaunchedOf(e)
  BY <1>1 DEF LaunchedOf, Prepared
<1>5. \A e \in Effects : OutcomeOf(e)' = OutcomeOf(e)
  BY <1>2 DEF OutcomeOf
<1>6. \A e \in Effects : DeliveredOf(e)' = DeliveredOf(e)
  BY <1>1 DEF DeliveredOf
<1>7. QED
  BY <1>3, <1>4, <1>5, <1>6 DEF SeenVars

LEMMA PrepareOpens ==
  ASSUME IInv, NEW e \in Effects, NEW f \in ValidFacts, NEW l \in Grants, Prepare(e, f, l)
  PROVE  Promise!Open(e, f.kind) /\ f.kind \in Kinds
<1> DEFINE r == [facts |-> f, phase |-> "prepared", revision |-> 0,
                 lease_epoch |-> 0, launch |-> FALSE]
<1>1. /\ row' = [row EXCEPT ![e] = r] /\ journal' = journal /\ ~Prepared(e)
      /\ row \in [Effects -> Row \cup {NoRow}]
  BY DEF Prepare, IInv, TypeOK
<1>2. row'[e] = r /\ \A d \in Effects : d # e => row'[d] = row[d]
  BY <1>1
<1>3. \A d \in Effects : ResultsOf(d)' = ResultsOf(d)
  BY <1>1 DEF ResultsOf
<1>4. KindOf(e) = None /\ KindOf(e)' = f.kind
  BY <1>1, <1>2 DEF KindOf, Prepared, NoRow
<1>5. LaunchedOf(e)' = LaunchedOf(e) /\ DeliveredOf(e)' = DeliveredOf(e)
  BY <1>1, <1>2 DEF LaunchedOf, DeliveredOf, Prepared, NoRow, None
<1>6. \A d \in Effects \ {e} : /\ KindOf(d)' = KindOf(d) /\ LaunchedOf(d)' = LaunchedOf(d)
                               /\ DeliveredOf(d)' = DeliveredOf(d)
  <2>1. \A d \in Effects \ {e} : KindOf(d)' = KindOf(d)
    BY <1>2 DEF KindOf, Prepared
  <2>2. \A d \in Effects \ {e} : LaunchedOf(d)' = LaunchedOf(d)
    BY <1>2 DEF LaunchedOf, Prepared
  <2>3. \A d \in Effects \ {e} : DeliveredOf(d)' = DeliveredOf(d)
    BY <1>2 DEF DeliveredOf
  <2>4. QED
    BY <2>1, <2>2, <2>3
<1>7. \A d \in Effects : OutcomeOf(d)' = OutcomeOf(d)
  BY <1>3 DEF OutcomeOf
<1>8. f.kind \in Kinds
  BY DEF ValidFacts, Facts
<1>9. QED
  BY <1>4, <1>5, <1>6, <1>7, <1>8 DEF Promise!Open

LEMMA MarkLaunchingLaunches ==
  ASSUME IInv, IInv', NEW e \in Effects, NEW r, NEW l \in Grants, NEW b,
         MarkLaunching(e, r, l, b)
  PROVE  Promise!Launch(e)
<1>1. /\ Prepared(e) /\ row[e].phase = "prepared"
      /\ row[e].facts \in ValidFacts
      /\ Advance(e, "launching", l, TRUE, None)
  <2>1. Edge(e, "launching", {"prepared"}, r, l) /\ Advance(e, "launching", l, TRUE, None)
    BY DEF MarkLaunching
  <2>2. "launching" \in Phases
    BY DEF Phases
  <2>3. Prepared(e) /\ row[e].phase \in {"prepared"} /\ row[e].facts \in ValidFacts
    BY <2>1, <2>2, EdgeFacts, Zenon
  <2>4. QED
    BY <2>1, <2>3
<1>2. row[e].facts.kind \in Kinds \ {"scope", "accept"}
  BY <1>1 DEF MarkLaunching, Edge, ValidFacts, Facts, Active
<1>3. OutcomeOf(e) = None
  BY <1>1, UndecidedHasNoResult DEF Terminal
<1>4. /\ \A d \in Effects \ {e} :
           /\ KindOf(d)' = KindOf(d) /\ LaunchedOf(d)' = LaunchedOf(d)
           /\ OutcomeOf(d)' = OutcomeOf(d) /\ DeliveredOf(d)' = DeliveredOf(d)
      /\ KindOf(e)' = KindOf(e) /\ LaunchedOf(e)' = TRUE
      /\ OutcomeOf(e)' = OutcomeOf(e) /\ DeliveredOf(e)' = FALSE
  BY <1>1, AdvanceSeen DEF Phases
<1>5. KindOf(e) = row[e].facts.kind /\ DeliveredOf(e) = FALSE
  BY <1>1 DEF KindOf, DeliveredOf
<1>6. LaunchedOf(e) = FALSE
  BY <1>1 DEF IInv, LaunchInv, LaunchedOf
<1>7. QED
  BY <1>2, <1>3, <1>4, <1>5, <1>6 DEF Promise!Launch, Kinds

LEMMA MarkRunningUnseen ==
  ASSUME IInv, IInv', NEW e \in Effects, NEW r, NEW l \in Grants, NEW b,
         MarkRunning(e, r, l, b)
  PROVE  UNCHANGED SeenVars
<1>1. /\ Prepared(e) /\ row[e].phase = "launching" /\ row[e].launch \in BOOLEAN
      /\ Advance(e, "running", l, row[e].launch, None)
  BY EdgeFacts DEF MarkRunning, Phases
<1>2. /\ \A d \in Effects \ {e} :
           /\ KindOf(d)' = KindOf(d) /\ LaunchedOf(d)' = LaunchedOf(d)
           /\ OutcomeOf(d)' = OutcomeOf(d) /\ DeliveredOf(d)' = DeliveredOf(d)
      /\ KindOf(e)' = KindOf(e) /\ LaunchedOf(e)' = row[e].launch
      /\ OutcomeOf(e)' = OutcomeOf(e) /\ DeliveredOf(e)' = FALSE
  <2>1. "running" \in Phases /\ None \in Results \cup {None}
    BY DEF Phases
  <2>2. /\ \A d \in Effects \ {e} :
             /\ KindOf(d)' = KindOf(d) /\ LaunchedOf(d)' = LaunchedOf(d)
             /\ OutcomeOf(d)' = OutcomeOf(d) /\ DeliveredOf(d)' = DeliveredOf(d)
        /\ KindOf(e)' = KindOf(e)
        /\ LaunchedOf(e)' = row[e].launch
        /\ OutcomeOf(e)' = IF None = None THEN OutcomeOf(e) ELSE None
        /\ DeliveredOf(e)' = ("running" = "delivered")
    BY <1>1, <2>1, AdvanceSeen, ZenonT(30)
  <2>3. QED
    BY <2>2
<1>3. LaunchedOf(e) = row[e].launch /\ DeliveredOf(e) = FALSE
  BY <1>1 DEF LaunchedOf, DeliveredOf
<1>4. QED
  BY <1>2, <1>3 DEF SeenVars

LEMMA SealDecides ==
  ASSUME IInv, IInv', NEW e \in Effects, NEW res \in Results, NEW r, NEW l \in Grants, NEW b,
         Seal(e, res, r, l, b)
  PROVE  Promise!Decide(e, res)
<1>1. /\ Prepared(e) /\ row[e].phase \in {"prepared"} \cup Active
      /\ row[e].phase \in Active => row[e].launch
      /\ row[e].launch \in BOOLEAN /\ row[e].facts \in ValidFacts
  BY EdgeFacts DEF Seal, Phases
<1>2. Advance(e, "sealed", l, row[e].launch, res) /\ res # None
  BY DEF Seal, Results, PrelaunchErrors, Indeterminate, None
<1>3. OutcomeOf(e) = None /\ ~DeliveredOf(e)
  BY <1>1, UndecidedHasNoResult DEF Terminal, Active
<1>4. /\ \A d \in Effects \ {e} :
           /\ KindOf(d)' = KindOf(d) /\ LaunchedOf(d)' = LaunchedOf(d)
           /\ OutcomeOf(d)' = OutcomeOf(d) /\ DeliveredOf(d)' = DeliveredOf(d)
      /\ KindOf(e)' = KindOf(e) /\ LaunchedOf(e)' = row[e].launch
      /\ OutcomeOf(e)' = res /\ DeliveredOf(e)' = FALSE
  BY <1>1, <1>2, AdvanceSeen DEF Phases
<1>5. KindOf(e) = row[e].facts.kind /\ LaunchedOf(e) = row[e].launch /\ DeliveredOf(e) = FALSE
  BY <1>1, <1>3 DEF KindOf, LaunchedOf, DeliveredOf
<1>6. row[e].facts.kind \in Kinds
  BY <1>1 DEF ValidFacts, Facts
<1>7. KindOf(e) # None
  BY <1>5, <1>6 DEF Kinds, None
<1>8. \/ LaunchedOf(e)
      \/ KindOf(e) \in {"manual", "scope", "accept"}
      \/ res \in PrelaunchErrors
  BY <1>1, <1>5, <1>6 DEF Seal, PrelaunchSealAllowed, Kinds
<1>9. QED
  BY <1>3, <1>4, <1>5, <1>7, <1>8 DEF Promise!Decide

LEMMA MarkIndeterminateDecides ==
  ASSUME IInv, IInv', NEW e \in Effects, NEW r, NEW l \in Grants, MarkIndeterminate(e, r, l)
  PROVE  Promise!Decide(e, Indeterminate)
<1>1. /\ Prepared(e) /\ row[e].phase \in Active
      /\ row[e].phase \in Active => row[e].launch
      /\ row[e].launch \in BOOLEAN /\ row[e].facts \in ValidFacts
  BY EdgeFacts DEF MarkIndeterminate, Phases
<1>2. /\ Advance(e, "indeterminate", l, row[e].launch, Indeterminate)
      /\ Indeterminate # None /\ Indeterminate \in Results
  BY DEF MarkIndeterminate, Results, Indeterminate, None
<1>3. OutcomeOf(e) = None
  BY <1>1, UndecidedHasNoResult DEF Terminal, Active
<1>4. /\ \A d \in Effects \ {e} :
           /\ KindOf(d)' = KindOf(d) /\ LaunchedOf(d)' = LaunchedOf(d)
           /\ OutcomeOf(d)' = OutcomeOf(d) /\ DeliveredOf(d)' = DeliveredOf(d)
      /\ KindOf(e)' = KindOf(e) /\ LaunchedOf(e)' = row[e].launch
      /\ OutcomeOf(e)' = Indeterminate /\ DeliveredOf(e)' = FALSE
  BY <1>1, <1>2, AdvanceSeen DEF Phases
<1>5. KindOf(e) = row[e].facts.kind /\ LaunchedOf(e) = row[e].launch /\ DeliveredOf(e) = FALSE
  BY <1>1 DEF KindOf, LaunchedOf, DeliveredOf, Active
<1>6. KindOf(e) # None
  BY <1>1, <1>5 DEF ValidFacts, Facts, Kinds, None
<1>7. QED
  BY <1>1, <1>3, <1>4, <1>5, <1>6 DEF Promise!Decide

LEMMA MarkDeliveredDelivers ==
  ASSUME IInv, IInv', NEW e \in Effects, NEW r, NEW l \in Grants, MarkDelivered(e, r, l)
  PROVE  Promise!Deliver(e)
<1>1. /\ Prepared(e) /\ row[e].phase \in Deciding
      /\ row[e].launch \in BOOLEAN
      /\ Advance(e, "delivered", l, row[e].launch, None)
  BY EdgeFacts DEF MarkDelivered, Phases, Deciding
<1>2. OutcomeOf(e) # None
  <2>1. JournalInv(e)
    BY DEF IInv
  <2>2. PICK o \in journal : o.effect = e /\ o.phase \in Deciding
    BY <1>1, <2>1 DEF JournalInv, Deciding, Terminal
  <2>3. o.result \in ResultsOf(e) /\ o.result # None
    BY <2>1, <2>2 DEF JournalInv, ResultsOf
  <2>4. QED
    BY <2>3, OutcomeValue
<1>3. /\ \A d \in Effects \ {e} :
           /\ KindOf(d)' = KindOf(d) /\ LaunchedOf(d)' = LaunchedOf(d)
           /\ OutcomeOf(d)' = OutcomeOf(d) /\ DeliveredOf(d)' = DeliveredOf(d)
      /\ KindOf(e)' = KindOf(e) /\ LaunchedOf(e)' = row[e].launch
      /\ OutcomeOf(e)' = OutcomeOf(e) /\ DeliveredOf(e)' = TRUE
  <2>1. "delivered" \in Phases /\ None \in Results \cup {None}
    BY DEF Phases
  <2>2. /\ \A d \in Effects \ {e} :
             /\ KindOf(d)' = KindOf(d) /\ LaunchedOf(d)' = LaunchedOf(d)
             /\ OutcomeOf(d)' = OutcomeOf(d) /\ DeliveredOf(d)' = DeliveredOf(d)
        /\ KindOf(e)' = KindOf(e)
        /\ LaunchedOf(e)' = row[e].launch
        /\ OutcomeOf(e)' = IF None = None THEN OutcomeOf(e) ELSE None
        /\ DeliveredOf(e)' = ("delivered" = "delivered")
    BY <1>1, <2>1, AdvanceSeen, ZenonT(30)
  <2>3. QED
    BY <2>2
<1>4. LaunchedOf(e) = row[e].launch /\ DeliveredOf(e) = FALSE
  BY <1>1 DEF LaunchedOf, DeliveredOf, Deciding
<1>5. QED
  BY <1>2, <1>3, <1>4 DEF Promise!Deliver

LEMMA StepKeepsPromise ==
  ASSUME IInv, IInv', [Next]_vars PROVE Promise!Next \/ UNCHANGED SeenVars
<1> issued \subseteq Grants
  BY DEF Grants
<1>1. CASE LeaseNext /\ UNCHANGED ledgerVars
  BY <1>1, SameRowsSameView
<1>2. ASSUME NEW e \in Effects, NEW f \in ValidFacts, NEW l \in Grants, Prepare(e, f, l)
      PROVE  Promise!Next
  BY <1>2, PrepareOpens DEF Promise!Next
<1>3. ASSUME NEW e \in Effects, NEW r \in Revisions, NEW l \in issued, NEW b \in Bindings,
             MarkLaunching(e, r, l, b)
      PROVE  Promise!Next
  BY <1>3, MarkLaunchingLaunches DEF Promise!Next
<1>4. ASSUME NEW e \in Effects, NEW r \in Revisions, NEW l \in issued, NEW b \in Bindings,
             MarkRunning(e, r, l, b)
      PROVE  UNCHANGED SeenVars
  BY <1>4, MarkRunningUnseen
<1>5. ASSUME NEW e \in Effects, NEW r \in Revisions, NEW l \in Grants,
             NEW b \in Bindings \cup {None}, NEW res \in Results, Seal(e, res, r, l, b)
      PROVE  Promise!Next
  BY <1>5, SealDecides DEF Promise!Next
<1>6. ASSUME NEW e \in Effects, NEW r \in Revisions, NEW l \in issued,
             MarkIndeterminate(e, r, l)
      PROVE  Promise!Next
  BY <1>6, MarkIndeterminateDecides DEF Promise!Next, Results
<1>7. ASSUME NEW e \in Effects, NEW r \in Revisions, NEW l \in Grants, MarkDelivered(e, r, l)
      PROVE  Promise!Next
  BY <1>7, MarkDeliveredDelivers DEF Promise!Next
<1>8. CASE UNCHANGED vars
  BY <1>8, SameRowsSameView DEF vars, ledgerVars
<1>9. QED
  BY <1>1, <1>2, <1>3, <1>4, <1>5, <1>6, <1>7, <1>8 DEF Next

LEMMA InitKeepsPromise == Init => Promise!Init
<1> SUFFICES ASSUME Init PROVE Promise!Init
  OBVIOUS
<1>1. \A e \in Effects : row[e] = NoRow /\ ResultsOf(e) = {}
  BY DEF Init, ResultsOf
<1>2. \A e \in Effects : /\ KindOf(e) = None /\ LaunchedOf(e) = FALSE
                         /\ OutcomeOf(e) = None /\ DeliveredOf(e) = FALSE
  BY <1>1 DEF KindOf, LaunchedOf, OutcomeOf, OutcomeIn, DeliveredOf, Prepared, NoRow, None
<1>3. QED
  BY <1>2 DEF Promise!Init

(* The ledger implements EffectPromise. *)
THEOREM Refinement == Spec => KeepsPromise
<1>1. IInv /\ IInv' /\ [Next]_vars => [Promise!Next]_(Promise!promiseVars)
  BY StepKeepsPromise DEF SeenVars, Promise!promiseVars
<1>2. QED
  BY <1>1, InitKeepsPromise, LedgerInvariant, PTL DEF Spec, KeepsPromise, Promise!Spec
=============================================================================
