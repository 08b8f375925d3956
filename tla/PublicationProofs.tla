---------------------------- MODULE PublicationProofs ----------------------------
(***************************************************************************)
(* Proofs about what is published: by the runs of the engine (Publication),*)
(* for any runs, destinations and plans, any number of revocations, edits  *)
(* and faults, and by the compiler and its installation (Authoring), for   *)
(* any call graph, any number of processes and edits.                      *)
(***************************************************************************)
EXTENDS Publication, Authoring, SequenceTheorems, TLAPS

Writing  == {"journal", "activate"}
Applying == {"plan", "staged", "swap", "verified"}
Behind   == {"claim", "lease", "recover", "guard", "reguard", "commit", "apply"} \cup Applying

(***************************************************************************)
(* The journals and active.json: who writes them holds the file lock, and  *)
(* nobody it may displace is unfinished; a drive behind that point still   *)
(* finds its journal active, unless it is applied already.                 *)
(***************************************************************************)
JournalInv ==
  /\ \A r \in Runs : pc[r] \in Writing => lock = r /\ ~Blocked(r)
  /\ \A r \in Runs : pc[r] \in Behind \cup {"activate"} => journal[r].phase # "none"
  /\ \A r \in Runs : pc[r] \in Behind => active = r \/ journal[r].phase = "APPLIED"
  /\ \A r \in Runs : pc[r] \in {"recover", "reguard"} => journal[r].phase \in Committed
  /\ \A r \in Runs : pc[r] \in Applying => journal[r].phase = "APPLYING"
  /\ \A r \in Runs : pc[r] = "finish" => journal[r].phase = "APPLIED"
  /\ \A r \in Runs : pc[r] \in {"staged", "swap"} => ~Finished(r)
  /\ ApplyingIsActive

(***************************************************************************)
(* Consent: redemptions are of past and present epochs and have a latest;  *)
(* an acceptance quotes one of them; and whoever is about to move a        *)
(* prepared journal on does so inside its own transaction, in which the    *)
(* authority said yes.                                                     *)
(***************************************************************************)
ConsentInv ==
  /\ \A r \in Runs : \A e \in redeemed[r] : e <= epoch
  /\ \A r \in Runs : redeemed[r] # {} => \E e \in redeemed[r] : \A f \in redeemed[r] : f <= e
  /\ \A r \in Runs : pc[r] = "redeemed" => redeemed[r] # {}
  /\ \A r \in Runs : accept[r].phase # "prepared" => accept[r].epoch \in redeemed[r]
  /\ \A r \in Runs : pc[r] \notin {"idle", "redeemed"} => accept[r].phase = "delivered"
  /\ \A r \in Runs : effect[r] # "none" => accept[r].phase = "delivered"
  /\ \A r \in Runs : effect[r] = "sealed" => journal[r].phase = "APPLIED"
  /\ \A r \in Runs : pc[r] = "apply" /\ journal[r].phase = "PREPARED" => tx = r /\ Authorised(r)

(***************************************************************************)
(* The files: what the last look before a replacement, and before the      *)
(* final phase, found is still so except for outside edits.                *)
(***************************************************************************)
FilesInv ==
  /\ \A r \in Runs : pc[r] = "swap" =>
       disk[Target(r)] = journal[r].before[Target(r)] \/ Target(r) \in dirty
  /\ \A r \in Runs : pc[r] = "verified" =>
       \A p \in TargetsOf(r) : disk[p] = r \/ p \in dirty

IInv == TypeOK /\ JournalInv /\ ConsentInv /\ FilesInv
-----------------------------------------------------------------------------
(* Types *)

LEMMA PlanLengths == TypeOK => \A r \in Runs : Len(targets[r]) \in Nat
BY PublicationAssumption DEF TypeOK

LEMMA JournalParts ==
  ASSUME NEW j \in Journals
  PROVE  j.phase \in Phases /\ j.cursor \in Nat /\ j.before \in [Paths -> Contents]
BY DEF Journals

(* A journal stays one when its phase or its cursor moves.                 *)
LEMMA JournalPhase ==
  ASSUME NEW j \in Journals, NEW ph \in Phases
  PROVE  [j EXCEPT !.phase = ph] \in Journals /\ [j EXCEPT !.phase = ph].cursor = j.cursor
BY DEF Journals

LEMMA JournalCursor ==
  ASSUME NEW j \in Journals, NEW n \in Nat
  PROVE  [j EXCEPT !.cursor = n] \in Journals /\ [j EXCEPT !.cursor = n].cursor = n
BY DEF Journals

LEMMA JournalStart ==
  ASSUME NEW j \in Journals, NEW ph \in Phases, NEW n \in Nat
  PROVE  /\ [j EXCEPT !.phase = ph, !.cursor = n] \in Journals
         /\ [j EXCEPT !.phase = ph, !.cursor = n].cursor = n
BY DEF Journals

LEMMA AcceptDelivered ==
  ASSUME NEW a \in AcceptRows
  PROVE  [a EXCEPT !.phase = "delivered"] \in AcceptRows
BY DEF AcceptRows

(* What the drive writes to its journal.                                   *)
LEMMA JournalMoves ==
  ASSUME TypeOK, NEW r \in Runs,
         WriteJournal(r) \/ BeginApply(r) \/ AdvanceCursor(r) \/ StoreApplied(r)
  PROVE  /\ journal' \in [Runs -> Journals]
         /\ \A s \in Runs : journal'[s].cursor <= Len(targets[s])
<1> USE DEF TypeOK, Phases
<1>1. Len(targets[r]) \in Nat
  BY PlanLengths
<1>2. journal[r] \in Journals /\ journal[r].cursor \in Nat
  BY JournalParts
<1>3. CASE WriteJournal(r)
  <2> DEFINE j == [phase |-> "PREPARED", cursor |-> 0, before |-> disk]
  <2>1. j \in Journals
    BY DEF Journals
  <2> QED
    BY <1>1, <1>3, <2>1 DEF WriteJournal
<1>4. CASE BeginApply(r)
  <2> DEFINE j == [journal[r] EXCEPT !.phase = "APPLYING", !.cursor = 0]
  <2>1. j \in Journals /\ j.cursor = 0
    BY <1>2, JournalStart
  <2>2. journal' = journal \/ journal' = [journal EXCEPT ![r] = j]
    BY <1>4 DEF BeginApply
  <2> HIDE DEF j
  <2> QED
    BY <1>1, <2>1, <2>2
<1>5. CASE AdvanceCursor(r)
  <2> DEFINE j == [journal[r] EXCEPT !.cursor = journal[r].cursor + 1]
  <2>1. j \in Journals /\ j.cursor = journal[r].cursor + 1
    <3>1. journal[r].cursor + 1 \in Nat
      BY <1>2
    <3> QED
      BY <1>2, <3>1, JournalCursor
  <2>2. journal' = [journal EXCEPT ![r] = j] /\ journal[r].cursor < Len(targets[r])
    BY <1>1, <1>2, <1>5 DEF AdvanceCursor, Finished
  <2> QED
    BY <1>1, <1>2, <2>1, <2>2
<1>6. CASE StoreApplied(r)
  <2> DEFINE j == [journal[r] EXCEPT !.phase = "APPLIED"]
  <2>1. j \in Journals /\ j.cursor = journal[r].cursor
    BY <1>2, JournalPhase
  <2>2. journal' = [journal EXCEPT ![r] = j]
    BY <1>6 DEF StoreApplied
  <2> QED
    BY <2>1, <2>2
<1> QED
  BY <1>3, <1>4, <1>5, <1>6

(* The receipt the seal quotes is the latest there is.                     *)
LEMMA LatestRedeemed ==
  ASSUME IInv, NEW r \in Runs, pc[r] = "redeemed"
  PROVE  LET latest == CHOOSE e \in redeemed[r] : \A f \in redeemed[r] : f <= e
         IN  latest \in redeemed[r] /\ latest \in 1..MaxEpoch
<1>1. redeemed[r] \subseteq 1..MaxEpoch
  BY DEF IInv, TypeOK
<1>2. \E e \in redeemed[r] : \A f \in redeemed[r] : f <= e
  BY DEF IInv, ConsentInv
<1> QED
  BY <1>1, <1>2

LEMMA StepTypes ==
  ASSUME IInv, TypeOK, [Next]_vars
  PROVE  TypeOK'
<1> USE PublicationAssumption DEF TypeOK, Goto, Steps, Contents, state, owner
<1>1. ASSUME NEW r \in Runs, OwnerStep(r) \/ DriveStep(r) \/ StaleSeal(r) \/ Crash(r) PROVE TypeOK'
  <2>1. CASE Issue(r)
    BY <2>1 DEF Issue
  <2>2. CASE Redeem(r)
    BY <2>2 DEF Redeem
  <2>3. CASE SealAcceptance(r)
    <3> DEFINE latest == CHOOSE e \in redeemed[r] : \A f \in redeemed[r] : f <= e
               a == [phase |-> "sealed", epoch |-> latest]
    <3>1. latest \in 1..MaxEpoch
      BY LatestRedeemed, <2>3 DEF SealAcceptance
    <3>2. accept' = accept \/ accept' = [accept EXCEPT ![r] = a]
      BY <2>3 DEF SealAcceptance
    <3> HIDE DEF latest
    <3>3. a \in AcceptRows
      BY <3>1 DEF AcceptRows
    <3>4. pc' \in [Runs -> Steps] /\ UNCHANGED <<state, epoch, redeemed, issued, effect, tx, dirty, edits, faults>>
      BY <2>3 DEF SealAcceptance
    <3> HIDE DEF a
    <3>5. accept' \in [Runs -> AcceptRows]
      BY <3>2, <3>3
    <3> QED
      BY <3>4, <3>5
  <2>4. CASE DeliverAcceptance(r)
    <3>1. accept' \in [Runs -> AcceptRows]
      BY <2>4, AcceptDelivered DEF DeliverAcceptance
    <3> QED
      BY <2>4, <3>1 DEF DeliverAcceptance
  <2>5. CASE Recover(r)
    BY <2>5 DEF Recover, Attempting, Recovering, ActiveJournalCommitted
  <2>6. CASE Denied(r)
    BY <2>6 DEF Denied, Deny, Attempting
  <2>7. CASE PrepareEffect(r)
    BY <2>7 DEF PrepareEffect, Attempting
  <2>8. CASE Resolve(r)
    BY <2>8 DEF Resolve, Attempting
  <2>9. CASE PrepareConflict(r)
    BY <2>9 DEF PrepareConflict, Leave
  <2>10. CASE PrepareLocked(r)
    BY <2>10 DEF PrepareLocked
  <2>11. CASE WriteJournal(r)
    BY <2>11, JournalMoves DEF WriteJournal
  <2>12. CASE WriteActive(r)
    BY <2>12 DEF WriteActive
  <2>13. CASE Claim(r)
    BY <2>13 DEF Claim
  <2>14. CASE AcquireLease(r)
    BY <2>14 DEF AcquireLease, Leave
  <2>15. CASE Guard(r)
    BY <2>15 DEF Guard, Leave
  <2>16. CASE Commitment(r)
    BY <2>16 DEF Commitment, Deny
  <2>17. CASE BeginApply(r)
    BY <2>17, JournalMoves DEF BeginApply
  <2>18. CASE ReplayApplied(r)
    BY <2>18 DEF ReplayApplied, Leave
  <2>19. CASE AdvanceCursor(r)
    BY <2>19, JournalMoves DEF AdvanceCursor, Leave
  <2>20. CASE DestinationChanged(r)
    BY <2>20 DEF DestinationChanged, Leave
  <2>21. CASE Stage(r)
    BY <2>21 DEF Stage
  <2>22. CASE Recheck(r)
    BY <2>22 DEF Recheck
  <2>23. CASE Swap(r)
    BY <2>23 DEF Swap, Leave
  <2>24. CASE VerifyPlan(r)
    BY <2>24 DEF VerifyPlan, Leave
  <2>25. CASE StoreApplied(r)
    BY <2>25, JournalMoves DEF StoreApplied
  <2>26. CASE Seal(r)
    BY <2>26 DEF Seal, Leave
  <2>27. CASE StaleSeal(r)
    BY <2>27 DEF StaleSeal, Leave
  <2>28. CASE Crash(r)
    <3>1. faults' \in 0..MaxFaults
      BY <2>28 DEF Crash
    <3>2. lock' \in Runs \cup {None} /\ tx' \in Runs \cup {None}
      BY <2>28 DEF Crash
    <3> QED
      BY <2>28, <3>1, <3>2 DEF Crash
  <2> QED
    BY <1>1, <2>1, <2>2, <2>3, <2>4, <2>5, <2>6, <2>7, <2>8, <2>9, <2>10, <2>11, <2>12, <2>13, <2>14, <2>15, <2>16, <2>17, <2>18, <2>19, <2>20, <2>21, <2>22, <2>23, <2>24, <2>25, <2>26, <2>27, <2>28
    DEF OwnerStep, DriveStep
<1>2. ASSUME NEW p \in Paths, Edit(p) PROVE TypeOK'
  <2>1. dirty' \subseteq Paths /\ edits' \in 0..MaxEdits
    BY <1>2 DEF Edit
  <2>2. disk' \in [Paths -> Contents]
    BY <1>2 DEF Edit
  <2> QED
    BY <1>2, <2>1, <2>2 DEF Edit
<1>3. CASE Revoke
  BY <1>3 DEF Revoke
<1>4. CASE Lapse
  <2>1. faults' \in 0..MaxFaults
    BY <1>4 DEF Lapse, Leased
  <2> QED
    BY <1>4, <2>1 DEF Lapse
<1>5. CASE UNCHANGED vars
  BY <1>5 DEF vars
<1> QED
  BY <1>1, <1>2, <1>3, <1>4, <1>5 DEF Next

-----------------------------------------------------------------------------
(* The journals *)

(* The journals of the other runs are left alone, and the plan of one's    *)
(* own is never replaced by another preimage.                              *)
LEMMA JournalChange ==
  ASSUME TypeOK, NEW r \in Runs
  PROVE  /\ WriteJournal(r) => /\ journal[r].phase = "none" => journal'[r].phase = "PREPARED"
                               /\ journal[r].phase # "none" => journal' = journal
         /\ BeginApply(r) => /\ journal[r].phase = "PREPARED" => journal'[r].phase = "APPLYING"
                             /\ journal[r].phase # "PREPARED" => journal' = journal
         /\ AdvanceCursor(r) => journal'[r].phase = journal[r].phase
         /\ StoreApplied(r) => journal'[r].phase = "APPLIED"
         /\ WriteJournal(r) \/ BeginApply(r) \/ AdvanceCursor(r) \/ StoreApplied(r) =>
              \A s \in Runs : s # r => journal'[s] = journal[s]
<1>1. journal \in [Runs -> Journals] /\ journal[r] \in [phase : Phases, cursor : Nat, before : [Paths -> Contents]]
  BY DEF TypeOK, Journals
<1> QED
  BY <1>1 DEF WriteJournal, BeginApply, AdvanceCursor, StoreApplied

(* Only one journal applies at a time: the active one.                     *)
LEMMA SoleApplier ==
  ASSUME JournalInv, NEW r \in Runs, NEW s \in Runs,
         journal[r].phase = "APPLYING", journal[s].phase = "APPLYING"
  PROVE  r = s
BY DEF JournalInv, ApplyingIsActive


LEMMA StepJournal ==
  ASSUME IInv, [Next]_vars
  PROVE  JournalInv'
<1>0. /\ pc \in [Runs -> Steps]
      /\ active \in Runs \cup {None} /\ lock \in Runs \cup {None} /\ TypeOK /\ JournalInv
      /\ \A r \in Runs : journal[r].phase \in Phases
  BY JournalParts DEF IInv, TypeOK
<1> USE <1>0, PublicationAssumption DEF JournalInv, ApplyingIsActive, Blocked, Finished, Writing, Applying, Behind,
        Committed, Phases, Goto, Steps, state, owner
<1>1. ASSUME NEW r \in Runs, OwnerStep(r) \/ DriveStep(r) \/ StaleSeal(r) \/ Crash(r) PROVE JournalInv'
  <2>1. CASE Issue(r)
    BY <2>1 DEF Issue
  <2>2. CASE Redeem(r)
    BY <2>2 DEF Redeem
  <2>3. CASE SealAcceptance(r)
    BY <2>3 DEF SealAcceptance
  <2>4. CASE DeliverAcceptance(r)
    BY <2>4 DEF DeliverAcceptance
  <2>5. CASE Recover(r)
    BY <2>5 DEF Recover, Attempting, Recovering, ActiveJournalCommitted
  <2>6. CASE Denied(r)
    BY <2>6 DEF Denied, Deny, Attempting
  <2>7. CASE PrepareEffect(r)
    BY <2>7 DEF PrepareEffect, Attempting
  <2>8. CASE Resolve(r)
    BY <2>8 DEF Resolve, Attempting
  <2>9. CASE PrepareConflict(r)
    BY <2>9 DEF PrepareConflict, Leave
  <2>10. CASE PrepareLocked(r)
    BY <2>10 DEF PrepareLocked
  <2>11. CASE WriteJournal(r)
    <3>1. \A s \in Runs : s # r => journal'[s] = journal[s]
      BY <2>11, JournalChange
    <3>2. \/ journal'[r].phase = "PREPARED" /\ journal[r].phase = "none"
          \/ journal' = journal /\ journal[r].phase # "none"
      BY <2>11, JournalChange
    <3>3. /\ pc[r] = "journal" /\ pc' = [pc EXCEPT ![r] = "activate"]
          /\ UNCHANGED <<active, lock, targets>>
      BY <2>11 DEF WriteJournal
    <3> QED
      BY <3>1, <3>2, <3>3
  <2>12. CASE WriteActive(r)
    BY <2>12 DEF WriteActive
  <2>13. CASE Claim(r)
    BY <2>13 DEF Claim
  <2>14. CASE AcquireLease(r)
    BY <2>14 DEF AcquireLease, Leave
  <2>15. CASE Guard(r)
    BY <2>15 DEF Guard, Leave
  <2>16. CASE Commitment(r)
    BY <2>16 DEF Commitment, Deny
  <2>17. CASE BeginApply(r)
    <3>1. \A s \in Runs : s # r => journal'[s] = journal[s]
      BY <2>17, JournalChange
    <3>2. \/ journal[r].phase = "PREPARED" /\ journal'[r].phase = "APPLYING"
          \/ journal[r].phase # "PREPARED" /\ journal' = journal
      BY <2>17, JournalChange
    <3>3. /\ pc[r] = "apply" /\ pc' = [pc EXCEPT ![r] = "plan"] /\ journal[r].phase # "APPLIED"
          /\ UNCHANGED <<active, lock, targets>>
      BY <2>17 DEF BeginApply
    <3> QED
      BY <3>1, <3>2, <3>3
  <2>18. CASE ReplayApplied(r)
    BY <2>18 DEF ReplayApplied, Leave
  <2>19. CASE AdvanceCursor(r)
    BY <2>19, JournalChange DEF AdvanceCursor, Leave
  <2>20. CASE DestinationChanged(r)
    BY <2>20 DEF DestinationChanged, Leave
  <2>21. CASE Stage(r)
    BY <2>21 DEF Stage
  <2>22. CASE Recheck(r)
    BY <2>22 DEF Recheck
  <2>23. CASE Swap(r)
    BY <2>23 DEF Swap, Leave
  <2>24. CASE VerifyPlan(r)
    BY <2>24 DEF VerifyPlan, Leave
  <2>25. CASE StoreApplied(r)
    <3>1. /\ journal'[r].phase = "APPLIED"
          /\ \A s \in Runs : s # r => journal'[s] = journal[s]
      BY <2>25, JournalChange
    <3>2. /\ pc[r] = "verified" /\ pc' = [pc EXCEPT ![r] = "finish"]
          /\ UNCHANGED <<active, lock, targets>>
      BY <2>25 DEF StoreApplied
    <3>3. \A s \in Runs : ~Blocked(s) => ~Blocked(s)'
      BY <3>1, <3>2
    <3>4. \A s \in Runs : journal'[s].phase = "APPLYING" => active' = s
      BY <3>1, <3>2
    <3>5. \A s \in Runs : /\ pc'[s] \in Behind => active' = s \/ journal'[s].phase = "APPLIED"
                          /\ pc'[s] \in Behind \cup {"activate"} => journal'[s].phase # "none"
      BY <3>1, <3>2
    <3>6. \A s \in Runs : /\ pc'[s] \in {"recover", "reguard"} => journal'[s].phase \in Committed
                          /\ pc'[s] \in Applying => journal'[s].phase = "APPLYING"
                          /\ pc'[s] = "finish" => journal'[s].phase = "APPLIED"
      BY <3>1, <3>2
    <3>7. \A s \in Runs : pc'[s] \in {"staged", "swap"} => ~Finished(s)'
      BY <3>1, <3>2
    <3>8. \A s \in Runs : pc'[s] \in Writing => lock' = s /\ ~Blocked(s)'
      <4> SUFFICES ASSUME NEW s \in Runs, pc'[s] \in Writing PROVE lock' = s /\ ~Blocked(s)'
        OBVIOUS
      <4>1. pc[s] \in Writing
        BY <3>2
      <4> QED
        BY <3>2, <3>3, <4>1
    <3> QED
      BY <3>4, <3>5, <3>6, <3>7, <3>8
  <2>26. CASE Seal(r)
    BY <2>26 DEF Seal, Leave
  <2>27. CASE StaleSeal(r)
    BY <2>27 DEF StaleSeal, Leave
  <2>28. CASE Crash(r)
    BY <2>28 DEF Crash
  <2> QED
    BY <1>1, <2>1, <2>2, <2>3, <2>4, <2>5, <2>6, <2>7, <2>8, <2>9, <2>10, <2>11, <2>12, <2>13, <2>14, <2>15, <2>16, <2>17, <2>18, <2>19, <2>20, <2>21, <2>22, <2>23, <2>24, <2>25, <2>26, <2>27, <2>28
    DEF OwnerStep, DriveStep
<1>2. ASSUME NEW p \in Paths, Edit(p) PROVE JournalInv'
  BY <1>2 DEF Edit
<1>3. CASE Revoke
  BY <1>3 DEF Revoke
<1>4. CASE Lapse
  BY <1>4 DEF Lapse, Leased
<1>5. CASE UNCHANGED vars
  BY <1>5 DEF vars
<1> QED
  BY <1>1, <1>2, <1>3, <1>4, <1>5 DEF Next

-----------------------------------------------------------------------------
(* Consent *)

(* The steps of a drive behind the acceptance, its failures included.      *)
PublishStep(r) ==
  \/ Recover(r) \/ Denied(r) \/ PrepareEffect(r) \/ Resolve(r)
  \/ PrepareConflict(r) \/ PrepareLocked(r) \/ WriteJournal(r) \/ WriteActive(r)
  \/ Claim(r) \/ AcquireLease(r) \/ Guard(r) \/ Commitment(r)
  \/ BeginApply(r) \/ ReplayApplied(r) \/ AdvanceCursor(r) \/ DestinationChanged(r)
  \/ Stage(r) \/ Recheck(r) \/ Swap(r) \/ VerifyPlan(r) \/ StoreApplied(r) \/ Seal(r)
  \/ StaleSeal(r) \/ Crash(r)

LEMMA NextCases ==
  ASSUME [Next]_vars
  PROVE  \/ \E r \in Runs : Issue(r) \/ Redeem(r) \/ SealAcceptance(r) \/ DeliverAcceptance(r)
         \/ \E r \in Runs : PublishStep(r)
         \/ \E p \in Paths : Edit(p)
         \/ Revoke \/ Lapse \/ UNCHANGED vars
BY DEF Next, OwnerStep, DriveStep, PublishStep

(* A publishing drive has an accepted commitment, leaves the owner's       *)
(* tables alone and seals nothing but a finished publication.              *)
LEMMA DriveNeedsAcceptance ==
  ASSUME IInv, NEW r \in Runs, PublishStep(r)
  PROVE  /\ UNCHANGED owner
         /\ \A s \in Runs : s # r => pc'[s] = pc[s] /\ effect'[s] = effect[s]
         /\ pc'[r] # "redeemed"
         /\ pc'[r] # "idle" => accept[r].phase = "delivered"
         /\ effect'[r] = effect[r] \/ (effect'[r] # "none" /\ accept[r].phase = "delivered")
         /\ effect'[r] = "sealed" => effect[r] = "sealed" \/ pc[r] = "finish"
<1>0. /\ pc \in [Runs -> Steps] /\ ConsentInv
      /\ effect \in [Runs -> {"none", "prepared", "launching", "sealed"}]
  BY DEF IInv, TypeOK
<1> USE <1>0 DEF ConsentInv, Goto, state, owner
<1>1. CASE Recover(r)
  BY <1>1 DEF Recover, Attempting, Recovering, ActiveJournalCommitted
<1>2. CASE Denied(r)
  BY <1>2 DEF Denied, Deny, Attempting
<1>3. CASE PrepareEffect(r)
  BY <1>3 DEF PrepareEffect, Attempting
<1>4. CASE Resolve(r)
  BY <1>4 DEF Resolve, Attempting
<1>5. CASE PrepareConflict(r)
  BY <1>5 DEF PrepareConflict, Leave
<1>6. CASE PrepareLocked(r)
  BY <1>6 DEF PrepareLocked
<1>7. CASE WriteJournal(r)
  BY <1>7 DEF WriteJournal
<1>8. CASE WriteActive(r)
  BY <1>8 DEF WriteActive
<1>9. CASE Claim(r)
  BY <1>9 DEF Claim
<1>10. CASE AcquireLease(r)
  BY <1>10 DEF AcquireLease, Leave
<1>11. CASE Guard(r)
  BY <1>11 DEF Guard, Leave
<1>12. CASE Commitment(r)
  BY <1>12 DEF Commitment, Deny
<1>13. CASE BeginApply(r)
  BY <1>13 DEF BeginApply
<1>14. CASE ReplayApplied(r)
  BY <1>14 DEF ReplayApplied, Leave
<1>15. CASE AdvanceCursor(r)
  BY <1>15 DEF AdvanceCursor, Leave
<1>16. CASE DestinationChanged(r)
  BY <1>16 DEF DestinationChanged, Leave
<1>17. CASE Stage(r)
  BY <1>17 DEF Stage
<1>18. CASE Recheck(r)
  BY <1>18 DEF Recheck
<1>19. CASE Swap(r)
  BY <1>19 DEF Swap, Leave
<1>20. CASE VerifyPlan(r)
  BY <1>20 DEF VerifyPlan, Leave
<1>21. CASE StoreApplied(r)
  BY <1>21 DEF StoreApplied
<1>22. CASE Seal(r)
  BY <1>22 DEF Seal, Leave
<1>23. CASE StaleSeal(r)
  BY <1>23 DEF StaleSeal, Leave
<1>24. CASE Crash(r)
  <2>1. pc' = [pc EXCEPT ![r] = "idle"] /\ UNCHANGED owner /\ effect' = effect
    BY <1>24 DEF Crash
  <2>2. pc'[r] = "idle" /\ \A s \in Runs : s # r => pc'[s] = pc[s]
    BY <2>1
  <2> QED
    BY <2>1, <2>2
<1> QED
  BY <1>1, <1>2, <1>3, <1>4, <1>5, <1>6, <1>7, <1>8, <1>9, <1>10, <1>11, <1>12, <1>13, <1>14, <1>15, <1>16, <1>17, <1>18, <1>19, <1>20, <1>21, <1>22, <1>23, <1>24
  DEF PublishStep

(* One transaction of the owner store is open at a time, and a drive that  *)
(* gets to a prepared journal has just asked in its own.                   *)
LEMMA DriveAsksFirst ==
  ASSUME IInv, NEW r \in Runs, PublishStep(r)
  PROVE  /\ \A s \in Runs \ {r} : tx = s => tx' = s
         /\ \A s \in Runs : s # r => journal'[s] = journal[s]
         /\ journal[r].phase = "APPLIED" => journal'[r].phase = "APPLIED"
         /\ pc'[r] = "apply" /\ journal'[r].phase = "PREPARED" => tx' = r /\ Authorised(r)
<1>0. /\ pc \in [Runs -> Steps] /\ tx \in Runs \cup {None} /\ TypeOK /\ JournalInv
  BY DEF IInv, TypeOK
<1> USE <1>0, PublicationAssumption DEF JournalInv, Committed, Goto, state
<1>1. CASE Recover(r)
  BY <1>1 DEF Recover, Attempting, Recovering, ActiveJournalCommitted
<1>2. CASE Denied(r)
  BY <1>2 DEF Denied, Deny, Attempting
<1>3. CASE PrepareEffect(r)
  BY <1>3 DEF PrepareEffect, Attempting
<1>4. CASE Resolve(r)
  BY <1>4 DEF Resolve, Attempting
<1>5. CASE PrepareConflict(r)
  BY <1>5 DEF PrepareConflict, Leave
<1>6. CASE PrepareLocked(r)
  BY <1>6 DEF PrepareLocked
<1>7. CASE WriteJournal(r)
  BY <1>7, JournalChange DEF WriteJournal
<1>8. CASE WriteActive(r)
  BY <1>8 DEF WriteActive
<1>9. CASE Claim(r)
  BY <1>9 DEF Claim
<1>10. CASE AcquireLease(r)
  BY <1>10 DEF AcquireLease, Leave
<1>11. CASE Guard(r)
  BY <1>11 DEF Guard, Leave
<1>12. CASE Commitment(r)
  BY <1>12 DEF Commitment, Deny
<1>13. CASE BeginApply(r)
  BY <1>13, JournalChange DEF BeginApply
<1>14. CASE ReplayApplied(r)
  BY <1>14 DEF ReplayApplied, Leave
<1>15. CASE AdvanceCursor(r)
  BY <1>15, JournalChange DEF AdvanceCursor, Leave
<1>16. CASE DestinationChanged(r)
  BY <1>16 DEF DestinationChanged, Leave
<1>17. CASE Stage(r)
  BY <1>17 DEF Stage
<1>18. CASE Recheck(r)
  BY <1>18 DEF Recheck
<1>19. CASE Swap(r)
  BY <1>19 DEF Swap, Leave
<1>20. CASE VerifyPlan(r)
  BY <1>20 DEF VerifyPlan, Leave
<1>21. CASE StoreApplied(r)
  BY <1>21, JournalChange DEF StoreApplied
<1>22. CASE Seal(r)
  BY <1>22 DEF Seal, Leave
<1>23. CASE StaleSeal(r)
  BY <1>23 DEF StaleSeal, Leave
<1>24. CASE Crash(r)
  <2>1. pc'[r] = "idle" /\ journal' = journal /\ tx' = (IF tx = r THEN None ELSE tx)
    BY <1>24 DEF Crash
  <2> QED
    BY <2>1
<1> QED
  BY <1>1, <1>2, <1>3, <1>4, <1>5, <1>6, <1>7, <1>8, <1>9, <1>10, <1>11, <1>12, <1>13, <1>14, <1>15, <1>16, <1>17, <1>18, <1>19, <1>20, <1>21, <1>22, <1>23, <1>24
  DEF PublishStep

LEMMA StepConsent ==
  ASSUME IInv, [Next]_vars
  PROVE  ConsentInv'
<1>0. /\ pc \in [Runs -> Steps] /\ ConsentInv /\ JournalInv
      /\ accept \in [Runs -> AcceptRows] /\ epoch \in Nat
      /\ redeemed \in [Runs -> SUBSET Nat]
      /\ effect \in [Runs -> {"none", "prepared", "launching", "sealed"}]
  BY PublicationAssumption DEF IInv, TypeOK
<1> USE <1>0, PublicationAssumption
<1>1. ASSUME NEW r \in Runs, PublishStep(r) PROVE ConsentInv'
  <2>1. /\ UNCHANGED owner
        /\ \A s \in Runs : s # r => pc'[s] = pc[s] /\ effect'[s] = effect[s]
        /\ pc'[r] # "redeemed"
        /\ pc'[r] # "idle" => accept[r].phase = "delivered"
        /\ effect'[r] = effect[r] \/ (effect'[r] # "none" /\ accept[r].phase = "delivered")
        /\ effect'[r] = "sealed" => effect[r] = "sealed" \/ pc[r] = "finish"
    BY <1>1, DriveNeedsAcceptance
  <2>2. /\ \A s \in Runs \ {r} : tx = s => tx' = s
        /\ \A s \in Runs : s # r => journal'[s] = journal[s]
        /\ journal[r].phase = "APPLIED" => journal'[r].phase = "APPLIED"
        /\ pc'[r] = "apply" /\ journal'[r].phase = "PREPARED" => tx' = r /\ Authorised(r)
    BY <1>1, DriveAsksFirst
  <2>3. \A s \in Runs : pc'[s] \notin {"idle", "redeemed"} => accept'[s].phase = "delivered"
    BY <2>1 DEF ConsentInv, owner
  <2>4. \A s \in Runs : effect'[s] # "none" => accept'[s].phase = "delivered"
    BY <2>1 DEF ConsentInv, owner
  <2>5. \A s \in Runs : effect'[s] = "sealed" => journal'[s].phase = "APPLIED"
    <3>1. pc[r] = "finish" => journal[r].phase = "APPLIED"
      BY DEF JournalInv
    <3>2. \A s \in Runs : effect[s] = "sealed" => journal[s].phase = "APPLIED"
      BY DEF ConsentInv
    <3> QED
      BY <2>1, <2>2, <3>1, <3>2
  <2>6. \A s \in Runs : pc'[s] = "apply" /\ journal'[s].phase = "PREPARED"
                           => tx' = s /\ Authorised(s)'
    <3>1. \A s \in Runs : pc[s] = "apply" /\ journal[s].phase = "PREPARED"
                             => tx = s /\ Authorised(s)
      BY DEF ConsentInv
    <3>2. \A s \in Runs : Authorised(s)' <=> Authorised(s)
      BY <2>1 DEF owner, Authorised
    <3> QED
      BY <2>1, <2>2, <3>1, <3>2
  <2>7. \A s \in Runs : pc'[s] = "redeemed" => redeemed'[s] # {}
    BY <2>1 DEF ConsentInv, owner
  <2> QED
    BY <2>1, <2>3, <2>4, <2>5, <2>6, <2>7 DEF ConsentInv, owner
<1>2. ASSUME NEW r \in Runs, Issue(r) PROVE ConsentInv'
  BY <1>2 DEF Issue, ConsentInv, Authorised, state
<1>3. ASSUME NEW r \in Runs, Redeem(r) PROVE ConsentInv'
  <2>1. /\ redeemed' = [redeemed EXCEPT ![r] = redeemed[r] \cup {epoch}] /\ tx = None
        /\ pc' = [pc EXCEPT ![r] = "redeemed"]
        /\ UNCHANGED <<epoch, accept, effect, journal, tx>>
    BY <1>3 DEF Redeem, Goto, state
  <2>2. \A s \in Runs : redeemed[s] \subseteq redeemed'[s]
    BY <2>1
  <2>3. \A s \in Runs : \A e \in redeemed'[s] : e <= epoch'
    BY <2>1 DEF ConsentInv
  <2>4. \A s \in Runs : redeemed'[s] # {} => \E e \in redeemed'[s] : \A f \in redeemed'[s] : f <= e
    <3>1. epoch \in redeemed'[r] /\ \A f \in redeemed'[r] : f <= epoch
      BY <2>1, <2>3
    <3> QED
      BY <2>1, <3>1 DEF ConsentInv
  <2> QED
    BY <2>1, <2>2, <2>3, <2>4 DEF ConsentInv
<1>4. ASSUME NEW r \in Runs, SealAcceptance(r) PROVE ConsentInv'
  <2> DEFINE latest == CHOOSE e \in redeemed[r] : \A f \in redeemed[r] : f <= e
             a == [phase |-> "sealed", epoch |-> latest]
  <2>1. pc[r] = "redeemed" /\ latest \in redeemed[r]
    BY <1>4, LatestRedeemed DEF SealAcceptance
  <2>2. accept' = accept \/ (accept[r].phase = "prepared" /\ accept' = [accept EXCEPT ![r] = a])
    <3>1. accept[r].phase = "prepared" => accept' = [accept EXCEPT ![r] = a]
      BY <1>4 DEF SealAcceptance
    <3>2. accept[r].phase # "prepared" => accept' = [accept EXCEPT ![r] = accept[r]]
      BY <1>4 DEF SealAcceptance
    <3>3. accept[r].phase # "prepared" => accept' = accept
      BY <3>2
    <3> HIDE DEF a
    <3> QED
      BY <3>1, <3>3
  <2>3. pc' = [pc EXCEPT ![r] = "idle"] /\ UNCHANGED <<epoch, redeemed, effect, journal, tx>>
    BY <1>4 DEF SealAcceptance, Goto, state
  <2> HIDE DEF latest
  <2>4. \A s \in Runs : accept'[s].phase # "prepared" => accept'[s].epoch \in redeemed'[s]
    <3>1. CASE accept' = accept
      BY <2>3, <3>1 DEF ConsentInv
    <3>2. CASE accept' = [accept EXCEPT ![r] = a]
      <4>1. accept'[r].epoch = latest /\ \A s \in Runs : s # r => accept'[s] = accept[s]
        BY <3>2
      <4> QED
        BY <2>1, <2>3, <4>1 DEF ConsentInv
    <3> QED
      BY <2>2, <3>1, <3>2
  <2>5. \A s \in Runs : accept[s].phase = "delivered" => accept'[s] = accept[s]
    BY <2>2
  <2> QED
    BY <2>3, <2>4, <2>5 DEF ConsentInv, Authorised
<1>5. ASSUME NEW r \in Runs, DeliverAcceptance(r) PROVE ConsentInv'
  <2>1. /\ pc[r] = "idle" /\ accept[r].phase = "sealed"
        /\ accept' = [accept EXCEPT ![r] = [accept[r] EXCEPT !.phase = "delivered"]]
        /\ UNCHANGED <<pc, epoch, redeemed, effect, journal, tx>>
    BY <1>5 DEF DeliverAcceptance, state
  <2>2. accept'[r].epoch = accept[r].epoch /\ accept'[r].phase = "delivered"
    BY <2>1 DEF AcceptRows
  <2>3. \A s \in Runs : s # r => accept'[s] = accept[s]
    BY <2>1
  <2> QED
    BY <2>1, <2>2, <2>3 DEF ConsentInv, Authorised
<1>6. CASE Revoke
  <2>1. tx = None /\ epoch' = epoch + 1 /\ UNCHANGED <<pc, redeemed, accept, effect, journal, tx>>
    BY <1>6 DEF Revoke, state
  <2>2. \A s \in Runs : \A e \in redeemed[s] : e <= epoch + 1
    BY DEF ConsentInv
  <2> QED
    BY <2>1, <2>2 DEF ConsentInv
<1>7. ASSUME UNCHANGED <<pc, epoch, redeemed, accept, effect, journal, tx>> PROVE ConsentInv'
  BY <1>7 DEF ConsentInv, Authorised
<1> QED
  BY <1>1, <1>2, <1>3, <1>4, <1>5, <1>6, <1>7, NextCases DEF Edit, Lapse, owner, vars

-----------------------------------------------------------------------------
(* The files *)

(* Three steps of a drive look at the files to vouch for them or write     *)
(* them, all on behalf of the journal that applies; the others do neither. *)
LEMMA DriveLeavesFiles ==
  ASSUME TypeOK, NEW r \in Runs, PublishStep(r), ~Recheck(r), ~Swap(r), ~VerifyPlan(r)
  PROVE  /\ UNCHANGED <<targets, disk, dirty>>
         /\ pc'[r] \notin {"swap", "verified"} \/ UNCHANGED <<pc, journal>>
         /\ \A s \in Runs : s # r => pc'[s] = pc[s]
<1>0. pc \in [Runs -> Steps]
  BY DEF TypeOK
<1> USE <1>0 DEF Goto, state
<1>1. CASE Recover(r)
  BY <1>1 DEF Recover
<1>2. CASE Denied(r)
  BY <1>2 DEF Denied, Deny
<1>3. CASE PrepareEffect(r)
  BY <1>3 DEF PrepareEffect
<1>4. CASE Resolve(r)
  BY <1>4 DEF Resolve
<1>5. CASE PrepareConflict(r)
  BY <1>5 DEF PrepareConflict, Leave
<1>6. CASE PrepareLocked(r)
  BY <1>6 DEF PrepareLocked
<1>7. CASE WriteJournal(r)
  BY <1>7 DEF WriteJournal
<1>8. CASE WriteActive(r)
  BY <1>8 DEF WriteActive
<1>9. CASE Claim(r)
  BY <1>9 DEF Claim
<1>10. CASE AcquireLease(r)
  BY <1>10 DEF AcquireLease, Leave
<1>11. CASE Guard(r)
  BY <1>11 DEF Guard, Leave
<1>12. CASE Commitment(r)
  BY <1>12 DEF Commitment, Deny
<1>13. CASE BeginApply(r)
  BY <1>13 DEF BeginApply
<1>14. CASE ReplayApplied(r)
  BY <1>14 DEF ReplayApplied, Leave
<1>15. CASE AdvanceCursor(r)
  BY <1>15 DEF AdvanceCursor, Leave
<1>16. CASE DestinationChanged(r)
  BY <1>16 DEF DestinationChanged, Leave
<1>17. CASE Stage(r)
  BY <1>17 DEF Stage
<1>18. CASE StoreApplied(r)
  BY <1>18 DEF StoreApplied
<1>19. CASE Seal(r)
  BY <1>19 DEF Seal, Leave
<1>20. CASE StaleSeal(r)
  BY <1>20 DEF StaleSeal, Leave
<1>21. CASE Crash(r)
  BY <1>21 DEF Crash
<1> QED
  BY <1>1, <1>2, <1>3, <1>4, <1>5, <1>6, <1>7, <1>8, <1>9, <1>10, <1>11, <1>12, <1>13, <1>14, <1>15, <1>16, <1>17, <1>18, <1>19, <1>20, <1>21
  DEF PublishStep

LEMMA StepFiles ==
  ASSUME IInv, [Next]_vars
  PROVE  FilesInv'
<1>0. /\ TypeOK /\ JournalInv /\ FilesInv
      /\ pc \in [Runs -> Steps] /\ disk \in [Paths -> Contents]
  BY DEF IInv, TypeOK
<1> USE <1>0
<1>a. ASSUME NEW r \in Runs, NEW s \in Runs, pc[r] \in Applying, pc[s] \in {"swap", "verified"}
      PROVE  r = s
  BY <1>a, SoleApplier DEF JournalInv, Applying
<1>1. ASSUME NEW r \in Runs, PublishStep(r) PROVE FilesInv'
  <2>1. CASE Recheck(r)
    <3>1. /\ pc[r] = "staged" /\ disk[Target(r)] = journal[r].before[Target(r)]
          /\ pc' = [pc EXCEPT ![r] = "swap"] /\ UNCHANGED <<targets, disk, journal>>
      BY <2>1 DEF Recheck, Goto, state
    <3>2. \A s \in Runs : s # r => pc'[s] \notin {"swap", "verified"}
      BY <1>a, <3>1 DEF Applying
    <3>3. pc'[r] = "swap"
      BY <3>1
    <3> QED
      BY <3>1, <3>2, <3>3 DEF FilesInv, Target
  <2>2. CASE Swap(r)
    <3>1. pc[r] = "swap" /\ pc' = [pc EXCEPT ![r] = "idle"]
      BY <2>2 DEF Swap, Leave, Goto
    <3>2. \A s \in Runs : pc'[s] \notin {"swap", "verified"}
      BY <1>a, <3>1 DEF Applying
    <3> QED
      BY <3>2 DEF FilesInv
  <2>3. CASE VerifyPlan(r)
    <3>1. /\ pc[r] = "plan" /\ UNCHANGED <<targets, disk, journal>>
          /\ \/ Complete(r) /\ pc' = [pc EXCEPT ![r] = "verified"]
             \/ pc' = [pc EXCEPT ![r] = "idle"]
      BY <2>3 DEF VerifyPlan, Leave, Goto
    <3>2. \A s \in Runs : s # r => pc'[s] \notin {"swap", "verified"}
      BY <1>a, <3>1 DEF Applying
    <3>3. pc'[r] # "swap" /\ (pc'[r] = "verified" => Complete(r))
      BY <3>1
    <3> QED
      BY <3>1, <3>2, <3>3 DEF FilesInv, Complete, TargetsOf
  <2>4. CASE ~Recheck(r) /\ ~Swap(r) /\ ~VerifyPlan(r)
    <3>1. /\ UNCHANGED <<targets, disk, dirty>>
          /\ pc'[r] \notin {"swap", "verified"} \/ UNCHANGED <<pc, journal>>
          /\ \A s \in Runs : s # r => pc'[s] = pc[s]
      BY <1>1, <2>4, DriveLeavesFiles
    <3>2. \A s \in Runs : s # r => journal'[s] = journal[s]
      BY <1>1, DriveAsksFirst
    <3> QED
      BY <3>1, <3>2 DEF FilesInv, Target, TargetsOf
  <2> QED
    BY <2>1, <2>2, <2>3, <2>4
<1>2. ASSUME NEW r \in Runs,
             Issue(r) \/ Redeem(r) \/ SealAcceptance(r) \/ DeliverAcceptance(r)
      PROVE  FilesInv'
  <2>1. /\ UNCHANGED <<targets, disk, dirty, journal>>
        /\ \A s \in Runs : pc'[s] = pc[s] \/ pc'[s] \notin {"swap", "verified"}
    BY <1>2 DEF Issue, Redeem, SealAcceptance, DeliverAcceptance, Goto, state
  <2> QED
    BY <2>1 DEF FilesInv, Target, TargetsOf
<1>3. ASSUME NEW p \in Paths, Edit(p) PROVE FilesInv'
  <2>1. /\ UNCHANGED <<pc, targets, journal>> /\ dirty' = dirty \cup {p}
        /\ \A q : q # p => disk'[q] = disk[q]
    BY <1>3 DEF Edit
  <2> QED
    BY <2>1 DEF FilesInv, Target, TargetsOf
<1>4. ASSUME UNCHANGED <<pc, targets, journal, disk, dirty>> PROVE FilesInv'
  BY <1>4 DEF FilesInv, Target, TargetsOf
<1> QED
  BY <1>1, <1>2, <1>3, <1>4, NextCases DEF Revoke, Lapse, vars, state

-----------------------------------------------------------------------------
(* The theorems *)

LEMMA InitIInv == Init => IInv
<1> SUFFICES ASSUME Init PROVE IInv
  OBVIOUS
<1> USE PublicationAssumption DEF Init
<1>1. TypeOK
  <2>1. journal \in [Runs -> Journals]
    BY DEF Journals, Phases, Contents
  <2>2. accept \in [Runs -> AcceptRows]
    BY DEF AcceptRows
  <2>3. \A r \in Runs : journal[r].cursor <= Len(targets[r])
    BY DEF Journals
  <2>4. /\ {active, lock, lease, tx} \subseteq Runs \cup {None} /\ epoch \in 1..MaxEpoch
        /\ targets \in Plans /\ dirty \subseteq Paths
        /\ edits \in 0..MaxEdits /\ faults \in 0..MaxFaults
    OBVIOUS
  <2>5. /\ disk \in [Paths -> Contents] /\ pc \in [Runs -> Steps]
        /\ effect \in [Runs -> {"none", "prepared", "launching", "sealed"}]
        /\ issued \in [Runs -> SUBSET (1..MaxEpoch)] /\ redeemed \in [Runs -> SUBSET (1..MaxEpoch)]
    BY DEF Steps, Contents
  <2> QED
    BY ONLY <2>1, <2>2, <2>3, <2>4, <2>5 DEF TypeOK
<1>2. JournalInv
  BY DEF JournalInv, ApplyingIsActive, Writing, Applying, Behind
<1>3. ConsentInv
  BY DEF ConsentInv
<1>4. FilesInv
  BY DEF FilesInv
<1> QED
  BY <1>1, <1>2, <1>3, <1>4 DEF IInv

LEMMA StepIInv == IInv /\ [Next]_vars => IInv'
BY StepTypes, StepJournal, StepConsent, StepFiles DEF IInv

(* The inductive invariant: who holds the lock of active.json, what a      *)
(* drive may still count on at each of its steps, and under which consent. *)
THEOREM PublicationInvariant == Spec => []IInv
BY InitIInv, StepIInv, PTL DEF Spec

(* The journal that applies is the active one, and a sealed publish effect *)
(* has an applied journal and a redeemed receipt of its own acceptance     *)
(* (PublicationJournal, EffectCoordinator.seal): for any number of runs,   *)
(* crashes, lapsed leases and revocations.                                 *)
THEOREM PublicationJournalIsTrue == Spec => []JournalIsTrue
<1>1. IInv => JournalIsTrue
  <2> SUFFICES ASSUME IInv PROVE JournalIsTrue
    OBVIOUS
  <2>1. \A r \in Runs : effect[r] = "sealed" => accept[r].phase = "delivered"
    BY DEF IInv, ConsentInv
  <2>2. \A r \in Runs : effect[r] = "sealed" => accept[r].epoch \in redeemed[r]
    BY <2>1 DEF IInv, ConsentInv
  <2> QED
    BY <2>2 DEF IInv, JournalInv, ConsentInv, JournalIsTrue, SealedIsApplied
<1> QED
  BY <1>1, PublicationInvariant, PTL

(* A journal moves by four steps of its own run, nobody else's.            *)
LEMMA JournalSteps ==
  ASSUME IInv, [Next]_vars, NEW r \in Runs, journal'[r] # journal[r]
  PROVE  WriteJournal(r) \/ BeginApply(r) \/ AdvanceCursor(r) \/ StoreApplied(r)
<1>1. PICK s \in Runs : PublishStep(s)
  <2>1. ~UNCHANGED journal
    OBVIOUS
  <2> QED
    BY <2>1, NextCases DEF Issue, Redeem, SealAcceptance, DeliverAcceptance, Edit,
       Revoke, Lapse, vars, state
<1>2. r = s
  BY <1>1, DriveAsksFirst
<1> QED
  BY <1>1, <1>2 DEF PublishStep, Recover, Denied, PrepareEffect, Resolve, PrepareConflict,
     PrepareLocked, WriteActive, Claim, AcquireLease, Guard, Commitment, ReplayApplied,
     DestinationChanged, Stage, Recheck, Swap, VerifyPlan, Seal, StaleSeal, Crash, state

LEMMA CommitStep ==
  ASSUME IInv, [Next]_vars, NEW r \in Runs,
         journal[r].phase = "PREPARED", journal'[r].phase # "PREPARED"
  PROVE  Authorised(r)
<1>1. WriteJournal(r) \/ BeginApply(r) \/ AdvanceCursor(r) \/ StoreApplied(r)
  BY JournalSteps
<1>2. ~WriteJournal(r) /\ ~AdvanceCursor(r)
  BY JournalChange DEF IInv
<1>3. ~StoreApplied(r)
  BY DEF IInv, JournalInv, StoreApplied, Applying
<1> QED
  BY <1>1, <1>2, <1>3 DEF IInv, ConsentInv, BeginApply

LEMMA AppliedStep ==
  ASSUME IInv, [Next]_vars, NEW r \in Runs,
         journal[r].phase # "APPLIED", journal'[r].phase = "APPLIED"
  PROVE  \A p \in TargetsOf(r) : disk[p] = r \/ p \in dirty
<1>1. WriteJournal(r) \/ BeginApply(r) \/ AdvanceCursor(r) \/ StoreApplied(r)
  BY JournalSteps
<1>2. ~WriteJournal(r) /\ ~BeginApply(r) /\ ~AdvanceCursor(r)
  BY JournalChange DEF IInv
<1> QED
  BY <1>1, <1>2 DEF IInv, FilesInv, StoreApplied

LEMMA ReplaceStep ==
  ASSUME IInv, [Next]_vars, NEW p \in Paths, disk'[p] # disk[p], disk'[p] \in Runs
  PROVE  disk[p] = journal[disk'[p]].before[p] \/ p \in dirty
<1>0. disk \in [Paths -> Contents]
  BY DEF IInv, TypeOK
<1>1. \A q \in Paths : ~Edit(q)
  BY <1>0, PublicationAssumption DEF Edit
<1>2. PICK r \in Runs : Swap(r)
  <2>1. ~UNCHANGED disk
    OBVIOUS
  <2>2. PICK r \in Runs : PublishStep(r)
    BY <1>1, <2>1, NextCases DEF Issue, Redeem, SealAcceptance, DeliverAcceptance,
       Revoke, Lapse, vars, state
  <2>3. Swap(r)
    BY <2>1, <2>2, DriveLeavesFiles DEF Recheck, VerifyPlan, state, IInv
  <2> QED
    BY <2>3
<1>3. pc[r] = "swap" /\ disk' = [disk EXCEPT ![Target(r)] = r]
  BY <1>2 DEF Swap
<1>4. p = Target(r) /\ disk'[p] = r
  BY <1>0, <1>3
<1> QED
  BY <1>3, <1>4 DEF IInv, FilesInv

(* No file is published without consent of the moment, over bytes nobody   *)
(* planned for, or as a part of a publication that calls itself applied    *)
(* (apply_or_recover, _advance_plan, authority.commitment).                *)
THEOREM PublicationUnderConsent == Spec => FilesUnderConsent
<1>1. IInv /\ [Next]_vars =>
        [\A r \in Runs :
           (journal[r].phase = "PREPARED" /\ journal'[r].phase # "PREPARED")
              => Authorised(r)]_vars
  BY CommitStep
<1>2. IInv /\ [Next]_vars =>
        [\A p \in Paths :
           (disk'[p] # disk[p] /\ disk'[p] \in Runs)
              => disk[p] = journal[disk'[p]].before[p] \/ p \in dirty]_vars
  BY ReplaceStep
<1>3. IInv /\ [Next]_vars =>
        [\A r \in Runs :
           (journal[r].phase # "APPLIED" /\ journal'[r].phase = "APPLIED")
              => \A p \in TargetsOf(r) : disk[p] = r \/ p \in dirty]_vars
  BY AppliedStep
<1> QED
  BY <1>1, <1>2, <1>3, PublicationInvariant, PTL
  DEF Spec, FilesUnderConsent, CommitUnderConsent, OnlyPreimageReplaced, AppliedIsWhole

-----------------------------------------------------------------------------
(***************************************************************************)
(* The publications of the compiler (Authoring).  The lock: who holds it   *)
(* is past it, and nobody else; a check that reads without it was begun    *)
(* when there was no namespace, so that one torn by a publication finds    *)
(* the namespace there when it comes back.                                 *)
(***************************************************************************)
FileFacts == [content : Content, id : Nat]
Publishing == {"check", "publish", "verify"}
UnderLock == {"locked"} \cup Publishing
PastBoundary == {"preflight", "lock"} \cup UnderLock

Fields == {"at", "job", "sources", "before", "folder", "next", "again", "torn"}

ProcessType(p) ==
  LET r == proc[p]
  IN  /\ DOMAIN r = Fields
      /\ r.at \in {"idle", "ready", "capture", "observed", "done", "failed"} \cup PastBoundary
      /\ r.job \in Jobs /\ r.next \in Nat
      /\ r.sources = [q \in DOMAIN r.sources |-> r.sources[q]]
      /\ \A q \in DOMAIN r.sources : r.sources[q] \in FileFacts

PublisherTypeInv ==
  /\ file \in [Files -> FileFacts \cup {NoFile}] /\ folder \in Nat
  /\ Sources \in seen /\ namespace \in {"absent", "made", "ready"}
  /\ holders \subseteq Publishers /\ (\A p, q \in holders : p = q)
  /\ written \in Nat /\ stamp \in Nat
  /\ proc = [p \in Publishers |-> proc[p]] /\ \A p \in Publishers : ProcessType(p)

Holding(p) ==
  proc[p].at \in UnderLock \/ (proc[p].at = "capture" /\ proc[p].again)

JobInv(p) ==
  LET r == proc[p]
  IN  /\ p \in holders <=> Holding(p)
      /\ r.at = "idle" => r = Nobody
      /\ r.at \in {"ready"} \cup PastBoundary => r.job # "check"
      /\ r.at = "observed" \/ r.again => r.job = "check"
      /\ r.job # "check" /\ r.at \in {"capture"} \cup PastBoundary => namespace = "ready"
      /\ r.at \in {"capture", "observed"} /\ r.again => namespace = "ready"
      /\ r.job = "check" /\ r.torn /\ r.at # "failed" =>
           r.at \in {"capture", "observed"} /\ ~r.again /\ namespace = "ready"

(* A plan has its sources; the next target is one of the plan's. *)
PlanInv(p) ==
  LET r == proc[p]
  IN  /\ DOMAIN r.sources \subseteq Range(Reads)
      /\ r.job = "compile" /\ r.at \in PastBoundary => DOMAIN r.sources = Range(Reads)
      /\ r.at \in {"check", "publish"} => r.next \in 1 .. Len(Targets(r.job))
      /\ r.at \notin Publishing => r.next = 1

(***************************************************************************)
(* As long as no person has written: either there were sources from the    *)
(* beginning, or the targets of the installation are there up to some      *)
(* place, as planned; who installs is not beyond that place, and a source  *)
(* that was read is the one the installation brings.                       *)
(***************************************************************************)
Present(n) ==
  LET dests == Targets("install")
  IN  \A k \in DOMAIN dests :
        /\ file[dests[k]] # NoFile <=> k <= n
        /\ k <= n => file[dests[k]].content = Planned(dests[k], Installed)

Within(p, n) ==
  /\ proc[p].job = "install" => proc[p].next <= n + 1
  /\ \A q \in DOMAIN proc[p].sources :
       file[<<"source", q>>] # NoFile /\ proc[p].sources[q].content = SourceOf(q, 0)

InstallInv ==
  written = 0 =>
    \/ \A now \in seen : now[RootRole] # NoFile
    \/ \E n \in 0 .. 2 * Len(Order) : Present(n) /\ \A p \in Publishers : Within(p, n)

AuthoringInv ==
  /\ PublisherTypeInv /\ PublishedFromOneMoment /\ InstallInv
  /\ \A p \in Publishers : JobInv(p) /\ PlanInv(p)

-----------------------------------------------------------------------------
(* The targets of a plan *)

LEMMA TargetsInOrder ==
  /\ Len(Order) \in Nat /\ \A k \in 1 .. Len(Order) : Order[k] \in Closure(RootRole)
  /\ Targets("install") \in [1 .. 2 * Len(Order) -> Files] /\ Len(Targets("install")) = 2 * Len(Order)
  /\ \A job \in Jobs \ {"install"} :
       Targets(job) \in [1 .. Len(Order) -> Files] /\ Len(Targets(job)) = Len(Order)
<1>1. Len(Order) \in Nat /\ \A k \in 1 .. Len(Order) : Order[k] \in Closure(RootRole) \cap Roles
  BY AuthoringAssumption DEF Range
<1>2. \A k \in 1 .. 2 * Len(Order) : (k + 1) \div 2 \in 1 .. Len(Order)
  BY <1>1
<1>3. Targets("install") \in [1 .. 2 * Len(Order) -> Files]
  BY <1>1, <1>2 DEF Targets, Files
<1>4. ASSUME NEW job \in Jobs \ {"install"}
      PROVE  Targets(job) \in [1 .. Len(Order) -> Files]
  BY <1>1 DEF Targets, Files
<1>5. ASSUME NEW f, NEW n \in Nat, f \in [1 .. n -> Files] PROVE Len(f) = n
  BY <1>5, LenProperties, SeqDef
<1> QED
  BY <1>1, <1>3, <1>4, <1>5

(* The sources and the recipe of a role of the closure are targets of an   *)
(* installation, one after the other.                                      *)
LEMMA TargetPlaces ==
  /\ \A k \in 1 .. Len(Order) :
       /\ 2 * k - 1 \in 1 .. 2 * Len(Order) /\ 2 * k \in 1 .. 2 * Len(Order)
       /\ Targets("install")[2 * k - 1] = <<"source", Order[k]>>
       /\ Targets("install")[2 * k] = <<"recipe", Order[k]>>
  /\ \A role \in Closure(RootRole) : \E k \in 1 .. Len(Order) : role = Order[k]
<1>1. Len(Order) \in Nat
  BY AuthoringAssumption
<1>2. ASSUME NEW k \in 1 .. Len(Order)
      PROVE  /\ 2 * k - 1 \in 1 .. 2 * Len(Order) /\ 2 * k \in 1 .. 2 * Len(Order)
             /\ (2 * k - 1) % 2 = 1 /\ (2 * k) % 2 = 0
             /\ ((2 * k - 1) + 1) \div 2 = k /\ (2 * k + 1) \div 2 = k
  BY <1>1
<1>3. \A role \in Closure(RootRole) : \E k \in 1 .. Len(Order) : role = Order[k]
  BY AuthoringAssumption DEF Range
<1> QED
  BY <1>2, <1>3 DEF Targets

LEMMA TargetsDiffer ==
  \A i, j \in 1 .. 2 * Len(Order) : Targets("install")[i] = Targets("install")[j] => i = j
<1>1. Len(Order) \in Nat /\ \A i, j \in 1 .. Len(Order) : Order[i] = Order[j] => i = j
  BY AuthoringAssumption DEF IsInjective
<1>2. ASSUME NEW i \in 1 .. 2 * Len(Order), NEW j \in 1 .. 2 * Len(Order),
             Targets("install")[i] = Targets("install")[j]
      PROVE  i = j
  <2>1. /\ (IF i % 2 = 1 THEN "source" ELSE "recipe") = (IF j % 2 = 1 THEN "source" ELSE "recipe")
        /\ Order[(i + 1) \div 2] = Order[(j + 1) \div 2]
    BY <1>2 DEF Targets
  <2>2. (i + 1) \div 2 \in 1 .. Len(Order) /\ (j + 1) \div 2 \in 1 .. Len(Order)
    BY <1>1
  <2>3. (i + 1) \div 2 = (j + 1) \div 2
    BY <1>1, <2>1, <2>2
  <2>4. (i % 2 = 1) <=> (j % 2 = 1)
    BY <2>1
  <2> QED
    BY <1>1, <2>3, <2>4
<1> QED
  BY <1>2

-----------------------------------------------------------------------------
(* What is planned *)

LEMMA ClosureIsClosed ==
  ASSUME NEW r \in Closure(RootRole)
  PROVE  Closure(r) \subseteq Closure(RootRole)
BY DEF Closure

LEMMA InstalledSource ==
  \A role \in Roles : SourceOf(role, 0) \in Content /\ SourceOf(role, 0)[role] = 0
BY DEF SourceOf, Content

LEMMA PlannedIsContent ==
  ASSUME NEW f \in Files, NEW versions \in [Roles -> Int]
  PROVE  Planned(f, versions) \in Content
BY DEF Planned, SourceOf, RecipeOf, Content, Files

LEMMA AfterIsContent ==
  ASSUME NEW p \in Publishers, ProcessType(p), NEW f \in Files
  PROVE  After(p, f) \in Content /\ After(p, f) # NoFile
<1> DEFINE versions == IF proc[p].job = "install" THEN Installed
                       ELSE [q \in Roles |-> IF q \in DOMAIN proc[p].sources
                                             THEN proc[p].sources[q].content[q] ELSE -1]
<1>1. versions \in [Roles -> Int]
  BY DEF ProcessType, FileFacts, Content, Installed
<1>2. After(p, f) = Planned(f, versions)
  BY DEF After
<1> HIDE DEF versions
<1>3. After(p, f) \in Content
  BY <1>1, <1>2, PlannedIsContent
<1> QED
  BY <1>3, AuthoringAssumption

-----------------------------------------------------------------------------
(* Steps that write no file *)

OneMoment(p) ==
  proc[p].job = "compile" /\ proc[p].at \in Publishing =>
    \E now \in seen : \A q \in DOMAIN proc[p].sources : now[q] = proc[p].sources[q]

(* Only p moves, and no file and no source is touched. *)
Quiet(p) ==
  /\ UNCHANGED <<file, seen, written>> /\ folder' \in Nat /\ stamp' \in Nat
  /\ namespace' \in {"absent", "made", "ready"} /\ (namespace = "ready" => namespace' = "ready")
  /\ proc' = [proc EXCEPT ![p] = proc'[p]]
  /\ holders' \in {holders, holders \ {p}} \/ (holders = {} /\ holders' = {p})

(* What p has captured and where it is agree with the files as before.      *)
StaysWithin(p) ==
  \/ /\ proc'[p].next = 1 \/ (proc'[p].next = proc[p].next /\ proc'[p].job = proc[p].job)
     /\ \A q \in DOMAIN proc'[p].sources :
          /\ q \in Closure(RootRole)
          /\ \/ q \in DOMAIN proc[p].sources /\ proc'[p].sources[q] = proc[p].sources[q]
             \/ file[<<"source", q>>] # NoFile /\ proc'[p].sources[q] = file[<<"source", q>>]

(* A file of the closure that is there is as the installation has planned.  *)
LEMMA PresentSource ==
  \A n \in 0 .. 2 * Len(Order), role \in Closure(RootRole) :
    Present(n) /\ file[<<"source", role>>] # NoFile =>
      file[<<"source", role>>].content = SourceOf(role, 0)
<1>1. SUFFICES ASSUME NEW n \in 0 .. 2 * Len(Order), NEW role \in Closure(RootRole),
                      Present(n), file[<<"source", role>>] # NoFile
               PROVE  file[<<"source", role>>].content = SourceOf(role, 0)
  OBVIOUS
<1>2. PICK k \in 1 .. Len(Order) : role = Order[k]
  BY TargetPlaces
<1>3. Targets("install")[2 * k - 1] = <<"source", role>> /\ 2 * k - 1 \in DOMAIN Targets("install")
  BY <1>2, TargetPlaces, TargetsInOrder
<1>4. file[<<"source", role>>].content = Planned(<<"source", role>>, Installed)
  BY <1>1, <1>3, TargetsInOrder DEF Present
<1>5. role \in Roles
  BY DEF Closure
<1> QED
  BY <1>4, <1>5 DEF Planned, Installed

LEMMA QuietKeeps ==
  ASSUME AuthoringInv, NEW p \in Publishers, Quiet(p), StaysWithin(p),
         ProcessType(p)', JobInv(p)', PlanInv(p)', OneMoment(p)'
  PROVE  AuthoringInv'
<1>1. \A q \in Publishers : q # p =>
        proc'[q] = proc[q] /\ (q \in holders' <=> q \in holders)
  BY DEF Quiet, AuthoringInv, PublisherTypeInv
<1>2. PublisherTypeInv'
  <2>1. proc' = [q \in Publishers |-> proc'[q]]
    BY DEF Quiet, AuthoringInv, PublisherTypeInv
  <2>2. \A q \in Publishers : ProcessType(q)'
    BY <1>1 DEF AuthoringInv, PublisherTypeInv, ProcessType
  <2>3. Sources' = Sources
    BY DEF Quiet, Sources
  <2> QED
    BY <2>1, <2>2, <2>3 DEF Quiet, AuthoringInv, PublisherTypeInv
<1>3. \A q \in Publishers : JobInv(q)' /\ PlanInv(q)'
  BY <1>1 DEF Quiet, AuthoringInv, PublisherTypeInv, JobInv, PlanInv, Holding
<1>4. PublishedFromOneMoment'
  BY <1>1 DEF Quiet, AuthoringInv, PublishedFromOneMoment, OneMoment, Publishing
<1>5. InstallInv'
  <2>1. SUFFICES ASSUME written' = 0, ~ \A now \in seen' : now[RootRole] # NoFile
                 PROVE  \E n \in 0 .. 2 * Len(Order) :
                          Present(n)' /\ \A q \in Publishers : Within(q, n)'
    BY DEF InstallInv
  <2>2. PICK n \in 0 .. 2 * Len(Order) : Present(n) /\ \A q \in Publishers : Within(q, n)
    BY <2>1 DEF Quiet, AuthoringInv, InstallInv
  <2>3. Present(n)'
    BY <2>2 DEF Quiet, Present
  <2>4. \A q \in Publishers : q # p => Within(q, n)'
    BY <1>1, <2>2 DEF Quiet, Within
  <2>5. Within(p, n)'
    <3>1. Within(p, n) /\ n \in Nat
      BY <2>2, TargetsInOrder
    <3>2. proc'[p].job = "install" => proc'[p].next <= n + 1
      BY <3>1 DEF StaysWithin, Within
    <3>3. ASSUME NEW q \in DOMAIN proc'[p].sources
          PROVE  file[<<"source", q>>] # NoFile /\ proc'[p].sources[q].content = SourceOf(q, 0)
      BY <2>2, <3>1, PresentSource DEF StaysWithin, Within
    <3> QED
      BY <3>2, <3>3 DEF Quiet, Within
  <2> QED
    BY <2>3, <2>4, <2>5
<1> QED
  BY <1>2, <1>3, <1>4, <1>5 DEF AuthoringInv

(* A step that only takes p further, or ends its job. *)
GoneTo(p, at) ==
  /\ proc' = [proc EXCEPT ![p] = proc'[p]]
  /\ DOMAIN proc'[p] = Fields /\ proc'[p].at = at
  /\ proc'[p].job = proc[p].job /\ proc'[p].sources = proc[p].sources
  /\ proc'[p].next = proc[p].next /\ proc'[p].again = proc[p].again
  /\ proc'[p].torn = proc[p].torn

EndedAt(p, at) ==
  /\ proc' = [proc EXCEPT ![p] = proc'[p]]
  /\ DOMAIN proc'[p] = Fields /\ proc'[p].at = at
  /\ proc'[p].job = proc[p].job /\ proc'[p].sources = <<>>
  /\ proc'[p].next = 1 /\ proc'[p].again = FALSE /\ proc'[p].torn = proc[p].torn

LEMMA GoesOn ==
  ASSUME AuthoringInv, NEW p \in Publishers, NEW at, Go(p, at)
  PROVE  GoneTo(p, at)
BY DEF Go, GoneTo, AuthoringInv, PublisherTypeInv, ProcessType, Fields

LEMMA EndsJob ==
  ASSUME AuthoringInv, NEW p \in Publishers, NEW at, Ends(p, at)
  PROVE  EndedAt(p, at)
BY DEF Ends, EndedAt, Nobody, AuthoringInv, PublisherTypeInv, ProcessType, Fields

LEMMA InvOf ==
  ASSUME AuthoringInv, NEW p \in Publishers
  PROVE  /\ ProcessType(p) /\ JobInv(p) /\ PlanInv(p) /\ OneMoment(p)
         /\ holders \subseteq Publishers /\ (\A q, r \in holders : q = r)
         /\ folder \in Nat /\ stamp \in Nat /\ namespace \in {"absent", "made", "ready"}
         /\ proc = [q \in Publishers |-> proc[q]]
BY DEF AuthoringInv, PublisherTypeInv, PublishedFromOneMoment, OneMoment, Publishing

LEMMA PlanIsOfClosure ==
  ASSUME NEW p, PlanInv(p), NEW q \in DOMAIN proc[p].sources
  PROVE  q \in Closure(RootRole)
BY AuthoringAssumption DEF PlanInv

LEMMA Finishing ==
  ASSUME AuthoringInv, NEW p \in Publishers, NEW at \in {"done", "failed"}, Ends(p, at),
         at = "done" => ~(proc[p].job = "check" /\ proc[p].torn),
         Unlocked(p) \/ (p \notin holders /\ UNCHANGED holders),
         UNCHANGED <<file, folder, seen, namespace, written, stamp>>
  PROVE  AuthoringInv'
<1>1. EndedAt(p, at)
  BY EndsJob
<1>2. Quiet(p) /\ StaysWithin(p)
  BY <1>1, InvOf DEF EndedAt, Quiet, StaysWithin, Unlocked
<1>3. ProcessType(p)' /\ PlanInv(p)' /\ OneMoment(p)'
  <2>1. proc[p].job \in Jobs
    BY InvOf DEF ProcessType
  <2>2. ProcessType(p)'
    BY <1>1, <2>1 DEF EndedAt, ProcessType
  <2>3. PlanInv(p)' /\ OneMoment(p)'
    BY <1>1 DEF EndedAt, PlanInv, OneMoment, Publishing, PastBoundary, UnderLock
  <2> QED
    BY <2>2, <2>3
<1>4. JobInv(p)'
  BY <1>1, InvOf DEF EndedAt, JobInv, ProcessType, Holding, Unlocked, Publishing, PastBoundary, UnderLock
<1> QED
  BY <1>2, <1>3, <1>4, QuietKeeps

LEMMA MakingNamespace ==
  ASSUME AuthoringInv, NEW p \in Publishers, NEW job \in Jobs, MakeNamespace(p, job)
  PROVE  AuthoringInv'
<1>1. /\ proc[p] = Nobody /\ proc' = [proc EXCEPT ![p] = proc'[p]]
      /\ proc'[p] = [Nobody EXCEPT !.at = "ready", !.job = job]
  BY InvOf DEF MakeNamespace, JobInv
<1>2. /\ DOMAIN proc'[p] = Fields /\ proc'[p].at = "ready" /\ proc'[p].job = job
      /\ proc'[p].sources = <<>> /\ proc'[p].next = 1 /\ ~proc'[p].again /\ ~proc'[p].torn
  BY <1>1 DEF Nobody, Fields
<1>3. Quiet(p) /\ StaysWithin(p)
  BY <1>1, <1>2, InvOf DEF Quiet, StaysWithin, MakeNamespace
<1>4. ProcessType(p)' /\ PlanInv(p)' /\ OneMoment(p)'
  BY <1>2 DEF ProcessType, PlanInv, OneMoment, Publishing, PastBoundary, UnderLock
<1>5. JobInv(p)'
  BY <1>1, <1>2, InvOf DEF JobInv, Holding, MakeNamespace, Publishing, PastBoundary, UnderLock, Nobody
<1> QED
  BY <1>3, <1>4, <1>5, QuietKeeps

LEMMA MakingLock ==
  ASSUME AuthoringInv, NEW p \in Publishers, MakeLock(p)
  PROVE  AuthoringInv'
<1>1. GoneTo(p, "capture")
  BY GoesOn DEF MakeLock
<1>2. Quiet(p)
  BY <1>1, InvOf DEF GoneTo, Quiet, MakeLock
<1>3. StaysWithin(p)
  BY <1>1, InvOf, PlanIsOfClosure DEF GoneTo, StaysWithin
<1>4. ProcessType(p)' /\ PlanInv(p)' /\ OneMoment(p)'
  BY <1>1, InvOf DEF GoneTo, MakeLock, ProcessType, PlanInv, OneMoment, Publishing, PastBoundary, UnderLock
<1>5. JobInv(p)'
  BY <1>1, InvOf DEF GoneTo, JobInv, ProcessType, Holding, MakeLock, Publishing, PastBoundary, UnderLock
<1> QED
  BY <1>2, <1>3, <1>4, <1>5, QuietKeeps

LEMMA GoingOn ==
  ASSUME AuthoringInv, NEW p \in Publishers, NEW at, Go(p, at),
         at \notin {"idle", "done", "failed"},
         UNCHANGED <<file, seen, written, namespace>>, folder' \in Nat, stamp' \in Nat,
         at \in {"capture", "observed", "ready"} \cup PastBoundary,
         UNCHANGED holders \/ (holders = {} /\ holders' = {p}),
         JobInv(p)', PlanInv(p)', OneMoment(p)'
  PROVE  AuthoringInv'
<1>1. GoneTo(p, at)
  BY GoesOn
<1>2. Quiet(p)
  BY <1>1, InvOf DEF GoneTo, Quiet
<1>3. StaysWithin(p)
  BY <1>1, InvOf, PlanIsOfClosure DEF GoneTo, StaysWithin
<1>4. ProcessType(p)'
  BY <1>1, InvOf DEF GoneTo, ProcessType
<1> QED
  BY <1>2, <1>3, <1>4, QuietKeeps

LEMMA TakingLock ==
  ASSUME AuthoringInv, NEW p \in Publishers, TakeLock(p)
  PROVE  AuthoringInv'
<1>1. GoneTo(p, "locked")
  BY GoesOn DEF TakeLock
<1>2. JobInv(p)'
  BY <1>1, InvOf DEF TakeLock, GoneTo, JobInv, ProcessType, Holding, Publishing, PastBoundary, UnderLock
<1>3. PlanInv(p)' /\ OneMoment(p)'
  BY <1>1, InvOf DEF TakeLock, GoneTo, PlanInv, OneMoment, Publishing, PastBoundary, UnderLock
<1> QED
  BY <1>2, <1>3, InvOf, GoingOn DEF TakeLock, PastBoundary, UnderLock

LEMMA PlanHasTargets ==
  ASSUME NEW job \in Jobs
  PROVE  Len(Targets(job)) \in Nat \ {0}
<1>1. RootRole \in Closure(RootRole)
  BY AuthoringAssumption DEF Closure
<1>2. Len(Order) \in Nat \ {0}
  BY <1>1, TargetPlaces, TargetsInOrder
<1> QED
  BY <1>2, TargetsInOrder

LEMMA Preflighting ==
  ASSUME AuthoringInv, NEW p \in Publishers, Preflight(p)
  PROVE  AuthoringInv'
<1>1. CASE ~PlanHolds(p)
  BY <1>1, Finishing, InvOf DEF Preflight, Fail
<1>2. CASE PlanHolds(p) /\ proc[p].at = "preflight"
  <2>1. GoneTo(p, "lock") /\ UNCHANGED <<file, folder, seen, namespace, holders, written, stamp>>
    BY <1>2, GoesOn DEF Preflight
  <2>2. JobInv(p)'
    BY <1>2, <2>1, InvOf DEF GoneTo, JobInv, ProcessType, Holding, Publishing, PastBoundary, UnderLock
  <2>3. PlanInv(p)' /\ OneMoment(p)'
    BY <1>2, <2>1, InvOf DEF GoneTo, PlanInv, OneMoment, Publishing, PastBoundary, UnderLock
  <2> QED
    BY <1>2, <2>1, <2>2, <2>3, InvOf, GoingOn DEF Preflight, PastBoundary, UnderLock
<1>3. CASE PlanHolds(p) /\ proc[p].at = "locked"
  <2>1. GoneTo(p, "check") /\ Go(p, "check") /\ UNCHANGED <<file, seen, namespace, holders, written>>
    BY <1>3, GoesOn DEF Preflight
  <2>2. folder' \in Nat /\ stamp' \in Nat
    BY <1>3, InvOf DEF Preflight
  <2>3. JobInv(p)'
    BY <1>3, <2>1, InvOf DEF GoneTo, JobInv, ProcessType, Holding, Publishing, PastBoundary, UnderLock
  <2>4. proc[p].job \in Jobs /\ Len(Targets(proc[p].job)) \in Nat \ {0}
    BY InvOf, PlanHasTargets DEF ProcessType
  <2>5. PlanInv(p)'
    BY <1>3, <2>1, <2>4, InvOf DEF GoneTo, PlanInv, Publishing, PastBoundary, UnderLock
  <2>6. OneMoment(p)'
    <3>1. Sources \in seen /\ \A q \in DOMAIN proc[p].sources : Sources[q] = proc[p].sources[q]
      <4>1. \A q \in DOMAIN proc[p].sources : q \in Roles /\ file[<<"source", q>>] = proc[p].sources[q]
        BY <1>3, InvOf, PlanIsOfClosure DEF PlanHolds, SourcesHold, Closure
      <4> QED
        BY <4>1 DEF Sources, AuthoringInv, PublisherTypeInv
    <3> QED
      BY <2>1, <3>1 DEF GoneTo, OneMoment
  <2> QED
    BY <2>1, <2>2, <2>3, <2>5, <2>6, GoingOn DEF PastBoundary, UnderLock, Publishing
<1> QED
  BY <1>1, <1>2, <1>3 DEF Preflight

LEMMA CheckingTarget ==
  ASSUME AuthoringInv, NEW p \in Publishers, CheckTarget(p)
  PROVE  AuthoringInv'
<1>1. CASE ~(SourcesHold(p) /\ TargetHolds(p, NextTarget(p)))
  BY <1>1, Finishing, InvOf DEF CheckTarget, Fail
<1>2. CASE SourcesHold(p) /\ TargetHolds(p, NextTarget(p))
  <2>1. GoneTo(p, "publish") /\ Go(p, "publish") /\ proc[p].at = "check"
        /\ UNCHANGED <<file, folder, seen, namespace, holders, written, stamp>>
    BY <1>2, GoesOn DEF CheckTarget
  <2>2. JobInv(p)'
    BY <2>1, InvOf DEF GoneTo, JobInv, ProcessType, Holding, Publishing, PastBoundary, UnderLock
  <2>3. PlanInv(p)' /\ OneMoment(p)'
    BY <2>1, InvOf DEF GoneTo, PlanInv, OneMoment, Publishing, PastBoundary, UnderLock
  <2> QED
    BY <2>1, <2>2, <2>3, InvOf, GoingOn DEF PastBoundary, UnderLock, Publishing
<1> QED
  BY <1>1, <1>2

LEMMA Verifying ==
  ASSUME AuthoringInv, NEW p \in Publishers, VerifyPublished(p)
  PROVE  AuthoringInv'
<1>1. proc[p].job # "check"
  BY InvOf DEF VerifyPublished, JobInv, PastBoundary, UnderLock, Publishing
<1>2. \E at \in {"done", "failed"} : Ends(p, at)
  BY DEF VerifyPublished
<1> QED
  BY <1>1, <1>2, Finishing DEF VerifyPublished

LEMMA Dying ==
  ASSUME AuthoringInv, NEW p \in Publishers, Die(p)
  PROVE  AuthoringInv'
BY Finishing DEF Die, Fail

(* A check begins under the lock, or where there is no namespace yet. *)
LEMMA Locating ==
  ASSUME AuthoringInv, NEW p \in Publishers, Locate(p)
  PROVE  AuthoringInv'
<1>1. CASE namespace = "ready"
  <2>1. /\ holders = {} /\ holders' = {p} /\ proc' = [proc EXCEPT ![p] = proc'[p]]
        /\ proc'[p] = [Nobody EXCEPT !.at = "capture", !.again = TRUE]
    BY <1>1, InvOf DEF Locate
  <2>2. /\ DOMAIN proc'[p] = Fields /\ proc'[p].at = "capture" /\ proc'[p].job = "check"
        /\ proc'[p].sources = <<>> /\ proc'[p].next = 1 /\ proc'[p].again = TRUE
        /\ ~proc'[p].torn
    BY <2>1 DEF Nobody, Fields
  <2>3. Quiet(p) /\ StaysWithin(p)
    BY <1>1, <2>1, <2>2, InvOf DEF Quiet, StaysWithin, Locate
  <2>4. ProcessType(p)'
    BY <2>2 DEF ProcessType, Jobs
  <2>5. PlanInv(p)' /\ OneMoment(p)'
    BY <2>2 DEF PlanInv, OneMoment, Publishing, PastBoundary, UnderLock
  <2>6. JobInv(p)'
    BY <1>1, <2>1, <2>2 DEF JobInv, Holding, Locate, Publishing, PastBoundary, UnderLock
  <2> QED
    BY <2>3, <2>4, <2>5, <2>6, QuietKeeps
<1>2. CASE namespace = "absent" /\ proc[p].at = "idle"
  <2>1. /\ GoneTo(p, "capture") /\ Go(p, "capture") /\ proc[p] = Nobody
        /\ UNCHANGED <<file, folder, seen, namespace, holders, written, stamp>>
    BY <1>2, GoesOn, InvOf DEF Locate, JobInv
  <2>2. JobInv(p)'
    BY <1>2, <2>1, InvOf DEF GoneTo, JobInv, Nobody, Holding, Publishing, PastBoundary, UnderLock
  <2>3. PlanInv(p)' /\ OneMoment(p)'
    BY <1>2, <2>1, InvOf DEF GoneTo, PlanInv, OneMoment, Publishing, PastBoundary, UnderLock
  <2> QED
    BY <2>1, <2>2, <2>3, InvOf, GoingOn
<1>3. CASE namespace = "absent" /\ proc[p].at = "observed"
  <2>1. \E at \in {"done", "failed"} : Ends(p, at)
    BY <1>3 DEF Locate
  <2>2. p \notin holders /\ ~(proc[p].job = "check" /\ proc[p].torn)
    BY <1>3, InvOf DEF JobInv, Holding, UnderLock, Publishing
  <2> QED
    BY <1>3, <2>1, <2>2, Finishing DEF Locate
<1>4. CASE namespace \notin {"ready", "absent"}
  BY <1>4, Finishing DEF Locate, Fail
<1> QED
  BY <1>1, <1>2, <1>3, <1>4 DEF Locate

LEMMA CapturingSource ==
  ASSUME AuthoringInv, NEW p \in Publishers, CaptureSource(p)
  PROVE  AuthoringInv'
<1> DEFINE done == DOMAIN proc[p].sources
<1>1. PICK n \in DOMAIN Reads :
        /\ proc[p].at = "capture" /\ proc[p].job # "install" /\ Reads[n] \notin done
        /\ IF file[<<"source", Reads[n]>>] = NoFile
           THEN IF proc[p].job = "check" /\ ~proc[p].again
                THEN Go(p, "observed") /\ UNCHANGED holders ELSE Fail(p)
           ELSE /\ UNCHANGED holders
                /\ proc' = [proc EXCEPT ![p].sources =
                     [q \in done \cup {Reads[n]} |->
                        IF q = Reads[n] THEN file[<<"source", Reads[n]>>]
                        ELSE proc[p].sources[q]]]
        /\ UNCHANGED <<file, folder, seen, namespace, written, stamp>>
  BY DEF CaptureSource
<1>2. CASE file[<<"source", Reads[n]>>] = NoFile /\ proc[p].job = "check" /\ ~proc[p].again
  <2>1. GoneTo(p, "observed") /\ Go(p, "observed")
    BY <1>1, <1>2, GoesOn
  <2>2. JobInv(p)'
    BY <1>1, <1>2, <2>1, InvOf DEF GoneTo, JobInv, ProcessType, Holding, Publishing, PastBoundary, UnderLock
  <2>3. PlanInv(p)' /\ OneMoment(p)'
    BY <1>1, <2>1, InvOf DEF GoneTo, PlanInv, OneMoment, Publishing, PastBoundary, UnderLock
  <2> QED
    BY <1>1, <1>2, <2>1, <2>2, <2>3, InvOf, GoingOn
<1>3. CASE file[<<"source", Reads[n]>>] = NoFile /\ ~(proc[p].job = "check" /\ ~proc[p].again)
  BY <1>1, <1>3, Finishing DEF Fail
<1>4. CASE file[<<"source", Reads[n]>>] # NoFile
  <2> DEFINE role == Reads[n]
  <2>1. role \in Closure(RootRole) /\ role \in Roles /\ role \in Range(Reads)
    BY AuthoringAssumption DEF Range
  <2>2. file[<<"source", role>>] \in FileFacts
    BY <1>4, <2>1 DEF AuthoringInv, PublisherTypeInv, Files
  <2> HIDE DEF role
  <2> DEFINE captured == [q \in done \cup {role} |->
                            IF q = role THEN file[<<"source", role>>] ELSE proc[p].sources[q]]
  <2>3. /\ proc' = [proc EXCEPT ![p] = proc'[p]] /\ DOMAIN proc'[p] = Fields
        /\ proc'[p].at = "capture" /\ proc'[p].job = proc[p].job /\ proc'[p].next = proc[p].next
        /\ proc'[p].again = proc[p].again /\ proc'[p].torn = proc[p].torn
        /\ proc'[p].sources = captured
    <3>1. proc' = [proc EXCEPT ![p].sources = captured] /\ proc[p].at = "capture"
      BY <1>1, <1>4 DEF role
    <3> HIDE DEF captured
    <3> QED
      BY <3>1, InvOf DEF ProcessType, Fields
  <2>4. Quiet(p)
    BY <1>1, <1>4, <2>3, InvOf DEF Quiet
  <2>5. StaysWithin(p)
    BY <1>4, <2>1, <2>3, PlanIsOfClosure, InvOf DEF StaysWithin, role
  <2>6. ProcessType(p)'
    BY <2>2, <2>3, InvOf DEF ProcessType
  <2>7. JobInv(p)'
    BY <1>1, <1>4, <2>3, InvOf DEF JobInv, Holding, Publishing, PastBoundary, UnderLock
  <2>8. PlanInv(p)' /\ OneMoment(p)'
    BY <1>1, <2>1, <2>3, InvOf DEF PlanInv, OneMoment, Publishing, PastBoundary, UnderLock
  <2> QED
    BY <2>4, <2>5, <2>6, <2>7, <2>8, QuietKeeps
<1> QED
  BY <1>2, <1>3, <1>4

LEMMA CapturingTargets ==
  ASSUME AuthoringInv, NEW p \in Publishers, CaptureTargets(p)
  PROVE  AuthoringInv'
<1>1. /\ proc[p].at = "capture"
      /\ proc[p].job = "install" \/ DOMAIN proc[p].sources = Range(Reads)
      /\ UNCHANGED <<file, folder, seen, namespace, written, stamp>>
  BY DEF CaptureTargets
<1>2. CASE Fail(p)
  BY <1>1, <1>2, Finishing DEF Fail
<1>3. CASE proc[p].again /\ Ends(p, "done") /\ ~Fail(p)
  <2>1. Unlocked(p) /\ ~proc[p].torn
    BY <1>1, <1>3, InvOf DEF CaptureTargets, JobInv
  <2> QED
    BY <1>1, <1>3, <2>1, Finishing
<1>4. CASE ~proc[p].again /\ ~Fail(p)
  <2> DEFINE at == IF proc[p].job = "check" THEN "observed" ELSE "preflight"
  <2>1. GoneTo(p, at)
    <3>1. PICK before : proc' = [proc EXCEPT ![p].before = before, ![p].folder = folder,
                                             ![p].at = at]
      BY <1>4 DEF CaptureTargets
    <3>2. proc'[p] = [proc[p] EXCEPT !.before = before, !.folder = folder, !.at = at]
          /\ proc' = [proc EXCEPT ![p] = proc'[p]]
      BY <3>1, InvOf
    <3> HIDE DEF at
    <3> QED
      BY <3>2, InvOf DEF GoneTo, ProcessType, Fields
  <2>2. p \notin holders /\ UNCHANGED holders
    BY <1>1, <1>4, InvOf DEF CaptureTargets, Unlocked, JobInv, Holding, UnderLock, Publishing
  <2>3. Quiet(p)
    BY <1>1, <2>1, <2>2, InvOf DEF GoneTo, Quiet
  <2>4. StaysWithin(p)
    BY <2>1, InvOf, PlanIsOfClosure DEF GoneTo, StaysWithin
  <2>5. ProcessType(p)'
    BY <2>1, InvOf DEF GoneTo, ProcessType, PastBoundary
  <2>6. JobInv(p)'
    BY <1>1, <1>4, <2>1, <2>2, InvOf DEF GoneTo, JobInv, Holding, Publishing, PastBoundary, UnderLock
  <2>7. PlanInv(p)' /\ OneMoment(p)'
    BY <1>1, <2>1, InvOf DEF GoneTo, PlanInv, OneMoment, Publishing, PastBoundary, UnderLock
  <2> QED
    BY <2>3, <2>4, <2>5, <2>6, <2>7, QuietKeeps
<1> QED
  BY <1>2, <1>3, <1>4 DEF CaptureTargets

-----------------------------------------------------------------------------
(* Steps that write a file *)

LEMMA WritesFile ==
  ASSUME AuthoringInv, NEW f \in Files, NEW content \in Content \cup {NoFile}, WriteFile(f, content)
  PROVE  /\ file' \in [Files -> FileFacts \cup {NoFile}] /\ stamp' \in Nat
         /\ Sources' \in seen' /\ seen \subseteq seen'
         /\ \A g \in Files : g # f => file'[g] = file[g]
         /\ content # NoFile => file'[f] # NoFile /\ file'[f].content = content
<1>1. file \in [Files -> FileFacts \cup {NoFile}] /\ stamp \in Nat
  BY DEF AuthoringInv, PublisherTypeInv
<1> DEFINE new == IF content = NoFile THEN NoFile ELSE [content |-> content, id |-> stamp]
<1>2. new \in FileFacts \cup {NoFile}
  BY <1>1 DEF FileFacts
<1>3. content # NoFile => new # NoFile /\ new.content = content
  BY <1>1, AuthoringAssumption
<1>4. file' = [file EXCEPT ![f] = new]
  BY DEF WriteFile
<1> HIDE DEF new
<1>5. file' \in [Files -> FileFacts \cup {NoFile}] /\ file'[f] = new
      /\ \A g \in Files : g # f => file'[g] = file[g]
  BY <1>1, <1>2, <1>4
<1>6. Sources' \in seen' /\ seen \subseteq seen' /\ stamp' \in Nat
  BY <1>1 DEF WriteFile, Sources
<1> QED
  BY <1>3, <1>5, <1>6

LEMMA Editing ==
  ASSUME AuthoringInv, NEW f \in Files, EditFile(f)
  PROVE  AuthoringInv'
<1>1. /\ written' = written + 1 /\ UNCHANGED <<namespace, holders, proc>>
      /\ folder' \in {folder, stamp}
  BY DEF EditFile
<1>2. PICK content \in Content \cup {NoFile} : WriteFile(f, content)
  <2>1. \A v \in {0, 1} : SourceOf(f[2], v) \in Content
    BY DEF SourceOf, Content, Files
  <2>2. Foreign \in Content
    BY DEF Foreign, Content
  <2> QED
    BY <2>1, <2>2 DEF EditFile
<1>3. PublisherTypeInv'
  BY <1>1, <1>2, WritesFile DEF AuthoringInv, PublisherTypeInv, ProcessType
<1>4. \A p \in Publishers : JobInv(p)' /\ PlanInv(p)'
  BY <1>1 DEF AuthoringInv, JobInv, PlanInv, Holding
<1>5. PublishedFromOneMoment'
  BY <1>1, <1>2, WritesFile DEF AuthoringInv, PublishedFromOneMoment
<1>6. written' # 0
  BY <1>1 DEF AuthoringInv, PublisherTypeInv
<1> QED
  BY <1>3, <1>4, <1>5, <1>6 DEF AuthoringInv, InstallInv

(* A publication writes what the installation would have written there, and *)
(* leaves no gap: one that compiles has found all of the sources.           *)
LEMMA WritesAsInstalled ==
  ASSUME AuthoringInv, NEW p \in Publishers, proc[p].at = "publish",
         NEW n \in 0 .. 2 * Len(Order), Present(n), Within(p, n)
  PROVE  \E k \in 1 .. 2 * Len(Order) :
           /\ k <= n + 1 /\ NextTarget(p) = Targets("install")[k]
           /\ After(p, NextTarget(p)) = Planned(NextTarget(p), Installed)
           /\ proc[p].job = "install" => k = proc[p].next
<1>1. proc[p].next \in 1 .. Len(Targets(proc[p].job)) /\ proc[p].job \in {"install", "compile"}
  BY InvOf DEF PlanInv, JobInv, ProcessType, Jobs, PastBoundary, UnderLock, Publishing
<1>2. CASE proc[p].job = "install"
  BY <1>1, <1>2, TargetsInOrder DEF Within, NextTarget, After
<1>3. CASE proc[p].job = "compile"
  <2> DEFINE k == proc[p].next
  <2> DEFINE role == Order[k]
  <2>1. k \in 1 .. Len(Order) /\ Len(Order) \in Nat
    BY <1>1, <1>3, TargetsInOrder DEF Jobs
  <2>2. NextTarget(p) = <<"recipe", role>> /\ role \in Closure(RootRole) /\ role \in Roles
    BY <1>3, <2>1, TargetsInOrder DEF NextTarget, Targets, Closure
  <2>3. DOMAIN proc[p].sources = Closure(RootRole)
    BY <1>3, InvOf, AuthoringAssumption DEF PlanInv, PastBoundary, UnderLock, Publishing
  <2>4. 2 * k \in 1 .. 2 * Len(Order) /\ Targets("install")[2 * k] = NextTarget(p)
    BY <2>1, <2>2, TargetPlaces
  <2>5. 2 * Len(Order) - 1 <= n
    <3>1. /\ 2 * Len(Order) - 1 \in 1 .. 2 * Len(Order)
          /\ Targets("install")[2 * Len(Order) - 1] = <<"source", Order[Len(Order)]>>
      BY <2>1, TargetPlaces
    <3>2. file[<<"source", Order[Len(Order)]>>] # NoFile
      BY <2>1, <2>3, TargetsInOrder DEF Within
    <3> QED
      BY <3>1, <3>2, TargetsInOrder DEF Present
  <2>6. After(p, NextTarget(p)) = Planned(NextTarget(p), Installed)
    <3> DEFINE versions == [q \in Roles |-> IF q \in DOMAIN proc[p].sources
                                            THEN proc[p].sources[q].content[q] ELSE -1]
    <3>1. \A q \in Closure(role) : q \in Roles /\ versions[q] = 0 /\ Installed[q] = 0
      <4>1. \A q \in Closure(role) : q \in Closure(RootRole) /\ q \in Roles
        BY <2>2, ClosureIsClosed DEF Closure
      <4>2. \A q \in Closure(RootRole) : proc[p].sources[q].content = SourceOf(q, 0)
        BY <2>3 DEF Within
      <4> QED
        BY <4>1, <4>2, <2>3, InstalledSource DEF Installed
    <3>2. After(p, NextTarget(p)) = RecipeOf(role, versions)
      BY <1>3, <2>2 DEF After, Planned
    <3>3. Planned(NextTarget(p), Installed) = RecipeOf(role, Installed)
      BY <2>2 DEF Planned
    <3> HIDE DEF versions
    <3>4. RecipeOf(role, versions) = RecipeOf(role, Installed)
      BY <3>1 DEF RecipeOf
    <3> QED
      BY <3>2, <3>3, <3>4
  <2>7. 2 * k <= n + 1
    BY <2>1, <2>5
  <2> HIDE DEF k, role
  <2> QED
    BY <1>3, <2>4, <2>6, <2>7
<1> QED
  BY <1>1, <1>2, <1>3

LEMMA PublishingTarget ==
  ASSUME AuthoringInv, NEW p \in Publishers, PublishTarget(p)
  PROVE  AuthoringInv'
<1> DEFINE f == NextTarget(p)
<1>1. proc[p].at = "publish" /\ UNCHANGED <<folder, namespace, written>>
  BY DEF PublishTarget
<1>2. CASE proc[p].before[f] = NoFile /\ file[f] # NoFile
  BY <1>1, <1>2, Finishing DEF PublishTarget, Fail
<1>3. CASE ~(proc[p].before[f] = NoFile /\ file[f] # NoFile)
  <2> DEFINE at == IF proc[p].next = Len(Targets(proc[p].job)) THEN "verify" ELSE "check"
  <2>1. /\ WriteFile(f, After(p, f)) /\ UNCHANGED holders
        /\ proc' = [q \in Publishers |->
             IF q = p THEN [proc[p] EXCEPT !.next = @ + 1, !.at = at]
             ELSE IF proc[q].at = "capture" THEN [proc[q] EXCEPT !.torn = TRUE]
             ELSE proc[q]]
    BY <1>3 DEF PublishTarget
  <2>2. /\ proc[p].next \in 1 .. Len(Targets(proc[p].job)) /\ proc[p].job \in Jobs
        /\ proc[p].job # "check" /\ p \in holders /\ namespace = "ready"
        /\ proc[p].next \in Nat
    BY <1>1, InvOf DEF PlanInv, JobInv, ProcessType, Holding, PastBoundary, UnderLock, Publishing
  <2>3. f \in Files /\ Len(Targets(proc[p].job)) \in Nat
    BY <2>2, TargetsInOrder DEF NextTarget, Jobs
  <2>4. After(p, f) \in Content /\ After(p, f) # NoFile
    BY <2>3, AfterIsContent, InvOf
  <2> HIDE DEF f
  <2>5. /\ file' \in [Files -> FileFacts \cup {NoFile}] /\ stamp' \in Nat
        /\ Sources' \in seen' /\ seen \subseteq seen'
        /\ \A g \in Files : g # f => file'[g] = file[g]
        /\ file'[f] # NoFile /\ file'[f].content = After(p, f)
    BY <2>1, <2>3, <2>4, WritesFile
  <2>6. /\ DOMAIN proc'[p] = Fields /\ proc'[p].at = at /\ proc'[p].next = proc[p].next + 1
        /\ proc'[p].job = proc[p].job /\ proc'[p].sources = proc[p].sources
        /\ proc'[p].again = proc[p].again /\ proc'[p].torn = proc[p].torn
    <3>1. proc'[p] = [proc[p] EXCEPT !.next = @ + 1, !.at = at]
      BY <2>1
    <3> HIDE DEF at
    <3> QED
      BY <3>1, InvOf DEF ProcessType, Fields
  <2>7. ASSUME NEW q \in Publishers, q # p
        PROVE  /\ DOMAIN proc'[q] = Fields /\ proc'[q].at = proc[q].at
               /\ proc'[q].job = proc[q].job /\ proc'[q].sources = proc[q].sources
               /\ proc'[q].next = proc[q].next /\ proc'[q].again = proc[q].again
               /\ proc[q].at = "capture" => proc'[q].torn = TRUE
               /\ proc[q].at # "capture" => proc'[q] = proc[q]
    <3>1. CASE proc[q].at = "capture"
      <4>1. proc'[q] = [proc[q] EXCEPT !.torn = TRUE]
        BY <2>1, <2>7, <3>1
      <4> QED
        BY <3>1, <4>1, InvOf DEF ProcessType, Fields
    <3>2. CASE proc[q].at # "capture"
      <4>1. proc'[q] = proc[q]
        BY <2>1, <2>7, <3>2
      <4> QED
        BY <3>2, <4>1, InvOf DEF ProcessType
    <3> QED
      BY <3>1, <3>2
  <2>0. \A q \in Publishers : ProcessType(q) /\ JobInv(q) /\ PlanInv(q) /\ OneMoment(q)
    BY InvOf
  <2>8. PublisherTypeInv'
    <3>1. ProcessType(p)'
      <4>1. at \in PastBoundary /\ proc[p].next + 1 \in Nat
        BY <2>2 DEF PastBoundary, UnderLock, Publishing
      <4> HIDE DEF at
      <4> QED
        BY <2>0, <2>2, <2>6, <4>1 DEF ProcessType
    <3>2. ASSUME NEW q \in Publishers, q # p
          PROVE  ProcessType(q)'
      BY <2>7, <3>2, InvOf DEF ProcessType
    <3>3. proc' = [q \in Publishers |-> proc'[q]]
      BY <2>1
    <3> QED
      BY <1>1, <2>1, <2>5, <3>1, <3>2, <3>3 DEF AuthoringInv, PublisherTypeInv
  <2>9. JobInv(p)' /\ PlanInv(p)'
    <3>1. JobInv(p)'
      BY <1>1, <2>1, <2>2, <2>6, InvOf DEF JobInv, Holding, PastBoundary, UnderLock, Publishing
    <3>2. PlanInv(p)'
      BY <1>1, <2>2, <2>3, <2>6, InvOf DEF PlanInv, PastBoundary, UnderLock, Publishing
    <3> QED
      BY <3>1, <3>2
  <2>10. ASSUME NEW q \in Publishers, q # p
         PROVE  JobInv(q)' /\ PlanInv(q)'
    <3>1. proc[q].at = "capture" => ~proc[q].again
      BY <2>2, <2>10, InvOf DEF JobInv, Holding
    <3>2. JobInv(q)'
      <4>1. CASE proc[q].at = "capture"
        BY <1>1, <2>1, <2>2, <2>7, <2>10, <3>1, <4>1, InvOf
           DEF JobInv, Holding, PastBoundary, UnderLock, Publishing
      <4>2. CASE proc[q].at # "capture"
        BY <1>1, <2>1, <2>7, <2>10, <4>2, InvOf DEF JobInv, Holding
      <4> QED
        BY <4>1, <4>2
    <3>3. PlanInv(q)'
      BY <2>0, <2>7, <2>10 DEF PlanInv, Publishing
    <3> QED
      BY <3>2, <3>3
  <2>11. PublishedFromOneMoment'
    <3>1. OneMoment(p)'
      <4>1. proc[p].job = "compile" =>
              \E now \in seen' : \A q \in DOMAIN proc[p].sources : now[q] = proc[p].sources[q]
        BY <1>1, <2>0, <2>5 DEF OneMoment, Publishing
      <4> QED
        BY <2>6, <4>1 DEF OneMoment
    <3>2. ASSUME NEW q \in Publishers, q # p
          PROVE  OneMoment(q)'
      <4>1. proc[q].job = "compile" /\ proc[q].at \in Publishing =>
              \E now \in seen' : \A r \in DOMAIN proc[q].sources : now[r] = proc[q].sources[r]
        BY <2>0, <2>5 DEF OneMoment
      <4>2. /\ proc'[q].job = proc[q].job /\ proc'[q].at = proc[q].at
            /\ proc'[q].sources = proc[q].sources
        BY <2>7, <3>2
      <4> QED
        BY <4>1, <4>2 DEF OneMoment
    <3> QED
      BY <3>1, <3>2 DEF OneMoment, PublishedFromOneMoment, Publishing
  <2>12. InstallInv'
    <3>1. SUFFICES ASSUME written' = 0 PROVE InstallInv'
      BY DEF InstallInv
    <3>2. CASE \A now \in seen : now[RootRole] # NoFile
      <4>1. RootRole \in Roles /\ <<"source", RootRole>> \in Files
        BY AuthoringAssumption DEF Files
      <4>2. file[<<"source", RootRole>>] # NoFile
        BY <3>2, <4>1 DEF AuthoringInv, PublisherTypeInv, Sources
      <4>3. file'[<<"source", RootRole>>] # NoFile
        BY <2>5, <4>1, <4>2
      <4>4. seen' = seen \cup {Sources'} /\ Sources'[RootRole] # NoFile
        BY <2>1, <4>1, <4>3 DEF WriteFile, Sources
      <4> QED
        BY <3>2, <4>4 DEF InstallInv
    <3>3. CASE ~ \A now \in seen : now[RootRole] # NoFile
      <4>1. PICK n \in 0 .. 2 * Len(Order) : Present(n) /\ \A q \in Publishers : Within(q, n)
        BY <1>1, <3>1, <3>3 DEF AuthoringInv, InstallInv
      <4>2. PICK k \in 1 .. 2 * Len(Order) :
              /\ k <= n + 1 /\ f = Targets("install")[k]
              /\ After(p, f) = Planned(f, Installed)
              /\ proc[p].job = "install" => k = proc[p].next
        BY <1>1, <4>1, WritesAsInstalled DEF f
      <4> DEFINE m == IF k <= n THEN n ELSE n + 1
      <4>3. Len(Order) \in Nat /\ m \in 0 .. 2 * Len(Order) /\ n <= m /\ k <= m
        BY <4>2, TargetsInOrder
      <4>4. Present(m)'
        <5>1. ASSUME NEW j \in DOMAIN Targets("install")
              PROVE  /\ file'[Targets("install")[j]] # NoFile <=> j <= m
                     /\ j <= m => file'[Targets("install")[j]].content
                                    = Planned(Targets("install")[j], Installed)
          <6>1. j \in 1 .. 2 * Len(Order) /\ Targets("install")[j] \in Files
            BY TargetsInOrder
          <6>2. CASE j = k
            BY <2>5, <4>2, <4>3, <6>2
          <6>3. CASE j # k
            <7>1. Targets("install")[j] # f
              BY <4>2, <6>1, <6>3, TargetsDiffer
            <7>2. file'[Targets("install")[j]] = file[Targets("install")[j]]
              BY <2>5, <6>1, <7>1
            <7>3. j <= m <=> j <= n
              BY <4>1, <4>2, <4>3, <6>1, <6>3
            <7> QED
              BY <4>1, <7>2, <7>3 DEF Present
          <6> QED
            BY <6>2, <6>3
        <5> QED
          BY <5>1 DEF Present
      <4>5. \A g \in Files : file[g] # NoFile => file'[g] # NoFile
        BY <2>5
      <4> HIDE DEF m
      <4>6. ASSUME NEW q \in Publishers PROVE Within(q, m)'
        <5>1. ASSUME NEW r \in DOMAIN proc[q].sources
              PROVE  file'[<<"source", r>>] # NoFile /\ proc[q].sources[r].content = SourceOf(r, 0)
          <6>1. <<"source", r>> \in Files
            BY InvOf, PlanIsOfClosure DEF Closure, Files
          <6> QED
            BY <4>1, <4>5, <6>1 DEF Within
        <5>2. CASE q = p
          BY <2>2, <2>6, <4>2, <4>3, <5>1, <5>2 DEF Within
        <5>3. CASE q # p
          <6>1. proc[q].job = "install" => proc[q].next <= m + 1
            <7>1. proc[q].next \in Nat
              BY InvOf DEF ProcessType
            <7> QED
              BY <4>1, <4>3, <7>1 DEF Within
          <6> QED
            BY <2>7, <5>1, <5>3, <6>1 DEF Within
        <5> QED
          BY <5>2, <5>3
      <4> QED
        BY <4>3, <4>4, <4>6 DEF InstallInv
    <3> QED
      BY <3>2, <3>3
  <2> QED
    BY <2>8, <2>9, <2>10, <2>11, <2>12 DEF AuthoringInv
<1> QED
  BY <1>2, <1>3

-----------------------------------------------------------------------------
(* Theorems *)

LEMMA AuthoringStarts ==
  ASSUME AuthoringInit
  PROVE  AuthoringInv
<1>1. /\ DOMAIN Nobody = Fields /\ Nobody.at = "idle" /\ Nobody.job = "check"
      /\ Nobody.sources = <<>> /\ Nobody.next = 1 /\ ~Nobody.again /\ ~Nobody.torn
  BY DEF Nobody, Fields
<1>2. \A p \in Publishers : proc[p] = Nobody
  BY DEF AuthoringInit
<1>3. file \in [Files -> FileFacts \cup {NoFile}]
  BY DEF AuthoringInit, FileFacts, SourceOf, Content
<1>4. PublisherTypeInv
  <2>1. \A p \in Publishers : ProcessType(p)
    BY <1>1, <1>2 DEF ProcessType, Jobs
  <2> QED
    BY <1>3, <2>1 DEF AuthoringInit, PublisherTypeInv, Sources
<1>5. \A p \in Publishers : JobInv(p) /\ PlanInv(p)
  BY <1>1, <1>2 DEF AuthoringInit, JobInv, PlanInv, Holding, PastBoundary, UnderLock, Publishing
<1>6. PublishedFromOneMoment
  BY <1>1, <1>2 DEF PublishedFromOneMoment
<1>7. InstallInv
  <2>1. CASE file = [f \in Files |-> NoFile]
    <3>1. Present(0)
      BY <2>1, TargetsInOrder DEF Present
    <3>2. \A p \in Publishers : Within(p, 0)
      BY <1>1, <1>2 DEF Within
    <3> QED
      BY <3>1, <3>2, TargetsInOrder DEF InstallInv
  <2>2. CASE file = [f \in Files |-> IF f[1] = "source"
                                     THEN [content |-> SourceOf(f[2], 0), id |-> 0] ELSE NoFile]
    <3>1. [content |-> SourceOf(RootRole, 0), id |-> 0] # NoFile
      BY AuthoringAssumption, InstalledSource
    <3>2. seen = {Sources} /\ Sources[RootRole] = [content |-> SourceOf(RootRole, 0), id |-> 0]
      BY <2>2, AuthoringAssumption DEF AuthoringInit, Sources, Files
    <3> QED
      BY <3>1, <3>2 DEF InstallInv
  <2> QED
    BY <2>1, <2>2 DEF AuthoringInit
<1> QED
  BY <1>4, <1>5, <1>6, <1>7 DEF AuthoringInv

(***************************************************************************)
(* The publications of the compiler, for any call graph, any number of     *)
(* processes and edits: who is past the lock holds it, a plan has all of   *)
(* its sources, and an installation left the first part of its targets.    *)
(***************************************************************************)
THEOREM AuthoringInvariant == AuthoringSpec => []AuthoringInv
<1>1. AuthoringInit => AuthoringInv
  BY AuthoringStarts
<1>2. AuthoringInv /\ [AuthoringNext]_authoringVars => AuthoringInv'
  <2>1. SUFFICES ASSUME AuthoringInv, AuthoringNext \/ UNCHANGED authoringVars PROVE AuthoringInv'
    OBVIOUS
  <2>2. CASE UNCHANGED authoringVars
    BY <2>1, <2>2 DEF authoringVars, AuthoringInv, PublisherTypeInv, PublishedFromOneMoment,
       InstallInv, JobInv, PlanInv, Holding, ProcessType, Sources, Present, Within
  <2>3. ASSUME NEW f \in Files, EditFile(f) PROVE AuthoringInv'
    BY <2>1, <2>3, Editing
  <2>4. ASSUME NEW p \in Publishers,
               \/ \E job \in Jobs : MakeNamespace(p, job)
               \/ MakeLock(p) \/ Locate(p) \/ CaptureSource(p) \/ CaptureTargets(p)
               \/ Preflight(p) \/ TakeLock(p) \/ CheckTarget(p) \/ PublishTarget(p)
               \/ VerifyPublished(p) \/ Die(p)
        PROVE  AuthoringInv'
    <3>1. CASE \E job \in Jobs : MakeNamespace(p, job)
      BY <2>1, <3>1, MakingNamespace
    <3>2. CASE MakeLock(p) \/ Locate(p) \/ TakeLock(p) \/ Die(p)
      BY <2>1, <3>2, MakingLock, Locating, TakingLock, Dying
    <3>3. CASE CaptureSource(p) \/ CaptureTargets(p)
      BY <2>1, <3>3, CapturingSource, CapturingTargets
    <3>4. CASE Preflight(p) \/ CheckTarget(p) \/ VerifyPublished(p)
      BY <2>1, <3>4, Preflighting, CheckingTarget, Verifying
    <3>5. CASE PublishTarget(p)
      BY <2>1, <3>5, PublishingTarget
    <3> QED
      BY <2>4, <3>1, <3>2, <3>3, <3>4, <3>5
  <2> QED
    BY <2>1, <2>2, <2>3, <2>4 DEF AuthoringNext
<1> QED
  BY <1>1, <1>2, PTL DEF AuthoringSpec

LEMMA InstallationsResume ==
  ASSUME AuthoringInv
  PROVE  InstallIsResumable
<1> DEFINE dests == Targets("install")
<1>1. SUFFICES ASSUME written = 0, \E now \in seen : \A r \in Roles : now[r] = NoFile
               PROVE  \/ \A f \in Range(dests) :
                           file[f] # NoFile /\ file[f].content = Planned(f, Installed)
                      \/ ~Collides(file, dests)
  BY DEF InstallIsResumable
<1>2. PICK n \in 0 .. 2 * Len(Order) : Present(n)
  BY <1>1, AuthoringAssumption DEF AuthoringInv, InstallInv
<1>3. Len(Order) \in Nat /\ DOMAIN dests = 1 .. 2 * Len(Order) /\ Len(dests) = 2 * Len(Order)
  BY TargetsInOrder
<1>4. \A k \in 1 .. 2 * Len(Order) :
        /\ file[dests[k]] # NoFile <=> k <= n
        /\ k <= n => file[dests[k]].content = Planned(dests[k], Installed)
  BY <1>2, <1>3 DEF Present
<1> HIDE DEF dests
<1>5. CASE n = 2 * Len(Order)
  BY <1>3, <1>4, <1>5 DEF Range
<1>6. CASE n # 2 * Len(Order)
  <2>1. {k \in DOMAIN dests : file[dests[k]] # NoFile} = 1 .. n
    BY <1>2, <1>3, <1>4
  <2>2. n = 0 => 1 .. n = {}
    OBVIOUS
  <2>3. n # 0 => n \in 1 .. Len(dests) - 1
    BY <1>2, <1>3, <1>6
  <2>4. \A k \in 1 .. n : file[dests[k]].content = Planned(dests[k], Installed)
    BY <1>2, <1>3, <1>4
  <2> QED
    BY <2>1, <2>2, <2>3, <2>4 DEF Collides
<1> QED
  BY <1>5, <1>6

(***************************************************************************)
(* What a check reports was not torn by a publication                      *)
(* (observe_authoring_project), what is published was in the project at    *)
(* one moment (_preflight_plan, under the lock), and an installation that  *)
(* died or failed can be repeated (installation_collision), for any call   *)
(* graph, any number of processes and edits.                               *)
(***************************************************************************)
THEOREM PublicationsStayWhole == AuthoringSpec => []PublicationsAreWhole
<1>1. AuthoringInv => PublicationsAreWhole
  <2>1. SUFFICES ASSUME AuthoringInv PROVE PublicationsAreWhole
    OBVIOUS
  <2>2. AuthoringTypeOK
    <3>1. \A p \in Publishers : DOMAIN proc[p].sources \subseteq Roles /\ proc[p].job \in Jobs
      BY <2>1, InvOf, PlanIsOfClosure DEF ProcessType, Closure
    <3>2. \A p \in holders : proc[p].at \notin {"done", "failed"}
      BY <2>1, InvOf DEF AuthoringInv, PublisherTypeInv, JobInv, Holding, UnderLock, Publishing
    <3> QED
      BY <2>1, <3>1, <3>2 DEF AuthoringTypeOK, AuthoringInv, PublisherTypeInv
  <2>3. ReportIsUntorn
    BY <2>1, InvOf DEF ReportIsUntorn, JobInv
  <2> QED
    BY <2>1, <2>2, <2>3, InstallationsResume DEF PublicationsAreWhole, AuthoringInv
<1> QED
  BY <1>1, AuthoringInvariant, PTL
=============================================================================
