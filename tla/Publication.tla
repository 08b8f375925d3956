----------------------------- MODULE Publication -----------------------------
(* Publication of accepted artifacts into the project.  Every run has one     *)
(* accept step and, behind it, one publish effect over several destinations.  *)
(*                                                                             *)
(* The owner issues a bearer for the exact commitment and redeems it (consent *)
(* table, one epoch per project).  A drive of the run then resolves the grant, *)
(* journals the plan under the project's active pointer, claims the ledger    *)
(* row and replaces one file per attempt; once the journal is past PREPARED,  *)
(* later attempts recover from it without asking the owner again.             *)
(*                                                                             *)
(* All runs share the project's files, active pointer, publication lease and  *)
(* consent epoch.  The drives of one run are serialised by its invocation     *)
(* lock, so a run has one program counter; its effect lease then only shows   *)
(* when it lapses before the seal.  Outside editors may write any file.       *)
EXTENDS Integers, Sequences, FiniteSets

CONSTANTS
    Runs,        \* the runs of one project
    Paths,       \* destinations below the project root
    Plans,       \* which destinations each run's descriptor may name, in order
    None,        \* no run
    Old, Alien,  \* the bytes before, and bytes from an outside editor
    MaxEpoch,    \* bound on revocations
    MaxEdits,    \* bound on outside edits
    MaxFaults    \* bound on crashes and on leases that lapse while in use

ASSUME PublicationAssumption ==
    /\ Plans \subseteq [Runs -> Seq(Paths)] /\ Plans # {}
    /\ None \notin Runs /\ {Old, Alien} \cap Runs = {}
    /\ MaxEpoch \in Nat \ {0} /\ MaxEdits \in Nat /\ MaxFaults \in Nat

VARIABLES
    targets,  \* run -> the destinations its descriptor publishes to, in order
    disk,     \* path -> whose bytes the project file holds
    journal,  \* run -> its durable publication journal
    active,   \* the journal active.json names
    lock,     \* the run whose drive holds the file lock of active.json
    lease,    \* holder of the project's publication lease
    epoch,    \* the project's consent epoch
    issued,   \* run -> epochs in which a bearer was issued for its commitment
    redeemed, \* run -> epochs whose bearer was redeemed
    accept,   \* run -> ledger row of the accept effect
    effect,   \* run -> ledger phase of the publish effect
    pc,       \* run -> where its drive is
    tx,       \* the run whose commitment holds the owner store's write transaction
    dirty,    \* paths edited since the publisher last compared them
    edits, faults

state == <<targets, disk, journal, active, lock, lease>>
owner == <<epoch, issued, redeemed, accept>>
vars == <<targets, disk, journal, active, lock, lease, epoch, issued, redeemed,
          accept, effect, pc, tx, dirty, edits, faults>>

Phases == {"none", "PREPARED", "APPLYING", "APPLIED"}
Committed == {"APPLYING", "APPLIED"}
Steps == {"idle", "redeemed", "prepare", "journal", "activate", "claim",
          "lease", "recover", "guard", "reguard", "commit", "apply", "plan", "staged", "swap",
          "verified", "finish"}
Contents == Runs \cup {Old, Alien}

Journals == [phase : Phases, cursor : Nat, before : [Paths -> Contents]]
AcceptRows == [phase : {"prepared", "sealed", "delivered"}, epoch : 0..MaxEpoch]

TypeOK ==
    /\ targets \in Plans
    /\ disk \in [Paths -> Contents]
    /\ journal \in [Runs -> Journals]
    /\ \A r \in Runs : journal[r].cursor <= Len(targets[r])
    /\ {active, lock, lease, tx} \subseteq Runs \cup {None}
    /\ epoch \in 1..MaxEpoch
    /\ issued \in [Runs -> SUBSET (1..MaxEpoch)]
    /\ redeemed \in [Runs -> SUBSET (1..MaxEpoch)]
    /\ accept \in [Runs -> AcceptRows]
    /\ effect \in [Runs -> {"none", "prepared", "launching", "sealed"}]
    /\ pc \in [Runs -> Steps]
    /\ dirty \subseteq Paths
    /\ edits \in 0..MaxEdits /\ faults \in 0..MaxFaults

Init ==
    /\ targets \in Plans
    /\ disk = [p \in Paths |-> Old]
    /\ journal = [r \in Runs |-> [phase |-> "none", cursor |-> 0, before |-> disk]]
    /\ active = None /\ lock = None /\ lease = None /\ tx = None
    /\ epoch = 1
    /\ issued = [r \in Runs |-> {}] /\ redeemed = [r \in Runs |-> {}]
    /\ accept = [r \in Runs |-> [phase |-> "prepared", epoch |-> 0]]
    /\ effect = [r \in Runs |-> "none"]
    /\ pc = [r \in Runs |-> "idle"]
    /\ dirty = {} /\ edits = 0 /\ faults = 0

Goto(r, step) == pc' = [pc EXCEPT ![r] = step]

\* Leave the drive: the guard, transaction and publication lease are released on
\* the way out (a lease that lapsed meanwhile is no longer this drive's).
Leave(r) ==
    /\ Goto(r, "idle")
    /\ lease' = IF lease = r THEN None ELSE lease
    /\ tx' = IF tx = r THEN None ELSE tx

Deny(r) ==
    /\ Goto(r, "idle")
    /\ lease' = IF lease = r THEN None ELSE lease
    /\ UNCHANGED tx

-----------------------------------------------------------------------------
(* The owner: consent for the accept step.                                    *)

\* issue: one bearer for a commitment and epoch, while the acceptance is pending.
Issue(r) ==
    /\ pc[r] = "idle" /\ tx = None
    /\ accept[r].phase = "prepared" /\ epoch \notin issued[r]
    /\ issued' = [issued EXCEPT ![r] = @ \cup {epoch}]
    /\ UNCHANGED <<state, epoch, redeemed, accept, effect, pc, tx, dirty,
                   edits, faults>>

\* redeem: the bearer of the current epoch; a repeated redemption finds the same
\* receipt.  The acceptance is sealed in a second transaction.
Redeem(r) ==
    /\ pc[r] = "idle" /\ tx = None
    /\ accept[r].phase \in {"prepared", "sealed"} /\ epoch \in issued[r]
    /\ redeemed' = [redeemed EXCEPT ![r] = @ \cup {epoch}]
    /\ Goto(r, "redeemed")
    /\ UNCHANGED <<state, epoch, issued, accept, effect, tx, dirty, edits, faults>>

\* seal of the accept effect with the receipt just redeemed, then its delivery.
SealAcceptance(r) ==
    /\ pc[r] = "redeemed"
    /\ accept' = [accept EXCEPT ![r] =
         IF @.phase = "prepared"
         THEN [phase |-> "sealed",
               epoch |-> CHOOSE e \in redeemed[r] : \A f \in redeemed[r] : f <= e]
         ELSE @]
    /\ Goto(r, "idle")
    /\ UNCHANGED <<state, epoch, issued, redeemed, effect, tx, dirty, edits, faults>>

DeliverAcceptance(r) ==
    /\ pc[r] = "idle" /\ accept[r].phase = "sealed"
    /\ accept' = [accept EXCEPT ![r].phase = "delivered"]
    /\ UNCHANGED <<state, epoch, issued, redeemed, effect, pc, tx, dirty,
                   edits, faults>>

\* revoke: a write transaction of its own, so never inside a commitment's.
Revoke ==
    /\ tx = None /\ epoch < MaxEpoch
    /\ epoch' = epoch + 1
    /\ UNCHANGED <<state, issued, redeemed, accept, effect, pc, tx, dirty,
                   edits, faults>>

\* _publication_grant: the accepted receipt is redeemed and of the current epoch.
Authorised(r) == accept[r].epoch = epoch /\ epoch \in redeemed[r]

-----------------------------------------------------------------------------
(* The coordinator's attempt at the publish effect, up to the commitment.     *)

\* prepared_for: the journal, if it is the project's active one, of this effect.
ActiveJournalCommitted(r) == active = r /\ journal[r].phase \in Committed

\* One attempt starts.  Recovery when the active journal is already committed;
\* otherwise the grant is resolved anew, and or bound to a new ledger row,
\* or carried into the publisher's preparation.
Attempting(r) ==
    /\ pc[r] = "idle" /\ accept[r].phase = "delivered"
    /\ effect[r] \in {"none", "prepared", "launching"}
Recovering(r) == effect[r] = "launching" /\ ActiveJournalCommitted(r)

Recover(r) ==
    /\ Attempting(r) /\ Recovering(r)
    /\ Goto(r, "recover")
    /\ UNCHANGED <<state, owner, effect, tx, dirty, edits, faults>>

Denied(r) ==
    /\ Attempting(r) /\ ~Recovering(r) /\ ~Authorised(r)
    /\ Deny(r)
    /\ UNCHANGED <<targets, disk, journal, active, lock, owner, effect, dirty, edits, faults>>

PrepareEffect(r) ==
    /\ Attempting(r) /\ Authorised(r) /\ effect[r] = "none"
    /\ effect' = [effect EXCEPT ![r] = "prepared"]
    /\ UNCHANGED <<state, owner, pc, tx, dirty, edits, faults>>

Resolve(r) ==
    /\ Attempting(r) /\ ~Recovering(r) /\ Authorised(r) /\ effect[r] # "none"
    /\ Goto(r, "prepare")
    /\ UNCHANGED <<state, owner, effect, tx, dirty, edits, faults>>

(* Mutant: a run is blocked by its own unfinished journal. *)
BlockedBySelf(r) == active # None /\ journal[active].phase # "APPLIED"

(* Mutant: only a prepared journal blocks. *)
BlockedByPrepared(r) == active \notin {None, r} /\ journal[active].phase = "PREPARED"

\* prepare, under the file lock of active.json.
Blocked(r) == active \notin {None, r} /\ journal[active].phase # "APPLIED"

PrepareConflict(r) ==
    /\ pc[r] = "prepare" /\ lock = None /\ Blocked(r)
    /\ Leave(r)
    /\ UNCHANGED <<targets, disk, journal, active, lock, owner, effect, dirty, edits, faults>>

PrepareLocked(r) ==
    /\ pc[r] = "prepare" /\ lock = None /\ ~Blocked(r)
    /\ lock' = r
    /\ Goto(r, "journal")
    /\ UNCHANGED <<targets, disk, journal, active, lease, owner, effect, tx,
                   dirty, edits, faults>>

\* _build_plan and the journal, unless an earlier attempt left it.
WriteJournal(r) ==
    /\ pc[r] = "journal"
    /\ journal' = IF journal[r].phase = "none"
                  THEN [journal EXCEPT ![r] =
                          [phase |-> "PREPARED", cursor |-> 0, before |-> disk]]
                  ELSE journal
    /\ Goto(r, "activate")
    /\ UNCHANGED <<targets, disk, active, lock, lease, owner, effect, tx, dirty,
                   edits, faults>>

WriteActive(r) ==
    /\ pc[r] = "activate"
    /\ active' = r /\ lock' = None
    /\ Goto(r, IF effect[r] = "prepared" THEN "claim" ELSE "lease")
    /\ UNCHANGED <<targets, disk, journal, lease, owner, effect, tx, dirty,
                   edits, faults>>

Claim(r) ==
    /\ pc[r] = "claim"
    /\ effect' = [effect EXCEPT ![r] = "launching"]
    /\ Goto(r, "idle")
    /\ UNCHANGED <<state, owner, tx, dirty, edits, faults>>

\* The project's publication lease; held elsewhere, the attempt is only busy.
AcquireLease(r) ==
    /\ pc[r] \in {"lease", "recover"}
    /\ IF lease = None
       THEN lease' = r /\ Goto(r, IF pc[r] = "lease" THEN "guard" ELSE "reguard") /\ UNCHANGED <<tx>>
       ELSE Leave(r)
    /\ UNCHANGED <<targets, disk, journal, active, lock, owner, effect, dirty, edits, faults>>

\* Inside commitment_guard: both leases must still be current.  A recovery goes
\* straight to the publisher, a commitment through the authority.
Guard(r) ==
    /\ pc[r] \in {"guard", "reguard"}
    /\ IF lease # r
       THEN Leave(r)
       ELSE /\ Goto(r, IF pc[r] = "reguard" THEN "apply" ELSE "commit")
            /\ UNCHANGED <<lease, tx>>
    /\ UNCHANGED <<targets, disk, journal, active, lock, owner, effect, dirty, edits, faults>>

(* Mutant: the grant resolved earlier is trusted. *)
CommitmentUnchecked(r) ==
    /\ pc[r] = "commit" /\ tx = None
    /\ tx' = r
    /\ Goto(r, "apply")
    /\ UNCHANGED <<state, owner, effect, dirty, edits, faults>>

\* authority.commitment: recheck in a write transaction that stays open while the
\* publisher takes its step.
Commitment(r) ==
    /\ pc[r] = "commit" /\ tx = None
    /\ IF Authorised(r)
       THEN tx' = r /\ Goto(r, "apply") /\ UNCHANGED lease
       ELSE Deny(r)
    /\ UNCHANGED <<targets, disk, journal, active, lock, owner, effect, dirty, edits, faults>>

-----------------------------------------------------------------------------
(* The publisher's step: apply_or_recover and _advance_plan.                  *)

Target(r) == targets[r][journal[r].cursor + 1]
Finished(r) == journal[r].cursor >= Len(targets[r])
TargetsOf(r) == {targets[r][i] : i \in DOMAIN targets[r]}

\* _verify_complete
Complete(r) == \A p \in TargetsOf(r) : disk[p] = r

\* The phase and cursor are stored before the first replacement.
BeginApply(r) ==
    /\ pc[r] = "apply" /\ journal[r].phase # "APPLIED"
    /\ journal' = IF journal[r].phase = "PREPARED"
                  THEN [journal EXCEPT ![r].phase = "APPLYING", ![r].cursor = 0]
                  ELSE journal
    /\ Goto(r, "plan")
    /\ UNCHANGED <<targets, disk, active, lock, lease, owner, effect, tx, dirty,
                   edits, faults>>

\* An applied journal only has its files verified again.
ReplayApplied(r) ==
    /\ pc[r] = "apply" /\ journal[r].phase = "APPLIED"
    /\ IF Complete(r)
       THEN Goto(r, "finish") /\ tx' = (IF tx = r THEN None ELSE tx) /\ UNCHANGED lease
       ELSE Leave(r)
    /\ UNCHANGED <<targets, disk, journal, active, lock, owner, effect, dirty, edits, faults>>

\* The planned file already has the desired bytes: only the cursor advances.
AdvanceCursor(r) ==
    /\ pc[r] = "plan" /\ ~Finished(r) /\ disk[Target(r)] = r
    /\ journal' = [journal EXCEPT ![r].cursor = @ + 1]
    /\ Leave(r)
    /\ UNCHANGED <<targets, disk, active, lock, owner, effect, dirty, edits, faults>>

DestinationChanged(r) ==
    /\ pc[r] \in {"plan", "staged"} /\ ~Finished(r)
    /\ disk[Target(r)] # journal[r].before[Target(r)]
    /\ pc[r] = "plan" => disk[Target(r)] # r
    /\ Leave(r)
    /\ UNCHANGED <<targets, disk, journal, active, lock, owner, effect, dirty, edits, faults>>

\* The preimage is there: the new bytes are staged in a temporary file.
Stage(r) ==
    /\ pc[r] = "plan" /\ ~Finished(r)
    /\ disk[Target(r)] = journal[r].before[Target(r)] /\ disk[Target(r)] # r
    /\ Goto(r, "staged")
    /\ UNCHANGED <<state, owner, effect, tx, dirty, edits, faults>>

\* The recheck at the namespace mutation edge, and the replacement itself.
Recheck(r) ==
    /\ pc[r] = "staged"
    /\ disk[Target(r)] = journal[r].before[Target(r)]
    /\ dirty' = dirty \ {Target(r)}
    /\ Goto(r, "swap")
    /\ UNCHANGED <<state, owner, effect, tx, edits, faults>>

Swap(r) ==
    /\ pc[r] = "swap"
    /\ disk' = [disk EXCEPT ![Target(r)] = r]
    /\ Leave(r)
    /\ UNCHANGED <<targets, journal, active, lock, owner, effect, dirty, edits, faults>>

\* Past the last entry the whole set is verified, then the phase is stored.
VerifyPlan(r) ==
    /\ pc[r] = "plan" /\ Finished(r)
    /\ dirty' = dirty \ TargetsOf(r)
    /\ IF Complete(r)
       THEN Goto(r, "verified") /\ UNCHANGED <<lease, tx>>
       ELSE Leave(r)
    /\ UNCHANGED <<targets, disk, journal, active, lock, owner, effect, edits, faults>>

StoreApplied(r) ==
    /\ pc[r] = "verified"
    /\ journal' = [journal EXCEPT ![r].phase = "APPLIED"]
    /\ Goto(r, "finish")
    /\ tx' = (IF tx = r THEN None ELSE tx)
    /\ UNCHANGED <<targets, disk, active, lock, lease, owner, effect, dirty,
                   edits, faults>>

\* Seal PASS; if the effect lease lapsed meanwhile the ledger refuses the write.
Seal(r) ==
    /\ pc[r] = "finish"
    /\ effect' = [effect EXCEPT ![r] = "sealed"]
    /\ Leave(r)
    /\ UNCHANGED <<targets, disk, journal, active, lock, owner, dirty, edits, faults>>

StaleSeal(r) ==
    /\ pc[r] = "finish" /\ faults < MaxFaults
    /\ faults' = faults + 1
    /\ Leave(r)
    /\ UNCHANGED <<targets, disk, journal, active, lock, owner, effect, dirty, edits>>

-----------------------------------------------------------------------------
(* The environment.                                                           *)

\* The process dies: kernel locks and the transaction go, the lease stays.
Crash(r) ==
    /\ pc[r] # "idle" /\ faults < MaxFaults
    /\ faults' = faults + 1
    /\ Goto(r, "idle")
    /\ tx' = (IF tx = r THEN None ELSE tx)
    /\ lock' = (IF lock = r THEN None ELSE lock)
    /\ UNCHANGED <<targets, disk, journal, active, lease, owner, effect, dirty, edits>>

Leased == {"guard", "reguard", "commit", "apply", "plan", "staged", "swap", "verified", "finish"}

\* The publication lease runs out under a dead holder, or under a slow one.
Lapse ==
    /\ lease # None
    /\ pc[lease] \in Leased => faults < MaxFaults
    /\ faults' = IF pc[lease] \in Leased THEN faults + 1 ELSE faults
    /\ lease' = None
    /\ UNCHANGED <<targets, disk, journal, active, lock, owner, effect, pc, tx,
                   dirty, edits>>

Edit(p) ==
    /\ edits < MaxEdits /\ \E r \in Runs : p \in TargetsOf(r)
    /\ edits' = edits + 1
    /\ disk' = [disk EXCEPT ![p] = Alien]
    /\ dirty' = dirty \cup {p}
    /\ UNCHANGED <<targets, journal, active, lock, lease, owner, effect, pc, tx, faults>>

OwnerStep(r) == Issue(r) \/ Redeem(r)

DriveStep(r) ==
    \/ SealAcceptance(r) \/ DeliverAcceptance(r)
    \/ Recover(r) \/ Denied(r) \/ PrepareEffect(r) \/ Resolve(r)
    \/ PrepareConflict(r) \/ PrepareLocked(r) \/ WriteJournal(r) \/ WriteActive(r)
    \/ Claim(r) \/ AcquireLease(r) \/ Guard(r) \/ Commitment(r)
    \/ BeginApply(r) \/ ReplayApplied(r) \/ AdvanceCursor(r) \/ DestinationChanged(r)
    \/ Stage(r) \/ Recheck(r) \/ Swap(r) \/ VerifyPlan(r) \/ StoreApplied(r) \/ Seal(r)

Next ==
    \/ \E r \in Runs : OwnerStep(r) \/ DriveStep(r) \/ StaleSeal(r) \/ Crash(r)
    \/ \E p \in Paths : Edit(p)
    \/ Revoke \/ Lapse

\* Somebody keeps driving every run, and an abandoned lease runs out.
Fairness == WF_vars(Lapse) /\ \A r \in Runs : WF_vars(DriveStep(r))

Spec == Init /\ [][Next]_vars /\ Fairness

-----------------------------------------------------------------------------
(* Properties.                                                                *)

\* A publication is committed, that is leaves PREPARED, only while the consent
\* it was accepted under is redeemed and of the current epoch: a revocation at
\* any moment before that, also between the grant's resolution and the first
\* replacement, stops it.
CommitUnderConsent ==
    [][\A r \in Runs :
         (journal[r].phase = "PREPARED" /\ journal'[r].phase # "PREPARED")
            => Authorised(r)]_vars

\* A project has one publication under way: a journal that is applying is the one
\* active.json names, through crashes, lapsed leases and drives of other runs.
ApplyingIsActive ==
    \A r \in Runs : journal[r].phase = "APPLYING" => active = r

\* A replacement destroys the planned preimage and nothing else, except bytes
\* written in the instant between the recheck and the rename.
OnlyPreimageReplaced ==
    [][\A p \in Paths :
         (disk'[p] # disk[p] /\ disk'[p] \in Runs)
            => disk[p] = journal[disk'[p]].before[p] \/ p \in dirty]_vars

\* A publication is declared APPLIED only when every destination holds its bytes
\* together, except those edited after the final verification looked.
AppliedIsWhole ==
    [][\A r \in Runs :
         (journal[r].phase # "APPLIED" /\ journal'[r].phase = "APPLIED")
            => \A p \in TargetsOf(r) : disk[p] = r \/ p \in dirty]_vars

\* A publish effect is sealed PASS only on an applied journal, and its files were
\* committed under a receipt of its own acceptance.
SealedIsApplied ==
    \A r \in Runs : effect[r] = "sealed"
        => journal[r].phase = "APPLIED" /\ accept[r].epoch \in redeemed[r]

\* Consent and the project left alone, every accepted publication is sealed, in
\* spite of crashes, lapsed leases and other runs, if no other run publishes to
\* the same files.
Undisturbed == edits = 0 /\ \A r \in Runs : accept[r].epoch \in {0, epoch}
Disjoint == \A r, s \in Runs : r # s => TargetsOf(r) \cap TargetsOf(s) = {}
AcceptedIsPublished ==
    \A r \in Runs : (accept[r].phase = "delivered" /\ Disjoint)
                        ~> (effect[r] = "sealed" \/ ~Undisturbed)

\* The journal that applies is the active one, and a sealed effect has all its
\* journal did and consent of its own.
JournalIsTrue == TypeOK /\ ApplyingIsActive /\ SealedIsApplied

\* No file is published without consent of the moment, over bytes nobody planned
\* for, or as a part of a publication that calls itself applied.
FilesUnderConsent == CommitUnderConsent /\ OnlyPreimageReplaced /\ AppliedIsWhole
=============================================================================
