---------------------------- MODULE EffectLedger ----------------------------
(***************************************************************************)
(* The durable effect ledger (runtime/effects/ledger.py with its policy in *)
(* _ledger_policy.py).  A row is created once by prepare and then moves    *)
(*                                                                         *)
(*   prepared -> launching -> running -> sealed | indeterminate -> delivered*)
(*                                                                         *)
(* with shortcuts to sealed.  Every operation is one BEGIN IMMEDIATE       *)
(* transaction.  The callers are not constrained here: any process may     *)
(* call any operation at any time, with any revision it can have read and  *)
(* any Lease it was ever given, or none.  A call the code refuses raises   *)
(* and changes nothing; it has no action.                                  *)
(***************************************************************************)
EXTENDS LeaseStore

CONSTANTS
  Effects,    \* effect coordinates; the lease table has keys of other scopes too
  Bindings    \* runner binding digests

ASSUME EffectsAssumption == Effects \subseteq Keys /\ "none" \notin Bindings

VARIABLES
  row,        \* coordinate -> the effects row, or NoRow
  journal     \* the effect_observations table, a set of rows

ledgerVars == <<row, journal>>
vars       == <<now, lease, issued, row, journal>>

None == "none"

Kinds == {"managed", "publish", "manual", "scope", "accept"}

(* The results the rules tell apart, and the two ERROR codes a managed     *)
(* effect may be sealed with before it was launched.                       *)
PrelaunchErrors == {"prelaunch_failed", "deadline_timeout"}
Indeterminate   == "launch_indeterminate"
Results         == {"PASS", "FAIL", Indeterminate} \cup PrelaunchErrors

Phases == {"prepared", "launching", "running", "sealed", "indeterminate", "delivered"}
Active   == {"launching", "running"}
Terminal == {"sealed", "indeterminate", "delivered"}

Rank(p) == CASE p = "prepared"                   -> 0
             [] p = "launching"                  -> 1
             [] p = "running"                    -> 2
             [] p \in {"sealed", "indeterminate"} -> 3
             [] p = "delivered"                  -> 4

(* The facts prepare binds: the descriptor (here its kind), the runner     *)
(* binding, and whether request and grant were committed.                  *)
Facts == [kind : Kinds, binding : Bindings \cup {None}, request : BOOLEAN]

(***************************************************************************)
(* What _validate_prepare_descriptor accepts.  A managed effect may lack   *)
(* its request (when it is prepared after its deadline).  Of a manual      *)
(* effect only a deadline is refused, and of the scopes only that of a     *)
(* call needs a binding: both may come with a binding and a request, or    *)
(* with neither.                                                           *)
(***************************************************************************)
ValidFacts ==
  {f \in Facts :
     /\ f.kind \in {"managed", "publish"} => f.binding # None
     /\ f.kind = "publish" => f.request
     /\ f.kind = "accept" => f.binding = None /\ ~f.request}

NoRow == [phase |-> None]

Row == [facts : ValidFacts, phase : Phases, revision : Nat,
        lease_epoch : 0 .. MaxEpoch, launch : BOOLEAN]

Observation == [effect : Effects, revision : Nat, phase : Phases,
                result : Results \cup {None}]

Prepared(e) == row[e] # NoRow

(* BOUND: the revisions a caller can have read; no row makes more than     *)
(* four transitions.                                                       *)
Revisions == 0 .. 4

(* _result_for: the result of an effect is read from its journal. *)
ResultsOf(e) == {o.result : o \in {q \in journal : q.effect = e}} \ {None}

Init ==
  /\ LeaseInit
  /\ row = [e \in Effects |-> NoRow]
  /\ journal = {}

(***************************************************************************)
(* prepare inserts the row at revision 0 and lease epoch 0.  On a row that *)
(* exists it verifies the facts and returns the row as it is.  A Lease is  *)
(* optional and, when given, must be live.                                 *)
(***************************************************************************)
(* Mutant: the key of the Lease is not compared. *)
LiveLeaseAnyKey(e, l) == IsCurrent(l)

LiveLease(e, l) == l.key = e /\ IsCurrent(l)

NoGrant == [key |-> None, owner |-> None, epoch |-> 0]

Grants == issued \cup {NoGrant}

(* Mutant: prepare upserts. *)
PrepareUpserts(e, f, l) ==
  /\ l # NoGrant => LiveLease(e, l)
  /\ row' = [row EXCEPT ![e] = [facts |-> f, phase |-> "prepared", revision |-> 0,
                                lease_epoch |-> 0, launch |-> FALSE]]
  /\ UNCHANGED <<journal, leaseVars>>

Prepare(e, f, l) ==
  /\ ~Prepared(e)
  /\ l # NoGrant => LiveLease(e, l)
  /\ row' = [row EXCEPT ![e] = [facts       |-> f,
                                phase       |-> "prepared",
                                revision    |-> 0,
                                lease_epoch |-> 0,
                                launch      |-> FALSE]]
  /\ UNCHANGED <<journal, leaseVars>>

(***************************************************************************)
(* The edge every transition takes: the expected revision, an allowed      *)
(* source, a live lease where one is required or was given.                *)
(***************************************************************************)
LeaseRequired(e, target) ==
  \/ target \in {"launching", "running", "indeterminate"}
  \/ target = "sealed" /\ row[e].phase \in Active

Edge(e, target, sources, revision, l) ==
  /\ Prepared(e)
  /\ row[e].facts.kind = "scope" => target \notin Active
  /\ row[e].revision = revision
  /\ row[e].phase \in sources
  /\ LeaseRequired(e, target) => l # NoGrant
  /\ l # NoGrant => LiveLease(e, l)

(* The row and the observation a transition writes, in one transaction. *)
Advance(e, target, l, launch, result) ==
  /\ row' = [row EXCEPT ![e] =
       [facts       |-> row[e].facts,
        phase       |-> target,
        revision    |-> row[e].revision + 1,
        lease_epoch |-> IF l = NoGrant THEN row[e].lease_epoch ELSE l.epoch,
        launch      |-> launch]]
  /\ journal' = journal \cup {[effect   |-> e,
                               revision |-> row[e].revision + 1,
                               phase    |-> target,
                               result   |-> result]}
  /\ UNCHANGED leaseVars

(* A binding that is supplied must be the one the row was prepared with. *)
BindingMatches(e, b) == b # None => b = row[e].facts.binding

(* A launch needs the request, the grant and the launch commitment.  The   *)
(* caller always supplies its binding here.                                *)
MarkLaunching(e, revision, l, b) ==
  /\ Edge(e, "launching", {"prepared"}, revision, l)
  /\ row[e].facts.request
  /\ b # None /\ BindingMatches(e, b)
  /\ Advance(e, "launching", l, TRUE, None)

MarkRunning(e, revision, l, b) ==
  /\ Edge(e, "running", {"launching"}, revision, l)
  /\ b # None /\ BindingMatches(e, b)
  /\ Advance(e, "running", l, row[e].launch, None)

(* _validate_prelaunch_seal: scope, acceptance and manual results may be   *)
(* sealed from prepared; any other only as a fixed pre-launch error.       *)
PrelaunchSealAllowed(e, result) ==
  row[e].phase = "prepared" /\ row[e].facts.kind \in {"managed", "publish"}
    => result \in PrelaunchErrors

Seal(e, result, revision, l, b) ==
  /\ result # Indeterminate
  /\ Edge(e, "sealed", {"prepared"} \cup Active, revision, l)
  /\ PrelaunchSealAllowed(e, result)
  /\ row[e].phase \in Active => b # None
  /\ BindingMatches(e, b)
  /\ Advance(e, "sealed", l, row[e].launch, result)

MarkIndeterminate(e, revision, l) ==
  /\ Edge(e, "indeterminate", Active, revision, l)
  /\ Advance(e, "indeterminate", l, row[e].launch, Indeterminate)

MarkDelivered(e, revision, l) ==
  /\ Edge(e, "delivered", {"sealed", "indeterminate"}, revision, l)
  /\ Advance(e, "delivered", l, row[e].launch, None)

Next ==
  \/ LeaseNext /\ UNCHANGED ledgerVars
  \/ \E e \in Effects, f \in ValidFacts, l \in Grants : Prepare(e, f, l)
  \/ \E e \in Effects, r \in Revisions, l \in issued, b \in Bindings :
       MarkLaunching(e, r, l, b) \/ MarkRunning(e, r, l, b)
  \/ \E e \in Effects, r \in Revisions, l \in Grants, b \in Bindings \cup {None}, res \in Results :
       Seal(e, res, r, l, b)
  \/ \E e \in Effects, r \in Revisions, l \in issued : MarkIndeterminate(e, r, l)
  \/ \E e \in Effects, r \in Revisions, l \in Grants : MarkDelivered(e, r, l)

Spec == Init /\ [][Next]_vars

-----------------------------------------------------------------------------
TypeOK ==
  /\ LeaseTypeOK
  /\ row \in [Effects -> Row \cup {NoRow}]
  /\ journal \subseteq Observation

(***************************************************************************)
(* The journal tells the whole story of a row: one observation for every   *)
(* revision it went through and none beyond, each of a later phase than    *)
(* the one before, the last of the phase the row is in.                    *)
(***************************************************************************)
JournalMatchesRow ==
  \A e \in Effects :
    LET story == {o \in journal : o.effect = e} IN
    /\ ~Prepared(e) => story = {}
    /\ Prepared(e) =>
         /\ {o.revision : o \in story} = 1 .. row[e].revision
         /\ row[e].revision \in Revisions
         /\ \A o, q \in story : o.revision < q.revision => Rank(o.phase) < Rank(q.phase)
         /\ \A o, q \in story : o.revision = q.revision => o = q
         /\ \A o \in story : o.revision = row[e].revision => o.phase = row[e].phase

(***************************************************************************)
(* _result_for may read the newest result of the journal because there is  *)
(* exactly one as soon as the effect is sealed or indeterminate, and none  *)
(* before: no race of callers ever records a second outcome.               *)
(***************************************************************************)
OneOutcome ==
  \A o, q \in journal :
    o.effect = q.effect /\ o.result # None /\ q.result # None => o = q

OutcomeIffTerminal ==
  \A e \in Effects : row[e].phase \in Terminal <=> ResultsOf(e) # {}

(***************************************************************************)
(* A managed effect or a publication has an outcome other than the fixed   *)
(* pre-launch errors only when its launch commitment was recorded, and     *)
(* launch_indeterminate is never the outcome of what was not launched.     *)
(***************************************************************************)
OutcomeNeedsLaunch ==
  \A e \in Effects : \A r \in ResultsOf(e) :
    \/ row[e].launch
    \/ row[e].facts.kind \in {"managed", "publish"} /\ r \in PrelaunchErrors
    \/ row[e].facts.kind \in {"manual", "scope", "accept"} /\ r # Indeterminate

(***************************************************************************)
(* Fencing: once an effect may have been launched, only the holder of the  *)
(* current epoch writes its outcome, and no write is ever made under an    *)
(* older epoch than the one before: a caller that stalled while its lease  *)
(* was taken over cannot disturb the row.                                  *)
(***************************************************************************)
StaleHolderCannotWrite ==
  [][\A e \in Effects : Prepared(e) /\ row'[e] # row[e] =>
       /\ row'[e].lease_epoch >= row[e].lease_epoch
       /\ row[e].phase \in Active => row'[e].lease_epoch = lease[e].epoch]_vars

(* The outcome an effect has is the outcome it keeps (the ledger raises    *)
(* EffectConflict on any other), through delivery and any replay.          *)
OutcomeIsFinal ==
  [][\A e \in Effects : ResultsOf(e) # {} => ResultsOf(e)' = ResultsOf(e)]_vars

(***************************************************************************)
(* The ledger implements EffectPromise: leases, revisions and the journal  *)
(* are only the means by which an effect is launched, decided and          *)
(* delivered at most once each, in that order.  A manual effect that was   *)
(* prepared with a binding and a request could be launched: no caller does *)
(* it, but the ledger would not refuse.                                    *)
(***************************************************************************)
KindOf(e)      == IF Prepared(e) THEN row[e].facts.kind ELSE None
LaunchedOf(e)  == Prepared(e) /\ row[e].launch = TRUE
OutcomeIn(rs)  == IF rs = {} THEN None ELSE CHOOSE r \in Results : r \in rs
OutcomeOf(e)   == OutcomeIn(ResultsOf(e))
DeliveredOf(e) == row[e].phase = "delivered"

Promise == INSTANCE EffectPromise WITH
  NeverLaunched <- {"scope", "accept"},
  SealedAtOnce  <- {"manual", "scope", "accept"},
  kind          <- [e \in Effects |-> KindOf(e)],
  launched      <- [e \in Effects |-> LaunchedOf(e)],
  outcome       <- [e \in Effects |-> OutcomeOf(e)],
  delivered     <- [e \in Effects |-> DeliveredOf(e)]

KeepsPromise == Promise!Spec

(***************************************************************************)
(* Rows, leases and journal tell one story, whatever callers race: types,  *)
(* epochs, phases and outcomes agree in all of these ways together.        *)
(***************************************************************************)
LedgerIsCoherent ==
  /\ TypeOK /\ EpochNamesOneOwner /\ JournalMatchesRow
  /\ OneOutcome /\ OutcomeIffTerminal /\ OutcomeNeedsLaunch
=============================================================================
