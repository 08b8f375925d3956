------------------------------- MODULE Lineage -------------------------------
(***************************************************************************)
(* The project snapshots of a run (snapshot_resolver.py,                   *)
(* _snapshot_lineage.py, _snapshot_facts.py) and the manual steps          *)
(* (providers/manual.py), around one parallel block.  People edit the      *)
(* project; a manual branch hands over with a baseline and its submission  *)
(* is checked against it and captured as a successor; a managed branch     *)
(* works on the snapshot that was bound as its input and its rollover is   *)
(* adopted.  The join merges what the branches have accepted.              *)
(*                                                                         *)
(* A snapshot is its content, so a reference is the snapshot itself, and a *)
(* fact is a set: of the one snapshot that is bound, or of none.           *)
(***************************************************************************)
EXTENDS Naturals, FiniteSets

CONSTANTS
  ProjectPaths,         \* paths of the project
  Manual,        \* branches that are one manual step, in the root graph
  Managed,       \* branches that are one managed call, a graph of their own
  Surface,       \* branch -> the paths it declares
  Drives,        \* processes that drive the run
  Claims,        \* what people claim of a manual step
  MaxEdits,      \* BOUND: edits of the project
  MaxLost        \* BOUND: drives that die

Branches == Manual \cup Managed
Effects == Branches \cup {"join"}

(* validate_parallel_writes: the branches are disjoint.                     *)
LineageAssumption ==
  /\ IsFiniteSet(Branches) /\ Manual \cap Managed = {} /\ "join" \notin Branches
  /\ \A a, b \in Branches : a # b => Surface[a] \cap Surface[b] = {}
  /\ \A b \in Branches : Surface[b] \subseteq ProjectPaths
  /\ Claims \subseteq {"PASS", "FAIL"} /\ MaxEdits \in Nat /\ MaxLost \in Nat

VARIABLES
  project,       \* path -> what a person sees there now
  start,         \* the run-start fact
  handoff,       \* manual branch -> the baseline of its handoff
  current,       \* effect -> its current_project_snapshot fact
  successor,     \* branch -> its successor_project_snapshot fact
  result,        \* managed branch -> the rollover its workspace handed on
  sealed,        \* branch -> the outcome in the ledger
  delivered,     \* branches the graph has the answer of
  drive,         \* drive -> what it has read and is about to write
  edits, lost

facts == <<start, current, successor>>
lineageVars == <<project, handoff, facts, result, sealed, delivered, drive, edits, lost>>

Content == {"none", "new", "link"}
AtRest == [doing |-> "idle", effect |-> "join", snapshot |-> {}, outcome |-> "none"]

-----------------------------------------------------------------------------
(* Snapshots *)

(* _chain: a snapshot and all it comes from. *)
Chain(s) == {s} \cup s.past

(* What a snapshot comes from is part of its content: the previous one, the *)
(* merged ones, and all that they come from.                                *)
ProjectSnapshot(files, previous, merged, manual, by) ==
  [files |-> files, previous |-> previous,
   past |-> UNION {Chain(q) : q \in previous \cup merged}, manual |-> manual, by |-> by]

RootOf(files) == ProjectSnapshot(files, {}, {}, FALSE, "start")

Ancestors(s) == Chain(s) \ {s}

(* What no other member comes from. *)
Tips(S) == {s \in S : ~\E t \in S \ {s} : s \in Ancestors(t)}

(* resolve_lineage_snapshot: a greatest common ancestor.  Which one the     *)
(* code finds, if there are several, depends on the order of the digests.   *)
Common(tips) == Tips({s \in UNION {Chain(t) : t \in tips} :
                        \A t \in tips : s \in Chain(t)})

ChangedIn(s, base) == {p \in ProjectPaths : s.files[p] # base.files[p]}

(* Two tips change a path of the baseline in different ways. *)
Conflict(tips, base) ==
  \E s, t \in tips : \E p \in ChangedIn(s, base) \cap ChangedIn(t, base) :
    s.files[p] # t.files[p]

Merged(tips, base) ==
  ProjectSnapshot([p \in ProjectPaths |->
              IF \E t \in tips : p \in ChangedIn(t, base)
              THEN (CHOOSE t \in tips : p \in ChangedIn(t, base)).files[p]
              ELSE base.files[p]],
           {base}, tips, FALSE, "merge")

(* Is there a manual snapshot of this block among the tips' own history.    *)
OwnManual(tips, base) == \E t \in tips : \E s \in Chain(t) \ Chain(base) : s.manual

(* merge_lineage_snapshots: every reference it may return; none if the      *)
(* changes of two tips conflict.                                            *)
Merge(refs) ==
  LET tips == Tips(refs)
  IN  IF Cardinality(tips) = 1 THEN tips
      ELSE {IF OwnManual(tips, base) THEN Merged(tips, base) ELSE base :
              base \in {c \in Common(tips) : ~(OwnManual(tips, c) /\ Conflict(tips, c))}}

(* checkpoint_is_ancestor of the effects of the block.  The manual steps of *)
(* a block wait at one checkpoint of the root graph, which is an ancestor   *)
(* of every interrupt of the block; the graph of a call is one once it has  *)
(* completed, for interrupts of the root graph; for the join all are.       *)
Sees(e, b) ==
  \/ e = "join"
  \/ b \in Manual
  \/ b \in delivered /\ e \in Manual

(* _current_ref. *)
CurrentRefs(e) ==
  LET candidates == UNION {successor[b] : b \in {a \in Branches : Sees(e, a)}}
  IN  IF candidates = {} THEN {start} ELSE Merge(candidates)

-----------------------------------------------------------------------------

LineageInit ==
  /\ project = [p \in ProjectPaths |-> "none"]
  /\ start = RootOf(project)
  /\ handoff = [b \in Manual |-> {}]
  /\ current = [e \in Effects |-> {}] /\ successor = [b \in Branches |-> {}]
  /\ result = [b \in Managed |-> {}] /\ sealed = [b \in Branches |-> "none"]
  /\ delivered = {} /\ drive = [d \in Drives |-> AtRest]
  /\ edits = 0 /\ lost = 0

(* A person edits the project, at any time and anywhere. *)
Edit(p, content) ==
  /\ edits < MaxEdits /\ edits' = edits + 1
  /\ project' = [project EXCEPT ![p] = content]
  /\ UNCHANGED <<handoff, facts, result, sealed, delivered, drive, lost>>

Waits(e) == IF e = "join" THEN delivered = Branches ELSE e \notin delivered

Set(d, doing, e, snapshot, outcome) ==
  drive' = [drive EXCEPT ![d] = [doing |-> doing, effect |-> e,
                                 snapshot |-> snapshot, outcome |-> outcome]]

Rest(d) == drive' = [drive EXCEPT ![d] = AtRest]

-----------------------------------------------------------------------------
(* Inputs *)

(* inputs_for: without a fact, the current snapshot is resolved ...         *)
ResolveInput(d, e) ==
  /\ drive[d] = AtRest /\ e \in Managed \cup {"join"} /\ Waits(e)
  /\ current[e] = {}
  /\ \E s \in CurrentRefs(e) : Set(d, "bind_input", e, {s}, "none")
  /\ UNCHANGED <<project, handoff, facts, result, sealed, delivered, edits, lost>>

(* ... and bound, in a transaction that refuses a second one.               *)
BindInput(d) ==
  /\ drive[d].doing = "bind_input" /\ Rest(d)
  /\ current' = [current EXCEPT ![drive[d].effect] =
                   IF @ = {} THEN drive[d].snapshot ELSE @]
  /\ UNCHANGED <<project, handoff, start, successor, result, sealed, delivered, edits,
                 lost>>

(* decide, by the fact of the join: the paths that differ from the start.   *)
Decision == UNION {ChangedIn(s, start) : s \in current["join"]}

-----------------------------------------------------------------------------
(* Managed branches *)

(* The worker changes what the branch declares; the workspace hands on what *)
(* comes after the input (see Workspace).                                   *)
WorkOn(b) ==
  /\ result[b] = {} /\ sealed[b] = "none"
  /\ \E now \in current[b], v \in {"none", "new"} :
       result' = [result EXCEPT ![b] =
         {ProjectSnapshot([p \in ProjectPaths |-> IF p \in Surface[b] THEN v ELSE now.files[p]],
                          {now}, {}, FALSE, b)}]
  /\ UNCHANGED <<project, handoff, facts, sealed, delivered, drive, edits, lost>>

(* adopt_successor up to the transaction: the rollover must come after what *)
(* is now current for the branch; otherwise it raises.                      *)
Adopt(d, b) ==
  /\ drive[d] = AtRest /\ sealed[b] = "none"
  /\ \E s \in result[b] :
       IF successor[b] = {s}
       THEN Set(d, "seal", b, {}, "PASS")
       ELSE /\ successor[b] = {} /\ s.previous \subseteq CurrentRefs(b)
            /\ Set(d, "bind_successor", b, {s}, "PASS")
  /\ UNCHANGED <<project, handoff, facts, result, sealed, delivered, edits, lost>>

(* _reconcile_expired_running_effect: the deadline answers without the work.*)
DeadlineAnswers(b) ==
  /\ b \in Managed /\ sealed[b] = "none"
  /\ sealed' = [sealed EXCEPT ![b] = "ERROR"]
  /\ UNCHANGED <<project, handoff, facts, result, delivered, drive, edits, lost>>

-----------------------------------------------------------------------------
(* Manual branches *)

(* prepare_handoff: the baseline is the whole project; a second one finds   *)
(* the first.                                                               *)
HandOver(d, b) ==
  /\ drive[d] = AtRest /\ handoff[b] = {}
  /\ handoff' = [handoff EXCEPT ![b] = {project}]
  /\ UNCHANGED <<project, facts, result, sealed, delivered, drive, edits, lost>>

(* compare_effect against the writes of all the branches of the block.      *)
WithinBlock(baseline) ==
  \A p \in ProjectPaths : baseline[p] # project[p] =>
    /\ p \in UNION {Surface[a] : a \in Manual}
    /\ "link" \notin {baseline[p], project[p]}

(* _worker_interrupt admits a submission only when everything that waits is *)
(* a manual step; ManualProvider.submit compares, whatever is claimed.      *)
Submit(d, b, claimed) ==
  /\ drive[d] = AtRest /\ sealed[b] = "none" /\ Managed \subseteq delivered
  /\ \E baseline \in handoff[b] :
       IF WithinBlock(baseline)
       THEN Set(d, "capture", b, {}, claimed)
       ELSE Set(d, "seal", b, {}, "manifest_invalid")
  /\ UNCHANGED <<project, handoff, facts, result, sealed, delivered, edits, lost>>

(* Mutant: the capture takes all the live files, also of siblings.          *)
CaptureWhole(d) ==
  /\ drive[d].doing = "capture"
  /\ LET b == drive[d].effect
     IN  IF successor[b] # {}
         THEN Set(d, "seal", b, {}, drive[d].outcome)
         ELSE \E previous \in CurrentRefs(b) :
                Set(d, "bind_successor", b,
                    {ProjectSnapshot(project, {previous}, {}, TRUE, "manual")},
                    drive[d].outcome)
  /\ UNCHANGED <<project, handoff, facts, result, sealed, delivered, edits, lost>>

(* capture_successor up to the transaction.  The project is read once more: *)
(* a link anywhere raises, and outside its surface the branch keeps what is *)
(* current for it, not what is live.                                        *)
CaptureSuccessor(d) ==
  /\ drive[d].doing = "capture"
  /\ LET b == drive[d].effect
     IN  IF successor[b] # {}
         THEN Set(d, "seal", b, {}, drive[d].outcome)
         ELSE IF \E p \in ProjectPaths : project[p] = "link"
         THEN Rest(d)
         ELSE \E previous \in CurrentRefs(b) :
                Set(d, "bind_successor", b,
                    {ProjectSnapshot([p \in ProjectPaths |-> IF p \in Surface[b] THEN project[p]
                                                             ELSE previous.files[p]],
                                     {previous}, {}, TRUE, "manual")}, drive[d].outcome)
  /\ UNCHANGED <<project, handoff, facts, result, sealed, delivered, edits, lost>>

-----------------------------------------------------------------------------

(* bind_effect of a successor, and seal after it; another one raises.       *)
BindSuccessor(d) ==
  /\ drive[d].doing = "bind_successor"
  /\ LET b == drive[d].effect
     IN  IF successor[b] \in {{}, drive[d].snapshot}
         THEN /\ successor' = [successor EXCEPT ![b] = drive[d].snapshot]
              /\ Set(d, "seal", b, {}, drive[d].outcome)
         ELSE Rest(d) /\ UNCHANGED successor
  /\ UNCHANGED <<project, handoff, start, current, result, sealed, delivered, edits, lost>>

(* EffectLedger.seal: the first answer stays (see EffectLedger). *)
SealBranch(d) ==
  /\ drive[d].doing = "seal" /\ Rest(d)
  /\ sealed' = [sealed EXCEPT ![drive[d].effect] =
                  IF @ = "none" THEN drive[d].outcome ELSE @]
  /\ UNCHANGED <<project, handoff, facts, result, delivered, edits, lost>>

(* deliver_ready, and the partial resume of the graph. *)
Deliver(b) ==
  /\ sealed[b] # "none" /\ b \notin delivered /\ delivered' = delivered \cup {b}
  /\ UNCHANGED <<project, handoff, facts, result, sealed, drive, edits, lost>>

(* A drive dies between what it has read and what it would have written.    *)
Lose(d) ==
  /\ drive[d] # AtRest /\ lost < MaxLost /\ lost' = lost + 1 /\ Rest(d)
  /\ UNCHANGED <<project, handoff, facts, result, sealed, delivered, edits>>

-----------------------------------------------------------------------------

DriveStep(d) == BindInput(d) \/ CaptureSuccessor(d) \/ BindSuccessor(d) \/ SealBranch(d)

LineageNext ==
  \/ \E p \in ProjectPaths, v \in Content : v # project[p] /\ Edit(p, v)
  \/ \E d \in Drives :
       \/ DriveStep(d) \/ Lose(d)
       \/ \E e \in Effects : ResolveInput(d, e)
       \/ \E b \in Managed : Adopt(d, b)
       \/ \E b \in Manual : \/ HandOver(d, b)
                            \/ \E o \in Claims : Submit(d, b, o)
  \/ \E b \in Managed : WorkOn(b) \/ DeadlineAnswers(b)
  \/ \E b \in Branches : Deliver(b)

LineageSpec == LineageInit /\ [][LineageNext]_lineageVars

-----------------------------------------------------------------------------
(* Properties *)

LineageTypeOK ==
  /\ project \in [ProjectPaths -> Content] /\ start.previous = {}
  /\ \A e \in Effects : \A s \in current[e] : start \in Chain(s)
  /\ \A b \in Branches :
       /\ \A s \in successor[b] : start \in Chain(s)
       /\ sealed[b] \in {"none", "PASS", "FAIL", "ERROR", "manifest_invalid"}
  /\ \A d \in Drives : drive[d].effect \in Effects

Accepted == {b \in Branches : sealed[b] \in {"PASS", "FAIL"}}

(* What the join works on, and what it decides by, has the changes of every *)
(* accepted branch in its own surface, in whatever order they were          *)
(* submitted, adopted and delivered, and elsewhere the start: nothing that  *)
(* a person left in the project without submitting it.  A branch that was   *)
(* refused or timed out is there as a whole, when its successor was bound   *)
(* before, or not at all.  Without a manual branch the managed ones leave   *)
(* the baseline to the publication that follows.  The changes of two        *)
(* branches never conflict, so there always is an input.                    *)
JoinSeesAccepted ==
  /\ Waits("join") => CurrentRefs("join") # {}
  /\ \A now \in current["join"] :
       LET At(b, s) == \A p \in Surface[b] : now.files[p] = s.files[p]
       IN  /\ Accepted \cap Manual # {} => \A b \in Branches :
                \/ \E s \in successor[b] : At(b, s)
                \/ b \notin Accepted /\ At(b, start)
           /\ ChangedIn(now, start) \subseteq UNION {Surface[b] : b \in Branches}

(* What a worker has made of its input is never refused: the input that was *)
(* bound before the work stays the current snapshot of the branch until the *)
(* rollover is adopted, whoever resolves or binds it again and whatever the *)
(* siblings do.                                                             *)
WorkIsAdopted ==
  \A b \in Managed : sealed[b] = "none" => \A s \in result[b] :
    /\ s.previous = current[b]
    /\ successor[b] = {s} \/ current[b] \subseteq CurrentRefs(b)

(* Of a parallel block: the join sees what the branches were accepted with, *)
(* and what they left is adopted.                                           *)
BranchesMeet == LineageTypeOK /\ JoinSeesAccepted /\ WorkIsAdopted
=============================================================================
