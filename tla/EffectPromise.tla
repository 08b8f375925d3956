---------------------------- MODULE EffectPromise ----------------------------
(***************************************************************************)
(* What the rest of the engine relies on the effect ledger for, with no    *)
(* lease, revision or journal in sight: an effect is opened once, launched *)
(* at most once, decided once with a result that never changes, and then   *)
(* delivered.  Some kinds are never launched.  Deciding without a launch   *)
(* is the privilege of these, of the manual kind, and of the fixed         *)
(* pre-launch errors.                                                      *)
(***************************************************************************)
CONSTANTS
  Effects,          \* effect coordinates
  Kinds,            \* descriptor kinds
  NeverLaunched,    \* the kinds that launch nothing
  SealedAtOnce,     \* the kinds that may be decided without a launch
  Results,          \* results
  PrelaunchErrors,  \* results a launched kind may have without a launch
  None

VARIABLES
  kind,       \* effect -> its kind, or None before it is opened
  launched,   \* effect -> has it been launched
  outcome,    \* effect -> its result, or None before it is decided
  delivered   \* effect -> has its result been delivered

promiseVars == <<kind, launched, outcome, delivered>>

Init ==
  /\ kind = [e \in Effects |-> None]
  /\ launched = [e \in Effects |-> FALSE]
  /\ outcome = [e \in Effects |-> None]
  /\ delivered = [e \in Effects |-> FALSE]

Open(e, k) ==
  /\ kind[e] = None
  /\ kind' = [kind EXCEPT ![e] = k]
  /\ UNCHANGED <<launched, outcome, delivered>>

Launch(e) ==
  /\ kind[e] \in Kinds \ NeverLaunched
  /\ ~launched[e]
  /\ outcome[e] = None
  /\ launched' = [launched EXCEPT ![e] = TRUE]
  /\ UNCHANGED <<kind, outcome, delivered>>

Decide(e, r) ==
  /\ kind[e] # None
  /\ outcome[e] = None
  /\ launched[e] \/ kind[e] \in SealedAtOnce \/ r \in PrelaunchErrors
  /\ outcome' = [outcome EXCEPT ![e] = r]
  /\ UNCHANGED <<kind, launched, delivered>>

Deliver(e) ==
  /\ outcome[e] # None
  /\ ~delivered[e]
  /\ delivered' = [delivered EXCEPT ![e] = TRUE]
  /\ UNCHANGED <<kind, launched, outcome>>

Next == \E e \in Effects :
          \/ \E k \in Kinds : Open(e, k)
          \/ Launch(e)
          \/ \E r \in Results : Decide(e, r)
          \/ Deliver(e)

Spec == Init /\ [][Next]_promiseVars
=============================================================================
