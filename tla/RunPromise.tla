------------------------------ MODULE RunPromise ------------------------------
(***************************************************************************)
(* What a run is promised about the effects its graph asks for, with no    *)
(* ledger, lease or process in sight: the worker of an effect is started   *)
(* at most once and only while the effect is undecided, an effect is       *)
(* decided once, and the graph is given that decision exactly once.        *)
(***************************************************************************)
EXTENDS Integers, Sequences

CONSTANTS
  Effects,    \* the effects the graph may ask for
  Outcomes,   \* what an effect may be decided as
  Earned,     \* the outcomes only a started worker can have
  None

VARIABLES
  started,    \* effect -> how often its worker was started
  decided,    \* effect -> its outcome, or None
  applied     \* effect -> the outcomes the graph was given

promiseVars == <<started, decided, applied>>

Init ==
  /\ started = [e \in Effects |-> 0]
  /\ decided = [e \in Effects |-> None]
  /\ applied = [e \in Effects |-> <<>>]

Start(e) ==
  /\ started[e] = 0 /\ decided[e] = None
  /\ started' = [started EXCEPT ![e] = 1]
  /\ UNCHANGED <<decided, applied>>

Decide(e, o) ==
  /\ decided[e] = None
  /\ o \in Earned => started[e] = 1
  /\ decided' = [decided EXCEPT ![e] = o]
  /\ UNCHANGED <<started, applied>>

(* One commit of the graph takes a set of decisions. *)
Apply(S) ==
  /\ \A e \in S : decided[e] # None /\ applied[e] = <<>>
  /\ applied' = [e \in Effects |-> IF e \in S THEN <<decided[e]>> ELSE applied[e]]
  /\ UNCHANGED <<started, decided>>

Next ==
  \/ \E e \in Effects : Start(e) \/ \E o \in Outcomes : Decide(e, o)
  \/ \E S \in (SUBSET Effects) \ {{}} : Apply(S)

Spec == Init /\ [][Next]_promiseVars
=============================================================================
