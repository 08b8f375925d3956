----------------------------- MODULE OwnerPolicy -----------------------------
(***************************************************************************)
(* The owner runtime snapshot (effects/owner_snapshot_store.py and         *)
(* owner_provisioning.py): one file that says which installation runs each *)
(* kind of worker and which requirements of the recipes the owner grants.  *)
(* Owners replace it whole under snapshot.lock; a server reads it without  *)
(* the lock when it plans, and holds the lock while it admits or launches, *)
(* so that what it acts on is what the owner says now.                     *)
(***************************************************************************)
EXTENDS Integers, FiniteSets, Functions

CONSTANTS
  Keys,            \* grant selection keys of the static requirements
  Runners,         \* "codex", "pinned", "claude": the selectors in use
  selector,        \* key -> the runner it asks for
  Installs,        \* the installations a capture may find, by their facts
  None,            \* no value, no lock holder
  Owners,          \* owner processes that provision
  MaxGeneration    \* BOUND: generations of the configuration and the policy

ASSUME OwnerPolicyAssumption ==
  /\ selector \in [Keys -> Runners]
  /\ MaxGeneration \in Nat

VARIABLES
  snapshot,     \* the content of snapshot.json
  holder,       \* the process or thread in snapshot.lock
  installed,    \* runner -> what a capture finds on the machine now
  request,      \* owner -> what it captured and was asked to grant
  pending,      \* owner -> the encoded successor, while it holds the lock
  written       \* every snapshot snapshot.json ever had

ownerFile == <<snapshot, written>>
ownerWork == <<request, pending>>
ownerVars == <<ownerFile, holder, installed, ownerWork>>

-----------------------------------------------------------------------------
(* Values *)

(* requirement_digest: it names the key, the binding and the configuration. *)
RequirementDigest(key, install, config) == <<key, install, config>>

(* OwnerRuntimeSnapshot.  The generations of a grant are the snapshot's.    *)
IsSnapshot(s) ==
  /\ s.config \in 1 .. MaxGeneration /\ s.policy \in 1 .. MaxGeneration
  /\ s.binding \in [Runners -> Installs \cup {None}]
  /\ DOMAIN s.grant \subseteq Keys
  /\ \A key \in DOMAIN s.grant : s.grant[key].generation \in Nat \ {0}

(* binding_for *)
BindingFor(s, key) == s.binding[selector[key]]

(* RuntimeRequirementIndex.bind and OwnerRuntimeAuthority.preflight: every  *)
(* requirement has a binding and a grant for exactly that binding.          *)
Preflight(s, keys) ==
  \A key \in keys :
    /\ BindingFor(s, key) # None
    /\ key \in DOMAIN s.grant
    /\ s.grant[key].digest = RequirementDigest(key, BindingFor(s, key), s.config)

(* capture_runtime_execution_bindings: the installations of a snapshot are  *)
(* captured again and have to be the ones it names.                         *)
BindingsUnchanged(s) ==
  \A runner \in Runners : s.binding[runner] \in {None, installed[runner]}

(* _assert_snapshot_grants_consistent, for every read, and                  *)
(* _assert_predecessor_consistent for the keys of an inventory.             *)
GrantsConsistent(s, inventory) ==
  \A key \in DOMAIN s.grant :
    /\ \E runner \in Runners :
         /\ s.binding[runner] # None
         /\ s.grant[key].digest = RequirementDigest(key, s.binding[runner], s.config)
    /\ key \in inventory =>
         s.grant[key].digest = RequirementDigest(key, BindingFor(s, key), s.config)

(* _next_snapshot: one generation per change of the bindings, one per       *)
(* change of the granted keys, and one per change of a grant itself.        *)
NextSnapshot(old, binding, keys) ==
  LET first  == old = None
      config == IF first THEN 1
                ELSE old.config + (IF old.binding = binding THEN 0 ELSE 1)
      policy == IF first THEN 1
                ELSE old.policy + (IF DOMAIN old.grant = keys THEN 0 ELSE 1)
      digest(key) == RequirementDigest(key, binding[selector[key]], config)
      generation(key) ==
        IF first THEN 1
        ELSE IF key \notin DOMAIN old.grant THEN 1
        ELSE old.grant[key].generation
               + (IF old.grant[key].digest = digest(key) THEN 0 ELSE 1)
  IN  [config |-> config, policy |-> policy, binding |-> binding,
       grant |-> [key \in keys |->
                   [digest |-> digest(key), generation |-> generation(key)]]]

-----------------------------------------------------------------------------
(* Provisioning *)

OwnerInit ==
  /\ snapshot = None /\ written = {} /\ holder = None
  /\ installed \in [Runners -> Installs]
  /\ request = [o \in Owners |-> None]
  /\ pending = [o \in Owners |-> None]

(* provision_runtime_snapshot up to the lock: the bindings are captured and *)
(* checked first; every runner the inventory needs is configured, and only  *)
(* keys of the inventory are granted.                                       *)
Capture(o) ==
  /\ request[o] = None /\ pending[o] = None
  /\ \E configured \in SUBSET Runners, inventory \in SUBSET Keys :
     \E keys \in SUBSET inventory :
       /\ \A key \in inventory : selector[key] \in configured
       /\ request' = [request EXCEPT ![o] =
            [binding |-> [runner \in Runners |->
                IF runner \in configured THEN installed[runner] ELSE None],
             keys |-> keys, inventory |-> inventory]]
  /\ UNCHANGED <<ownerFile, holder, installed, pending>>

(* replace_runtime_snapshot: the predecessor is read under the lock.        *)
Enter(o) ==
  /\ request[o] # None /\ pending[o] = None /\ holder = None
  /\ snapshot # None => GrantsConsistent(snapshot, request[o].inventory)
  /\ LET successor == NextSnapshot(snapshot, request[o].binding, request[o].keys)
     IN  /\ successor.config <= MaxGeneration /\ successor.policy <= MaxGeneration
         /\ pending' = [pending EXCEPT ![o] = successor]
  /\ holder' = o
  /\ UNCHANGED <<ownerFile, installed, request>>

(* _replace_snapshot: the temporary file replaces the snapshot at once; the *)
(* same bytes are not written again.                                        *)
Publish(o) ==
  /\ pending[o] # None
  /\ snapshot' = pending[o] /\ written' = written \cup {pending[o]}
  /\ holder' = IF holder = o THEN None ELSE holder
  /\ pending' = [pending EXCEPT ![o] = None]
  /\ request' = [request EXCEPT ![o] = None]
  /\ UNCHANGED installed

(* An owner process dies; the kernel releases its lock, and a temporary     *)
(* file that was not moved is no snapshot.                                  *)
OwnerDies(o) ==
  /\ request[o] # None
  /\ holder' = IF holder = o THEN None ELSE holder
  /\ pending' = [pending EXCEPT ![o] = None]
  /\ request' = [request EXCEPT ![o] = None]
  /\ UNCHANGED <<ownerFile, installed>>

(* Another installation, credential or environment is put in place.         *)
Reinstall(runner) ==
  /\ \E install \in Installs \ {installed[runner]} :
       installed' = [installed EXCEPT ![runner] = install]
  /\ UNCHANGED <<ownerFile, holder, ownerWork>>

OwnerStep ==
  \/ \E o \in Owners : Capture(o) \/ Enter(o) \/ Publish(o) \/ OwnerDies(o)
  \/ \E runner \in Runners : Reinstall(runner)

-----------------------------------------------------------------------------
(* Properties *)

OwnerTypeOK ==
  /\ snapshot = None \/ IsSnapshot(snapshot)
  /\ \A o \in Owners : pending[o] = None \/ IsSnapshot(pending[o])
  /\ installed \in [Runners -> Installs]

(* The two generations name the content of the snapshot for ever: a grant   *)
(* or launch that quotes them cannot be mistaken for one made under other   *)
(* bindings or another set of granted keys, whatever owners do              *)
(* concurrently, and also when an old configuration is put back.            *)
GenerationsNameContent ==
  \A s, t \in written : s.config = t.config /\ s.policy = t.policy => s = t
=============================================================================
