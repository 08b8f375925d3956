----------------------------- MODULE LeaseStore -----------------------------
(***************************************************************************)
(* The lease table of lockstep (runtime/leases.py): one row per key with   *)
(* its owner, its epoch and its expiry.  Every operation is one SQLite     *)
(* write transaction, hence one action.  The table is read against the     *)
(* wall clock of whichever process asks, so the clock of the model may be  *)
(* set to any value, backwards included.                                   *)
(*                                                                         *)
(* A caller keeps the Lease it was given for as long as it likes, also     *)
(* when it is dead or superseded: `issued' is every Lease ever returned.   *)
(***************************************************************************)
EXTENDS Integers

CONSTANTS
  Keys,       \* lease keys: effect ids
  Owners,     \* owner tokens
  Ttls,       \* the durations callers ask for, all positive
  Times,      \* the readings the wall clock can give
  MaxEpoch    \* BOUND: acquisitions that open a new epoch stop here

ASSUME LeaseAssumption ==
  /\ Ttls \subseteq Nat \ {0}
  /\ Times \subseteq Nat
  /\ MaxEpoch \in Nat \ {0}

VARIABLES
  now,        \* what datetime.now(UTC) returns
  lease,      \* key -> its row, or NoLease when the key has none
  issued      \* history: every Lease returned by acquire

leaseVars == <<now, lease, issued>>

NoLease == [owner |-> "none", epoch |-> 0, expires |-> 0]

LeaseRow == [owner : Owners, epoch : 1 .. MaxEpoch, expires : Nat]
Lease    == [key : Keys, owner : Owners, epoch : 1 .. MaxEpoch]

HasLease(k) == lease[k].epoch > 0

(* LeaseStore.is_current: same owner, same epoch, not expired. *)
IsCurrent(l) ==
  /\ lease[l.key].owner = l.owner
  /\ lease[l.key].epoch = l.epoch
  /\ lease[l.key].expires > now

LeaseInit ==
  /\ now \in Times
  /\ lease = [k \in Keys |-> NoLease]
  /\ issued = {}

(* The wall clock is an input of the operations, not state they own. *)
ReadClock ==
  /\ now' \in Times
  /\ UNCHANGED <<lease, issued>>

(***************************************************************************)
(* acquire: a new key opens epoch 1; an unexpired row of another owner     *)
(* refuses; an expired row opens the next epoch; the owner of an unexpired *)
(* row renews it in the same epoch.                                        *)
(***************************************************************************)
NextEpoch(k) == IF lease[k].expires <= now
                THEN lease[k].epoch + 1
                ELSE lease[k].epoch

Acquire(k, o, ttl) ==
  /\ lease[k].expires > now => lease[k].owner = o
  /\ NextEpoch(k) <= MaxEpoch
  /\ lease' = [lease EXCEPT ![k] = [owner   |-> o,
                                    epoch   |-> NextEpoch(k),
                                    expires |-> now + ttl]]
  /\ issued' = issued \cup {[key |-> k, owner |-> o, epoch |-> NextEpoch(k)]}
  /\ UNCHANGED now

(* release: expires a live epoch at once and keeps the row, so that the    *)
(* epoch is never handed out again.                                        *)
(* Mutant: release deletes the row.  *)
ReleaseDeletes(l) ==
  /\ IsCurrent(l)
  /\ lease' = [lease EXCEPT ![l.key] = NoLease]
  /\ UNCHANGED <<now, issued>>

Release(l) ==
  /\ IsCurrent(l)
  /\ lease' = [lease EXCEPT ![l.key].expires = now]
  /\ UNCHANGED <<now, issued>>

LeaseNext ==
  \/ ReadClock
  \/ \E k \in Keys, o \in Owners, ttl \in Ttls : Acquire(k, o, ttl)
  \/ \E l \in issued : Release(l)

-----------------------------------------------------------------------------
LeaseTypeOK ==
  /\ now \in Times
  /\ lease \in [Keys -> LeaseRow \cup {NoLease}]
  /\ issued \subseteq Lease

(***************************************************************************)
(* An epoch number names one owner for ever: two Leases of one key and one *)
(* epoch were given to the same owner, whatever expired, was released or   *)
(* was renewed in between and however the wall clock moved.  It is what    *)
(* lets the ledger fence a writer by comparing epochs.                     *)
(***************************************************************************)
EpochNamesOneOwner ==
  \A l, m \in issued : l.key = m.key /\ l.epoch = m.epoch => l.owner = m.owner

(* Every Lease handed out is of the row's epoch, and then of its owner, or *)
(* of an earlier one.                                                      *)
IssuedWithinEpoch ==
  \A l \in issued : /\ l.epoch <= lease[l.key].epoch
                    /\ l.epoch = lease[l.key].epoch => l.owner = lease[l.key].owner
=============================================================================
