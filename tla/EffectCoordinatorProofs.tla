----------------------- MODULE EffectCoordinatorProofs -----------------------
(***************************************************************************)
(* Proofs about the effect coordinator under its drive loop, for any       *)
(* effects and drivers, any number of deaths and of leases that expire     *)
(* under a live holder.                                                    *)
(***************************************************************************)
EXTENDS EffectCoordinator, TLAPS

Sweeping  == {"sweep", "missing", "redeliver"}
Launchers == {"invoke", "commit", "grant", "start", "record", "finish"}
OnEffect  == {"acquire", "owned", "write"} \cup Launchers
Inside    == OnEffect \cup {"snapshot", "ready", "lock", "resume", "mark"}

Open == {e \in Effects : row[e] \in Nonterminal}

(***************************************************************************)
(* Mutual exclusion: all but the settlement of a run that waits for        *)
(* nothing happens inside the kernel's invocation lock, so that leases,    *)
(* which expire under their holders, are not what safety rests on.  The    *)
(* settlement overlooks no row unless it also says stop.                   *)
(***************************************************************************)
Excludes(d) ==
  /\ pc[d] \in Inside => guard = d
  /\ pc[d] \in Sweeping => guard = d \/ "settle" \in flags[d]
  /\ "settle" \in flags[d] =>
       /\ pc[d] \in Sweeping /\ pending = {}
       /\ "stop" \in flags[d] \/ Open \subseteq todo[d]

(* A transition of e that is decided and not yet written still makes sense *)
MakesSense(e, w) ==
  \/ row[e] = "absent"    /\ w.phase = "prepared"  /\ w.outcome = None
  \/ row[e] = "prepared"  /\ w.phase = "launching" /\ w.outcome = None
  \/ row[e] = "launching" /\ w.phase = "running"   /\ w.outcome = None
  \/ /\ row[e] \in {"launching", "running"}
     /\ w.phase = "indeterminate" /\ w.outcome = "unknown"
  \/ /\ row[e] \in {"prepared", "launching", "running"}
     /\ w.phase = "sealed" /\ w.outcome # None
     /\ w.outcome = "PASS" => spawns[e] = 1
     /\ attempt[e] = "running" => ~recorded[e]

(* What a drive may count on at each of its steps.                         *)
CountsOn(d) ==
  /\ pc[d] \in Sweeping \cup OnEffect => \A e \in todo[d] : e \in pending \/ row[e] # "absent"
  /\ pc[d] \in {"missing", "redeliver"} => /\ job[d] \in Effects \ pending
                                           /\ row[job[d]] # "absent"
  /\ pc[d] \in OnEffect => job[d] \in pending
  /\ pc[d] \in Launchers => row[job[d]] = "launching"
  /\ pc[d] \in {"start", "record"} => granted
  /\ pc[d] = "record" => attempt[job[d]] \notin {None, "prepared"}
  /\ pc[d] = "finish" => recorded[job[d]]
  /\ pc[d] = "write" => MakesSense(job[d], want[d])
  /\ pc[d] \in {"lock", "resume"} => todo[d] # {} /\ \A e \in todo[d] : Deliverable(e)
  /\ pc[d] = "mark" => \A e \in todo[d] : applied[e] # <<>>
  /\ pc[d] # "broken"

DriveInv == \A d \in Drivers : Excludes(d) /\ CountsOn(d)

(***************************************************************************)
(* The graph and the ledger: an effect was asked for and not answered as   *)
(* long as nothing was applied; a result is applied once, and stays.       *)
(***************************************************************************)
GraphInv ==
  /\ pending \cap future = {}
  /\ \A e \in Effects : e \in pending \cup future <=> applied[e] = <<>>
  /\ \A e \in future : row[e] = "absent"
  /\ \A e \in Effects : row[e] \in Settled \cup {"delivered"} <=> outcome[e] # None
  /\ GraphMatchesLedger
  /\ ~watch => pending = {} /\ Open = {}

(***************************************************************************)
(* The provider: a worker is started for a launching row, once, and what   *)
(* it leaves unrecorded is all that may still run behind a sealed row.     *)
(***************************************************************************)
ProviderInv ==
  /\ \A e \in Effects : attempt[e] \in {None, "prepared"} => spawns[e] = 0 /\ ~recorded[e]
  /\ \A e \in Effects : attempt[e] \notin {None, "prepared"} => spawns[e] = 1
  /\ \A e \in Effects : attempt[e] = "terminal" => ended[e] # None
  /\ \A e \in Effects : row[e] \in {"absent", "prepared"} => attempt[e] \in {None, "prepared"}
  /\ SealedIsQuiescent

IInv == TypeOK /\ DriveInv /\ GraphInv /\ ProviderInv
-----------------------------------------------------------------------------
(* What a step of a driver leaves alone *)

DriveTypes ==
  /\ pc \in [Drivers -> Steps]
  /\ todo \in [Drivers -> SUBSET Effects] /\ job \in [Drivers -> Effects \cup {None}]
  /\ seen \in [Drivers -> Phases]
  /\ want \in [Drivers -> [phase : Phases, outcome : Outcomes \cup {None}]]
  /\ flags \in [Drivers -> SUBSET {"stop", "deliver", "settle"}]

LockTypes ==
  /\ guard \in Drivers \cup {None}
  /\ lease \in [Keys -> Drivers \cup {None, Ghost}]

Same(s) ==
  /\ pc'[s] = pc[s] /\ todo'[s] = todo[s] /\ job'[s] = job[s]
  /\ want'[s] = want[s] /\ flags'[s] = flags[s]

(* It keeps to its own variables,                                          *)
Local(d) == DriveTypes' /\ \A s \in Drivers \ {d} : Same(s)

(* and takes the invocation lock from nobody.                              *)
Kept(d) == LockTypes' /\ \A s \in Drivers \ {d} : guard = s => guard' = s

LEMMA DriveTyped == TypeOK => DriveTypes /\ LockTypes
BY DEF TypeOK, DriveTypes, LockTypes

LEMMA Goes ==
  ASSUME DriveTypes, NEW d \in Drivers, NEW x \in Steps, Goto(d, x), UNCHANGED drive
  PROVE  /\ Local(d) /\ pc'[d] = x
         /\ todo'[d] = todo[d] /\ job'[d] = job[d] /\ want'[d] = want[d] /\ flags'[d] = flags[d]
BY DEF DriveTypes, Goto, drive, Local, Same

LEMMA Forgets ==
  ASSUME DriveTypes, NEW d \in Drivers, NEW x \in Steps, Goto(d, x), Forget(d)
  PROVE  Local(d) /\ pc'[d] = x /\ todo'[d] = {} /\ flags'[d] = {}
<1> USE DEF DriveTypes, Forget, Goto, Phases, Local, Same
<1>1. want' \in [Drivers -> [phase : Phases, outcome : Outcomes \cup {None}]]
  OBVIOUS
<1> QED
  BY <1>1

LEMMA Reports ==
  ASSUME DriveTypes, NEW d \in Drivers, NEW new \in SUBSET {"stop", "deliver"}, Report(d, new)
  PROVE  /\ Local(d) /\ pc'[d] = "sweep"
         /\ todo'[d] = todo[d] \ {job[d]} /\ flags'[d] = flags[d] \cup new
<1> USE DEF DriveTypes, Report, Goto, Phases, Steps, Local, Same
<1>1. want' \in [Drivers -> [phase : Phases, outcome : Outcomes \cup {None}]]
  OBVIOUS
<1> QED
  BY <1>1

LEMMA Wants ==
  ASSUME DriveTypes, NEW d \in Drivers, NEW ph \in Phases, NEW o \in Outcomes \cup {None},
         row[job[d]] \in Phases, Want(d, ph, o)
  PROVE  /\ Local(d) /\ pc'[d] = "write" /\ want'[d] = [phase |-> ph, outcome |-> o]
         /\ todo'[d] = todo[d] /\ job'[d] = job[d] /\ flags'[d] = flags[d]
BY DEF DriveTypes, Want, Goto, Steps, Local, Same

LEMMA Locks ==
  ASSUME LockTypes, NEW d \in Drivers
  PROVE  /\ \A k \in Keys : Take(d, k) => lease' \in [Keys -> Drivers \cup {None, Ghost}]
         /\ \A ks : Drop(d, ks) => lease' \in [Keys -> Drivers \cup {None, Ghost}]
         /\ LeaveGuard(d) => /\ guard' \in Drivers \cup {None}
                             /\ \A s \in Drivers \ {d} : guard = s => guard' = s
         /\ Quiet => guard' = guard
BY DEF LockTypes, Take, Drop, LeaveGuard, Quiet

(* The drive is over.                                                      *)
Over(d) == Local(d) /\ Kept(d) /\ pc'[d] \in {"idle", "down", "dead"} /\ flags'[d] = {}

LEMMA Ends ==
  ASSUME TypeOK, NEW d \in Drivers
  PROVE  /\ Fail(d) => Over(d)
         /\ Rest(d) /\ (UNCHANGED lease \/ Drop(d, Keys)) => Over(d)
         /\ Broken(d) => Local(d) /\ Kept(d)
BY DriveTyped, Forgets, Locks DEF Fail, Rest, Broken, Over, Kept, LockTypes, Steps

LEMMA Withdraws ==
  ASSUME TypeOK, NEW d \in Drivers, NEW new \in SUBSET {"stop", "deliver"},
         Report(d, new), Drop(d, {job[d]}) \/ Drop(d, Keys), Quiet
  PROVE  /\ Local(d) /\ Kept(d) /\ pc'[d] = "sweep" /\ guard' = guard
         /\ todo'[d] = todo[d] \ {job[d]} /\ flags'[d] = flags[d] \cup new
BY DriveTyped, Reports, Locks DEF Kept, LockTypes-----------------------------------------------------------------------------
(* The steps of a drive that write nothing outside it *)

LEMMA InspectionTells ==
  ASSUME ProviderInv, TypeOK, NEW e \in Effects
  PROVE  /\ Inspection(e) = "absent" => ~recorded[e] /\ attempt[e] # "terminal"
         /\ recorded[e] => Inspection(e) # "absent"
BY DEF ProviderInv, TypeOK, Inspection, Attempts

StaysPut == UNCHANGED <<native, ledger, provider, world>>

Quietly(d) == StaysPut /\ Local(d) /\ Kept(d) /\ Excludes(d)' /\ CountsOn(d)'

LEMMA OverIsQuiet ==
  ASSUME NEW d \in Drivers, Over(d), StaysPut
  PROVE  Quietly(d)
BY DEF Over, Quietly, Excludes, CountsOn, Inside, OnEffect, Launchers, Sweeping

LEMMA WithdrawIsQuiet ==
  ASSUME IInv, NEW d \in Drivers, NEW new \in SUBSET {"stop", "deliver"}, StaysPut,
         pc[d] \in OnEffect \/ (pc[d] = "missing" /\ new = {"stop"}),
         Report(d, new), Drop(d, {job[d]}) \/ Drop(d, Keys), Quiet
  PROVE  Quietly(d)
<1>1. /\ Local(d) /\ Kept(d) /\ pc'[d] = "sweep" /\ guard' = guard
      /\ todo'[d] = todo[d] \ {job[d]} /\ flags'[d] = flags[d] \cup new
  BY Withdraws DEF IInv
<1>2. Excludes(d) /\ CountsOn(d)
  BY DEF IInv, DriveInv
<1> QED
  BY <1>1, <1>2 DEF StaysPut, Quietly, Excludes, CountsOn, Inside, OnEffect, Launchers, Sweeping,
     native, ledger, provider, world

LEMMA WantIsQuiet ==
  ASSUME IInv, NEW d \in Drivers, NEW ph \in Phases, NEW o \in Outcomes \cup {None}, StaysPut,
         pc[d] \in OnEffect, MakesSense(job[d], [phase |-> ph, outcome |-> o]),
         Want(d, ph, o), UNCHANGED lease \/ Drop(d, {"invoke"}), Quiet
  PROVE  Quietly(d)
<1>0. TypeOK /\ Excludes(d) /\ CountsOn(d)
  BY DEF IInv, DriveInv
<1>1. row[job[d]] \in Phases
  BY <1>0 DEF TypeOK, CountsOn
<1>2. /\ Local(d) /\ pc'[d] = "write" /\ want'[d] = [phase |-> ph, outcome |-> o]
      /\ todo'[d] = todo[d] /\ job'[d] = job[d] /\ flags'[d] = flags[d]
  BY <1>0, <1>1, DriveTyped, Wants
<1>3. Kept(d) /\ guard' = guard
  BY <1>0, DriveTyped, Locks DEF Kept, LockTypes
<1>4. MakesSense(job[d], want[d])'
  BY <1>2 DEF MakesSense, StaysPut, native, ledger, provider, world
<1> QED
  BY <1>0, <1>2, <1>3, <1>4 DEF StaysPut, Quietly, Excludes, CountsOn, Inside, OnEffect, Launchers,
     Sweeping, native, ledger, provider, world

(* Inside the lock a drive goes on to a step that asks for nothing new, or *)
(* for what it has just seen.                                              *)
LEMMA GoIsQuiet ==
  ASSUME IInv, NEW d \in Drivers, NEW x \in Steps, StaysPut,
         pc[d] \in Inside, Goto(d, x), UNCHANGED <<drive, guard>>, LockTypes',
         \/ pc[d] = "acquire" /\ x = "owned"
         \/ pc[d] \in Launchers /\ x \in Launchers \ {"start", "record", "finish"}
         \/ pc[d] \in Launchers /\ x = "start" /\ granted
         \/ pc[d] = "start" /\ x = "record" /\ attempt[job[d]] \notin {None, "prepared"}
         \/ pc[d] = "start" /\ x = "finish" /\ recorded[job[d]]
         \/ pc[d] = "lock" /\ x \in {"lock", "resume"}
  PROVE  Quietly(d)
<1>0. TypeOK /\ Excludes(d) /\ CountsOn(d)
  BY DEF IInv, DriveInv
<1>1. /\ Local(d) /\ pc'[d] = x
      /\ todo'[d] = todo[d] /\ job'[d] = job[d] /\ flags'[d] = flags[d]
  BY <1>0, DriveTyped, Goes
<1> QED
  BY <1>0, <1>1 DEF StaysPut, Quietly, Excludes, CountsOn, Inside, OnEffect, Launchers, Sweeping,
     Kept, Deliverable, native, ledger, provider, world

(* What the inspection found is written next.                              *)
LEMMA ObservedIsQuiet ==
  ASSUME IInv, NEW d \in Drivers, StaysPut, pc[d] \in OnEffect, row[job[d]] = "launching",
         Inspection(job[d]) # "absent", Observed(d, Inspection(job[d])),
         UNCHANGED lease \/ Drop(d, {"invoke"}), Quiet
  PROVE  Quietly(d)
<1>1. CASE Inspection(job[d]) = "indeterminate"
  BY <1>1, WantIsQuiet DEF Observed, MakesSense, Phases, Outcomes
<1>2. CASE Inspection(job[d]) # "indeterminate"
  BY <1>2, WantIsQuiet DEF Observed, MakesSense, Phases, Outcomes
<1> QED
  BY <1>1, <1>2

LEMMA DecidingIsQuiet ==
  ASSUME IInv, NEW d \in Drivers, NEW e \in Effects,
         PrepareNew(d, e) \/ LaunchingExpired(d, e) \/ Launching(d, e)
           \/ LaunchingRefused(d, e) \/ Running(d, e)
  PROVE  Quietly(d)
<1>0. TypeOK /\ Excludes(d) /\ CountsOn(d) /\ ProviderInv /\ ended[e] \in Outcomes \cup {None}
  BY DEF IInv, DriveInv, TypeOK
<1>1. pc[d] = "owned" /\ job[d] = e /\ StaysPut
  BY DEF PrepareNew, LaunchingExpired, Launching, LaunchingRefused, Running, Owned, At, Unchanged4, StaysPut
<1>2. ASSUME Fail(d) PROVE Quietly(d)
  BY <1>0, <1>1, <1>2, Ends, OverIsQuiet
<1>3. ASSUME Blocked(d) PROVE Quietly(d)
  BY <1>1, <1>3, WithdrawIsQuiet DEF Blocked, OnEffect
<1> USE <1>0, <1>1 DEF Owned, Keep, OnEffect, MakesSense, Phases, Outcomes
<1>4. CASE PrepareNew(d, e)
  BY <1>4, <1>2, WantIsQuiet DEF PrepareNew
<1>5. CASE LaunchingExpired(d, e)
  <2>1. CASE Inspection(e) = "absent"
    <3>1. ~recorded[e] /\ row[e] = "launching"
      BY <1>5, <2>1, InspectionTells DEF LaunchingExpired
    <3>2. MakesSense(job[d], [phase |-> "sealed", outcome |-> "deadline_timeout"])
      BY <3>1 DEF None
    <3> QED
      BY <1>5, <2>1, <3>2, WantIsQuiet DEF LaunchingExpired
  <2>2. CASE Inspection(e) # "absent"
    BY <1>5, <2>2, ObservedIsQuiet DEF LaunchingExpired
  <2> QED
    BY <2>1, <2>2
<1>6. CASE Launching(d, e)
  <2>1. /\ pc' = [pc EXCEPT ![d] = "invoke"] /\ UNCHANGED <<todo, job, want, flags, guard, lease>>
        /\ seen' = [seen EXCEPT ![d] = "launching"] /\ row[e] = "launching"
    BY <1>6 DEF Launching, Goto, Quiet
  <2>2. Local(d) /\ Kept(d)
    BY <2>1 DEF Local, Same, Kept, DriveTypes, LockTypes, TypeOK, Steps
  <2>3. pc'[d] = "invoke"
    BY <2>1 DEF TypeOK
  <2> QED
    BY <2>1, <2>2, <2>3 DEF Quietly, StaysPut, native, ledger, provider, world, Excludes, CountsOn,
       Inside, Launchers, Sweeping
<1>7. CASE LaunchingRefused(d, e)
  <2>1. CASE Inspection(e) = "absent"
    BY <1>7, <2>1, <1>2, <1>3 DEF LaunchingRefused
  <2>2. CASE Inspection(e) # "absent"
    BY <1>7, <2>2, <1>2, ObservedIsQuiet DEF LaunchingRefused
  <2> QED
    BY <2>1, <2>2
<1>8. CASE Running(d, e)
  <2>1. CASE attempt[e] = "lost"
    BY <1>8, <2>1, WantIsQuiet DEF Running
  <2>2. CASE attempt[e] \notin {"lost", "terminal"}
    BY <1>8, <2>2, <1>3 DEF Running
  <2>3. CASE attempt[e] = "terminal"
    <3>1. ended[e] # None /\ spawns[e] = 1
      BY <2>3 DEF ProviderInv, None
    <3>2. row[e] = "running" /\ Want(d, "sealed", IF late[e] THEN "deadline_timeout" ELSE ended[e])
          /\ UNCHANGED lease /\ Quiet
      BY <1>8, <2>3 DEF Running
    <3> DEFINE o == IF late[e] THEN "deadline_timeout" ELSE ended[e]
    <3>3. MakesSense(job[d], [phase |-> "sealed", outcome |-> o]) /\ o \in Outcomes \cup {None}
      BY <2>3, <3>1, <3>2 DEF None
    <3> QED
      BY <3>2, <3>3, WantIsQuiet
  <2> QED
    BY <2>1, <2>2, <2>3
<1> QED
  BY <1>4, <1>5, <1>6, <1>7, <1>8

LEMMA CommittingIsQuiet ==
  ASSUME IInv, NEW d \in Drivers, Invoke(d) \/ Commit(d) \/ Grant(d) \/ Finish(d)
  PROVE  Quietly(d)
<1>0. TypeOK /\ Excludes(d) /\ CountsOn(d) /\ ProviderInv /\ LockTypes
  BY DriveTyped DEF IInv, DriveInv
<1>1. pc[d] \in Launchers /\ StaysPut
  BY DEF Invoke, Commit, Grant, Finish, At, Unchanged4, StaysPut, Launchers
<1>2. ASSUME Fail(d) PROVE Quietly(d)
  BY <1>0, <1>1, <1>2, Ends, OverIsQuiet
<1>3. ASSUME Withdraw(d) PROVE Quietly(d)
  BY <1>1, <1>3, WithdrawIsQuiet DEF Withdraw, OnEffect
<1> USE <1>0, <1>1 DEF OnEffect, Inside, Launchers, Steps, At
<1>4. CASE Invoke(d)
  <2>1. ASSUME Take(d, "invoke"), Quiet PROVE LockTypes' /\ guard' = guard
    BY <2>1, Locks DEF LockTypes, Keys
  <2> QED
    BY <1>2, <1>4, <2>1, GoIsQuiet DEF Invoke, TakeInvoke
<1>5. CASE Commit(d)
  BY <1>3, <1>5, GoIsQuiet DEF Commit, CountsOn, LockTypes
<1>6. CASE Grant(d)
  BY <1>2, <1>3, <1>6, GoIsQuiet DEF Grant, LockTypes
<1>7. CASE Finish(d)
  <2>1. job[d] \in Effects /\ recorded[job[d]] /\ row[job[d]] = "launching"
    BY <1>7 DEF CountsOn, TypeOK, Finish
  <2>2. Inspection(job[d]) # "absent"
    BY <2>1, InspectionTells
  <2> QED
    BY <1>7, <2>1, <2>2, ObservedIsQuiet DEF Finish
<1> QED
  BY <1>4, <1>5, <1>6, <1>7

(* The sweep never meets a row that contradicts the graph.                 *)
LEMMA InventoryIsQuiet ==
  ASSUME IInv, NEW d \in Drivers, NEW e \in Effects, Inventory(d, e)
  PROVE  Quietly(d)
<1>0. /\ TypeOK /\ Excludes(d) /\ CountsOn(d) /\ GraphInv /\ DriveTypes /\ LockTypes
  BY DriveTyped DEF IInv, DriveInv
<1> USE <1>0
<1>1. pc[d] = "sweep" /\ e \in todo[d] /\ StaysPut
  BY DEF Inventory, At, StaysPut
<1>2. \A x \in Stray : row[x] \in Settled
  BY DEF Stray, GraphInv, GraphMatchesLedger, Nonterminal, Phases, Settled
<1>3. e \in pending \/ row[e] # "absent"
  BY <1>1 DEF CountsOn, Sweeping
<1>4. CASE e \notin pending /\ row[e] = "delivered"
  <2>1. todo' = [todo EXCEPT ![d] = todo[d] \ {e}] /\ UNCHANGED <<job, seen, want, flags, pc, lease, guard>>
    BY <1>2, <1>3, <1>4 DEF Inventory, Quiet
  <2>2. Local(d) /\ Kept(d) /\ todo'[d] = todo[d] \ {e}
    BY <2>1 DEF Local, Same, Kept, DriveTypes, LockTypes
  <2> QED
    BY <1>1, <1>4, <2>1, <2>2 DEF Quietly, StaysPut, native, ledger, provider, world, Excludes, CountsOn,
       Inside, OnEffect, Launchers, Sweeping, Open, Nonterminal
<1>5. CASE ~(e \notin pending /\ row[e] = "delivered")
  <2> DEFINE x == IF e \in pending THEN "acquire" ELSE "missing"
  <2>1. /\ job' = [job EXCEPT ![d] = e] /\ pc' = [pc EXCEPT ![d] = x]
        /\ seen' = [seen EXCEPT ![d] = IF row[e] \in Nonterminal THEN row[e] ELSE "absent"]
        /\ UNCHANGED <<todo, want, flags, lease, guard>>
    BY <1>2, <1>3, <1>5 DEF Inventory, Goto, Quiet
  <2>2. Local(d) /\ Kept(d) /\ job'[d] = e /\ pc'[d] = x
    BY <2>1 DEF Local, Same, Kept, DriveTypes, LockTypes, Steps, Nonterminal, Phases
  <2>3. x = "acquire" => guard = d /\ "settle" \notin flags[d]
    BY <1>1 DEF Excludes, Sweeping
  <2> QED
    BY <1>1, <1>3, <2>1, <2>2, <2>3 DEF Quietly, StaysPut, native, ledger, provider, world, Excludes, CountsOn,
       Inside, OnEffect, Launchers, Sweeping, Open
<1> QED
  BY <1>4, <1>5

LEMMA SweepingIsQuiet ==
  ASSUME IInv, NEW d \in Drivers,
         Settle(d) \/ Snapshot(d) \/ Acquire(d) \/ OwnedBusy(d) \/ AwaitingDelivery(d) \/ Decide(d)
  PROVE  Quietly(d)
<1>0. /\ TypeOK /\ Excludes(d) /\ CountsOn(d) /\ GraphInv /\ DriveTypes /\ LockTypes
  BY DriveTyped DEF IInv, DriveInv
<1>1. StaysPut
  BY DEF Settle, Snapshot, Acquire, OwnedBusy, AwaitingDelivery, Decide, Unchanged4, StaysPut
<1> USE <1>0, <1>1
<1>2. ASSUME Rest(d), UNCHANGED lease PROVE Quietly(d)
  BY <1>2, Ends, OverIsQuiet
<1> USE DEF At
<1>3. CASE Settle(d)
  <2>1. /\ pc' = [pc EXCEPT ![d] = "sweep"] /\ pending = {} /\ todo' = [todo EXCEPT ![d] = Open]
        /\ flags' = [flags EXCEPT ![d] = {"settle"}] /\ UNCHANGED <<job, seen, want, guard, lease>>
    BY <1>3 DEF Settle, Goto, Open
  <2>2. /\ Local(d) /\ Kept(d) /\ pc'[d] = "sweep" /\ flags'[d] = {"settle"} /\ todo'[d] = Open
    BY <2>1 DEF Local, Same, Kept, DriveTypes, LockTypes, Steps, Open
  <2> QED
    BY <2>1, <2>2 DEF Quietly, StaysPut, native, ledger, provider, world, Excludes, CountsOn,
       Inside, OnEffect, Launchers, Sweeping, Open, Nonterminal
<1>4. CASE Snapshot(d)
  <2> DEFINE T == IF pending = {} THEN Open ELSE pending
             F == IF pending = {} THEN {"stop"} ELSE {}
  <2>1. /\ pc[d] = "snapshot" /\ pc' = [pc EXCEPT ![d] = "sweep"] /\ todo' = [todo EXCEPT ![d] = T]
        /\ flags' = [flags EXCEPT ![d] = F] /\ UNCHANGED <<job, seen, want, guard, lease>>
    BY <1>4 DEF Snapshot, Goto, Open
  <2>2. /\ Local(d) /\ Kept(d) /\ pc'[d] = "sweep" /\ flags'[d] = F /\ todo'[d] = T
    BY <2>1 DEF Local, Same, Kept, DriveTypes, LockTypes, Steps, Open, TypeOK
  <2> QED
    BY <2>1, <2>2 DEF Quietly, StaysPut, native, ledger, provider, world, Excludes, CountsOn,
       Inside, OnEffect, Launchers, Sweeping, Open, Nonterminal
<1>5. CASE Acquire(d)
  <2>1. CASE Busy(d)
    BY <1>5, <2>1, WithdrawIsQuiet DEF Acquire, Busy, Quiet, OnEffect
  <2>2. CASE ~Busy(d)
    <3> DEFINE x == IF pc[d] = "acquire" THEN "owned" ELSE "redeliver"
    <3>1. /\ pc[d] \in {"acquire", "missing"} /\ Goto(d, x) /\ UNCHANGED drive
          /\ Take(d, job[d]) /\ Quiet
      BY <1>5, <2>2 DEF Acquire
    <3>2. job[d] \in Keys
      BY <3>1 DEF CountsOn, OnEffect, Keys, TypeOK
    <3>3. LockTypes' /\ guard' = guard
      BY <3>1, <3>2, Locks DEF LockTypes
    <3>4. /\ Local(d) /\ pc'[d] = x
          /\ todo'[d] = todo[d] /\ job'[d] = job[d] /\ flags'[d] = flags[d]
      BY <3>1, Goes DEF Steps
    <3> QED
      BY <3>1, <3>3, <3>4 DEF Quietly, StaysPut, native, ledger, provider, world, Excludes, CountsOn,
         Inside, OnEffect, Launchers, Sweeping, Kept, Open
  <2> QED
    BY <2>1, <2>2
<1>6. CASE OwnedBusy(d)
  BY <1>6, WithdrawIsQuiet DEF OwnedBusy, Busy, Quiet, OnEffect
<1>7. CASE AwaitingDelivery(d)
  <2>1. PICK new \in {{"stop"}, {"deliver"}} : Report(d, new)
    BY <1>7 DEF AwaitingDelivery
  <2> QED
    BY <1>7, <2>1, WithdrawIsQuiet DEF AwaitingDelivery, OnEffect
<1>8. CASE Decide(d)
  <2>1. pc[d] = "sweep" /\ "settle" \notin flags[d] /\ guard = d
    BY <1>8 DEF Decide, Excludes, Sweeping
  <2>2. CASE Goto(d, "ready") /\ UNCHANGED <<drive, guard, lease>>
    BY <2>1, <2>2, Goes DEF Quietly, StaysPut, native, ledger, provider, world, Excludes, CountsOn,
       Inside, OnEffect, Launchers, Sweeping, Kept, LockTypes, Steps
  <2>3. CASE Forget(d) /\ Goto(d, "snapshot") /\ UNCHANGED <<guard, lease>>
    BY <2>1, <2>3, Forgets DEF Quietly, StaysPut, native, ledger, provider, world, Excludes, CountsOn,
       Inside, OnEffect, Launchers, Sweeping, Kept, LockTypes, Steps
  <2> QED
    BY <1>8, <1>2, <2>2, <2>3 DEF Decide, Again, Quiet
<1> QED
  BY <1>3, <1>4, <1>5, <1>6, <1>7, <1>8

LEMMA DeliveringIsQuiet ==
  ASSUME IInv, NEW d \in Drivers,
         Ready(d) \/ (\E e \in Effects : Lock(d, e)) \/ InvokeResume(d) \/ Delivered(d)
  PROVE  Quietly(d)
<1>0. /\ TypeOK /\ Excludes(d) /\ CountsOn(d) /\ GraphInv /\ DriveTypes /\ LockTypes
  BY DriveTyped DEF IInv, DriveInv
<1>1. StaysPut
  BY DEF Ready, Lock, InvokeResume, Delivered, StaysPut
<1> USE <1>0, <1>1
<1>2. ASSUME Rest(d), Drop(d, Keys) PROVE Quietly(d)
  BY <1>2, Ends, OverIsQuiet
<1> USE DEF At
<1>3. CASE Ready(d)
  <2> DEFINE T == {e \in Effects : Deliverable(e)}
             x == IF \E e \in Effects : Deliverable(e) THEN "lock" ELSE "mark"
  <2>1. /\ pc[d] = "ready" /\ pc' = [pc EXCEPT ![d] = x] /\ todo' = [todo EXCEPT ![d] = T]
        /\ UNCHANGED <<job, seen, want, flags, guard, lease>>
    BY <1>3 DEF Ready, Goto
  <2> HIDE DEF T
  <2>2. T \subseteq Effects /\ (x = "lock" => T # {}) /\ (x = "mark" => T = {})
        /\ \A e \in T : Deliverable(e)
    BY DEF T
  <2>3. /\ Local(d) /\ Kept(d) /\ pc'[d] = x /\ todo'[d] = T
    BY <2>1, <2>2 DEF Local, Same, Kept, DriveTypes, LockTypes, Steps
  <2> QED
    BY <2>1, <2>2, <2>3 DEF Quietly, StaysPut, native, ledger, provider, world, Excludes, CountsOn,
       Inside, OnEffect, Launchers, Sweeping, Deliverable
<1>4. ASSUME NEW e \in Effects, Lock(d, e) PROVE Quietly(d)
  <2>1. CASE Take(d, e) /\ UNCHANGED <<pc, drive, guard>>
    <3>1. LockTypes' /\ pc[d] = "lock" /\ Goto(d, "lock")
      BY <1>4, <2>1, Locks DEF Lock, Keys, LockTypes, Goto, DriveTypes
    <3> QED
      BY <2>1, <3>1, GoIsQuiet DEF Inside, Steps
  <2> QED
    BY <1>2, <1>4, <2>1 DEF Lock
<1>5. CASE InvokeResume(d)
  <2>1. CASE Fail(d)
    BY <2>1, Ends, OverIsQuiet
  <2>2. CASE ~Fail(d)
    <3>1. pc[d] = "lock" /\ Take(d, "invoke") /\ Goto(d, "resume") /\ UNCHANGED drive /\ Quiet
      BY <1>5, <2>2 DEF InvokeResume, TakeInvoke
    <3>2. LockTypes' /\ guard' = guard
      BY <3>1, Locks DEF LockTypes, Keys
    <3> QED
      BY <3>1, <3>2, GoIsQuiet DEF Inside, Steps
  <2> QED
    BY <2>1, <2>2
<1>6. CASE Delivered(d)
  <2>1. pc[d] = "mark" /\ Drop(d, Keys) /\ guard = d
    BY <1>6 DEF Delivered, Excludes, Inside
  <2>2. CASE Forget(d) /\ Goto(d, "snapshot") /\ Quiet
    BY <2>1, <2>2, Forgets, Locks DEF Quietly, StaysPut, native, ledger, provider, world, Excludes, CountsOn,
       Inside, OnEffect, Launchers, Sweeping, Kept, LockTypes, Steps
  <2> QED
    BY <1>2, <1>6, <2>1, <2>2 DEF Delivered, Again
<1> QED
  BY <1>3, <1>4, <1>5, <1>6

LEMMA PassingIsQuiet ==
  ASSUME IInv, NEW d \in Drivers,
         Drive(d) \/ LockTimeout(d) \/ Crash(d) \/ Restart(d) \/ Replace(d)
  PROVE  Quietly(d)
<1>0. /\ TypeOK /\ Excludes(d) /\ CountsOn(d) /\ DriveTypes /\ LockTypes
  BY DriveTyped DEF IInv, DriveInv
<1>1. StaysPut
  BY DEF Drive, LockTimeout, Crash, Restart, Replace, StaysPut
<1> USE <1>0, <1>1 DEF At
<1>2. CASE Drive(d)
  <2>1. /\ pc[d] = "idle" /\ guard = None /\ guard' = d /\ Goto(d, "snapshot") /\ UNCHANGED <<drive, lease>>
    BY <1>2 DEF Drive
  <2>2. Local(d) /\ pc'[d] = "snapshot" /\ flags'[d] = flags[d]
    BY <2>1, Goes DEF Steps
  <2>3. Kept(d)
    BY <2>1, DriversAssumption DEF Kept, LockTypes
  <2> QED
    BY <2>1, <2>2, <2>3 DEF Quietly, StaysPut, Excludes, CountsOn,
       Inside, OnEffect, Launchers, Sweeping
<1>3. CASE LockTimeout(d)
  BY <1>3, Ends, OverIsQuiet DEF LockTimeout
<1>4. CASE Crash(d)
  <2>1. lease' \in [Keys -> Drivers \cup {None, Ghost}]
    BY <1>4 DEF Crash, LockTypes
  <2>2. Over(d)
    BY <1>4, <2>1, Forgets, Locks DEF Crash, Over, Kept, LockTypes, Steps
  <2> QED
    BY <2>2, OverIsQuiet
<1>5. CASE Restart(d) \/ Replace(d)
  <2>1. /\ pc[d] \in {"dead", "down"} /\ Goto(d, "idle") /\ UNCHANGED <<drive, lease, guard>>
    BY <1>5 DEF Restart, Replace
  <2>2. Local(d) /\ pc'[d] = "idle" /\ flags'[d] = flags[d]
    BY <2>1, Goes DEF Steps
  <2> QED
    BY <2>1, <2>2 DEF Quietly, StaysPut, Excludes, CountsOn, Kept, LockTypes,
       Inside, OnEffect, Launchers, Sweeping
<1> QED
  BY <1>2, <1>3, <1>4, <1>5

-----------------------------------------------------------------------------
(* The steps that write: ledger, provider, graph and watch *)

WorldTypes ==
  /\ pending \subseteq Effects /\ future \subseteq Effects
  /\ applied \in [Effects -> Seq(Outcomes)]
  /\ row \in [Effects -> Phases] /\ outcome \in [Effects -> Outcomes \cup {None}]
  /\ attempt \in [Effects -> Attempts] /\ recorded \in [Effects -> BOOLEAN]
  /\ ended \in [Effects -> Outcomes \cup {None}] /\ spawns \in [Effects -> Nat]
  /\ late \in [Effects -> BOOLEAN] /\ granted \in BOOLEAN /\ watch \in BOOLEAN

BoundTypes == crashes \in 0 .. MaxCrashes /\ stalls \in 0 .. MaxStalls

LEMMA TypeParts == TypeOK <=> WorldTypes /\ LockTypes /\ DriveTypes /\ BoundTypes
BY DEF TypeOK, WorldTypes, LockTypes, DriveTypes, BoundTypes

(* While an effect is pending, whoever has the lock is alone.              *)
LEMMA Alone ==
  ASSUME IInv, NEW d \in Drivers, guard = d, pending # {}, NEW s \in Drivers \ {d}
  PROVE  pc[s] \notin Inside \cup Sweeping /\ "settle" \notin flags[s] /\ pc[s] # "broken"
<1>1. Excludes(s) /\ CountsOn(s)
  BY DEF IInv, DriveInv
<1> QED
  BY <1>1 DEF Excludes, CountsOn

LEMMA OutsideKeeps ==
  ASSUME NEW s \in Drivers, pc[s] \notin Inside \cup Sweeping, "settle" \notin flags[s],
         pc[s] # "broken", Same(s)
  PROVE  Excludes(s)' /\ CountsOn(s)'
BY DEF Same, Excludes, CountsOn, Inside, OnEffect, Launchers, Sweeping

LEMMA AloneKeeps ==
  ASSUME IInv, NEW d \in Drivers, guard = d, pending # {}, Local(d), Excludes(d)', CountsOn(d)'
  PROVE  DriveInv'
BY Alone, OutsideKeeps DEF DriveInv, Local

LEMMA QuietKeeps ==
  ASSUME IInv, NEW d \in Drivers, Quietly(d)
  PROVE  /\ WorldTypes' /\ LockTypes' /\ DriveTypes'
         /\ DriveInv' /\ GraphInv' /\ ProviderInv'
<1> USE DEF Quietly, StaysPut, native, ledger, provider, world
<1>1. WorldTypes'
  BY DEF IInv, TypeOK, WorldTypes
<1>2. LockTypes' /\ DriveTypes'
  BY DEF Local, Kept
<1>3. GraphInv' /\ ProviderInv'
  BY DEF IInv, GraphInv, GraphMatchesLedger, ProviderInv, SealedIsQuiescent, Open
<1>4. ASSUME NEW s \in Drivers \ {d} PROVE Excludes(s)' /\ CountsOn(s)'
  <2>1. Same(s) /\ (guard = s => guard' = s) /\ Excludes(s) /\ CountsOn(s)
    BY DEF Local, Kept, IInv, DriveInv
  <2> QED
    BY <2>1 DEF Same, Excludes, CountsOn, MakesSense, Deliverable, Open
<1> QED
  BY <1>1, <1>2, <1>3, <1>4 DEF DriveInv

(* A row the graph has an answer to may be closed at any time.             *)
LEMMA ClosingKeeps ==
  ASSUME IInv, NEW e \in Effects, applied[e] # <<>>, row' = [row EXCEPT ![e] = "delivered"],
         UNCHANGED <<native, outcome, provider, world>>
  PROVE  WorldTypes' /\ GraphInv' /\ ProviderInv'
<1> USE DEF native, provider, world
<1>0. row \in [Effects -> Phases]
  BY DEF IInv, TypeOK
<1>1. WorldTypes'
  BY DEF IInv, TypeOK, WorldTypes, Phases
<1>2. GraphInv'
  BY <1>0 DEF IInv, GraphInv, GraphMatchesLedger, Open, Nonterminal
<1>3. ProviderInv'
  BY <1>0 DEF IInv, ProviderInv, SealedIsQuiescent
<1> QED
  BY <1>1, <1>2, <1>3

LEMMA RedeliverKeeps ==
  ASSUME IInv, NEW d \in Drivers, Redeliver(d)
  PROVE  WorldTypes' /\ LockTypes' /\ DriveTypes' /\ DriveInv' /\ GraphInv' /\ ProviderInv'
<1>0. /\ TypeOK /\ Excludes(d) /\ CountsOn(d) /\ GraphInv /\ row \in [Effects -> Phases]
  BY DEF IInv, DriveInv, TypeOK
<1> USE <1>0
<1>1. CASE Fail(d) /\ UNCHANGED row
  <2>1. StaysPut
    BY <1>1 DEF Redeliver, StaysPut, ledger
  <2> QED
    BY <1>1, <2>1, Ends, OverIsQuiet, QuietKeeps
<1>2. CASE ~(Fail(d) /\ UNCHANGED row)
  <2> DEFINE e == job[d]
  <2>1. /\ pc[d] = "redeliver" /\ row' = [row EXCEPT ![e] = "delivered"]
        /\ Report(d, {}) /\ Drop(d, {job[d]}) /\ Quiet
        /\ UNCHANGED <<native, outcome, provider, world>>
    BY <1>2 DEF Redeliver, At
  <2>2. e \in Effects \ pending /\ row[e] # "absent"
    BY <2>1 DEF CountsOn
  <2>3. applied[e] # <<>>
    BY <2>2 DEF GraphInv
  <2>4. WorldTypes' /\ GraphInv' /\ ProviderInv'
    BY <2>1, <2>2, <2>3, ClosingKeeps
  <2>5. /\ Local(d) /\ Kept(d) /\ pc'[d] = "sweep" /\ guard' = guard
        /\ todo'[d] = todo[d] \ {e} /\ flags'[d] = flags[d]
    <3>1. /\ Local(d) /\ Kept(d) /\ pc'[d] = "sweep" /\ guard' = guard
          /\ todo'[d] = todo[d] \ {e} /\ flags'[d] = flags[d] \cup {}
      BY <2>1, Withdraws
    <3>2. flags[d] \cup {} = flags[d]
      OBVIOUS
    <3> QED
      BY <3>1, <3>2
  <2>6. \A x \in Effects : x # e => row'[x] = row[x]
    BY <2>1
  <2>7. row'[e] = "delivered" /\ Open' \subseteq Open \ {e}
    BY <2>1, <2>2 DEF Open, Nonterminal
  <2>8. Excludes(d)' /\ CountsOn(d)'
    BY <2>1, <2>5, <2>6, <2>7 DEF native, Excludes, CountsOn, Inside, OnEffect, Launchers, Sweeping
  <2>9. ASSUME NEW s \in Drivers \ {d} PROVE Excludes(s)' /\ CountsOn(s)'
    <3>1. Same(s) /\ (guard = s => guard' = s) /\ Excludes(s) /\ CountsOn(s)
      BY <2>5 DEF Local, Kept, IInv, DriveInv
    <3>2. Excludes(s)'
      BY <2>1, <2>7, <3>1 DEF native, Same, Excludes
    <3>3. \A x \in Effects : row[x] # "absent" => row'[x] # "absent"
      BY <2>6, <2>7
    <3>4. pc[s] \in OnEffect => job[s] \in Effects /\ job[s] # e
      BY <2>2, <3>1 DEF CountsOn, TypeOK
    <3>5. \A x \in Effects : Deliverable(x) => Deliverable(x)'
      BY <2>1, <2>2, <2>6 DEF Deliverable, native
    <3>6. pc[s] \in OnEffect => row'[job[s]] = row[job[s]]
      BY <2>6, <3>4
    <3>7. todo[s] \subseteq Effects
      BY DEF TypeOK
    <3>8. CountsOn(s)'
      BY <2>1, <3>1, <3>3, <3>5, <3>6, <3>7
      DEF native, provider, world, Same, CountsOn, MakesSense, OnEffect, Launchers
    <3> QED
      BY <3>2, <3>8
  <2> QED
    BY <2>4, <2>5, <2>8, <2>9 DEF DriveInv, Local, Kept
<1> QED
  BY <1>1, <1>2

LEMMA MarkKeeps ==
  ASSUME IInv, NEW d \in Drivers, NEW e \in Effects, Mark(d, e)
  PROVE  WorldTypes' /\ LockTypes' /\ DriveTypes' /\ DriveInv' /\ GraphInv' /\ ProviderInv'
<1>0. /\ TypeOK /\ Excludes(d) /\ CountsOn(d) /\ GraphInv /\ row \in [Effects -> Phases]
      /\ DriveTypes /\ LockTypes
  BY DriveTyped DEF IInv, DriveInv, TypeOK
<1> USE <1>0
<1>1. CASE Fail(d) /\ UNCHANGED row
  <2>1. StaysPut
    BY <1>1 DEF Mark, StaysPut, ledger
  <2> QED
    BY <1>1, <2>1, Ends, OverIsQuiet, QuietKeeps
<1>2. CASE ~(Fail(d) /\ UNCHANGED row)
  <2>1. /\ pc[d] = "mark" /\ row' = [row EXCEPT ![e] = "delivered"] /\ e \in todo[d]
        /\ todo' = [todo EXCEPT ![d] = todo[d] \ {e}]
        /\ UNCHANGED <<job, seen, want, flags, pc, lease, guard, native, outcome, provider, world>>
    BY <1>2 DEF Mark, At
  <2>2. applied[e] # <<>>
    BY <2>1 DEF CountsOn
  <2>3. WorldTypes' /\ GraphInv' /\ ProviderInv'
    BY <2>1, <2>2, ClosingKeeps
  <2>4. Local(d) /\ Kept(d) /\ todo'[d] = todo[d] \ {e}
    BY <2>1 DEF Local, Same, Kept, DriveTypes, LockTypes
  <2>5. /\ \A x \in Effects : row'[x] = row[x] \/ row'[x] = "delivered"
        /\ Open' \subseteq Open
    BY <2>1 DEF Open, Nonterminal
  <2>6. Excludes(d)' /\ CountsOn(d)'
    BY <2>1, <2>4 DEF native, Excludes, CountsOn, Inside, OnEffect, Launchers, Sweeping
  <2>7. ASSUME NEW s \in Drivers \ {d} PROVE Excludes(s)' /\ CountsOn(s)'
    <3>1. Same(s) /\ Excludes(s) /\ CountsOn(s) /\ guard = d
      BY <2>1, <2>4 DEF Local, IInv, DriveInv, Excludes, Inside
    <3>2. pc[s] \notin Inside
      BY <3>1 DEF Excludes
    <3>3. todo[s] \subseteq Effects
      BY DEF TypeOK
    <3> QED
      BY <2>1, <2>5, <3>1, <3>2, <3>3 DEF native, Same, Excludes, CountsOn, Inside, OnEffect, Launchers
  <2> QED
    BY <2>3, <2>4, <2>6, <2>7 DEF DriveInv, Local, Kept
<1> QED
  BY <1>1, <1>2

LEMMA WriteKeeps ==
  ASSUME IInv, NEW d \in Drivers, Write(d)
  PROVE  WorldTypes' /\ LockTypes' /\ DriveTypes' /\ DriveInv' /\ GraphInv' /\ ProviderInv'
<1>0. /\ TypeOK /\ Excludes(d) /\ CountsOn(d) /\ GraphInv /\ ProviderInv
      /\ row \in [Effects -> Phases] /\ outcome \in [Effects -> Outcomes \cup {None}]
  BY DEF IInv, DriveInv, TypeOK
<1> USE <1>0
<1>1. pc[d] = "write" /\ guard = d /\ job[d] \in pending /\ job[d] \in Effects
      /\ MakesSense(job[d], want[d])
  BY DEF Write, At, Excludes, CountsOn, Inside, OnEffect, TypeOK
<1>2. CASE ~Fenced(d, job[d])
  <2>1. StaysPut
    BY <1>2 DEF Write, StaysPut
  <2>2. CASE Fail(d)
    BY <2>1, <2>2, Ends, OverIsQuiet, QuietKeeps
  <2>3. CASE Busy(d)
    BY <1>1, <2>1, <2>3, WithdrawIsQuiet, QuietKeeps DEF Busy, Quiet, OnEffect
  <2> QED
    BY <1>2, <2>2, <2>3 DEF Write
<1>3. CASE Fenced(d, job[d])
  <2> DEFINE e == job[d]  w == want[d]
             new == IF w.phase \in {"running", "indeterminate"} THEN {"stop"} ELSE {}
  <2>1. /\ row' = [row EXCEPT ![e] = w.phase] /\ outcome' = [outcome EXCEPT ![e] = w.outcome]
        /\ Report(d, new) /\ Drop(d, {job[d]}) /\ Quiet
        /\ UNCHANGED <<native, provider, world>>
    BY <1>3 DEF Write
  <2>2. w \in [phase : Phases, outcome : Outcomes \cup {None}]
    BY DEF TypeOK
  <2>3. /\ Local(d) /\ Kept(d) /\ pc'[d] = "sweep" /\ guard' = guard
        /\ todo'[d] = todo[d] \ {e} /\ flags'[d] = flags[d] \cup new
    BY <2>1, Withdraws
  <2>4. /\ row'[e] = w.phase /\ outcome'[e] = w.outcome
        /\ \A x \in Effects : x # e => row'[x] = row[x] /\ outcome'[x] = outcome[x]
    BY <1>1, <2>1
  <2>5. WorldTypes'
    <3>1. row' \in [Effects -> Phases] /\ outcome' \in [Effects -> Outcomes \cup {None}]
      BY <2>1, <2>2
    <3> QED
      BY <2>1, <3>1 DEF TypeOK, WorldTypes, native, provider, world
  <2>6. applied[e] = <<>> /\ e \notin future
    BY <1>1 DEF GraphInv
  <2>7. w.phase \in Settled \cup {"delivered"} <=> w.outcome # None
    BY <1>1 DEF MakesSense, Settled, None
  <2>8. w.phase \notin {"absent", "delivered"}
    BY <1>1 DEF MakesSense
  <2>9. GraphInv'
    <3>1. watch /\ native' = native /\ world' = world
      BY <1>1, <2>1 DEF GraphInv
    <3>2. \A x \in Effects : row'[x] \in Settled \cup {"delivered"} <=> outcome'[x] # None
      BY <2>4, <2>7 DEF GraphInv
    <3>3. GraphMatchesLedger'
      BY <2>4, <2>6, <2>8, <3>1 DEF native, GraphInv, GraphMatchesLedger
    <3> QED
      BY <2>4, <2>6, <3>1, <3>2, <3>3 DEF native, world, GraphInv, TypeOK
  <2>10. ProviderInv'
    BY <1>1, <2>1, <2>4 DEF provider, ProviderInv, SealedIsQuiescent, MakesSense
  <2>11. Excludes(d)' /\ CountsOn(d)'
    BY <1>1, <2>1, <2>3, <2>4, <2>8 DEF native, Excludes, CountsOn, Inside, OnEffect, Launchers, Sweeping
  <2>12. DriveInv'
    BY <1>1, <2>3, <2>11, AloneKeeps
  <2> QED
    BY <2>3, <2>5, <2>9, <2>10, <2>12 DEF Local, Kept
<1> QED
  BY <1>2, <1>3

LEMMA PreparedKeeps ==
  ASSUME IInv, NEW d \in Drivers, NEW e \in Effects, Prepared(d, e)
  PROVE  WorldTypes' /\ LockTypes' /\ DriveTypes' /\ DriveInv' /\ GraphInv' /\ ProviderInv'
<1>0. /\ TypeOK /\ Excludes(d) /\ CountsOn(d) /\ GraphInv /\ ProviderInv
      /\ attempt \in [Effects -> Attempts]
  BY DEF IInv, DriveInv, TypeOK
<1> USE <1>0
<1>1. /\ pc[d] = "owned" /\ guard = d /\ job[d] = e /\ e \in pending /\ row[e] = "prepared"
      /\ UNCHANGED <<native, ledger, world, recorded, ended, spawns>>
  BY DEF Prepared, Owned, At, Unchanged4, Excludes, CountsOn, Inside, OnEffect
<1>2. attempt[e] \in {None, "prepared"}
  BY <1>1 DEF ProviderInv
<1>3. CASE UNCHANGED attempt
  <2>1. StaysPut
    BY <1>1, <1>3 DEF StaysPut, provider
  <2>2. CASE Fail(d)
    BY <2>1, <2>2, Ends, OverIsQuiet, QuietKeeps
  <2>3. \A o \in {"deadline_timeout", "ERROR"} :
          MakesSense(e, [phase |-> "sealed", outcome |-> o])
    BY <1>1, <1>2 DEF MakesSense, None
  <2>4. ASSUME NEW o \in {"deadline_timeout", "ERROR"}, Want(d, "sealed", o), Keep(d)
        PROVE  Quietly(d)
    BY <1>1, <2>1, <2>3, <2>4, WantIsQuiet DEF Keep, OnEffect, Phases, Outcomes
  <2>5. MakesSense(e, [phase |-> "launching", outcome |-> None])
    BY <1>1 DEF MakesSense
  <2>6. ASSUME Want(d, "launching", None), Keep(d) PROVE Quietly(d)
    BY <1>1, <2>1, <2>5, <2>6, WantIsQuiet DEF Keep, OnEffect, Phases, Outcomes
  <2> QED
    BY <2>2, <2>4, <2>6, QuietKeeps DEF Prepared
<1>4. CASE attempt' # attempt
  <2>1. /\ attempt' = [attempt EXCEPT ![e] = "prepared"]
        /\ Want(d, "launching", None) /\ UNCHANGED lease /\ Quiet
    BY <1>2, <1>4 DEF Prepared, Keep
  <2>2. /\ Local(d) /\ pc'[d] = "write" /\ want'[d] = [phase |-> "launching", outcome |-> None]
        /\ todo'[d] = todo[d] /\ job'[d] = job[d] /\ flags'[d] = flags[d]
    BY <1>1, <2>1, DriveTyped, Wants DEF Phases
  <2>3. Kept(d) /\ guard' = guard
    BY <2>1, DriveTyped, Locks DEF Kept, LockTypes
  <2>4. /\ attempt'[e] = "prepared" /\ attempt' \in [Effects -> Attempts]
        /\ \A x \in Effects : x # e => attempt'[x] = attempt[x]
    BY <2>1 DEF Attempts
  <2>5. WorldTypes'
    BY <1>1, <2>4 DEF TypeOK, WorldTypes, native, ledger, world
  <2>6. GraphInv'
    BY <1>1 DEF GraphInv, GraphMatchesLedger, Open, native, ledger, world
  <2>7. ProviderInv'
    BY <1>1, <1>2, <2>4 DEF ProviderInv, SealedIsQuiescent, ledger
  <2>8. MakesSense(job[d], want[d])'
    BY <1>1, <2>2 DEF MakesSense, ledger
  <2>9. Excludes(d)' /\ CountsOn(d)'
    BY <1>1, <2>2, <2>3, <2>8 DEF Excludes, CountsOn, native, ledger, Inside, OnEffect, Launchers, Sweeping
  <2>10. DriveInv'
    BY <1>1, <2>2, <2>9, AloneKeeps
  <2> QED
    BY <2>2, <2>3, <2>5, <2>6, <2>7, <2>10 DEF Local, Kept
<1> QED
  BY <1>3, <1>4

LEMMA StartKeeps ==
  ASSUME IInv, NEW d \in Drivers, NEW e \in Effects, Start(d, e)
  PROVE  WorldTypes' /\ LockTypes' /\ DriveTypes' /\ DriveInv' /\ GraphInv' /\ ProviderInv'
<1>0. /\ TypeOK /\ Excludes(d) /\ CountsOn(d) /\ GraphInv /\ ProviderInv
      /\ attempt \in [Effects -> Attempts] /\ spawns \in [Effects -> Nat]
  BY DEF IInv, DriveInv, TypeOK
<1> USE <1>0
<1>1. /\ pc[d] = "start" /\ guard = d /\ job[d] = e /\ e \in pending /\ row[e] = "launching"
      /\ UNCHANGED <<native, ledger, world>>
  BY DEF Start, At, Unchanged4, Excludes, CountsOn, Inside, OnEffect, Launchers
<1>2. CASE UNCHANGED provider
  <2>1. StaysPut
    BY <1>1, <1>2 DEF StaysPut
  <2>2. CASE Fail(d)
    BY <2>1, <2>2, Ends, OverIsQuiet, QuietKeeps
  <2>3. CASE ~Fail(d)
    <3>1. \/ attempt[e] = "running" /\ Goto(d, "record") /\ UNCHANGED <<drive, lease, guard>>
          \/ recorded[e] /\ Goto(d, "finish") /\ UNCHANGED <<drive, lease, guard>>
      BY <1>2, <2>3 DEF Start, provider
    <3>2. LockTypes'
      BY <3>1, DriveTyped DEF LockTypes
    <3>3. Quietly(d)
      BY <1>1, <2>1, <3>1, <3>2, GoIsQuiet DEF Inside, OnEffect, Launchers, Steps, None
    <3> QED
      BY <3>3, QuietKeeps
  <2> QED
    BY <2>2, <2>3
<1>3. CASE ~UNCHANGED provider
  <2>1. /\ attempt[e] = "prepared" /\ attempt' = [attempt EXCEPT ![e] = "running"]
        /\ spawns' = [spawns EXCEPT ![e] = spawns[e] + 1] /\ UNCHANGED <<recorded, ended>>
        /\ Goto(d, "record") /\ UNCHANGED <<drive, lease, guard>>
    BY <1>3 DEF Start
  <2>2. spawns[e] = 0 /\ ~recorded[e]
    BY <2>1 DEF ProviderInv
  <2>3. /\ attempt'[e] = "running" /\ spawns'[e] = 1
        /\ attempt' \in [Effects -> Attempts] /\ spawns' \in [Effects -> Nat]
        /\ \A x \in Effects : x # e => attempt'[x] = attempt[x] /\ spawns'[x] = spawns[x]
    BY <2>1, <2>2 DEF Attempts
  <2>4. /\ Local(d) /\ pc'[d] = "record"
        /\ todo'[d] = todo[d] /\ job'[d] = job[d] /\ flags'[d] = flags[d]
    BY <2>1, DriveTyped, Goes DEF Steps
  <2>5. Kept(d)
    BY <2>1, DriveTyped DEF Kept, LockTypes
  <2>6. WorldTypes'
    BY <1>1, <2>1, <2>3 DEF TypeOK, WorldTypes, native, ledger, world
  <2>7. GraphInv'
    BY <1>1 DEF GraphInv, GraphMatchesLedger, Open, native, ledger, world
  <2>8. ProviderInv'
    BY <1>1, <2>1, <2>2, <2>3 DEF ProviderInv, SealedIsQuiescent, ledger, None
  <2>9. Excludes(d)' /\ CountsOn(d)'
    BY <1>1, <2>1, <2>3, <2>4 DEF Excludes, CountsOn, native, ledger, world, Inside, OnEffect, Launchers,
       Sweeping, None
  <2>10. DriveInv'
    BY <1>1, <2>4, <2>9, AloneKeeps
  <2> QED
    BY <2>4, <2>5, <2>6, <2>7, <2>8, <2>10 DEF Local, Kept
<1> QED
  BY <1>2, <1>3

LEMMA RecordKeeps ==
  ASSUME IInv, NEW d \in Drivers, Record(d)
  PROVE  WorldTypes' /\ LockTypes' /\ DriveTypes' /\ DriveInv' /\ GraphInv' /\ ProviderInv'
<1>0. /\ TypeOK /\ Excludes(d) /\ CountsOn(d) /\ GraphInv /\ ProviderInv
      /\ recorded \in [Effects -> BOOLEAN]
  BY DEF IInv, DriveInv, TypeOK
<1> USE <1>0
<1> DEFINE e == job[d]
<1>1. /\ pc[d] = "record" /\ guard = d /\ e \in pending /\ row[e] = "launching" /\ e \in Effects
      /\ attempt[e] \notin {None, "prepared"}
      /\ UNCHANGED <<native, ledger, world, attempt, ended, spawns>>
  BY DEF Record, At, Unchanged4, Excludes, CountsOn, Inside, OnEffect, Launchers, TypeOK
<1>2. /\ recorded' = [recorded EXCEPT ![e] = TRUE]
      /\ Goto(d, "finish") /\ UNCHANGED <<drive, lease, guard>>
  BY DEF Record
<1>3. /\ recorded'[e] /\ recorded' \in [Effects -> BOOLEAN]
      /\ \A x \in Effects : x # e => recorded'[x] = recorded[x]
  BY <1>1, <1>2
<1>4. /\ Local(d) /\ pc'[d] = "finish"
      /\ todo'[d] = todo[d] /\ job'[d] = job[d] /\ flags'[d] = flags[d]
  BY <1>2, DriveTyped, Goes DEF Steps
<1>5. Kept(d)
  BY <1>2, DriveTyped DEF Kept, LockTypes
<1>6. WorldTypes'
  BY <1>1, <1>3 DEF TypeOK, WorldTypes, native, ledger, world
<1>7. GraphInv'
  BY <1>1 DEF GraphInv, GraphMatchesLedger, Open, native, ledger, world
<1>8. ProviderInv'
  BY <1>1, <1>3 DEF ProviderInv, SealedIsQuiescent, ledger
<1>9. Excludes(d)' /\ CountsOn(d)'
  BY <1>1, <1>2, <1>3, <1>4 DEF Excludes, CountsOn, native, ledger, Inside, OnEffect, Launchers, Sweeping
<1>10. DriveInv'
  BY <1>1, <1>4, <1>9, AloneKeeps
<1> QED
  BY <1>4, <1>5, <1>6, <1>7, <1>8, <1>10 DEF Local, Kept

LEMMA SettleDoneKeeps ==
  ASSUME IInv, NEW d \in Drivers, SettleDone(d)
  PROVE  WorldTypes' /\ LockTypes' /\ DriveTypes' /\ DriveInv' /\ GraphInv' /\ ProviderInv'
<1>0. TypeOK /\ Excludes(d) /\ GraphInv /\ ProviderInv
  BY DEF IInv, DriveInv
<1> USE <1>0
<1>1. /\ todo[d] = {} /\ "settle" \in flags[d] /\ Rest(d) /\ watch' = (watch /\ "stop" \in flags[d])
      /\ UNCHANGED <<native, ledger, provider, late, granted, lease>>
  BY DEF SettleDone
<1>2. Over(d)
  BY <1>1, Ends
<1>3. WorldTypes'
  BY <1>1 DEF TypeOK, WorldTypes, native, ledger, provider
<1>4. GraphInv'
  <2>1. pending = {} /\ ("stop" \in flags[d] \/ Open = {})
    BY <1>1 DEF Excludes
  <2> QED
    BY <1>1, <2>1 DEF GraphInv, GraphMatchesLedger, Open, native, ledger
<1>5. ProviderInv'
  BY <1>1 DEF ProviderInv, SealedIsQuiescent, ledger, provider
<1>6. Excludes(d)' /\ CountsOn(d)'
  BY <1>2 DEF Over, Excludes, CountsOn, Inside, OnEffect, Launchers, Sweeping
<1>7. ASSUME NEW s \in Drivers \ {d} PROVE Excludes(s)' /\ CountsOn(s)'
  <2>1. Same(s) /\ (guard = s => guard' = s) /\ Excludes(s) /\ CountsOn(s)
    BY <1>2 DEF Over, Local, Kept, IInv, DriveInv
  <2> QED
    BY <1>1, <2>1 DEF Same, Excludes, CountsOn, MakesSense, Deliverable, Open, native, ledger, provider
<1> QED
  BY <1>2, <1>3, <1>4, <1>5, <1>6, <1>7 DEF DriveInv, Over, Local, Kept

LEMMA FirstResult == ASSUME NEW o \in Outcomes PROVE Append(<<>>, o) = <<o>> /\ <<o>> # <<>>
OBVIOUS

(* The graph takes results only for effects it waits for, so a drive that  *)
(* may take its place finds nothing it does not expect.                    *)
LEMMA ResumeCommits ==
  ASSUME IInv, NEW d \in Drivers, Resume(d)
  PROVE  /\ pc[d] = "resume" /\ guard = d /\ todo[d] # {} /\ todo[d] \subseteq pending
         /\ \A e \in todo[d] : row[e] \in Settled /\ applied[e] = <<>> /\ outcome[e] \in Outcomes
         /\ \E asked \in SUBSET future :
              /\ pending' = (pending \ todo[d]) \cup asked /\ future' = future \ asked
         /\ \A e \in Effects : applied'[e] = IF e \in todo[d] THEN <<outcome[e]>> ELSE applied[e]
         /\ applied' \in [Effects -> Seq(Outcomes)]
         /\ UNCHANGED <<ledger, provider, world>>
<1>0. /\ TypeOK /\ Excludes(d) /\ CountsOn(d) /\ GraphInv /\ todo[d] \subseteq Effects
      /\ applied \in [Effects -> Seq(Outcomes)] /\ outcome \in [Effects -> Outcomes \cup {None}]
  BY DEF IInv, DriveInv, TypeOK
<1> USE <1>0
<1>1. pc[d] = "resume" /\ guard = d
  BY DEF Resume, At, Excludes, Inside
<1>2. todo[d] # {} /\ \A e \in todo[d] : e \in pending /\ row[e] \in Settled
  BY <1>1 DEF CountsOn, Deliverable
<1>3. \A e \in todo[d] : applied[e] = <<>> /\ outcome[e] \in Outcomes
  BY <1>2 DEF GraphInv
<1>4. /\ \E asked \in SUBSET future :
           /\ pending' = (pending \ todo[d]) \cup asked /\ future' = future \ asked
      /\ applied' = Given(todo[d])
      /\ UNCHANGED <<ledger, provider, world>>
  BY <1>2 DEF Resume
<1>5. \A e \in todo[d] : Append(applied[e], outcome[e]) = <<outcome[e]>>
  BY <1>3, FirstResult
<1>6. \A e \in Effects : applied'[e] = IF e \in todo[d] THEN <<outcome[e]>> ELSE applied[e]
  BY <1>4, <1>5 DEF Given
<1>7. \A e \in todo[d] : <<outcome[e]>> \in Seq(Outcomes)
  BY <1>3
<1>8. applied' \in [Effects -> Seq(Outcomes)]
  BY <1>4, <1>5, <1>6, <1>7 DEF Given
<1> QED
  BY <1>1, <1>2, <1>3, <1>4, <1>6, <1>8

LEMMA ResumingKeeps ==
  ASSUME IInv, NEW d \in Drivers, Resume(d)
  PROVE  WorldTypes' /\ LockTypes' /\ DriveTypes' /\ DriveInv' /\ GraphInv' /\ ProviderInv'
<1>0. /\ TypeOK /\ Excludes(d) /\ CountsOn(d) /\ GraphInv /\ ProviderInv /\ DriveTypes /\ LockTypes
  BY DriveTyped DEF IInv, DriveInv
<1> USE <1>0
<1>1. /\ pc[d] = "resume" /\ guard = d /\ todo[d] # {} /\ todo[d] \subseteq pending
      /\ \A e \in todo[d] : row[e] \in Settled /\ applied[e] = <<>> /\ outcome[e] \in Outcomes
      /\ \A e \in Effects : applied'[e] = IF e \in todo[d] THEN <<outcome[e]>> ELSE applied[e]
      /\ applied' \in [Effects -> Seq(Outcomes)]
      /\ UNCHANGED <<ledger, provider, world>>
  BY ResumeCommits
<1>2. PICK asked \in SUBSET future :
        pending' = (pending \ todo[d]) \cup asked /\ future' = future \ asked
  BY ResumeCommits
<1>3. /\ flags' = [flags EXCEPT ![d] = flags[d] \cup (IF todo[d] # pending THEN {"stop"} ELSE {})]
      /\ Drop(d, {"invoke"}) /\ Quiet /\ pc' = [pc EXCEPT ![d] = "mark"]
      /\ UNCHANGED <<todo, job, seen, want>>
  BY <1>1 DEF Resume, Goto
<1>4. Local(d) /\ pc'[d] = "mark" /\ "settle" \notin flags'[d] /\ todo'[d] = todo[d]
  BY <1>1, <1>3 DEF Local, Same, DriveTypes, Steps, Excludes, Sweeping
<1>5. Kept(d) /\ guard' = guard
  BY <1>3, Locks DEF Kept, LockTypes
<1>6. WorldTypes'
  BY <1>1, <1>2 DEF TypeOK, WorldTypes, ledger, provider, world
<1>7. ProviderInv'
  BY <1>1 DEF ProviderInv, SealedIsQuiescent, ledger, provider
<1>8. GraphInv'
  <2>1. watch' = watch /\ watch
    BY <1>1 DEF GraphInv, world
  <2>2. pending' \cap future' = {}
    BY <1>2 DEF GraphInv
  <2>3. ASSUME NEW e \in Effects
        PROVE  /\ e \in pending' \cup future' <=> applied'[e] = <<>>
               /\ applied'[e] # <<>> => applied'[e] = <<outcome[e]>> /\ row[e] \in Settled \cup {"delivered"}
               /\ row[e] = "delivered" => applied'[e] # <<>>
    <3>1. CASE e \in todo[d]
      <4>1. applied'[e] = <<outcome[e]>> /\ row[e] \in Settled /\ e \notin future
        BY <1>1, <3>1 DEF GraphInv
      <4> QED
        BY <1>2, <3>1, <4>1
    <3>2. CASE e \notin todo[d]
      <4>1. applied'[e] = applied[e]
        BY <1>1, <3>2
      <4>2. e \in pending' \cup future' <=> e \in pending \cup future
        BY <1>2, <3>2
      <4> QED
        BY <4>1, <4>2 DEF GraphInv, GraphMatchesLedger
    <3> QED
      BY <3>1, <3>2
  <2>4. \A e \in future' : row[e] = "absent"
    BY <1>2 DEF GraphInv
  <2> QED
    BY <1>1, <2>1, <2>2, <2>3, <2>4 DEF GraphInv, GraphMatchesLedger, ledger
<1>9. Excludes(d)' /\ CountsOn(d)'
  <2>1. \A e \in todo'[d] : applied'[e] # <<>>
    BY <1>1, <1>4, FirstResult DEF TypeOK
  <2> QED
    BY <1>1, <1>4, <1>5, <2>1 DEF Excludes, CountsOn, Inside, OnEffect, Launchers, Sweeping
<1>10. DriveInv'
  <2>1. pending # {}
    BY <1>1
  <2> QED
    BY <1>1, <1>4, <1>9, <2>1, AloneKeeps
<1> QED
  BY <1>4, <1>5, <1>6, <1>7, <1>8, <1>10 DEF Local, Kept

-----------------------------------------------------------------------------
(* The world *)

LEMMA WorldKeeps ==
  ASSUME IInv,
         \/ \E e \in Effects : WorkerEnds(e) \/ DeadlineKill(e) \/ SupervisorLost(e) \/ Deadline(e)
         \/ \E k \in Keys : ExpireGhost(k) \/ Stall(k)
         \/ Revoke
         \/ UNCHANGED vars
  PROVE  WorldTypes' /\ LockTypes' /\ DriveTypes' /\ DriveInv' /\ GraphInv' /\ ProviderInv'
<1>0. /\ TypeOK /\ DriveTypes /\ LockTypes /\ DriveInv /\ GraphInv /\ ProviderInv /\ WorldTypes
  BY TypeParts DEF IInv
<1> USE <1>0
<1>1. UNCHANGED <<native, ledger, guard, pc, drive, watch, recorded, spawns>>
  BY DEF WorkerEnds, DeadlineKill, End, SupervisorLost, Deadline, ExpireGhost, Stall, Revoke, WorldStep,
     vars, world, provider
<1>2. DriveTypes'
  BY <1>1 DEF DriveTypes, drive
<1>3. LockTypes'
  BY <1>1 DEF WorkerEnds, DeadlineKill, End, SupervisorLost, Deadline, ExpireGhost, Stall, Revoke, vars,
     LockTypes
<1>4. \/ UNCHANGED <<attempt, ended>>
      \/ \E e \in Effects :
           /\ attempt[e] = "running" /\ attempt' = [attempt EXCEPT ![e] = "terminal"]
           /\ \E how \in {"PASS", "ERROR", "deadline_timeout"} : ended' = [ended EXCEPT ![e] = how]
      \/ \E e \in Effects :
           /\ attempt[e] = "running" /\ attempt' = [attempt EXCEPT ![e] = "lost"] /\ UNCHANGED ended
  BY DEF WorkerEnds, DeadlineKill, End, SupervisorLost, Deadline, ExpireGhost, Stall, Revoke, vars,
     provider
<1>5. /\ late' \in [Effects -> BOOLEAN] /\ granted' \in BOOLEAN
      /\ granted /\ ~granted' => \A d \in Drivers : pc[d] \notin {"start", "record"}
  BY DEF WorkerEnds, DeadlineKill, End, SupervisorLost, Deadline, ExpireGhost, Stall, Revoke, vars,
     world, WorldTypes
<1>6. /\ attempt' \in [Effects -> Attempts] /\ ended' \in [Effects -> Outcomes \cup {None}]
      /\ \A e \in Effects :
           \/ attempt'[e] = attempt[e] /\ ended'[e] = ended[e]
           \/ attempt[e] = "running" /\ attempt'[e] = "terminal" /\ ended'[e] # None
           \/ attempt[e] = "running" /\ attempt'[e] = "lost"
  <2>0. attempt \in [Effects -> Attempts] /\ ended \in [Effects -> Outcomes \cup {None}]
    BY DEF WorldTypes
  <2>1. CASE UNCHANGED <<attempt, ended>>
    BY <2>0, <2>1
  <2>2. ASSUME NEW e \in Effects, NEW how \in {"PASS", "ERROR", "deadline_timeout"},
               attempt[e] = "running", attempt' = [attempt EXCEPT ![e] = "terminal"],
               ended' = [ended EXCEPT ![e] = how]
        PROVE  <1>6!1 /\ <1>6!2
    BY <2>0, <2>2 DEF Attempts, Outcomes, None
  <2>3. ASSUME NEW e \in Effects,
               attempt[e] = "running", attempt' = [attempt EXCEPT ![e] = "lost"], UNCHANGED ended
        PROVE  <1>6!1 /\ <1>6!2
    BY <2>0, <2>3 DEF Attempts
  <2> QED
    BY <1>4, <2>1, <2>2, <2>3
<1>7. WorldTypes'
  BY <1>1, <1>5, <1>6 DEF WorldTypes, native, ledger
<1>8. GraphInv'
  BY <1>1 DEF GraphInv, GraphMatchesLedger, Open, native, ledger
<1>9. ProviderInv'
  BY <1>1, <1>6 DEF ProviderInv, SealedIsQuiescent, ledger, None
<1>10. ASSUME NEW d \in Drivers PROVE Excludes(d)' /\ CountsOn(d)'
  <2>1. Excludes(d) /\ CountsOn(d)
    BY DEF DriveInv
  <2>2. Excludes(d)'
    BY <1>1, <2>1 DEF Excludes, Open, native, ledger, drive
  <2>3. pc[d] \in OnEffect => job[d] \in Effects
    BY <2>1 DEF CountsOn, TypeOK
  <2>4. pc[d] = "write" => MakesSense(job[d], want[d])'
    BY <1>1, <1>6, <2>1, <2>3 DEF CountsOn, MakesSense, OnEffect, ledger, drive
  <2>5. pc[d] = "record" => attempt'[job[d]] \notin {None, "prepared"}
    BY <1>6, <2>1, <2>3 DEF CountsOn, OnEffect, Launchers, None
  <2>6. pc[d] \in {"start", "record"} => granted'
    BY <1>5, <2>1 DEF CountsOn
  <2> QED
    BY <1>1, <2>1, <2>2, <2>4, <2>5, <2>6 DEF CountsOn, Deliverable, native, ledger, drive
<1> QED
  BY <1>2, <1>3, <1>7, <1>8, <1>9, <1>10 DEF DriveInv

-----------------------------------------------------------------------------
(* The theorems *)

LEMMA NextCases ==
  ASSUME IInv, [Next]_vars
  PROVE  \/ \E d \in Drivers : Quietly(d)
         \/ \E d \in Drivers : Redeliver(d) \/ Write(d) \/ Record(d) \/ SettleDone(d) \/ Resume(d)
         \/ \E d \in Drivers, e \in Effects : Prepared(d, e) \/ Start(d, e) \/ Mark(d, e)
         \/ \E e \in Effects : WorkerEnds(e) \/ DeadlineKill(e) \/ SupervisorLost(e) \/ Deadline(e)
         \/ \E k \in Keys : ExpireGhost(k) \/ Stall(k)
         \/ Revoke
         \/ UNCHANGED vars
<1>1. ASSUME NEW d \in Drivers,
             Drive(d) \/ Settle(d) \/ Snapshot(d) \/ Acquire(d) \/ OwnedBusy(d) \/ AwaitingDelivery(d)
               \/ Invoke(d) \/ Commit(d) \/ Grant(d) \/ Finish(d) \/ Decide(d) \/ Ready(d)
               \/ InvokeResume(d) \/ Delivered(d) \/ LockTimeout(d) \/ Crash(d) \/ Restart(d) \/ Replace(d)
      PROVE  Quietly(d)
  BY <1>1, SweepingIsQuiet, CommittingIsQuiet, DeliveringIsQuiet, PassingIsQuiet
<1>2. ASSUME NEW d \in Drivers, NEW e \in Effects,
             Inventory(d, e) \/ PrepareNew(d, e) \/ LaunchingExpired(d, e) \/ Launching(d, e)
               \/ LaunchingRefused(d, e) \/ Running(d, e) \/ Lock(d, e)
      PROVE  Quietly(d)
  BY <1>2, InventoryIsQuiet, DecidingIsQuiet, DeliveringIsQuiet
<1> QED
  BY <1>1, <1>2 DEF Next, Step

LEMMA StepBounds ==
  ASSUME TypeOK, [Next]_vars
  PROVE  BoundTypes'
<1>0. BoundTypes
  BY DEF TypeOK, BoundTypes
<1>1. ASSUME NEW d \in Drivers, Step(d) PROVE UNCHANGED bounds
  BY <1>1 DEF Step, Drive, Settle, Snapshot, Acquire, Redeliver, OwnedBusy, AwaitingDelivery, Write,
     Invoke, Commit, Grant, Record, Finish, SettleDone, Decide, Ready, InvokeResume, Resume, Delivered,
     Inventory, PrepareNew, Prepared, LaunchingExpired, Launching, LaunchingRefused, Running, Start,
     Lock, Mark, Unchanged4
<1>2. ASSUME NEW d \in Drivers, LockTimeout(d) \/ Crash(d) \/ Restart(d) \/ Replace(d) PROVE BoundTypes'
  BY <1>0, <1>2, BoundsAssumption DEF LockTimeout, Crash, Restart, Replace, bounds, BoundTypes
<1>3. ASSUME NEW e \in Effects, WorkerEnds(e) \/ DeadlineKill(e) \/ SupervisorLost(e) \/ Deadline(e)
      PROVE  BoundTypes'
  BY <1>0, <1>3, BoundsAssumption DEF WorkerEnds, DeadlineKill, End, SupervisorLost, Deadline, bounds, BoundTypes
<1>4. ASSUME NEW k \in Keys, ExpireGhost(k) \/ Stall(k) PROVE BoundTypes'
  BY <1>0, <1>4, BoundsAssumption DEF ExpireGhost, Stall, bounds, BoundTypes
<1>5. CASE Revoke
  BY <1>0, <1>5 DEF Revoke, bounds, BoundTypes
<1>6. CASE UNCHANGED vars
  BY <1>0, <1>6 DEF vars, bounds, BoundTypes
<1> QED
  BY <1>0, <1>1, <1>2, <1>3, <1>4, <1>5, <1>6 DEF Next, bounds, BoundTypes

LEMMA InitIInv == Init => IInv
<1> SUFFICES ASSUME Init PROVE IInv
  OBVIOUS
<1> USE BoundsAssumption DEF Init
<1>1. TypeOK
  <2>1. WorldTypes
    BY DEF WorldTypes, Phases, Attempts
  <2>2. LockTypes /\ BoundTypes
    BY DEF LockTypes, BoundTypes
  <2>3. want \in [Drivers -> [phase : Phases, outcome : Outcomes \cup {None}]]
    BY DEF Phases
  <2>4. DriveTypes
    BY <2>3 DEF DriveTypes, Steps, Phases
  <2> QED
    BY <2>1, <2>2, <2>4, TypeParts
<1>2. DriveInv
  BY DEF DriveInv, Excludes, CountsOn, Inside, OnEffect, Launchers, Sweeping
<1>3. GraphInv
  BY DEF GraphInv, GraphMatchesLedger, Settled
<1>4. ProviderInv
  BY DEF ProviderInv, SealedIsQuiescent, None
<1> QED
  BY <1>1, <1>2, <1>3, <1>4 DEF IInv

LEMMA StepIInv == IInv /\ [Next]_vars => IInv'
<1> SUFFICES ASSUME IInv, [Next]_vars PROVE IInv'
  OBVIOUS
<1>1. BoundTypes'
  BY StepBounds DEF IInv
<1>2. WorldTypes' /\ LockTypes' /\ DriveTypes' /\ DriveInv' /\ GraphInv' /\ ProviderInv'
  BY NextCases, QuietKeeps, RedeliverKeeps, WriteKeeps, RecordKeeps, SettleDoneKeeps, ResumingKeeps,
     PreparedKeeps, StartKeeps, MarkKeeps, WorldKeeps
<1>3. TypeOK'
  BY <1>1, <1>2 DEF TypeOK, WorldTypes, LockTypes, DriveTypes, BoundTypes
<1> QED
  BY <1>2, <1>3 DEF IInv

(* The inductive invariant: all that touches a pending effect happens      *)
(* inside the kernel's invocation lock, whatever leases expire meanwhile.  *)
THEOREM CoordinatorInvariant == Spec => []IInv
BY InitIInv, StepIInv, PTL DEF Spec

(* What the ledger says of an effect is so in the graph, in its worker and *)
(* in the watch of its run, and no drive that recovers finds a             *)
(* contradiction (reconcile, deliver_ready, _settle_terminal_watch): for   *)
(* any number of drivers, crashes and leases that expire while in use.     *)
THEOREM CoordinatorLedgerIsTrue == Spec => []LedgerIsTrue
<1>1. IInv => LedgerIsTrue
  <2> SUFFICES ASSUME IInv PROVE LedgerIsTrue
    OBVIOUS
  <2>1. AcknowledgedMeansSettled
    BY DEF IInv, TypeOK, GraphInv, AcknowledgedMeansSettled, Open, Nonterminal, Phases
  <2>2. LineageNeverBreaks
    BY DEF IInv, DriveInv, CountsOn, LineageNeverBreaks, At
  <2> QED
    BY <2>1, <2>2 DEF IInv, GraphInv, ProviderInv, LedgerIsTrue
<1> QED
  BY <1>1, CoordinatorInvariant, PTL

(* A worker is started by runner.ensure_started and nothing else, at a     *)
(* moment when its launch is committed.                                    *)
LEMMA SpawnStep ==
  ASSUME IInv, [Next]_vars, NEW e \in Effects, spawns'[e] > spawns[e]
  PROVE  row[e] = "launching" /\ e \in pending /\ ~late[e] /\ granted
<1>0. spawns \in [Effects -> Nat]
  BY DEF IInv, TypeOK
<1>1. ~UNCHANGED spawns
  BY <1>0
<1>2. PICK d \in Drivers, x \in Effects : Start(d, x)
  BY <1>1, NextCases DEF Quietly, StaysPut, provider, Redeliver, Write, Record, SettleDone, Resume,
     Prepared, Mark, WorkerEnds, DeadlineKill, End, SupervisorLost, Deadline, ExpireGhost, Stall, Revoke, vars
<1>3. /\ pc[d] = "start" /\ job[d] = x /\ ~late[x] /\ spawns' = [spawns EXCEPT ![x] = spawns[x] + 1]
  BY <1>1, <1>2 DEF Start, At, provider
<1>4. e = x
  BY <1>0, <1>3
<1>5. CountsOn(d)
  BY DEF IInv, DriveInv
<1> QED
  BY <1>3, <1>4, <1>5 DEF CountsOn, OnEffect, Launchers

(* Workers start only for launches the ledger has committed to, that the   *)
(* graph waits for, before the deadline and under a grant                  *)
(* (_commit_runner_launch).                                                *)
THEOREM LaunchesAreCommitted == Spec => LaunchIsCommitted
<1>1. IInv /\ [Next]_vars =>
        [\A e \in Effects :
           spawns'[e] > spawns[e]
             => row[e] = "launching" /\ e \in pending /\ ~late[e] /\ granted]_vars
  BY SpawnStep
<1> QED
  BY <1>1, CoordinatorInvariant, PTL DEF Spec, LaunchIsCommitted

-----------------------------------------------------------------------------
(* The coordinator implements the promise of the run *)

Kept3 == UNCHANGED <<spawns, outcome, applied>>

LEMMA PromiseStep ==
  ASSUME IInv, [Next]_vars
  PROVE  Promise!Next \/ Kept3
<1>0. /\ TypeOK /\ DriveInv /\ GraphInv /\ ProviderInv
      /\ outcome \in [Effects -> Outcomes \cup {None}] /\ spawns \in [Effects -> Nat]
  BY DEF IInv, TypeOK
<1> USE <1>0
<1>1. ASSUME NEW d \in Drivers, Write(d) PROVE Promise!Next \/ Kept3
  <2> DEFINE e == job[d]  o == want[d].outcome
  <2>1. CASE ~Fenced(d, e)
    BY <1>1, <2>1 DEF Write, Kept3, native, ledger, provider
  <2>2. CASE Fenced(d, e)
    <3>1. /\ pc[d] = "write" /\ outcome' = [outcome EXCEPT ![e] = o] /\ UNCHANGED <<spawns, applied>>
      BY <1>1, <2>2 DEF Write, At, native, provider
    <3>2. e \in Effects /\ MakesSense(e, want[d]) /\ o \in Outcomes \cup {None}
      BY <3>1 DEF DriveInv, CountsOn, OnEffect, TypeOK
    <3>3. outcome[e] = None
      BY <3>2 DEF MakesSense, GraphInv, Settled
    <3>4. CASE o = None
      BY <3>1, <3>2, <3>3, <3>4 DEF Kept3
    <3>5. CASE o # None
      <4>1. o \in Outcomes /\ (o \in {"PASS"} => spawns[e] = 1)
        BY <3>2, <3>5 DEF MakesSense
      <4>2. Promise!Decide(e, o)
        BY <3>1, <3>3, <4>1 DEF Promise!Decide
      <4> QED
        BY <3>2, <4>1, <4>2 DEF Promise!Next
    <3> QED
      BY <3>4, <3>5
  <2> QED
    BY <2>1, <2>2
<1>2. ASSUME NEW d \in Drivers, NEW e \in Effects, Start(d, e) PROVE Promise!Next \/ Kept3
  <2>1. UNCHANGED <<outcome, applied>> /\ pc[d] = "start" /\ job[d] = e
    BY <1>2 DEF Start, At, Unchanged4, native, ledger
  <2>2. CASE UNCHANGED spawns
    BY <2>1, <2>2 DEF Kept3
  <2>3. CASE ~UNCHANGED spawns
    <3>1. attempt[e] = "prepared" /\ spawns' = [spawns EXCEPT ![e] = spawns[e] + 1]
      BY <1>2, <2>3 DEF Start, provider
    <3>2. spawns[e] = 0 /\ outcome[e] = None
      BY <2>1, <3>1 DEF DriveInv, CountsOn, Launchers, ProviderInv, GraphInv, Settled
    <3>3. Promise!Start(e)
      BY <2>1, <3>1, <3>2 DEF Promise!Start
    <3> QED
      BY <3>3 DEF Promise!Next
  <2> QED
    BY <2>2, <2>3
<1>3. ASSUME NEW d \in Drivers, Resume(d) PROVE Promise!Next
  <2>1. /\ todo[d] # {} /\ todo[d] \subseteq pending
        /\ \A e \in todo[d] : row[e] \in Settled /\ applied[e] = <<>> /\ outcome[e] \in Outcomes
        /\ UNCHANGED <<ledger, provider, world>>
    BY <1>3, ResumeCommits
  <2>2. applied' = [e \in Effects |-> IF e \in todo[d] THEN <<outcome[e]>> ELSE applied[e]]
    BY <1>3, <2>1, FirstResult DEF Resume, Given
  <2>3. Promise!Apply(todo[d])
    BY <2>1, <2>2 DEF Promise!Apply, GraphInv, Settled, ledger, provider, Outcomes, None
  <2>4. todo[d] \in (SUBSET Effects) \ {{}}
    <3>1. todo[d] \in SUBSET Effects
      BY DEF TypeOK
    <3>2. todo[d] \notin {{}}
      BY <2>1
    <3> QED
      BY <3>1, <3>2
  <2> QED
    BY <2>3, <2>4 DEF Promise!Next
<1>4. ASSUME NEW d \in Drivers, Quietly(d) \/ Redeliver(d) \/ Record(d) \/ SettleDone(d) PROVE Kept3
  BY <1>4 DEF Quietly, StaysPut, Redeliver, Record, SettleDone, Unchanged4, native, ledger, provider, Kept3
<1>5. ASSUME NEW d \in Drivers, NEW e \in Effects, Prepared(d, e) \/ Mark(d, e) PROVE Kept3
  BY <1>5 DEF Prepared, Mark, Unchanged4, native, ledger, provider, Kept3
<1>6. ASSUME \/ \E e \in Effects : WorkerEnds(e) \/ DeadlineKill(e) \/ SupervisorLost(e) \/ Deadline(e)
             \/ \E k \in Keys : ExpireGhost(k) \/ Stall(k)
             \/ Revoke
             \/ UNCHANGED vars
      PROVE  Kept3
  BY <1>6 DEF WorkerEnds, DeadlineKill, End, SupervisorLost, Deadline, ExpireGhost, Stall, Revoke,
     WorldStep, vars, native, ledger, provider, Kept3
<1> QED
  BY <1>1, <1>2, <1>3, <1>4, <1>5, <1>6, NextCases

(* The coordinator, its ledger and its provider together keep what         *)
(* RunPromise promises a run: every worker started at most once and only   *)
(* while undecided, every effect decided once, every decision given to the *)
(* graph exactly once.                                                     *)
THEOREM CoordinatorKeepsPromise == Spec => KeepsRunPromise
<1>1. Init => Promise!Init
  BY DEF Init, Promise!Init
<1>2. IInv /\ [Next]_vars => [Promise!Next]_(Promise!promiseVars)
  BY PromiseStep DEF Kept3, Promise!promiseVars
<1> QED
  BY <1>1, <1>2, CoordinatorInvariant, PTL DEF Spec, KeepsRunPromise, Promise!Spec
=============================================================================
