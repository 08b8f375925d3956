---------------------------- MODULE RunDriveProofs ----------------------------
(***************************************************************************)
(* Proofs about who drives a run, for any number of processes, runs and    *)
(* slots: no unfinished run loses its watch, and the slots, the queue and  *)
(* the open native apps of every process agree.                            *)
(***************************************************************************)
EXTENDS RunDrive, FiniteSetTheorems, TLAPS

Holding == {"start", "drive"}

(* The runs the drain of s has taken from the queue and not looked at yet. *)
Taken(s) == IF by[s] = "drain" THEN Range(todo[s]) ELSE {}

(* Where the holder of the admission lock is and what it has in hand.      *)
ControlInv(s) ==
  /\ at[s] # "free" => up[s]
  /\ at[s] = "free" => by[s] = None
  /\ at[s] = "start" => by[s] = "start"
  /\ at[s] = "drive" => by[s] # None
  /\ at[s] = "next_run" => by[s] = "drain"
  /\ at[s] \in {"next_watch", "settle", "ack"} => by[s] \in Sweeps
  /\ at[s] \in Holding \cup {"settle", "ack"} => cur[s] \in Runs
  /\ at[s] = "ack" => graph[cur[s]] = "done"
  /\ at[s] \notin {"next_watch", "ack"} => count[s] < Capacity

(* What the drain took is in its slots, each run once.                     *)
DrainInv(s) ==
  by[s] = "drain" =>
    /\ Range(todo[s]) \subseteq active[s]
    /\ \A i, j \in DOMAIN todo[s] : todo[s][i] = todo[s][j] => i = j
    /\ at[s] = "drive" => cur[s] \notin Range(todo[s])

(* Slots and open apps are the same runs, but for the one in hand.         *)
BindingInv(s) ==
  IF at[s] \in Holding
  THEN /\ bound[s] = active[s] \cup {cur[s]}
       /\ "binding" \in mine[s] => owned[s] = active[s] \ {cur[s]}
       /\ "binding" \notin mine[s] => cur[s] \in active[s] /\ owned[s] = active[s]
  ELSE bound[s] = active[s] /\ owned[s] = active[s]

QueueInv(s) ==
  /\ Cardinality(active[s]) <= Capacity
  /\ queued[s] \subseteq Range(queue[s])
  /\ queued[s] \subseteq active[s]
  /\ failures = 0 =>
       active[s] \ queued[s] \subseteq
         Taken(s) \cup (IF at[s] \in Holding THEN {cur[s]} ELSE {})

ServerInv(s) == ControlInv(s) /\ DrainInv(s) /\ BindingInv(s) /\ QueueInv(s)

IInv ==
  /\ TypeOK
  /\ UnfinishedIsWatched
  /\ \A s \in Servers : ServerInv(s)

-----------------------------------------------------------------------------
(* The steps keep the types. *)

LEMMA OrderedIsSeq ==
  ASSUME NEW S \in SUBSET Runs, NEW rank, NEW w \in Ordered(S, rank)
  PROVE  w \in Seq(Runs)
<1>1. IsFiniteSet(S)
  BY FS_Subset, RunDriveAssumption
<1>2. Cardinality(S) \in Nat
  BY <1>1, FS_CardinalityType
<1>3. w \in [1 .. Cardinality(S) -> S]
  BY DEF Ordered
<1>4. QED
  BY <1>2, <1>3

LEMMA AdvanceGraph ==
  ASSUME TypeOK, NEW r \in Runs, Advance(r)
  PROVE  /\ graph' \in [Runs -> Stages] /\ left' \in [Runs -> 0 .. MaxWaits]
         /\ mixed' \in [Runs -> BOOLEAN]
         /\ graph'[r] \in {"done", "effect", "worker"}
         /\ \A q \in Runs \ {r} : graph'[q] = graph[q]
<1>1. CASE graph' = Put(graph, r, "done") /\ mixed' = Put(mixed, r, FALSE) /\ UNCHANGED left
  BY <1>1 DEF TypeOK, Put, Stages, Waiting
<1>2. ASSUME left[r] > 0, left' = Put(left, r, left[r] - 1),
             NEW wait \in {"effect", "worker"}, graph' = Put(graph, r, wait),
             NEW beside \in BOOLEAN, mixed' = Put(mixed, r, beside)
      PROVE  /\ graph' \in [Runs -> Stages] /\ left' \in [Runs -> 0 .. MaxWaits]
             /\ mixed' \in [Runs -> BOOLEAN]
             /\ graph'[r] \in {"done", "effect", "worker"}
             /\ \A q \in Runs \ {r} : graph'[q] = graph[q]
  BY <1>2, RunDriveAssumption DEF TypeOK, Put, Stages, Waiting
<1>3. QED
  BY <1>1, <1>2 DEF Advance

LEMMA StepTypes ==
  ASSUME TypeOK, NEW s \in Servers, NEW r \in Runs, ControlInv(s)
  PROVE  /\ Start(s, r) => TypeOK'
         /\ Park(s, r) => TypeOK'
         /\ Submit(s, r) => TypeOK'
<1> USE DEF Put, Goto, None, Stages, Waiting, Commands, Sweeps, Marks
<1>0. /\ {q \in Runs : graph[q] # "absent"} \cup {r} \in SUBSET Runs
      /\ graph[r] = "absent" => 1 + Cardinality({q \in Runs : graph[q] # "absent"}) \in 0 .. Cardinality(Runs)
  <2> DEFINE A == {q \in Runs : graph[q] # "absent"}
  <2>1. A \in SUBSET Runs /\ A \cup {r} \in SUBSET Runs
    OBVIOUS
  <2>2. IsFiniteSet(Runs) /\ IsFiniteSet(A)
    BY <2>1, FS_Subset, RunDriveAssumption
  <2>3. ASSUME graph[r] = "absent"
        PROVE  Cardinality(A \cup {r}) = Cardinality(A) + 1
    BY <2>2, <2>3, FS_AddElement
  <2>4. Cardinality(A \cup {r}) <= Cardinality(Runs)
    BY <2>1, <2>2, FS_Subset
  <2>5. Cardinality(A) \in Nat /\ Cardinality(Runs) \in Nat
    BY <2>2, FS_CardinalityType
  <2>6. QED
    BY <2>1, <2>3, <2>4, <2>5
<1>1. ASSUME Start(s, r) PROVE TypeOK'
  BY <1>0, <1>1 DEF TypeOK, Start, AdmitStart, Bind, Take, Free, slots, bounds
<1>2. ASSUME Park(s, r) PROVE TypeOK'
  BY <1>0, <1>2 DEF TypeOK, Park, AdmitStart, slots, binds, work, bounds
<1>3. ASSUME Submit(s, r) PROVE TypeOK'
  BY <1>3, AdvanceGraph DEF TypeOK, Submit, Bind, Take, slots, bounds
<1>4. QED
  BY <1>1, <1>2, <1>3

LEMMA ActivateTypes ==
  ASSUME TypeOK, NEW s \in Servers, NEW r \in Runs, Activate(s, r)
  PROVE  /\ active' \in [Servers -> SUBSET Runs] /\ queued' \in [Servers -> SUBSET Runs]
         /\ queue' \in [Servers -> Seq(Runs)] /\ wake' \in [Servers -> BOOLEAN]
BY DEF TypeOK, Activate, Put

LEMMA DriveEndsTypes ==
  ASSUME TypeOK, NEW s \in Servers, ControlInv(s), at[s] = "drive",
         NEW occupied, NEW ok, DriveEnds(s, occupied, ok)
  PROVE  /\ guard' \in [Runs -> Servers \cup {None}]
         /\ bound' \in [Servers -> SUBSET Runs] /\ owned' \in [Servers -> SUBSET Runs]
         /\ at' \in [Servers -> {"free", "start", "drive", "next_run", "next_watch", "settle", "ack"}]
         /\ by' \in [Servers -> {None, "drain"} \cup Commands \cup Sweeps]
         /\ cur' \in [Servers -> Runs \cup {None}]
         /\ todo' \in [Servers -> Seq(Runs)]
         /\ mine' \in [Servers -> SUBSET Marks]
         /\ count' \in [Servers -> 0 .. Capacity]
<1> USE DEF Put, Goto, None, Commands, Sweeps, Marks
<1>1. cur[s] \in Runs /\ by[s] \in {"drain"} \cup Commands \cup Sweeps
  BY DEF ControlInv, Holding, TypeOK
<1>2. guard' \in [Runs -> Servers \cup {None}]
  BY <1>1 DEF TypeOK, DriveEnds
<1>3. bound' \in [Servers -> SUBSET Runs] /\ owned' \in [Servers -> SUBSET Runs]
  BY <1>1 DEF TypeOK, DriveEnds, Finish
<1>4. CASE Unlock(s)
  BY <1>2, <1>3, <1>4, RunDriveAssumption DEF Unlock, TypeOK
<1>5. CASE LookOn(s, "next_run") \/ LookOn(s, "next_watch")
  BY <1>2, <1>3, <1>5 DEF LookOn, TypeOK
<1>6. CASE Goto(s, "settle") /\ UNCHANGED work
  BY <1>2, <1>3, <1>6 DEF TypeOK, work
<1>7. QED
  BY <1>1, <1>4, <1>5, <1>6 DEF DriveEnds

LEMMA HolderTypes ==
  ASSUME TypeOK, NEW s \in Servers, ControlInv(s), Holder(s)
  PROVE  TypeOK'
<1> USE RunDriveAssumption DEF Put, Goto, None, Commands, Sweeps, Marks
<1>1. CASE StartWithoutSlot(s)
  BY <1>1 DEF TypeOK, ControlInv, Holding, StartWithoutSlot, Finish, Unlock, durable, slots, bounds
<1>2. CASE StartGraph(s)
  <2>1. cur[s] \in Runs
    BY <1>2 DEF StartGraph, ControlInv, Holding
  <2>2. graph' \in [Runs -> Stages] /\ left' \in [Runs -> 0 .. MaxWaits] /\ mixed' \in [Runs -> BOOLEAN]
    BY <1>2, <2>1, AdvanceGraph DEF StartGraph, TypeOK
  <2>3. QED
    BY <1>2, <2>1, <2>2 DEF TypeOK, StartGraph, binds, work, bounds
<1>3. CASE DecideSettled(s)
  BY <1>3, DriveEndsTypes DEF TypeOK, DecideSettled, Driving, Deactivate, durable, bounds
<1>4. CASE DecideNoSlot(s)
  BY <1>4, DriveEndsTypes DEF TypeOK, DecideNoSlot, Driving, durable, slots, bounds
<1>5. CASE DecideRunning(s)
  <2>1. cur[s] \in Runs
    BY <1>5 DEF DecideRunning, Driving, ControlInv, Holding
  <2>2. /\ active' \in [Servers -> SUBSET Runs] /\ queued' \in [Servers -> SUBSET Runs]
        /\ queue' \in [Servers -> Seq(Runs)] /\ wake' \in [Servers -> BOOLEAN]
    BY <1>5, <2>1, ActivateTypes DEF DecideRunning
  <2>3. QED
    BY <1>5, <2>2, DriveEndsTypes DEF TypeOK, DecideRunning, Driving, durable, bounds
<1>6. CASE DecideOn(s)
  <2>1. cur[s] \in Runs
    BY <1>6 DEF DecideOn, Driving, ControlInv, Holding
  <2>2. graph' \in [Runs -> Stages] /\ left' \in [Runs -> 0 .. MaxWaits] /\ mixed' \in [Runs -> BOOLEAN]
    <3>1. CASE Advance(cur[s])
      BY <2>1, <3>1, AdvanceGraph
    <3>2. CASE graph' = Put(graph, cur[s], "attempt") /\ UNCHANGED <<left, mixed>>
      BY <2>1, <3>2 DEF TypeOK, Stages, Waiting
    <3>3. QED
      BY <1>6, <3>1, <3>2 DEF DecideOn
  <2>3. /\ active' \in [Servers -> SUBSET Runs] /\ queued' \in [Servers -> SUBSET Runs]
        /\ queue' \in [Servers -> Seq(Runs)] /\ wake' \in [Servers -> BOOLEAN]
    BY <1>6, <2>1, ActivateTypes DEF DecideOn
  <2>4. QED
    BY <1>6, <2>1, <2>2, <2>3 DEF TypeOK, DecideOn, binds, bounds
<1>7. CASE NextRun(s)
  <2>1. Head(todo[s]) \in Runs /\ Tail(todo[s]) \in Seq(Runs)
    BY <1>7 DEF NextRun, TypeOK
  <2>2. QED
    BY <1>7, <2>1 DEF TypeOK, NextRun, Bind, durable, slots, bounds
<1>8. CASE Drained(s)
  BY <1>8 DEF TypeOK, Drained, Unlock, durable, slots, binds, bounds
<1>9. CASE WatchStarts(s)
  <2>1. Head(todo[s]) \in Runs
    BY <1>9 DEF WatchStarts, TypeOK
  <2>2. QED
    BY <1>9, <2>1, AdvanceGraph DEF TypeOK, WatchStarts, slots, binds, work, bounds
<1>10. CASE WatchDrives(s)
  <2>1. Head(todo[s]) \in Runs /\ Tail(todo[s]) \in Seq(Runs)
    BY <1>10 DEF WatchDrives, TypeOK
  <2>2. QED
    BY <1>10, <2>1 DEF TypeOK, WatchDrives, Bind, durable, slots, bounds
<1>11. CASE WatchIsDone(s)
  BY <1>11 DEF TypeOK, WatchIsDone, durable, slots, binds, bounds
<1>12. CASE Settle(s)
  <2>1. count[s] + 1 \in 0 .. Capacity
    BY <1>12 DEF TypeOK, Settle, ControlInv
  <2>2. QED
    BY <1>12, <2>1 DEF TypeOK, Settle, durable, slots, binds, bounds
<1>13. CASE Acknowledge(s)
  <2>1. 0 \in 0 .. Cardinality(Runs)
    BY FS_CardinalityType
  <2>2. seq \in [Runs -> 0 .. Cardinality(Runs)] /\ seq' = Put(seq, cur[s], 0)
    BY <1>13 DEF TypeOK, Acknowledge
  <2>3. seq' \in [Runs -> 0 .. Cardinality(Runs)]
    BY <2>1, <2>2
  <2>4. QED
    BY <1>13, <2>3 DEF TypeOK, Acknowledge, LookOn, slots, binds, bounds
<1>14. CASE Swept(s)
  BY <1>14 DEF TypeOK, Swept, Unlock, durable, slots, binds, bounds
<1>15. CASE DecideMixed(s)
  BY <1>15, DriveEndsTypes DEF TypeOK, DecideMixed, Driving, Deactivate, durable, bounds
<1>16. CASE WatchSkips(s)
  <2>1. Tail(todo[s]) \in Seq(Runs)
    BY <1>16 DEF WatchSkips, TypeOK
  <2>2. QED
    BY <1>16, <2>1 DEF TypeOK, WatchSkips, durable, slots, binds, bounds
<1>17. QED
  BY <1>1, <1>2, <1>3, <1>4, <1>5, <1>6, <1>7, <1>8, <1>9, <1>10, <1>11,
     <1>12, <1>13, <1>14, <1>15, <1>16 DEF Holder

LEMMA ServerTypes ==
  ASSUME TypeOK, NEW s \in Servers, ControlInv(s),
         Pump(s) \/ Open(s) \/ Recover(s) \/ DriveRaises(s) \/ OpenRaises(s) \/ Crash(s)
  PROVE  TypeOK'
<1> USE RunDriveAssumption DEF Put, Goto, None, Commands, Sweeps, Marks
<1>1. CASE PumpWaits(s)
  BY <1>1 DEF TypeOK, PumpWaits, durable, slots, binds, work, bounds
<1>2. CASE Drain(s)
  <2>1. Marked(s) \in SUBSET Runs
    BY DEF Marked, TypeOK
  <2>2. PICK w \in Ordered(Marked(s), FirstEntry(s)) : todo' = Put(todo, s, w)
    BY <1>2 DEF Drain
  <2>3. w \in Seq(Runs)
    BY <2>1, OrderedIsSeq
  <2>4. QED
    BY <1>2, <2>1, <2>2, <2>3 DEF TypeOK, Drain, durable, binds, bounds
<1>3. ASSUME NEW what \in Sweeps, NEW excluded, BeginSweep(s, what, excluded)
      PROVE  todo' \in [Servers -> Seq(Runs)] /\ by' \in [Servers -> {None, "drain"} \cup Commands \cup Sweeps]
             /\ at' \in [Servers -> {"free", "start", "drive", "next_run", "next_watch", "settle", "ack"}]
  <2>1. PICK w \in Ordered(Watches \ {excluded}, seq) : todo' = Put(todo, s, w)
    BY <1>3 DEF BeginSweep
  <2>2. w \in Seq(Runs)
    BY OrderedIsSeq DEF Watches
  <2>3. QED
    BY <1>3, <2>1, <2>2 DEF TypeOK, BeginSweep
<1>4. CASE Sweep(s)
  BY <1>3, <1>4 DEF TypeOK, Sweep, durable, slots, binds, bounds
<1>5. CASE Recover(s)
  BY <1>3, <1>5 DEF TypeOK, Recover, durable, slots, binds, bounds
<1>6. CASE Open(s)
  BY <1>3, <1>6 DEF TypeOK, Open, durable, slots, binds, bounds
<1>7. CASE DriveRaises(s)
  <2>1. cur[s] \in Runs
    BY <1>7 DEF DriveRaises, Driving, ControlInv, Holding
  <2>2. bound' \in [Servers -> SUBSET Runs] /\ owned' \in [Servers -> SUBSET Runs]
    BY <1>7, <2>1 DEF TypeOK, DriveRaises, Finish
  <2>3. /\ active' \in [Servers -> SUBSET Runs] /\ queued' \in [Servers -> SUBSET Runs]
        /\ guard' \in [Runs -> Servers \cup {None}]
        /\ failures' \in 0 .. MaxFaults
    BY <1>7, <2>1 DEF TypeOK, DriveRaises
  <2>4. CASE Unlock(s) /\ pump' = IF by[s] \in {"drain", "sweep"} THEN Put(pump, s, "failed") ELSE pump
    BY <1>7, <2>2, <2>3, <2>4 DEF TypeOK, DriveRaises, Unlock, durable
  <2>5. CASE LookOn(s, "next_watch") /\ UNCHANGED pump
    BY <1>7, <2>2, <2>3, <2>5 DEF TypeOK, DriveRaises, LookOn, durable
  <2>6. QED
    BY <1>7, <2>4, <2>5 DEF DriveRaises
<1>8. ASSUME Forget(s), UNCHANGED durable, failures' \in 0 .. MaxFaults, crashes' \in 0 .. MaxFaults
      PROVE  TypeOK'
  BY <1>8 DEF TypeOK, Forget, Unlock, durable
<1>9. CASE OpenRaises(s) \/ Crash(s)
  <2>1. failures \in 0 .. MaxFaults /\ crashes \in 0 .. MaxFaults
    BY DEF TypeOK
  <2>2. CASE OpenRaises(s)
    BY <1>8, <2>1, <2>2 DEF OpenRaises
  <2>3. CASE Crash(s)
    BY <1>8, <2>1, <2>3 DEF Crash
  <2>4. QED
    BY <1>9, <2>2, <2>3
<1>10. QED
  BY <1>1, <1>2, <1>4, <1>5, <1>6, <1>7, <1>9 DEF Pump

-----------------------------------------------------------------------------
(* Watches: no step loses one, and what is done stays done. *)

DoneStays == \A r \in Runs : graph[r] = "done" => graph'[r] = "done"

LEMMA AdvanceWatched ==
  ASSUME TypeOK, UnfinishedIsWatched, NEW r \in Runs, Advance(r),
         graph[r] \notin {"absent", "done"}, UNCHANGED seq
  PROVE  UnfinishedIsWatched' /\ DoneStays
BY AdvanceGraph DEF UnfinishedIsWatched, DoneStays

LEMMA StepWatched ==
  ASSUME TypeOK, UnfinishedIsWatched, \A s \in Servers : ControlInv(s), Next
  PROVE  UnfinishedIsWatched' /\ DoneStays
<1>1. ASSUME UNCHANGED durable PROVE UnfinishedIsWatched' /\ DoneStays
  BY <1>1 DEF durable, UnfinishedIsWatched, DoneStays
<1>2. ASSUME NEW r \in Runs, AdmitStart(r) PROVE UnfinishedIsWatched' /\ DoneStays
  <2>1. Cardinality({q \in Runs : graph[q] # "absent"}) \in Nat
    BY FS_CardinalityType, FS_Subset, RunDriveAssumption
  <2>2. seq'[r] # 0 /\ \A q \in Runs \ {r} : seq'[q] = seq[q] /\ graph'[q] = graph[q]
    BY <1>2, <2>1 DEF AdmitStart, Put, TypeOK
  <2>3. graph[r] = "absent"
    BY <1>2 DEF AdmitStart
  <2>4. QED
    BY <2>2, <2>3 DEF UnfinishedIsWatched, DoneStays
<1>3. ASSUME NEW s \in Servers, Holder(s) PROVE UnfinishedIsWatched' /\ DoneStays
  <2>1. CASE StartGraph(s)
    <3>1. cur[s] \in Runs
      BY <2>1 DEF StartGraph, ControlInv, Holding
    <3>2. QED
      BY <2>1, <3>1, AdvanceWatched DEF StartGraph, UnfinishedIsWatched, DoneStays
  <2>2. CASE DecideOn(s)
    <3>1. cur[s] \in Runs /\ graph[cur[s]] \in {"effect", "observed"}
      BY <2>2 DEF DecideOn, Driving, ControlInv, Holding
    <3>2. CASE Advance(cur[s])
      BY <2>2, <3>1, <3>2, AdvanceWatched DEF DecideOn
    <3>3. CASE graph' = Put(graph, cur[s], "attempt")
      BY <2>2, <3>1, <3>3 DEF DecideOn, UnfinishedIsWatched, DoneStays, Put, TypeOK
    <3>4. QED
      BY <2>2, <3>2, <3>3 DEF DecideOn
  <2>3. CASE WatchStarts(s)
    <3>1. Head(todo[s]) \in Runs /\ graph[Head(todo[s])] = "admitted"
      BY <2>3 DEF WatchStarts, TypeOK
    <3>2. QED
      BY <2>3, <3>1, AdvanceWatched DEF WatchStarts
  <2>4. CASE Acknowledge(s)
    <3>1. graph[cur[s]] = "done" /\ graph' = graph
      BY <2>4 DEF Acknowledge, ControlInv
    <3>2. \A q \in Runs \ {cur[s]} : seq'[q] = seq[q]
      BY <2>4 DEF Acknowledge, Put, TypeOK
    <3>3. QED
      BY <3>1, <3>2 DEF UnfinishedIsWatched, DoneStays
  <2>5. CASE UNCHANGED durable
    BY <1>1, <2>5
  <2>6. QED
    BY <1>3, <2>1, <2>2, <2>3, <2>4, <2>5
       DEF Holder, StartWithoutSlot, DecideSettled, DecideNoSlot, DecideRunning, DecideMixed,
           NextRun, Drained, WatchDrives, WatchSkips, WatchIsDone, Settle, Swept
<1>4. ASSUME NEW s \in Servers, Command(s) PROVE UnfinishedIsWatched' /\ DoneStays
  <2>1. ASSUME NEW r \in Runs, Start(s, r) \/ Park(s, r) PROVE UnfinishedIsWatched' /\ DoneStays
    BY <1>2, <2>1 DEF Start, Park
  <2>2. ASSUME NEW r \in Runs, Submit(s, r) PROVE UnfinishedIsWatched' /\ DoneStays
    BY <2>2, AdvanceWatched DEF Submit
  <2>3. CASE Open(s) \/ Recover(s)
    BY <1>1, <2>3 DEF Open, Recover
  <2>4. QED
    BY <1>4, <2>1, <2>2, <2>3 DEF Command
<1>5. ASSUME NEW s \in Servers, Pump(s) \/ DriveRaises(s) \/ OpenRaises(s) \/ Crash(s)
      PROVE  UnfinishedIsWatched' /\ DoneStays
  BY <1>1, <1>5 DEF Pump, PumpWaits, Drain, Sweep, DriveRaises, OpenRaises, Crash
<1>6. ASSUME NEW r \in Runs, EndAttempt(r) PROVE UnfinishedIsWatched' /\ DoneStays
  BY <1>6 DEF EndAttempt, UnfinishedIsWatched, DoneStays, Put, TypeOK
<1>7. QED
  BY <1>3, <1>4, <1>5, <1>6 DEF Next

-----------------------------------------------------------------------------
(* A step of one process leaves what the others have in memory alone. *)

SameServer(t) ==
  /\ up'[t] = up[t] /\ at'[t] = at[t] /\ by'[t] = by[t] /\ cur'[t] = cur[t]
  /\ todo'[t] = todo[t] /\ mine'[t] = mine[t] /\ count'[t] = count[t]
  /\ active'[t] = active[t] /\ queued'[t] = queued[t] /\ queue'[t] = queue[t]
  /\ bound'[t] = bound[t] /\ owned'[t] = owned[t]

StepOf(s) ==
  \/ Holder(s) \/ Pump(s) \/ Command(s) \/ DriveRaises(s) \/ OpenRaises(s) \/ Crash(s)

LEMMA OthersKept ==
  ASSUME NEW t \in Servers, ServerInv(t), SameServer(t), DoneStays,
         failures' = 0 => failures = 0
  PROVE  ServerInv(t)'
<1> USE DEF SameServer, Holding
<1>1. ControlInv(t)'
  BY DEF ServerInv, ControlInv, DoneStays, Sweeps, None
<1>2. DrainInv(t)'
  BY DEF ServerInv, DrainInv
<1>3. BindingInv(t)'
  BY DEF ServerInv, BindingInv
<1>4. QueueInv(t)'
  BY DEF ServerInv, QueueInv, Taken
<1>5. QED
  BY <1>1, <1>2, <1>3, <1>4 DEF ServerInv

LEMMA StepIsLocal ==
  ASSUME TypeOK, NEW s \in Servers, NEW t \in Servers \ {s}, ControlInv(s), StepOf(s)
  PROVE  SameServer(t) /\ (failures' = 0 => failures = 0)
<1> USE DEF Put, Goto, SameServer, slots, binds, work, bounds
<1>0. failures \in Nat
  BY RunDriveAssumption DEF TypeOK
<1>1. ASSUME NEW occupied, NEW ok, at[s] = "drive", DriveEnds(s, occupied, ok)
      PROVE  /\ at'[t] = at[t] /\ by'[t] = by[t] /\ cur'[t] = cur[t] /\ todo'[t] = todo[t]
             /\ mine'[t] = mine[t] /\ count'[t] = count[t]
             /\ bound'[t] = bound[t] /\ owned'[t] = owned[t]
  <2>1. bound'[t] = bound[t] /\ owned'[t] = owned[t]
    BY <1>1 DEF DriveEnds, Finish, TypeOK
  <2>2. /\ by[s] \in Commands => Unlock(s)
        /\ by[s] \notin Commands =>
             LookOn(s, "next_run") \/ LookOn(s, "next_watch") \/ (Goto(s, "settle") /\ UNCHANGED work)
    BY <1>1 DEF DriveEnds, Commands, Sweeps, ControlInv, TypeOK
  <2>3. QED
    BY <2>1, <2>2 DEF Unlock, LookOn, TypeOK
<1>2. CASE Holder(s)
  <2>1. CASE StartWithoutSlot(s) \/ StartGraph(s)
    BY <2>1 DEF StartWithoutSlot, StartGraph, Unlock, Finish, TypeOK
  <2>2. CASE DecideSettled(s)
    BY <2>2, <1>1 DEF DecideSettled, Driving, Deactivate, TypeOK
  <2>3. CASE DecideNoSlot(s)
    BY <2>3, <1>1 DEF DecideNoSlot, Driving, TypeOK
  <2>4. CASE DecideRunning(s)
    BY <2>4, <1>1 DEF DecideRunning, Driving, Activate, TypeOK
  <2>5. CASE DecideOn(s)
    BY <2>5 DEF DecideOn, Activate, TypeOK
  <2>6. CASE NextRun(s)
    BY <2>6 DEF NextRun, Bind, TypeOK
  <2>7. CASE Drained(s)
    BY <2>7 DEF Drained, Unlock, TypeOK
  <2>8. CASE WatchStarts(s) \/ WatchIsDone(s)
    BY <2>8 DEF WatchStarts, WatchIsDone, TypeOK
  <2>9. CASE WatchDrives(s)
    BY <2>9 DEF WatchDrives, Bind, TypeOK
  <2>10. CASE Settle(s) \/ Acknowledge(s) \/ Swept(s)
    BY <2>10 DEF Settle, Acknowledge, Swept, LookOn, Unlock, TypeOK
  <2>11. CASE DecideMixed(s)
    BY <2>11, <1>1 DEF DecideMixed, Driving, Deactivate, TypeOK
  <2>12. CASE WatchSkips(s)
    BY <2>12 DEF WatchSkips, TypeOK
  <2>13. QED
    BY <1>2, <2>1, <2>2, <2>3, <2>4, <2>5, <2>6, <2>7, <2>8, <2>9, <2>10, <2>11, <2>12 DEF Holder
<1>3. CASE Pump(s)
  BY <1>3 DEF Pump, PumpWaits, Drain, Sweep, BeginSweep, TypeOK
<1>4. CASE Command(s)
  <2>1. ASSUME NEW r \in Runs, Start(s, r) PROVE SameServer(t) /\ UNCHANGED bounds
    BY <2>1 DEF Start, Bind, Take, TypeOK
  <2>2. ASSUME NEW r \in Runs, Submit(s, r) PROVE SameServer(t) /\ UNCHANGED bounds
    BY <2>2 DEF Submit, Bind, Take, TypeOK
  <2>3. ASSUME NEW r \in Runs, Park(s, r) PROVE SameServer(t) /\ UNCHANGED bounds
    BY <2>3 DEF Park
  <2>4. CASE Open(s) \/ Recover(s)
    BY <2>4 DEF Open, Recover, BeginSweep, TypeOK
  <2>5. QED
    BY <1>4, <2>1, <2>2, <2>3, <2>4 DEF Command
<1>5. CASE DriveRaises(s)
  BY <1>0, <1>5 DEF DriveRaises, Finish, Unlock, LookOn, TypeOK
<1>6. CASE OpenRaises(s) \/ Crash(s)
  BY <1>0, <1>6 DEF OpenRaises, Crash, Forget, Unlock, TypeOK
<1>7. QED
  BY <1>2, <1>3, <1>4, <1>5, <1>6 DEF StepOf

-----------------------------------------------------------------------------
(* A step of a process keeps what it has in memory in order. *)

LEMMA SlotTaken ==
  ASSUME TypeOK, NEW s \in Servers, NEW r \in Runs, QueueInv(s), Available(s, r)
  PROVE  Cardinality(active[s] \cup {r}) <= Capacity
<1>1. IsFiniteSet(active[s])
  BY FS_Subset, RunDriveAssumption DEF TypeOK
<1>2. Cardinality(active[s]) \in Nat
  BY <1>1, FS_CardinalityType
<1>3. Cardinality(active[s] \cup {r}) = IF r \in active[s] THEN Cardinality(active[s]) ELSE Cardinality(active[s]) + 1
  BY <1>1, FS_AddElement
<1>4. QED
  BY <1>2, <1>3, RunDriveAssumption DEF Available, QueueInv

LEMMA SlotGivenBack ==
  ASSUME TypeOK, NEW s \in Servers, QueueInv(s), NEW T \in SUBSET active[s]
  PROVE  Cardinality(T) <= Capacity
<1>1. IsFiniteSet(active[s])
  BY FS_Subset, RunDriveAssumption DEF TypeOK
<1>2. IsFiniteSet(T) /\ Cardinality(T) <= Cardinality(active[s])
  BY <1>1, FS_Subset
<1>3. Cardinality(active[s]) \in Nat /\ Cardinality(T) \in Nat
  BY <1>1, <1>2, FS_CardinalityType
<1>4. QED
  BY <1>2, <1>3, RunDriveAssumption DEF QueueInv

LEMMA ActivateQueues ==
  ASSUME TypeOK, NEW s \in Servers, NEW r \in Runs, QueueInv(s), Available(s, r), Activate(s, r)
  PROVE  /\ active'[s] = active[s] \cup {r} /\ queued'[s] = queued[s] \cup {r}
         /\ queued'[s] \subseteq Range(queue'[s]) /\ queued'[s] \subseteq active'[s]
         /\ Cardinality(active'[s]) <= Capacity
<1>1. active'[s] = active[s] \cup {r} /\ queued'[s] = queued[s] \cup {r}
  BY DEF Activate, Put, TypeOK
<1>2. queued'[s] \subseteq Range(queue'[s])
  <2>1. CASE r \in queued[s]
    BY <1>1, <2>1 DEF Activate, QueueInv
  <2>2. CASE r \notin queued[s]
    <3>1. queue'[s] = Append(queue[s], r) /\ queue[s] \in Seq(Runs)
      BY <2>2 DEF Activate, Put, TypeOK
    <3>2. \A q \in Range(queue[s]) \cup {r} : q \in Range(queue'[s])
      <4>1. ASSUME NEW q \in Range(queue[s]) PROVE q \in Range(queue'[s])
        <5>1. PICK i \in DOMAIN queue[s] : queue[s][i] = q
          BY DEF Range
        <5>2. i \in DOMAIN queue'[s] /\ queue'[s][i] = q
          BY <3>1, <5>1
        <5>3. QED
          BY <5>2 DEF Range
      <4>2. r \in Range(queue'[s])
        <5>1. Len(queue[s]) + 1 \in DOMAIN queue'[s] /\ queue'[s][Len(queue[s]) + 1] = r
          BY <3>1
        <5>2. QED
          BY <5>1 DEF Range
      <4>3. QED
        BY <4>1, <4>2
    <3>3. QED
      BY <1>1, <3>2 DEF QueueInv
  <2>3. QED
    BY <2>1, <2>2
<1>3. QED
  BY <1>1, <1>2, SlotTaken DEF QueueInv

(* The use that leaves its run without a slot closes the app, and no other. *)
LEMMA FinishBinds ==
  ASSUME TypeOK, NEW s \in Servers, BindingInv(s), at[s] \in Holding,
         NEW occupied, occupied \ {cur[s]} = active[s] \ {cur[s]},
         Finish(s, cur[s], occupied)
  PROVE  bound'[s] = occupied /\ owned'[s] = occupied
<1>1. /\ bound[s] = active[s] \cup {cur[s]}
      /\ "binding" \in mine[s] => owned[s] = active[s] \ {cur[s]}
      /\ "binding" \notin mine[s] => cur[s] \in active[s] /\ owned[s] = active[s]
  BY DEF BindingInv
<1>2. CASE cur[s] \notin occupied
  <2>1. bound'[s] = bound[s] \ {cur[s]} /\ owned'[s] = owned[s] \ {cur[s]}
    BY <1>1, <1>2 DEF Finish, Put, TypeOK
  <2>2. QED
    BY <1>1, <1>2, <2>1
<1>3. CASE cur[s] \in occupied
  <2>1. /\ bound'[s] = bound[s]
        /\ owned'[s] = IF "binding" \in mine[s] THEN owned[s] \cup {cur[s]} ELSE owned[s]
    BY <1>3 DEF Finish, Put, TypeOK
  <2>2. QED
    BY <1>1, <1>3, <2>1
<1>4. QED
  BY <1>2, <1>3

LEMMA DriveEndsInv ==
  ASSUME TypeOK, NEW s \in Servers, ServerInv(s), at[s] = "drive",
         NEW occupied, NEW ok, DriveEnds(s, occupied, ok),
         occupied \ {cur[s]} = active[s] \ {cur[s]}, active'[s] = occupied,
         Cardinality(occupied) <= Capacity,
         queued'[s] \subseteq Range(queue'[s]), queued'[s] \subseteq occupied,
         failures' = 0 => occupied \ queued'[s] \subseteq Taken(s),
         up'[s] = up[s]
  PROVE  ServerInv(s)'
<1> USE DEF Holding
<1>1. bound'[s] = occupied /\ owned'[s] = occupied
  BY FinishBinds DEF DriveEnds, ServerInv
<1>2. /\ by[s] \in {"drain"} \cup Commands \cup Sweeps /\ cur[s] \in Runs
      /\ count[s] < Capacity /\ up[s]
  BY DEF TypeOK, ServerInv, ControlInv
<1>3. CASE by[s] \in Commands
  <2>1. Unlock(s) /\ Taken(s) = {}
    BY <1>3 DEF DriveEnds, Taken, Commands, Sweeps
  <2>2. at'[s] = "free" /\ by'[s] = None /\ count'[s] = 0
    BY <2>1 DEF Unlock, Goto, Put, TypeOK
  <2>3. QED
    BY <1>1, <2>1, <2>2, RunDriveAssumption
       DEF ServerInv, ControlInv, DrainInv, BindingInv, QueueInv, Taken, None
<1>4. CASE by[s] = "drain"
  <2>1. at'[s] = "next_run" /\ by'[s] = "drain" /\ count'[s] = count[s] /\ todo'[s] = todo[s]
    BY <1>4 DEF DriveEnds, LookOn, Goto, Put, TypeOK, Commands, Sweeps
  <2>2. Range(todo[s]) \subseteq occupied
    BY <1>4 DEF ServerInv, DrainInv
  <2>3. QED
    BY <1>1, <1>2, <1>4, <2>1, <2>2 DEF ServerInv, ControlInv, DrainInv, BindingInv, QueueInv, Taken
<1>5. CASE by[s] \in Sweeps
  <2>1. /\ at'[s] \in {"next_watch", "settle"} /\ by'[s] = by[s] /\ count'[s] = count[s]
        /\ at'[s] = "settle" => cur'[s] = cur[s]
    BY <1>5 DEF DriveEnds, LookOn, Goto, Put, TypeOK, Commands, Sweeps, work
  <2>2. QED
    BY <1>1, <1>2, <1>5, <2>1
       DEF ServerInv, ControlInv, DrainInv, BindingInv, QueueInv, Taken, Sweeps
<1>6. QED
  BY <1>2, <1>3, <1>4, <1>5

LEMMA HeadTail ==
  ASSUME NEW w \in Seq(Runs), w # <<>>, \A i, j \in DOMAIN w : w[i] = w[j] => i = j
  PROVE  /\ Range(w) = Range(Tail(w)) \cup {Head(w)}
         /\ Head(w) \notin Range(Tail(w))
         /\ \A i, j \in DOMAIN Tail(w) : Tail(w)[i] = Tail(w)[j] => i = j
<1>1. /\ Tail(w) \in Seq(Runs) /\ DOMAIN w = 1 .. Len(w) /\ Len(w) \in Nat \ {0}
      /\ DOMAIN Tail(w) = 1 .. Len(w) - 1 /\ Head(w) = w[1]
      /\ \A i \in 1 .. Len(w) - 1 : Tail(w)[i] = w[i + 1]
  OBVIOUS
<1>2. Head(w) \notin Range(Tail(w))
  <2> SUFFICES ASSUME NEW i \in DOMAIN Tail(w), Tail(w)[i] = Head(w) PROVE FALSE
    BY DEF Range
  <2>1. w[i + 1] = w[1] /\ i + 1 \in DOMAIN w /\ 1 \in DOMAIN w /\ i + 1 # 1
    BY <1>1
  <2>2. QED
    BY <2>1
<1>3. Range(w) = Range(Tail(w)) \cup {Head(w)}
  <2>1. ASSUME NEW r \in Range(w) PROVE r \in Range(Tail(w)) \cup {Head(w)}
    <3>1. PICK i \in DOMAIN w : w[i] = r
      BY DEF Range
    <3>2. CASE i = 1
      BY <1>1, <3>1, <3>2
    <3>3. CASE i # 1
      <4>1. i - 1 \in DOMAIN Tail(w) /\ Tail(w)[i - 1] = r
        BY <1>1, <3>1, <3>3
      <4>2. QED
        BY <4>1 DEF Range
    <3>4. QED
      BY <3>2, <3>3
  <2>2. ASSUME NEW r \in Range(Tail(w)) PROVE r \in Range(w)
    <3>1. PICK i \in DOMAIN Tail(w) : Tail(w)[i] = r
      BY DEF Range
    <3>2. i + 1 \in DOMAIN w /\ w[i + 1] = r
      BY <1>1, <3>1
    <3>3. QED
      BY <3>2 DEF Range
  <2>3. Head(w) \in Range(w)
    <3>1. 1 \in DOMAIN w /\ w[1] = Head(w)
      BY <1>1
    <3>2. QED
      BY <3>1 DEF Range
  <2>4. QED
    BY <2>1, <2>2, <2>3
<1>4. \A i, j \in DOMAIN Tail(w) : Tail(w)[i] = Tail(w)[j] => i = j
  <2> SUFFICES ASSUME NEW i \in DOMAIN Tail(w), NEW j \in DOMAIN Tail(w),
                      Tail(w)[i] = Tail(w)[j]
               PROVE  i = j
    OBVIOUS
  <2>1. w[i + 1] = w[j + 1] /\ i + 1 \in DOMAIN w /\ j + 1 \in DOMAIN w /\ i \in Int /\ j \in Int
    BY <1>1
  <2>2. i + 1 = j + 1
    BY <2>1
  <2>3. QED
    BY <2>1, <2>2
<1>5. QED
  BY <1>2, <1>3, <1>4

LEMMA HolderInv ==
  ASSUME TypeOK, NEW s \in Servers, ServerInv(s), Holder(s)
  PROVE  ServerInv(s)'
<1> USE RunDriveAssumption DEF Put, Goto, None, Holding, Sweeps, Commands
<1>1. CASE StartWithoutSlot(s)
  <2>1. cur[s] \notin active[s] /\ by[s] = "start"
    BY <1>1 DEF StartWithoutSlot, Available, ServerInv, ControlInv
  <2>2. bound'[s] = active[s] /\ owned'[s] = active[s]
    BY <1>1, FinishBinds DEF StartWithoutSlot, ServerInv
  <2>3. at'[s] = "free" /\ by'[s] = None /\ count'[s] = 0
    BY <1>1 DEF StartWithoutSlot, Unlock, TypeOK
  <2>4. QED
    BY <1>1, <2>1, <2>2, <2>3
       DEF StartWithoutSlot, slots, bounds, ServerInv, ControlInv, DrainInv, BindingInv, QueueInv, Taken
<1>2. CASE StartGraph(s)
  <2>1. cur[s] \in Runs /\ by[s] = "start" /\ count[s] < Capacity
    BY <1>2 DEF StartGraph, ServerInv, ControlInv
  <2>2. at'[s] = "drive" /\ active'[s] = active[s] \cup {cur[s]}
    BY <1>2 DEF StartGraph, TypeOK
  <2>3. Cardinality(active'[s]) <= Capacity
    BY <1>2, <2>1, <2>2, SlotTaken DEF StartGraph, ServerInv
  <2>4. /\ at[s] = "start"
        /\ UNCHANGED <<up, queued, queue, bound, owned, by, cur, todo, mine, count, failures>>
    BY <1>2 DEF StartGraph, binds, work, bounds
  <2>5. ControlInv(s)' /\ DrainInv(s)'
    BY <2>1, <2>2, <2>4 DEF ServerInv, ControlInv, DrainInv
  <2>6. BindingInv(s)'
    BY <2>1, <2>2, <2>4 DEF ServerInv, BindingInv
  <2>7. QueueInv(s)'
    BY <2>1, <2>2, <2>3, <2>4 DEF ServerInv, QueueInv, Taken
  <2>8. QED
    BY <2>5, <2>6, <2>7 DEF ServerInv
<1>3. CASE DecideSettled(s)
  <2>1. /\ active'[s] = active[s] \ {cur[s]} /\ queued'[s] = queued[s] \ {cur[s]}
        /\ queue' = queue /\ up' = up /\ failures' = failures /\ at[s] = "drive"
    BY <1>3 DEF DecideSettled, Driving, Deactivate, TypeOK, bounds
  <2>2. Cardinality(active[s] \ {cur[s]}) <= Capacity
    BY SlotGivenBack DEF ServerInv
  <2>3. /\ queued'[s] \subseteq Range(queue'[s]) /\ queued'[s] \subseteq active[s] \ {cur[s]}
        /\ failures' = 0 => (active[s] \ {cur[s]}) \ queued'[s] \subseteq Taken(s)
    BY <2>1 DEF ServerInv, QueueInv
  <2>4. DriveEnds(s, active[s] \ {cur[s]}, "accepted" \in mine[s])
    BY <1>3 DEF DecideSettled
  <2>5. QED
    BY <2>1, <2>2, <2>3, <2>4, DriveEndsInv
<1>4. CASE DecideNoSlot(s)
  <2>1. /\ active' = active /\ queued' = queued /\ queue' = queue /\ up' = up
        /\ failures' = failures /\ at[s] = "drive" /\ cur[s] \notin active[s]
    BY <1>4 DEF DecideNoSlot, Driving, Available, slots, bounds
  <2>2. /\ queued'[s] \subseteq Range(queue'[s]) /\ queued'[s] \subseteq active[s]
        /\ failures' = 0 => active[s] \ queued'[s] \subseteq Taken(s)
        /\ Cardinality(active[s]) <= Capacity
    BY <2>1 DEF ServerInv, QueueInv
  <2>3. DriveEnds(s, active[s], "accepted" \in mine[s])
    BY <1>4 DEF DecideNoSlot
  <2>4. QED
    BY <2>1, <2>2, <2>3, DriveEndsInv
<1>5. CASE DecideRunning(s)
  <2>1. cur[s] \in Runs /\ at[s] = "drive" /\ up' = up /\ failures' = failures
    BY <1>5 DEF DecideRunning, Driving, ServerInv, ControlInv, bounds
  <2>2. /\ active'[s] = active[s] \cup {cur[s]} /\ queued'[s] = queued[s] \cup {cur[s]}
        /\ queued'[s] \subseteq Range(queue'[s]) /\ queued'[s] \subseteq active'[s]
        /\ Cardinality(active'[s]) <= Capacity
    BY <1>5, <2>1, ActivateQueues DEF DecideRunning, ServerInv
  <2>3. failures' = 0 => (active[s] \cup {cur[s]}) \ queued'[s] \subseteq Taken(s)
    BY <2>1, <2>2 DEF ServerInv, QueueInv
  <2>4. DriveEnds(s, active[s] \cup {cur[s]}, TRUE)
    BY <1>5 DEF DecideRunning
  <2>5. QED
    BY <2>1, <2>2, <2>3, <2>4, DriveEndsInv
<1>6. CASE DecideOn(s)
  <2>1. cur[s] \in Runs /\ at[s] = "drive"
    BY <1>6 DEF DecideOn, Driving, ServerInv, ControlInv
  <2>2. /\ active'[s] = active[s] \cup {cur[s]} /\ queued'[s] = queued[s] \cup {cur[s]}
        /\ queued'[s] \subseteq Range(queue'[s]) /\ queued'[s] \subseteq active'[s]
        /\ Cardinality(active'[s]) <= Capacity
    BY <1>6, <2>1, ActivateQueues DEF DecideOn, ServerInv
  <2>3. "binding" \in mine'[s] <=> "binding" \in mine[s]
    BY <1>6 DEF DecideOn, TypeOK
  <2>4. UNCHANGED <<up, at, by, cur, todo, count, bound, owned, failures>>
    BY <1>6 DEF DecideOn, binds, bounds
  <2>5. ControlInv(s)' /\ DrainInv(s)'
    BY <2>1, <2>2, <2>4 DEF ServerInv, ControlInv, DrainInv
  <2>6. BindingInv(s)'
    BY <2>1, <2>2, <2>3, <2>4 DEF ServerInv, BindingInv
  <2>7. QueueInv(s)'
    BY <2>1, <2>2, <2>4 DEF ServerInv, QueueInv, Taken
  <2>8. QED
    BY <2>5, <2>6, <2>7 DEF ServerInv
<1>7. CASE NextRun(s)
  <2> DEFINE r == Head(todo[s])
  <2>1. /\ by[s] = "drain" /\ r \in Runs /\ up[s] /\ count[s] < Capacity
        /\ todo[s] \in Seq(Runs) /\ todo[s] # <<>>
    BY <1>7 DEF NextRun, ServerInv, ControlInv, TypeOK
  <2>2. /\ Range(Tail(todo[s])) \subseteq Range(todo[s]) /\ r \in Range(todo[s])
        /\ r \notin Range(Tail(todo[s]))
        /\ Range(todo[s]) = Range(Tail(todo[s])) \cup {r}
        /\ \A i, j \in DOMAIN Tail(todo[s]) : Tail(todo[s])[i] = Tail(todo[s])[j] => i = j
    BY <2>1, HeadTail DEF ServerInv, DrainInv
  <2>3. /\ at'[s] = "drive" /\ cur'[s] = r /\ mine'[s] = {} /\ todo'[s] = Tail(todo[s])
        /\ bound'[s] = bound[s] \cup {r}
        /\ UNCHANGED <<up, active, queued, queue, owned, by, count, failures>>
    BY <1>7 DEF NextRun, Bind, slots, bounds, TypeOK
  <2>4. r \in active[s] /\ bound[s] = active[s] /\ owned[s] = active[s]
    BY <1>7, <2>1, <2>2 DEF NextRun, ServerInv, DrainInv, BindingInv
  <2>5. ControlInv(s)' /\ DrainInv(s)'
    BY <2>1, <2>2, <2>3 DEF ServerInv, ControlInv, DrainInv
  <2>6. BindingInv(s)'
    BY <2>3, <2>4 DEF BindingInv
  <2>7. QueueInv(s)'
    BY <1>7, <2>1, <2>2, <2>3 DEF NextRun, ServerInv, QueueInv, Taken
  <2>8. QED
    BY <2>5, <2>6, <2>7 DEF ServerInv
<1>8. CASE Drained(s)
  <2>1. at'[s] = "free" /\ by'[s] = None /\ count'[s] = 0
    BY <1>8 DEF Drained, Unlock, TypeOK
  <2>2. Taken(s) = {}
    BY <1>8 DEF Drained, Taken, Range
  <2>3. QED
    BY <1>8, <2>1, <2>2
       DEF Drained, slots, binds, bounds, ServerInv, ControlInv, DrainInv, BindingInv, QueueInv, Taken
<1>9. CASE WatchStarts(s)
  <2>1. UNCHANGED <<up, active, queued, queue, bound, owned, at, by, cur, todo, mine, count, failures>>
        /\ at[s] = "next_watch"
    BY <1>9 DEF WatchStarts, slots, binds, work, bounds
  <2>2. QED
    BY <2>1 DEF ServerInv, ControlInv, DrainInv, BindingInv, QueueInv, Taken
<1>10. CASE WatchDrives(s)
  <2> DEFINE r == Head(todo[s])
  <2>1. r \in Runs /\ by[s] \in Sweeps /\ up[s] /\ at[s] = "next_watch" /\ count[s] < Capacity
    BY <1>10 DEF WatchDrives, ServerInv, ControlInv, TypeOK
  <2>2. /\ at'[s] = "drive" /\ cur'[s] = r /\ bound'[s] = bound[s] \cup {r}
        /\ mine'[s] = IF r \in bound[s] THEN {} ELSE {"binding"}
        /\ UNCHANGED <<up, active, queued, queue, owned, by, count, failures>>
    BY <1>10 DEF WatchDrives, Bind, slots, bounds, TypeOK
  <2>3. bound[s] = active[s] /\ owned[s] = active[s]
    BY <2>1 DEF ServerInv, BindingInv
  <2>4. BindingInv(s)'
    BY <2>2, <2>3 DEF BindingInv
  <2>5. QED
    BY <2>1, <2>2, <2>4 DEF ServerInv, ControlInv, DrainInv, QueueInv, Taken
<1>11. CASE WatchIsDone(s)
  <2>1. /\ by[s] \in Sweeps /\ up[s] /\ at[s] = "next_watch" /\ Head(todo[s]) \in Runs
        /\ at'[s] = "ack" /\ cur'[s] = Head(todo[s]) /\ graph'[cur'[s]] = "done"
        /\ UNCHANGED <<up, active, queued, queue, bound, owned, by, mine, count, failures>>
    BY <1>11 DEF WatchIsDone, ServerInv, ControlInv, TypeOK, durable, slots, binds, bounds
  <2>2. QED
    BY <2>1 DEF ServerInv, ControlInv, DrainInv, BindingInv, QueueInv, Taken
<1>12. CASE Settle(s)
  <2>1. /\ by[s] \in Sweeps /\ up[s] /\ at[s] = "settle" /\ cur[s] \in Runs
        /\ at'[s] = IF graph[cur[s]] = "done" THEN "ack" ELSE "next_watch"
        /\ graph[cur[s]] = "done" => cur'[s] = cur[s]
        /\ UNCHANGED <<graph, up, active, queued, queue, bound, owned, by, failures>>
    BY <1>12 DEF Settle, ServerInv, ControlInv, TypeOK, durable, slots, binds, bounds
  <2>2. QED
    BY <2>1 DEF ServerInv, ControlInv, DrainInv, BindingInv, QueueInv, Taken
<1>13. CASE Acknowledge(s)
  <2>1. /\ by[s] \in Sweeps /\ up[s] /\ at[s] = "ack" /\ at'[s] = "next_watch"
        /\ UNCHANGED <<up, active, queued, queue, bound, owned, by, failures>>
    BY <1>13 DEF Acknowledge, LookOn, ServerInv, ControlInv, TypeOK, slots, binds, bounds
  <2>2. QED
    BY <2>1 DEF ServerInv, ControlInv, DrainInv, BindingInv, QueueInv, Taken
<1>14. CASE Swept(s)
  <2>1. /\ at[s] = "next_watch" /\ by[s] \in Sweeps /\ at'[s] = "free" /\ by'[s] = None /\ count'[s] = 0
        /\ UNCHANGED <<up, active, queued, queue, bound, owned, failures>>
    BY <1>14 DEF Swept, Unlock, ServerInv, ControlInv, TypeOK, slots, binds, bounds
  <2>2. QED
    BY <2>1 DEF ServerInv, ControlInv, DrainInv, BindingInv, QueueInv, Taken
<1>15. CASE DecideMixed(s)
  <2>1. /\ active'[s] = active[s] \ {cur[s]} /\ queued'[s] = queued[s] \ {cur[s]}
        /\ queue' = queue /\ up' = up /\ failures' = failures /\ at[s] = "drive"
    BY <1>15 DEF DecideMixed, Driving, Deactivate, TypeOK, bounds
  <2>2. Cardinality(active[s] \ {cur[s]}) <= Capacity
    BY SlotGivenBack DEF ServerInv
  <2>3. /\ queued'[s] \subseteq Range(queue'[s]) /\ queued'[s] \subseteq active[s] \ {cur[s]}
        /\ failures' = 0 => (active[s] \ {cur[s]}) \ queued'[s] \subseteq Taken(s)
    BY <2>1 DEF ServerInv, QueueInv
  <2>4. DriveEnds(s, active[s] \ {cur[s]}, TRUE)
    BY <1>15 DEF DecideMixed
  <2>5. QED
    BY <2>1, <2>2, <2>3, <2>4, DriveEndsInv
<1>16. CASE WatchSkips(s)
  <2>1. /\ by[s] \in Sweeps /\ at[s] = "next_watch" /\ at' = at
        /\ UNCHANGED <<up, active, queued, queue, bound, owned, by, cur, mine, count, failures>>
    BY <1>16 DEF WatchSkips, ServerInv, ControlInv, TypeOK, durable, slots, binds, bounds
  <2>2. QED
    BY <2>1 DEF ServerInv, ControlInv, DrainInv, BindingInv, QueueInv, Taken
<1>17. QED
  BY <1>1, <1>2, <1>3, <1>4, <1>5, <1>6, <1>7, <1>8, <1>9, <1>10, <1>11,
     <1>12, <1>13, <1>14, <1>15, <1>16 DEF Holder

(* The order of the drain: every marked run once. *)
LEMMA OrderedOnce ==
  ASSUME NEW S \in SUBSET Runs, NEW rank \in [S -> Int], NEW w \in Ordered(S, rank)
  PROVE  Range(w) = S /\ \A i, j \in DOMAIN w : w[i] = w[j] => i = j
<1> DEFINE n == Cardinality(S)
<1>1. IsFiniteSet(S) /\ n \in Nat
  BY FS_Subset, FS_CardinalityType, RunDriveAssumption
<1>2. w \in [1 .. n -> S] /\ \A i, j \in 1 .. n : i < j => rank[w[i]] < rank[w[j]]
  BY DEF Ordered
<1>3. \A i, j \in 1 .. n : w[i] = w[j] => i = j
  <2> SUFFICES ASSUME NEW i \in 1 .. n, NEW j \in 1 .. n, w[i] = w[j], i < j PROVE FALSE
    BY <1>1
  <2>1. rank[w[i]] < rank[w[j]] /\ rank[w[i]] \in Int
    BY <1>2
  <2>2. QED
    BY <2>1
<1>4. w \in Injection(1 .. n, S)
  BY <1>2, <1>3 DEF Injection, IsInjective
<1>5. Cardinality(1 .. n) = n
  BY <1>1, FS_Interval
<1>6. w \in Surjection(1 .. n, S)
  BY <1>1, <1>4, <1>5, FS_Injection
<1>7. QED
  BY <1>2, <1>3, <1>6 DEF Surjection, Range

LEMMA FirstEntries ==
  ASSUME TypeOK, NEW s \in Servers
  PROVE  FirstEntry(s) \in [Marked(s) -> Int]
<1> SUFFICES ASSUME NEW r \in Marked(s) PROVE FirstEntry(s)[r] \in Int
  BY DEF FirstEntry
<1> DEFINE T == {i \in DOMAIN queue[s] : queue[s][i] = r}
<1>1. T # {} /\ T \subseteq Nat /\ DOMAIN queue[s] = 1 .. Len(queue[s]) /\ Len(queue[s]) \in Nat
  BY DEF Marked, Range, TypeOK
<1>2. PICK i \in T : \A j \in T : ~ (<<j, i>> \in OpToRel(<, Nat))
  BY <1>1, NatLessThanWellFounded, WFMin
<1>3. \A j \in T : ~ (j < i)
  BY <1>1, <1>2 DEF OpToRel
<1>4. i \in DOMAIN queue[s] /\ queue[s][i] = r /\ \A j \in 1 .. i - 1 : queue[s][j] # r
  BY <1>1, <1>3
<1>5. FirstEntry(s)[r] \in DOMAIN queue[s]
  BY <1>4 DEF FirstEntry
<1>6. QED
  BY <1>1, <1>5

LEMMA PumpInv ==
  ASSUME TypeOK, NEW s \in Servers, ServerInv(s), Pump(s)
  PROVE  ServerInv(s)'
<1> USE DEF Put, Goto, None, Holding, Sweeps
<1>1. CASE PumpWaits(s)
  <2>1. UNCHANGED <<graph, up, active, queued, queue, bound, owned, at, by, cur, todo, mine, count, failures>>
    BY <1>1 DEF PumpWaits, durable, slots, binds, work, bounds
  <2>2. QED
    BY <2>1 DEF ServerInv, ControlInv, DrainInv, BindingInv, QueueInv, Taken
<1>2. CASE Drain(s)
  <2>1. /\ up[s] /\ at[s] = "free" /\ by[s] = "none" /\ count[s] < Capacity
        /\ bound[s] = active[s] /\ owned[s] = active[s]
    BY <1>2 DEF Drain, Free, ServerInv, ControlInv, BindingInv
  <2>2. Marked(s) = queued[s] /\ Marked(s) \in SUBSET Runs
    BY DEF Marked, ServerInv, QueueInv, TypeOK
  <2>3. PICK w \in Ordered(Marked(s), FirstEntry(s)) : todo' = Put(todo, s, w)
    BY <1>2 DEF Drain
  <2>4. Range(w) = Marked(s) /\ \A i, j \in DOMAIN w : w[i] = w[j] => i = j
    BY <2>2, FirstEntries, OrderedOnce
  <2>5. /\ todo'[s] = w /\ queued'[s] = {} /\ at'[s] = "next_run" /\ by'[s] = "drain"
        /\ UNCHANGED <<up, active, bound, owned, count, failures>>
    BY <1>2, <2>2, <2>3 DEF Drain, binds, bounds, TypeOK
  <2>6. ControlInv(s)' /\ BindingInv(s)'
    BY <2>1, <2>5 DEF ControlInv, BindingInv
  <2>7. DrainInv(s)'
    BY <2>2, <2>4, <2>5 DEF ServerInv, QueueInv, DrainInv
  <2>8. QueueInv(s)'
    BY <2>1, <2>2, <2>4, <2>5 DEF ServerInv, QueueInv, Taken
  <2>9. QED
    BY <2>6, <2>7, <2>8 DEF ServerInv
<1>3. CASE Sweep(s)
  <2>1. /\ up[s] /\ at[s] = "free" /\ by[s] = "none" /\ at'[s] = "next_watch" /\ by'[s] = "sweep"
        /\ UNCHANGED <<up, active, queued, queue, bound, owned, failures>>
    BY <1>3 DEF Sweep, BeginSweep, Free, ServerInv, ControlInv, TypeOK, slots, binds, bounds
  <2>2. QED
    BY <2>1 DEF ServerInv, ControlInv, DrainInv, BindingInv, QueueInv, Taken
<1>4. QED
  BY <1>1, <1>2, <1>3 DEF Pump

LEMMA CommandInv ==
  ASSUME TypeOK, NEW s \in Servers, ServerInv(s), Command(s)
  PROVE  ServerInv(s)'
<1> USE DEF Put, Goto, None, Holding, Sweeps, Commands
<1>1. CASE Open(s) \/ Recover(s)
  <2>1. at[s] = "free" /\ by[s] = "none"
    BY <1>1 DEF Open, Recover, Free, ServerInv, ControlInv
  <2>2. /\ up'[s] /\ at'[s] = "next_watch" /\ by'[s] \in {"open", "recover"}
        /\ UNCHANGED <<active, queued, queue, bound, owned, failures>>
    BY <1>1 DEF Open, Recover, Free, BeginSweep, TypeOK, slots, binds, bounds
  <2>3. QED
    BY <2>1, <2>2 DEF ServerInv, ControlInv, DrainInv, BindingInv, QueueInv, Taken
<1>2. ASSUME NEW r \in Runs, Park(s, r) PROVE ServerInv(s)'
  <2>1. /\ up[s] /\ at[s] = "free"
        /\ UNCHANGED <<up, active, queued, queue, bound, owned, at, by, cur, todo, mine, count, failures>>
    BY <1>2 DEF Park, Free, slots, binds, work, bounds
  <2>2. QED
    BY <2>1 DEF ServerInv, ControlInv, DrainInv, BindingInv, QueueInv, Taken
<1>3. ASSUME NEW r \in Runs, Start(s, r) \/ Submit(s, r) PROVE ServerInv(s)'
  <2>1. /\ up[s] /\ at[s] = "free" /\ by[s] = "none" /\ count[s] < Capacity
        /\ bound[s] = active[s] /\ owned[s] = active[s]
    BY <1>3 DEF Start, Submit, Free, ServerInv, ControlInv, BindingInv
  <2>2. /\ \/ at'[s] = "start" /\ by'[s] = "start"
           \/ at'[s] = "drive" /\ by'[s] = "submit"
        /\ cur'[s] = r /\ bound'[s] = bound[s] \cup {r}
        /\ mine'[s] = IF r \in bound[s] THEN {} ELSE {"binding"}
        /\ UNCHANGED <<up, active, queued, queue, owned, count, failures>>
    BY <1>3 DEF Start, Submit, Take, Bind, TypeOK, slots, bounds
  <2>3. BindingInv(s)'
    BY <2>1, <2>2 DEF BindingInv
  <2>4. ControlInv(s)' /\ DrainInv(s)'
    BY <2>1, <2>2 DEF ControlInv, DrainInv
  <2>5. QueueInv(s)'
    BY <2>1, <2>2 DEF ServerInv, QueueInv, Taken
  <2>6. QED
    BY <2>3, <2>4, <2>5 DEF ServerInv
<1>4. QED
  BY <1>1, <1>2, <1>3 DEF Command

LEMMA FaultInv ==
  ASSUME TypeOK, NEW s \in Servers, ServerInv(s), DriveRaises(s) \/ OpenRaises(s) \/ Crash(s)
  PROVE  ServerInv(s)'
<1> USE RunDriveAssumption DEF Put, Goto, None, Holding, Sweeps, Commands
<1>1. CASE DriveRaises(s)
  <2> DEFINE r == cur[s]
             back == \/ by[s] \in Sweeps /\ ("slot" \in mine[s] \/ r \notin active[s])
                     \/ by[s] = "start" /\ r \notin queued[s]
             kept == IF back THEN active[s] \ {r} ELSE active[s] \cup {r}
  <2>1. /\ r \in Runs /\ at[s] = "drive" /\ Available(s, r) /\ up[s] /\ count[s] < Capacity
        /\ by[s] \in {"drain"} \cup Commands \cup Sweeps
    BY <1>1 DEF DriveRaises, Driving, ServerInv, ControlInv, TypeOK
  <2>2. /\ active'[s] = kept /\ queued'[s] = IF back THEN queued[s] \ {r} ELSE queued[s]
        /\ queue' = queue /\ up' = up /\ failures' # 0 /\ Finish(s, r, kept)
    BY <1>1 DEF DriveRaises, TypeOK
  <2>3. bound'[s] = kept /\ owned'[s] = kept
    BY <2>1, <2>2, FinishBinds DEF ServerInv
  <2>4. Cardinality(kept) <= Capacity
    BY <2>1, SlotTaken, SlotGivenBack DEF ServerInv
  <2>5. QueueInv(s)'
    BY <2>2, <2>4 DEF ServerInv, QueueInv
  <2>6. \/ at'[s] = "free" /\ by'[s] = "none" /\ count'[s] = 0
        \/ at'[s] = "next_watch" /\ by'[s] = by[s] /\ by[s] \in Sweeps
    BY <1>1 DEF DriveRaises, Unlock, LookOn, TypeOK
  <2>7. ControlInv(s)' /\ DrainInv(s)'
    BY <2>1, <2>2, <2>6 DEF ControlInv, DrainInv
  <2>8. BindingInv(s)'
    BY <2>2, <2>3, <2>6 DEF BindingInv
  <2>9. QED
    BY <2>5, <2>7, <2>8 DEF ServerInv
<1>2. CASE OpenRaises(s) \/ Crash(s)
  <2>1. /\ ~up'[s] /\ at'[s] = "free" /\ by'[s] = "none" /\ count'[s] = 0
        /\ active'[s] = {} /\ queued'[s] = {} /\ bound'[s] = {} /\ owned'[s] = {}
    BY <1>2 DEF OpenRaises, Crash, Forget, Unlock, TypeOK
  <2>2. Cardinality({}) = 0
    BY FS_EmptySet
  <2>3. QED
    BY <2>1, <2>2 DEF ServerInv, ControlInv, DrainInv, BindingInv, QueueInv, Taken
<1>3. QED
  BY <1>1, <1>2

-----------------------------------------------------------------------------
(* The invariant *)

LEMMA InitIInv == Init => IInv
<1> SUFFICES ASSUME Init PROVE IInv
  OBVIOUS
<1> USE RunDriveAssumption DEF Init, None
<1>1. TypeOK
  BY FS_CardinalityType DEF TypeOK, Stages, Waiting
<1>2. UnfinishedIsWatched
  BY DEF UnfinishedIsWatched
<1>3. ASSUME NEW s \in Servers PROVE ServerInv(s)
  BY FS_EmptySet DEF ServerInv, ControlInv, DrainInv, BindingInv, QueueInv, Taken, Holding
<1>4. QED
  BY <1>1, <1>2, <1>3 DEF IInv

LEMMA StepIInv == IInv /\ [Next]_vars => IInv'
<1> SUFFICES ASSUME IInv, [Next]_vars PROVE IInv'
  OBVIOUS
<1>0. TypeOK /\ UnfinishedIsWatched /\ \A s \in Servers : ServerInv(s) /\ ControlInv(s)
  BY DEF IInv, ServerInv
<1>1. CASE UNCHANGED vars
  <2>1. TypeOK'
    BY <1>0, <1>1 DEF TypeOK, vars, durable, slots, binds, work, bounds
  <2>2. UnfinishedIsWatched'
    BY <1>0, <1>1 DEF UnfinishedIsWatched, vars, durable
  <2>3. ASSUME NEW t \in Servers PROVE ServerInv(t)'
    <3>1. SameServer(t) /\ DoneStays /\ failures' = failures
      BY <1>1 DEF SameServer, DoneStays, vars, durable, slots, binds, work, bounds
    <3>2. QED
      BY <1>0, <3>1, OthersKept
  <2>4. QED
    BY <2>1, <2>2, <2>3 DEF IInv
<1>2. CASE Next
  <2>1. UnfinishedIsWatched' /\ DoneStays
    BY <1>0, <1>2, StepWatched
  <2>2. ASSUME NEW s \in Servers, StepOf(s) PROVE TypeOK'
    <3>1. CASE Command(s)
      BY <1>0, <3>1, StepTypes, ServerTypes DEF Command
    <3>2. QED
      BY <1>0, <2>2, <3>1, HolderTypes, ServerTypes DEF StepOf
  <2>3. ASSUME NEW s \in Servers, StepOf(s), NEW t \in Servers PROVE ServerInv(t)'
    <3>1. CASE t = s
      BY <1>0, <2>3, <3>1, HolderInv, PumpInv, CommandInv, FaultInv DEF StepOf
    <3>2. CASE t # s
      <4>1. SameServer(t) /\ (failures' = 0 => failures = 0)
        BY <1>0, <2>3, <3>2, StepIsLocal
      <4>2. QED
        BY <1>0, <2>1, <4>1, OthersKept
    <3>3. QED
      BY <3>1, <3>2
  <2>4. ASSUME NEW r \in Runs, EndAttempt(r) PROVE TypeOK' /\ \A t \in Servers : ServerInv(t)'
    <3>1. TypeOK'
      BY <1>0, <2>4 DEF EndAttempt, TypeOK, Put, Stages, Waiting, slots, binds, work, bounds
    <3>2. ASSUME NEW t \in Servers PROVE ServerInv(t)'
      <4>1. SameServer(t) /\ failures' = failures
        BY <2>4 DEF EndAttempt, SameServer, slots, binds, work, bounds
      <4>2. QED
        BY <1>0, <2>1, <4>1, OthersKept
    <3>3. QED
      BY <3>1, <3>2
  <2>5. QED
    BY <1>2, <2>1, <2>2, <2>3, <2>4 DEF IInv, Next, StepOf
<1>3. QED
  BY <1>1, <1>2

(***************************************************************************)
(* Whoever holds the admission lock of a process, the slots, marks, queue  *)
(* and open native apps of that process agree up to the run in hand and    *)
(* the runs the drain took; and the watches are those of IInv.             *)
(***************************************************************************)
THEOREM RunDriveInvariant == Spec => []IInv
<1>1. QED
  BY InitIInv, StepIInv, PTL DEF Spec

(***************************************************************************)
(* The state of every process and of the store keeps its type.             *)
(***************************************************************************)
THEOREM RunDriveTypes == Spec => []TypeOK
<1>1. IInv => TypeOK
  BY DEF IInv
<1>2. QED
  BY <1>1, RunDriveInvariant, PTL

(***************************************************************************)
(* No run is forgotten: admission writes the watch with the run, and only  *)
(* a sweep that saw its graph done removes it, whoever else drives the run *)
(* and wherever a process dies.                                            *)
(***************************************************************************)
THEOREM NoRunIsForgotten == Spec => []UnfinishedIsWatched
<1>1. IInv => UnfinishedIsWatched
  BY DEF IInv
<1>2. QED
  BY <1>1, RunDriveInvariant, PTL

(***************************************************************************)
(* _active_effect_runs, the completion queue and the open native apps of a *)
(* process agree whenever its admission lock is free, and the slots never  *)
(* exceed _MAX_ACTIVE_EFFECT_RUNS.                                         *)
(***************************************************************************)
THEOREM EverySlotIsServed == Spec => []SlotsAreServed
<1>1. IInv => SlotsAreServed
  <2> SUFFICES ASSUME IInv, NEW s \in Servers
               PROVE  /\ Cardinality(active[s]) <= Capacity
                      /\ at[s] = "drive" => cur[s] \in bound[s]
                      /\ queued[s] \subseteq Range(queue[s]) /\ queued[s] \subseteq active[s]
                      /\ Free(s) => /\ bound[s] = active[s] /\ owned[s] = active[s]
                                    /\ failures = 0 => active[s] = queued[s]
    BY DEF SlotsAreServed
  <2>1. ServerInv(s)
    BY DEF IInv
  <2>2. QED
    BY <2>1 DEF ServerInv, ControlInv, BindingInv, QueueInv, Taken, Free, Holding, None
<1>2. QED
  BY <1>1, RunDriveInvariant, PTL
=============================================================================
