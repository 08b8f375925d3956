-------------------------- MODULE SharedStateProofs --------------------------
(***************************************************************************)
(* Proofs about what several processes keep in common files: the runtime   *)
(* database while its backfill is under way (Schema), for any number of    *)
(* processes, runs and pages, the bindings of the runs to sessions         *)
(* (Sessions), for any number of sessions, runs and steps of a recipe, and *)
(* the cross-process lock (FileLock), for any finite set of callers and    *)
(* any number of deaths, and the snapshots of the project that the         *)
(* branches of a parallel block bind (Lineage), for any branches, surfaces *)
(* and drives.                                                             *)
(***************************************************************************)
EXTENDS Schema, Sessions, FileLock, Lineage, FiniteSetTheorems, WellFoundedInduction, TLAPS

(***************************************************************************)
(* The database.  A run that is open and behind the cursor has a watch;    *)
(* one that is ahead of a process' cursor is in the page it has            *)
(* classified, was admitted with a watch since, or comes after the page.   *)
(* Until there is epoch 2, no watch is in the new table.                   *)
(***************************************************************************)
ProcessSteps == {"down", "transition", "store", "create", "up", "refused", "stopped"}

DatabaseInv ==
  /\ tables \in {Legacy} \cup SUBSET V2 /\ epoch \in BOOLEAN
  /\ catalog \subseteq RunIds /\ graph \in [RunIds -> Graphs]
  /\ old \subseteq catalog /\ watched \subseteq catalog /\ inputs \subseteq watched
  /\ tables = Legacy => watched = {}
  /\ after \in RunIds \cup {0} /\ completed \in {"no row", "running", "completed"}
  /\ fence \in Procs \cup {NoProc}
  /\ pc \in [Procs -> ProcessSteps] /\ missing \in [Procs -> SUBSET V2]
  /\ cached = [p \in Procs |-> cached[p]] /\ page = [p \in Procs |-> page[p]]
  /\ \A p \in Procs :
       /\ pc[p] \in {"store", "create", "up"} => tables # Legacy
       /\ page[p].runs \subseteq RunIds /\ page[p].open \subseteq page[p].runs \cap catalog
       /\ page[p].taken \in BOOLEAN /\ (page[p].taken => pc[p] = "up")
       /\ cached[p].after \in RunIds \cup {0}

Behind(r) == r <= after \/ completed = "completed"

Foreseen(p, r) ==
  \/ r \in watched \cup page[p].open
  \/ ~page[p].last /\ \A x \in page[p].runs : x < r

WatchInv ==
  \A r \in catalog : graph[r] = "open" =>
    /\ Behind(r) => r \in watched
    /\ \A p \in Procs : page[p].taken /\ cached[p].after < r => Foreseen(p, r)

SchemaInv == DatabaseInv /\ WatchInv /\ UnbegunHasInput

(***************************************************************************)
(* The sessions.  Who is in a lock, and what is known of the binding while *)
(* somebody is in it.                                                      *)
(***************************************************************************)
Phases == {"unregistered", "prepared", "sealed", "answered"}
Locked == {"select", "match", "commit", "drive"}
CallSteps == {"idle", "own"} \cup Locked
HookSteps == {"idle", "posttool", "touch", "write", "gate", "refresh"}

(* The binding is the one that was read, or has lapsed since.              *)
StillRead(b, read) ==
  \/ b = read
  \/ read # None /\ b # None /\ b.session = read.session /\ ~b.live

BindingInv ==
  /\ binding = [r \in Runs |-> binding[r]] /\ bindingLock = [r \in Runs |-> bindingLock[r]]
  /\ acted = [r \in Runs |-> acted[r]]
  /\ \A r \in Runs :
       /\ binding[r] \in {None} \cup [session : Sessions, live : BOOLEAN]
       /\ bindingLock[r] \in {None} \cup LockHolders
  /\ OnlyOwnerActs

HookInv ==
  /\ hook = [s \in Sessions |-> hook[s]]
  /\ \A s \in Sessions :
       /\ hook[s].at \in HookSteps
       /\ hook[s].at \in {"posttool", "touch", "write", "refresh"} => hook[s].run \in Runs
       /\ \A r \in Runs : bindingLock[r] = <<"hook", s>> <=>
                            hook[s].at = "write" /\ hook[s].run = r
       /\ hook[s].at = "write" => StillRead(binding[hook[s].run], hook[s].read)

CallInv ==
  /\ call = [s \in Sessions |-> call[s]]
  /\ \A s \in Sessions :
       /\ call[s] = [at |-> call[s].at, run |-> call[s].run, left |-> call[s].left,
                     read |-> call[s].read, step |-> call[s].step]
       /\ call[s].at \in CallSteps
       /\ call[s].at # "idle" => call[s].run \in Runs
       /\ \A r \in Runs : bindingLock[r] = <<"call", s>> <=>
                            call[s].at \in Locked /\ call[s].run = r
       /\ call[s].at \in Locked => IsOwner(s, binding[call[s].run])

RunsInv ==
  /\ position \in [Runs -> 0 .. Len(Steps) + 1]
  /\ phase \in [Runs -> [Items -> Phases]]
  /\ \A s \in Sessions : call[s].at \in {"match", "commit"} =>
       /\ Status(call[s].run) = "awaiting"
       /\ call[s].at = "commit" => call[s].step \in Pending(call[s].run)

SessionsInv == BindingInv /\ HookInv /\ CallInv /\ RunsInv

-----------------------------------------------------------------------------
(* Finite sets of numbers *)

LEMMA Greatest ==
  ASSUME NEW S \in SUBSET Nat, IsFiniteSet(S), S # {}
  PROVE  Max(S) \in S /\ \A x \in S : x <= Max(S)
<1> DEFINE above(x) == {y \in S : y > x}
           sizes == {Cardinality(above(x)) : x \in S}
<1>1. \A x \in S : IsFiniteSet(above(x)) /\ Cardinality(above(x)) \in Nat
  BY FS_Subset, FS_CardinalityType
<1>2. sizes \subseteq Nat /\ sizes # {}
  BY <1>1
<1>3. PICK n \in sizes : \A m \in sizes : ~(<<m, n>> \in OpToRel(<, Nat))
  <2> HIDE DEF sizes
  <2> QED
    BY <1>2, NatLessThanWellFounded, WFMin
<1>4. PICK x \in S : n = Cardinality(above(x))
  BY <1>3
<1>5. ASSUME NEW y \in S, y > x
      PROVE  FALSE
  <2>0. ~(y > y) /\ \A z \in S : z > y => z > x
    <3>1. S \subseteq Int /\ x \in Int /\ y \in Int
      OBVIOUS
    <3> QED
      BY <1>5, <3>1
  <2>1. above(y) \subseteq above(x) /\ y \in above(x) /\ y \notin above(y)
    BY <1>5, <2>0
  <2>2. Cardinality(above(y)) <= n /\ Cardinality(above(y)) # n
    BY <1>1, <1>4, <2>1, FS_Subset
  <2>3. Cardinality(above(y)) \in sizes
    OBVIOUS
  <2>4. Cardinality(above(y)) < n /\ Cardinality(above(y)) \in Nat /\ n \in Nat
    <3> HIDE DEF above
    <3> QED
      BY <1>1, <1>4, <2>2
  <2> QED
    BY <1>3, <2>3, <2>4 DEF OpToRel
<1>6. x \in S /\ \A y \in S : x >= y
  BY <1>5
<1>7. Max(S) \in S /\ \A y \in S : Max(S) >= y
  BY <1>6 DEF Max
<1> QED
  BY <1>7

(* The first of a set come before the others, and are all of it when it is *)
(* not larger.                                                              *)
LEMMA FirstComeFirst ==
  ASSUME NEW S \in SUBSET Nat, IsFiniteSet(S), NEW n \in Nat,
         NEW r \in S, r \notin First(S, n)
  PROVE  Cardinality(S) > n /\ \A x \in First(S, n) : x < r
<1> DEFINE below(x) == {y \in S : y < x}
<1>1. \A x \in S : IsFiniteSet(below(x)) /\ Cardinality(below(x)) \in Nat
  BY FS_Subset, FS_CardinalityType
<1>2. Cardinality(below(r)) >= n
  BY <1>1 DEF First
<1>3. Cardinality(S) > n
  <2>1. below(r) \subseteq S /\ r \notin below(r)
    OBVIOUS
  <2>2. Cardinality(below(r)) <= Cardinality(S) /\ Cardinality(below(r)) # Cardinality(S)
    BY <2>1, FS_Subset
  <2>3. Cardinality(S) \in Nat
    BY FS_CardinalityType
  <2> QED
    BY <1>1, <1>2, <2>2, <2>3
<1>4. ASSUME NEW x \in First(S, n)
      PROVE  x < r
  <2>1. x \in S /\ Cardinality(below(x)) < n
    BY DEF First
  <2>2. SUFFICES ASSUME x >= r
                 PROVE  FALSE
    BY <2>1
  <2>3. below(r) \subseteq below(x)
    <3>1. S \subseteq Int /\ x \in Int /\ r \in Int
      BY <2>1
    <3>2. \A z \in S : z < r => z < x
      BY <2>2, <3>1
    <3> QED
      BY <3>2
  <2>4. Cardinality(below(r)) <= Cardinality(below(x))
    BY <1>1, <2>1, <2>3, FS_Subset
  <2> QED
    BY <1>1, <1>2, <2>1, <2>4
<1> QED
  BY <1>3, <1>4

-----------------------------------------------------------------------------
(* The runtime database *)

LEMMA Numbers ==
  /\ RunIds \subseteq Nat /\ RunIds \cup {0} \subseteq Nat /\ 0 \notin RunIds
  /\ IsFiniteSet(RunIds) /\ PageSize \in Nat /\ \A r \in RunIds : 0 < r
<1>1. RunIds \subseteq Nat \ {0} /\ IsFiniteSet(RunIds) /\ PageSize \in Nat
  BY SchemaAssumption
<1>2. \A r \in Nat \ {0} : 0 < r
  OBVIOUS
<1> QED
  BY <1>1, <1>2

LEMMA Schemas ==
  /\ V2 # Legacy /\ {} # Legacy /\ V2 \in SUBSET V2 /\ {} \in SUBSET V2
  /\ \A S \in SUBSET V2 : S # Legacy
BY DEF V2, Legacy

LEMMA SchemaInitHolds ==
  ASSUME SchemaInit
  PROVE  SchemaInv
<1>1. DatabaseInv
  BY Schemas DEF SchemaInit, DatabaseInv, ProcessSteps, NoPage, Graphs
<1>2. WatchInv
  <2>1. \A r \in catalog : ~Behind(r)
    <3>1. after = 0 /\ completed # "completed" /\ catalog \subseteq RunIds
      BY DEF SchemaInit
    <3>2. \A r \in RunIds : r \in Nat /\ 0 < r
      BY Numbers
    <3> QED
      BY <3>1, <3>2 DEF Behind
  <2>2. \A p \in Procs : ~page[p].taken
    BY DEF SchemaInit, NoPage
  <2> QED
    BY <2>1, <2>2 DEF WatchInv
<1>3. UnbegunHasInput
  BY DEF SchemaInit, UnbegunHasInput, IsLegacy
<1> QED
  BY <1>1, <1>2, <1>3 DEF SchemaInv

(* Opening leaves runs, pages and cursors alone, and loses no watch.       *)
LEMMA WatchKept ==
  ASSUME WatchInv, UNCHANGED <<catalog, graph, row, cached, page>>, watched \subseteq watched'
  PROVE  WatchInv'
BY DEF WatchInv, Behind, Foreseen, row

LEMMA InputKept ==
  ASSUME UnbegunHasInput, UNCHANGED <<catalog, graph, old>>,
         watched \subseteq watched', inputs \subseteq inputs', IsLegacy' <=> IsLegacy
  PROVE  UnbegunHasInput'
BY DEF UnbegunHasInput, IsLegacy

LEMMA OpenKeeps ==
  ASSUME SchemaInv, NEW p \in Procs, Classify(p) \/ TakeFence(p) \/ Transition(p) \/ OpenStore(p)
  PROVE  SchemaInv'
<1> USE DEF file, rows, row, local
<1>0. DatabaseInv /\ WatchInv /\ UnbegunHasInput
  BY DEF SchemaInv
<1>1. /\ UNCHANGED <<catalog, graph, row, cached, page>>
      /\ \E step : pc' = [pc EXCEPT ![p] = step]
      /\ ~page[p].taken
  BY <1>0 DEF DatabaseInv, Classify, TakeFence, Transition, OpenStore, Goto
<1>2. /\ tables' \in {Legacy} \cup SUBSET V2 /\ epoch' \in BOOLEAN
      /\ fence' \in Procs \cup {NoProc} /\ pc' \in [Procs -> ProcessSteps]
      /\ missing' \in [Procs -> SUBSET V2]
  <2>1. /\ tables' \in {tables, V2} /\ epoch' \in {epoch, TRUE} /\ fence' \in {fence, p, NoProc}
    BY DEF Classify, TakeFence, Transition, OpenStore, CopyWatches
  <2>2. \E step \in ProcessSteps : pc' = [pc EXCEPT ![p] = step]
    BY DEF Classify, TakeFence, Transition, OpenStore, Goto, ProcessSteps
  <2>3. missing' = missing \/ missing' = [missing EXCEPT ![p] = V2 \ tables]
    BY DEF Classify, TakeFence, Transition, OpenStore
  <2>4. missing' \in [Procs -> SUBSET V2] /\ pc' \in [Procs -> ProcessSteps]
    BY <1>0, <2>2, <2>3 DEF DatabaseInv
  <2> QED
    BY <1>0, <2>1, <2>4, Schemas DEF DatabaseInv
<1>3. tables # Legacy => tables' # Legacy
  BY Schemas DEF Classify, TakeFence, Transition, OpenStore, IsLegacy, CopyWatches
<1>4. pc'[p] \in {"store", "create", "up"} => tables' # Legacy
  BY <1>0, Schemas DEF DatabaseInv, Classify, TakeFence, Transition, OpenStore, Goto, IsLegacy,
     IsV2, CopyWatches
<1>5. \A q \in Procs \ {p} : pc'[q] = pc[q]
  BY <1>0, <1>1 DEF DatabaseInv
<1>6. \/ /\ UNCHANGED rows /\ (IsLegacy' <=> IsLegacy)
      \/ /\ IsLegacy /\ ~IsLegacy' /\ watched' = old /\ inputs' = old /\ old' = {}
  BY Schemas DEF Classify, TakeFence, Transition, OpenStore, IsLegacy, CopyWatches
<1>7. /\ old' \subseteq catalog' /\ watched' \subseteq catalog' /\ inputs' \subseteq watched'
      /\ watched \subseteq watched' /\ (tables' = Legacy => watched' = {})
  BY <1>0, <1>1, <1>6 DEF DatabaseInv, IsLegacy, rows
<1>8. DatabaseInv'
  BY <1>0, <1>1, <1>2, <1>3, <1>4, <1>5, <1>7 DEF DatabaseInv
<1>9. UnbegunHasInput'
  <2>1. CASE UNCHANGED rows /\ (IsLegacy' <=> IsLegacy)
    BY <1>0, <1>1, <2>1, InputKept DEF rows
  <2>2. CASE IsLegacy /\ ~IsLegacy' /\ watched' = old /\ inputs' = old /\ old' = {}
    BY <1>0, <1>1, <2>2 DEF UnbegunHasInput
  <2> QED
    BY <1>6, <2>1, <2>2
<1> QED
  BY <1>0, <1>1, <1>7, <1>8, <1>9, WatchKept DEF SchemaInv

LEMMA CreateStageKeeps ==
  ASSUME SchemaInv, NEW p \in Procs, CreateStage(p)
  PROVE  SchemaInv'
<1> USE DEF file, rows, row, local
<1>0. DatabaseInv /\ WatchInv /\ UnbegunHasInput
  BY DEF SchemaInv
<1>1. /\ UNCHANGED <<catalog, graph, rows, row, cached, page, epoch, fence>>
      /\ pc[p] = "create" /\ ~page[p].taken /\ tables \in SUBSET V2
      /\ pc' = pc \/ pc' = [pc EXCEPT ![p] = "refused"]
  BY <1>0, Schemas DEF DatabaseInv, CreateStage, Goto
<1> DEFINE stages == {n \in 1 .. 3 : Stages[n] \in missing[p]}
           i == Min(stages)
<1>2. i \in 1 .. 3
  <2>1. missing[p] \subseteq V2 /\ missing[p] # {}
    BY <1>0 DEF DatabaseInv, CreateStage
  <2>2. stages # {} /\ stages \subseteq 1 .. 3
    BY <2>1 DEF Stages, V2
  <2>3. \E m \in stages : \A n \in stages : m <= n
    <3> HIDE DEF stages
    <3>0. \A n \in 1 .. 3 : n = 1 \/ n = 2 \/ n = 3
      OBVIOUS
    <3>1. CASE 1 \in stages
      BY <2>2, <3>1
    <3>2. CASE 1 \notin stages /\ 2 \in stages
      BY <2>2, <3>2
    <3>3. CASE 1 \notin stages /\ 2 \notin stages
      <4>1. stages = {3}
        BY <2>2, <3>0, <3>3
      <4> QED
        BY <4>1
    <3> QED
      BY <3>1, <3>2, <3>3
  <2>4. i \in stages
    BY <2>3 DEF Min
  <2> QED
    BY <2>4
<1>3. tables' \in SUBSET V2 /\ missing' \in [Procs -> SUBSET V2]
  <2>1. /\ tables' = tables \/ tables' = tables \cup {Stages[i]}
        /\ missing' = missing \/ missing' = [missing EXCEPT ![p] = missing[p] \ {Stages[i]}]
    BY DEF CreateStage
  <2>2. Stages[i] \in V2
    <3> HIDE DEF i
    <3> QED
      BY <1>2 DEF Stages, V2
  <2> QED
    BY <1>0, <1>1, <2>1, <2>2 DEF DatabaseInv
<1>4. pc' \in [Procs -> ProcessSteps] /\ \A q \in Procs \ {p} : pc'[q] = pc[q]
  BY <1>0, <1>1 DEF DatabaseInv, ProcessSteps
<1>5. tables' # Legacy
  BY <1>3, Schemas
<1>6. DatabaseInv'
  BY <1>0, <1>1, <1>3, <1>4, <1>5 DEF DatabaseInv
<1>7. UnbegunHasInput'
  BY <1>0, <1>1, <1>5, Schemas, InputKept DEF IsLegacy
<1> QED
  BY <1>0, <1>1, <1>6, <1>7, WatchKept DEF SchemaInv

LEMMA WriteEpochKeeps ==
  ASSUME SchemaInv, NEW p \in Procs, WriteEpoch(p)
  PROVE  SchemaInv'
<1> USE DEF file, rows, row, local
<1>0. DatabaseInv /\ WatchInv /\ UnbegunHasInput
  BY DEF SchemaInv
<1>1. /\ UNCHANGED <<tables, catalog, graph, rows, row, page, fence, missing>>
      /\ pc[p] = "create" /\ ~page[p].taken /\ epoch' = TRUE
      /\ pc' = [pc EXCEPT ![p] = "up"] /\ cached' = [cached EXCEPT ![p] = Row]
  BY <1>0 DEF DatabaseInv, WriteEpoch, Goto
<1>2. /\ pc' \in [Procs -> ProcessSteps] /\ pc'[p] = "up" /\ cached'[p] = Row
      /\ cached' = [q \in Procs |-> cached'[q]]
      /\ \A q \in Procs \ {p} : pc'[q] = pc[q] /\ cached'[q] = cached[q]
  BY <1>0, <1>1 DEF DatabaseInv, ProcessSteps
<1>3. DatabaseInv'
  BY <1>0, <1>1, <1>2 DEF DatabaseInv, Row
<1>4. WatchInv'
  BY <1>0, <1>1, <1>2 DEF WatchInv, Behind, Foreseen
<1>5. UnbegunHasInput'
  BY <1>0, <1>1, InputKept DEF IsLegacy
<1> QED
  BY <1>3, <1>4, <1>5 DEF SchemaInv

LEMMA RestartKeeps ==
  ASSUME SchemaInv, NEW p \in Procs, Restart(p)
  PROVE  SchemaInv'
<1> USE DEF file, rows, row, local
<1>0. DatabaseInv /\ WatchInv /\ UnbegunHasInput
  BY DEF SchemaInv
<1>1. /\ UNCHANGED <<tables, epoch, catalog, graph, rows, row, cached>>
      /\ fence' = (IF fence = p THEN NoProc ELSE fence)
      /\ pc' = [pc EXCEPT ![p] = "down"] /\ page' = [page EXCEPT ![p] = NoPage]
      /\ missing' = [missing EXCEPT ![p] = {}]
  BY DEF Restart, Goto
<1>2. /\ pc' \in [Procs -> ProcessSteps] /\ pc'[p] = "down" /\ page'[p] = NoPage
      /\ missing' \in [Procs -> SUBSET V2] /\ page' = [q \in Procs |-> page'[q]]
      /\ \A q \in Procs \ {p} : pc'[q] = pc[q] /\ page'[q] = page[q]
  BY <1>0, <1>1 DEF DatabaseInv, ProcessSteps
<1>3. DatabaseInv'
  BY <1>0, <1>1, <1>2 DEF DatabaseInv, NoPage
<1>4. WatchInv'
  BY <1>0, <1>1, <1>2 DEF WatchInv, Behind, Foreseen, NoPage
<1>5. UnbegunHasInput'
  BY <1>0, <1>1, InputKept DEF IsLegacy
<1> QED
  BY <1>3, <1>4, <1>5 DEF SchemaInv

(* A run that is admitted has its watch from the start.                    *)
LEMMA RunKeeps ==
  ASSUME SchemaInv, NEW p \in Procs, NEW r \in RunIds,
         Admit(p, r) \/ Begin(p, r) \/ Finish(p, r) \/ Acknowledge(p, r)
  PROVE  SchemaInv'
<1> USE DEF file, rows, row, local
<1>0. DatabaseInv /\ WatchInv /\ UnbegunHasInput
  BY DEF SchemaInv
<1>1. /\ UNCHANGED <<tables, epoch, row, fence, pc, missing, cached, page>>
      /\ catalog \subseteq catalog' /\ catalog' \subseteq RunIds
      /\ \A s \in catalog' : graph'[s] = "open" =>
           \/ s \in watched'
           \/ s \in catalog /\ graph[s] = "open" /\ (s \in watched <=> s \in watched')
      /\ old' \subseteq catalog' /\ watched' \subseteq catalog' /\ inputs' \subseteq watched'
      /\ graph' \in [RunIds -> Graphs]
      /\ \A s \in catalog' : graph'[s] = "admitted" =>
           \/ s \in watched' \cap inputs'
           \/ s \in catalog /\ graph[s] = "admitted"
              /\ (s \in watched \cap inputs => s \in watched' \cap inputs')
  <2>1. CASE Admit(p, r)
    BY <1>0, <2>1 DEF DatabaseInv, Admit, Graphs
  <2>2. CASE Finish(p, r)
    BY <1>0, <2>2 DEF DatabaseInv, Finish, Graphs
  <2>3. CASE Acknowledge(p, r)
    BY <1>0, <2>3 DEF DatabaseInv, Acknowledge
  <2>4. CASE Begin(p, r)
    BY <1>0, <2>4 DEF DatabaseInv, Begin, Graphs
  <2> QED
    BY <2>1, <2>2, <2>3, <2>4
<1>2. tables # Legacy
  BY <1>0 DEF DatabaseInv, Admit, Begin, Finish, Acknowledge
<1>3. DatabaseInv'
  BY <1>0, <1>1, <1>2 DEF DatabaseInv
<1>4. WatchInv'
  BY <1>0, <1>1 DEF WatchInv, Behind, Foreseen
<1>5. UnbegunHasInput'
  BY <1>0, <1>1, <1>2 DEF UnbegunHasInput, IsLegacy
<1> QED
  BY <1>3, <1>4, <1>5 DEF SchemaInv

(* What a process has classified covers what is ahead of its cursor.       *)
LEMMA ClassifyPageKeeps ==
  ASSUME SchemaInv, NEW p \in Procs, ClassifyPage(p)
  PROVE  SchemaInv'
<1> USE DEF file, rows, row, local
<1> DEFINE candidates == Candidates(cached[p].after)
           runs == First(candidates, PageSize)
           found == [runs |-> runs, open |-> {r \in runs : IsOpen(r)},
                     taken |-> TRUE, last |-> Cardinality(candidates) <= PageSize]
<1>0. DatabaseInv /\ WatchInv /\ UnbegunHasInput
  BY DEF SchemaInv
<1>1. /\ UNCHANGED <<tables, epoch, catalog, graph, rows, row, fence, pc, missing, cached>>
      /\ pc[p] = "up" /\ page' = [page EXCEPT ![p] = found]
  BY DEF ClassifyPage
<1>2. candidates \subseteq catalog /\ runs \subseteq candidates
  BY DEF Candidates, First
<1>3. candidates \in SUBSET Nat /\ IsFiniteSet(candidates) /\ catalog \subseteq RunIds
  BY <1>0, <1>2, Numbers, FS_Subset DEF DatabaseInv
<1>4. \A r \in candidates \ runs : Cardinality(candidates) > PageSize /\ \A x \in runs : x < r
  BY <1>3, Numbers, FirstComeFirst
<1>5. Cardinality(candidates) \in Nat
  BY <1>3, FS_CardinalityType
<1>6. \A r \in catalog : graph[r] = "open" /\ cached[p].after < r =>
        r \in found.open \/ (~found.last /\ \A x \in found.runs : x < r)
  <2>1. ASSUME NEW r \in catalog, graph[r] = "open", cached[p].after < r, r \notin runs
        PROVE  ~found.last /\ \A x \in found.runs : x < r
    <3>1. r \in candidates
      <4>1. r \in Nat /\ cached[p].after \in Nat
        BY <1>0, <1>3, Numbers DEF DatabaseInv
      <4> QED
        BY <2>1, <4>1 DEF Candidates
    <3>2. Cardinality(candidates) > PageSize /\ \A x \in runs : x < r
      BY <1>4, <2>1, <3>1
    <3>3. ~(Cardinality(candidates) <= PageSize)
      <4> HIDE DEF candidates
      <4> QED
        BY <1>5, <3>2, Numbers
    <3> QED
      BY <3>2, <3>3
  <2> QED
    BY <2>1 DEF IsOpen
<1>7. /\ found.runs \subseteq RunIds /\ found.open \subseteq found.runs \cap catalog
      /\ found.taken = TRUE
  BY <1>2, <1>3
<1> HIDE DEF found
<1>8. /\ page'[p] = found /\ page' = [q \in Procs |-> page'[q]]
      /\ \A q \in Procs \ {p} : page'[q] = page[q]
  BY <1>0, <1>1 DEF DatabaseInv
<1>9. DatabaseInv'
  BY <1>0, <1>1, <1>7, <1>8 DEF DatabaseInv
<1>10. WatchInv'
  BY <1>0, <1>1, <1>6, <1>8 DEF WatchInv, Behind, Foreseen
<1>11. UnbegunHasInput'
  BY <1>0, <1>1, InputKept DEF IsLegacy
<1> QED
  BY <1>9, <1>10, <1>11 DEF SchemaInv

(* A page that is applied moves the cursor over runs that were all seen.   *)
LEMMA ApplyPageKeeps ==
  ASSUME SchemaInv, NEW p \in Procs, ApplyPage(p)
  PROVE  SchemaInv'
<1> USE DEF file, rows, row, local
<1>0. /\ DatabaseInv /\ WatchInv /\ UnbegunHasInput /\ pc[p] = "up" /\ page[p].taken
      /\ page' = [page EXCEPT ![p] = NoPage]
      /\ UNCHANGED <<tables, epoch, catalog, graph, old, inputs, fence, missing>>
  BY DEF SchemaInv, ApplyPage
<1>1. /\ page'[p] = NoPage /\ page' = [q \in Procs |-> page'[q]]
      /\ \A q \in Procs \ {p} : page'[q] = page[q]
  BY <1>0 DEF DatabaseInv
<1>2. UnbegunHasInput'
  <2>1. watched \subseteq watched'
    BY DEF ApplyPage
  <2> QED
    BY <1>0, <2>1, InputKept DEF IsLegacy
<1>3. CASE ~CursorIsCurrent(p)
  <2>1. pc' = [pc EXCEPT ![p] = "stopped"] /\ UNCHANGED <<watched, row, cached>>
    BY <1>3 DEF ApplyPage, Goto
  <2>2. pc' \in [Procs -> ProcessSteps] /\ pc'[p] = "stopped"
        /\ \A q \in Procs \ {p} : pc'[q] = pc[q]
    BY <1>0, <2>1 DEF DatabaseInv, ProcessSteps
  <2>3. DatabaseInv'
    BY <1>0, <1>1, <2>1, <2>2 DEF DatabaseInv, NoPage
  <2>4. WatchInv'
    BY <1>0, <1>1, <2>1 DEF WatchInv, Behind, Foreseen, NoPage
  <2> QED
    BY <1>2, <2>3, <2>4 DEF SchemaInv
<1>4. CASE CursorIsCurrent(p)
  <2>1. /\ watched' = watched \cup page[p].open
        /\ after' = (IF page[p].runs = {} THEN after ELSE Max(page[p].runs))
        /\ completed' = (IF page[p].last THEN "completed" ELSE "running")
        /\ cached' = [cached EXCEPT ![p] = [after |-> after', completed |-> completed']]
        /\ UNCHANGED pc
    BY <1>4 DEF ApplyPage
  <2>2. page[p].runs \subseteq RunIds /\ page[p].open \subseteq catalog
    BY <1>0 DEF DatabaseInv
  <2>3. page[p].runs # {} =>
          /\ Max(page[p].runs) \in page[p].runs
          /\ \A x \in page[p].runs : x <= Max(page[p].runs)
    BY <2>2, Numbers, FS_Subset, Greatest
  <2>4. after' \in RunIds \cup {0}
    BY <1>0, <2>1, <2>2, <2>3 DEF DatabaseInv
  <2>5. /\ cached'[p].after = after' /\ cached' = [q \in Procs |-> cached'[q]]
        /\ \A q \in Procs \ {p} : cached'[q] = cached[q]
    BY <1>0, <2>1 DEF DatabaseInv
  <2>6. DatabaseInv'
    BY <1>0, <1>1, <2>1, <2>2, <2>4, <2>5 DEF DatabaseInv, NoPage
  <2>7. ASSUME NEW r \in catalog, graph[r] = "open", Behind(r)'
        PROVE  r \in watched'
    <3>0. /\ r \in Nat /\ 0 < r /\ after \in Nat /\ cached[p].after \in Nat
          /\ page[p].runs \subseteq Nat
      <4>1. /\ r \in RunIds /\ after \in RunIds \cup {0} /\ cached[p].after \in RunIds \cup {0}
            /\ page[p].runs \subseteq RunIds
        BY <1>0, <2>2 DEF DatabaseInv
      <4> QED
        BY <4>1, Numbers
    <3>1. CASE r <= cached[p].after
      <4>1. after = cached[p].after
        <5>1. cached[p].after # 0
          BY <3>0, <3>1
        <5> QED
          BY <1>4, <5>1 DEF CursorIsCurrent
      <4> QED
        BY <1>0, <2>1, <2>7, <3>1, <4>1 DEF WatchInv, Behind
    <3>2. CASE cached[p].after < r
      <4>1. Foreseen(p, r)
        BY <1>0, <2>7, <3>2 DEF WatchInv
      <4>2. CASE r \in watched \cup page[p].open
        BY <2>1, <4>2
      <4>3. CASE ~page[p].last /\ \A x \in page[p].runs : x < r
        <5>1. r <= after'
          BY <2>1, <2>7, <4>3 DEF Behind
        <5>2. page[p].runs = {} /\ after' = after
          BY <2>1, <2>3, <3>0, <4>3, <5>1
        <5> QED
          BY <1>0, <2>1, <2>7, <5>1, <5>2 DEF WatchInv, Behind
      <4> QED
        BY <4>1, <4>2, <4>3 DEF Foreseen
    <3> QED
      BY <3>0, <3>1, <3>2
  <2>8. ASSUME NEW r \in catalog, graph[r] = "open", NEW q \in Procs,
               page'[q].taken, cached'[q].after < r
        PROVE  Foreseen(q, r)'
    <3>1. q # p
      BY <1>1, <2>8 DEF NoPage
    <3> QED
      BY <1>0, <1>1, <2>1, <2>5, <2>8, <3>1 DEF WatchInv, Foreseen
  <2>9. WatchInv'
    BY <1>0, <2>7, <2>8 DEF WatchInv
  <2> QED
    BY <1>2, <2>6, <2>9 DEF SchemaInv
<1> QED
  BY <1>3, <1>4

LEMMA SchemaStutter ==
  ASSUME SchemaInv, UNCHANGED schemaVars
  PROVE  SchemaInv'
BY WatchKept, InputKept DEF SchemaInv, DatabaseInv, IsLegacy, schemaVars, file, rows, row, local

LEMMA SchemaNextKeeps ==
  ASSUME SchemaInv, [SchemaNext]_schemaVars
  PROVE  SchemaInv'
BY OpenKeeps, CreateStageKeeps, WriteEpochKeeps, RestartKeeps, RunKeeps, ClassifyPageKeeps,
   ApplyPageKeeps, SchemaStutter DEF SchemaNext, OpenStep, PageStep

(***************************************************************************)
(* Whatever processes open, stop, die, admit and finish, an open run that  *)
(* the backfill has passed has a watch, and one that it has not passed is  *)
(* foreseen in every page that a process has in hand; and one that has not *)
(* begun has its input in the table of watches the file has.               *)
(***************************************************************************)
THEOREM DatabaseInvariant == SchemaSpec => []SchemaInv
<1>1. SchemaInit => SchemaInv
  BY SchemaInitHolds
<1>2. SchemaInv /\ [SchemaNext]_schemaVars => SchemaInv'
  BY SchemaNextKeeps
<1> QED
  BY <1>1, <1>2, PTL DEF SchemaSpec

(***************************************************************************)
(* The database is of a schema that exists; once the backfill says it is   *)
(* complete no open run is without a watch; and the input of a run that    *)
(* was admitted is there until the run has begun, on both sides of the     *)
(* copy into the new table.                                                *)
(***************************************************************************)
THEOREM BackfillStaysSound == SchemaSpec => []BackfillIsSound
<1>1. SchemaInv => BackfillIsSound
  BY DEF SchemaInv, DatabaseInv, WatchInv, Behind, BackfillIsSound, SchemaTypeOK, ProcessSteps,
     CompletedMeansWatched
<1> QED
  BY <1>1, DatabaseInvariant, PTL

-----------------------------------------------------------------------------
(* The sessions *)

LEMMA Values ==
  ASSUME SessionsAssumption
  PROVE  /\ Steps \in Seq(SUBSET Items) /\ None \notin Items
         /\ \A s \in Sessions : None # <<"hook", s>> /\ None # <<"call", s>>
         /\ \A b \in [session : Sessions, live : BOOLEAN] : b # None
BY DEF SessionsAssumption, LockHolders

LEMMA PendingItems ==
  ASSUME SessionsAssumption, NEW r \in Runs
  PROVE  Pending(r) \subseteq Items
BY Values DEF Pending, Items

(* What a run is said to be depends on the run alone. *)
LEMMA SameRun ==
  ASSUME NEW r, position'[r] = position[r], phase'[r] = phase[r]
  PROVE  Pending(r)' = Pending(r) /\ Status(r)' = Status(r)
<1>1. Pending(r)' = Pending(r)
  BY DEF Pending
<1>2. \A i : IsWorkers(r, i)' = IsWorkers(r, i)
  BY DEF IsWorkers
<1> QED
  BY <1>1, <1>2 DEF Status

LEMMA Opening ==
  ASSUME SessionsAssumption, SessionsInit
  PROVE  SessionsInv
<1>1. BindingInv
  BY DEF SessionsInit, BindingInv, OnlyOwnerActs
<1>2. \A s \in Sessions : hook[s].at = "idle" /\ call[s].at = "idle" /\ call[s] = Idle
  BY DEF SessionsInit, Idle
<1>3. \A r \in Runs, s \in Sessions :
        bindingLock[r] # <<"hook", s>> /\ bindingLock[r] # <<"call", s>>
  BY Values DEF SessionsInit
<1>4. HookInv
  BY <1>2, <1>3 DEF SessionsInit, HookInv, HookSteps
<1>5. CallInv
  BY <1>2, <1>3 DEF SessionsInit, CallInv, CallSteps, Locked, Idle
<1>6. RunsInv
  <2>1. Len(Steps) \in Nat
    BY Values
  <2>2. position \in [Runs -> 0 .. Len(Steps) + 1]
    BY <2>1 DEF SessionsInit
  <2> QED
    BY <1>2, <2>2 DEF SessionsInit, RunsInv, Fresh, Phases
<1> QED
  BY <1>1, <1>4, <1>5, <1>6 DEF SessionsInv

(* The bindings are not touched. *)
LEMMA BindingsRest ==
  ASSUME BindingInv, UNCHANGED <<binding, bindingLock, acted>>
  PROVE  BindingInv'
BY DEF BindingInv, OnlyOwnerActs, LockHolders

(* A hook that does not have the lock, and does not get it, moves. *)
LEMMA HookRests ==
  ASSUME HookInv, UNCHANGED <<hook, binding, bindingLock>>
  PROVE  HookInv'
BY DEF HookInv

LEMMA HookMoves ==
  ASSUME HookInv, NEW s \in Sessions, NEW at, NEW r, NEW left, NEW read,
         HookGoes(s, at, r, left, read), at \in HookSteps \ {"write"},
         at \in {"posttool", "touch", "refresh"} => r \in Runs,
         hook[s].at # "write", UNCHANGED <<binding, bindingLock>>
  PROVE  HookInv'
<1>1. /\ hook' = [t \in Sessions |-> hook'[t]]
      /\ hook'[s].at = at /\ hook'[s].run = r
      /\ \A t \in Sessions \ {s} : hook'[t] = hook[t]
  BY DEF HookInv, HookGoes
<1> QED
  BY <1>1 DEF HookInv

LEMMA HookLeaves ==
  ASSUME HookInv, NEW s \in Sessions, HookEnds(s), hook[s].at # "write",
         UNCHANGED <<binding, bindingLock>>
  PROVE  HookInv'
<1>1. /\ hook' = [t \in Sessions |-> hook'[t]]
      /\ hook'[s].at = "idle"
      /\ \A t \in Sessions \ {s} : hook'[t] = hook[t]
  BY DEF HookInv, HookEnds, Idle
<1> QED
  BY <1>1 DEF HookInv, HookSteps

LEMMA CallRests ==
  ASSUME CallInv, UNCHANGED <<call, binding, bindingLock>>
  PROVE  CallInv'
BY DEF CallInv, IsOwner

(* What a call becomes that goes on. *)
LEMMA CallGoesOn ==
  ASSUME CallInv, NEW s \in Sessions, NEW at, NEW step, CallGoes(s, at, step)
  PROVE  /\ call' = [t \in Sessions |-> call'[t]]
         /\ call'[s].at = at /\ call'[s].run = call[s].run /\ call'[s].step = step
         /\ \A t \in Sessions : call'[t] =
              [at |-> call'[t].at, run |-> call'[t].run, left |-> call'[t].left,
               read |-> call'[t].read, step |-> call'[t].step]
         /\ \A t \in Sessions \ {s} : call'[t] = call[t]
<1> DEFINE mid == [call EXCEPT ![s] = [call[s] EXCEPT !.at = at]]
<1>1. call = [t \in Sessions |-> call[t]] /\ call' = [mid EXCEPT ![s] = [mid[s] EXCEPT !.step = step]]
  BY DEF CallInv, CallGoes
<1>2. mid[s] = [at |-> at, run |-> call[s].run, left |-> call[s].left,
                read |-> call[s].read, step |-> call[s].step]
  BY <1>1 DEF CallInv
<1>3. mid = [t \in Sessions |-> mid[t]] /\ \A t \in Sessions \ {s} : mid[t] = call[t]
  BY <1>1
<1> HIDE DEF mid
<1>4. call'[s] = [at |-> at, run |-> call[s].run, left |-> call[s].left,
                  read |-> call[s].read, step |-> step]
  BY <1>1, <1>2, <1>3
<1>5. call' = [t \in Sessions |-> call'[t]] /\ \A t \in Sessions \ {s} : call'[t] = call[t]
  BY <1>1, <1>3
<1> QED
  BY <1>4, <1>5 DEF CallInv

(* A call goes on under the lock it has. *)
LEMMA CallMoves ==
  ASSUME CallInv, NEW s \in Sessions, NEW at, NEW step, CallGoes(s, at, step), at \in Locked,
         call[s].at \in Locked, UNCHANGED <<binding, bindingLock>>
  PROVE  CallInv'
<1>1. at \in CallSteps /\ at # "idle" /\ call[s].at # "idle"
  BY DEF CallSteps, Locked
<1> QED
  BY <1>1, CallGoesOn DEF CallInv, IsOwner

(* A call ends and gives back the lock it has, or has none. *)
LEMMA CallLeaves ==
  ASSUME SessionsAssumption, CallInv, BindingInv, NEW s \in Sessions, CallEnds(s),
         UNCHANGED binding,
         bindingLock' = [r \in Runs |-> bindingLock'[r]],
         \A r \in Runs : bindingLock'[r] = IF bindingLock[r] = <<"call", s>> THEN None
                                           ELSE bindingLock[r]
  PROVE  CallInv'
<1>1. /\ call' = [t \in Sessions |-> call'[t]] /\ call'[s] = Idle
      /\ \A t \in Sessions \ {s} : call'[t] = call[t]
  BY DEF CallInv, CallEnds
<1>2. \A r \in Runs : bindingLock'[r] # <<"call", s>>
  BY Values
<1>3. \A r \in Runs, t \in Sessions \ {s} : 
        bindingLock'[r] = <<"call", t>> <=> bindingLock[r] = <<"call", t>>
  <2>1. \A t \in Sessions \ {s} : <<"call", t>> # <<"call", s>> /\ <<"call", t>> # None
    BY Values
  <2> QED
    BY <2>1
<1> QED
  BY <1>1, <1>2, <1>3 DEF CallInv, IsOwner, Idle, CallSteps, Locked

LEMMA RunsRest ==
  ASSUME RunsInv, UNCHANGED graphVars,
         \A s \in Sessions : call'[s] = call[s] \/ call'[s].at \notin {"match", "commit"}
  PROVE  RunsInv'
<1>1. \A r : Pending(r)' = Pending(r) /\ Status(r)' = Status(r)
  BY SameRun DEF graphVars
<1> QED
  BY <1>1 DEF RunsInv, graphVars

(* The steps of a hook outside the lock. *)
LEMMA HookWithoutLock ==
  ASSUME SessionsInv, NEW s \in Sessions,
         PostTool(s) \/ PreTool(s) \/ Deny(s) \/ \E r \in Runs : Check(s, r)
  PROVE  SessionsInv'
<1>0. BindingInv /\ HookInv /\ CallInv /\ RunsInv
  BY DEF SessionsInv
<1>1. UNCHANGED <<graphVars, binding, bindingLock, call, acted>>
  BY DEF PostTool, PreTool, Deny, Check
<1>2. HookInv'
  <2>1. CASE PostTool(s)
    BY <1>0, <1>1, <2>1, HookMoves, HookLeaves DEF PostTool, HookInv, HookSteps
  <2>2. CASE PreTool(s)
    <3>1. hook[s].at # "write"
      BY <2>2 DEF PreTool, Idle
    <3>2. PICK left : HookGoes(s, "gate", None, left, None)
      BY <2>2 DEF PreTool
    <3> QED
      BY <1>0, <1>1, <3>1, <3>2, HookMoves DEF HookSteps
  <2>3. CASE Deny(s)
    BY <1>0, <1>1, <2>3, HookLeaves DEF Deny
  <2>4. ASSUME NEW r \in Runs, Check(s, r)
        PROVE  HookInv'
    <3>1. hook[s].at # "write"
      BY <2>4 DEF Check
    <3>2. PICK at \in {"refresh", "gate"} : HookGoes(s, at, r, hook[s].left \ {r}, None)
      BY <2>4 DEF Check
    <3> QED
      BY <1>0, <1>1, <3>1, <3>2, HookMoves DEF HookSteps
  <2> QED
    BY <2>1, <2>2, <2>3, <2>4
<1> QED
  BY <1>0, <1>1, <1>2, BindingsRest, CallRests, RunsRest DEF SessionsInv

(* Two sessions cannot hold one lock, nor a hook and a call. *)
LEMMA Holders ==
  \A s, t \in Sessions : 
    <<"hook", s>> # <<"call", t>> /\ (<<"hook", s>> = <<"hook", t>> <=> s = t)
    /\ (<<"call", s>> = <<"call", t>> <=> s = t)
OBVIOUS

LEMMA Reading ==
  ASSUME SessionsAssumption, SessionsInv, NEW s \in Sessions, ReadBinding(s)
  PROVE  SessionsInv'
<1>0. BindingInv /\ HookInv /\ CallInv /\ RunsInv
  BY DEF SessionsInv
<1> DEFINE r == hook[s].run
<1>1. r \in Runs /\ bindingLock[r] = None /\ UNCHANGED <<graphVars, binding, call, acted>>
  BY <1>0 DEF ReadBinding, HookInv
<1>2. /\ bindingLock' = [q \in Runs |-> bindingLock'[q]] /\ bindingLock'[r] = <<"hook", s>>
      /\ \A q \in Runs \ {r} : bindingLock'[q] = bindingLock[q]
  BY <1>0, <1>1 DEF ReadBinding, Lock, BindingInv
<1>3. /\ hook' = [t \in Sessions |-> hook'[t]]
      /\ hook'[s].at = "write" /\ hook'[s].run = r /\ hook'[s].read = binding[r]
      /\ \A t \in Sessions \ {s} : hook'[t] = hook[t]
  BY <1>0 DEF ReadBinding, HookGoes, HookInv
<1>4. hook[s].at = "touch"
  BY DEF ReadBinding
<1> HIDE DEF r
<1>5. BindingInv'
  <2>1. \A q \in Runs : bindingLock'[q] \in {None} \cup LockHolders
    <3>1. <<"hook", s>> \in LockHolders
      BY DEF LockHolders
    <3> QED
      BY <1>0, <1>2, <3>1 DEF BindingInv
  <2> QED
    BY <1>0, <1>1, <1>2, <2>1 DEF BindingInv, OnlyOwnerActs, LockHolders
<1>6. HookInv'
  <2>1. ASSUME NEW t \in Sessions, NEW q \in Runs
        PROVE  bindingLock'[q] = <<"hook", t>> <=> hook'[t].at = "write" /\ hook'[t].run = q
    <3>0. bindingLock[q] = <<"hook", t>> <=> hook[t].at = "write" /\ hook[t].run = q
      BY <1>0 DEF HookInv
    <3>1. CASE q = r
      <4>1. bindingLock[q] # <<"hook", t>>
        BY <1>1, <3>1, Values
      <4> QED
        BY <1>2, <1>3, <3>0, <3>1, <4>1, Holders
    <3>2. CASE q # r
      <4>1. bindingLock'[q] = bindingLock[q]
        BY <1>2, <3>2
      <4> QED
        BY <1>3, <1>4, <3>0, <3>2, <4>1
    <3> QED
      BY <3>1, <3>2
  <2>2. StillRead(binding'[r], hook'[s].read)
    BY <1>1, <1>3 DEF StillRead
  <2>3. \A t \in Sessions \ {s} : hook'[t].at = "write" => StillRead(binding'[hook'[t].run], hook'[t].read)
    BY <1>0, <1>1, <1>3 DEF HookInv
  <2>4. hook'[s].at \in HookSteps
    BY <1>3 DEF HookSteps
  <2> QED
    BY <1>0, <1>1, <1>3, <2>1, <2>2, <2>3, <2>4 DEF HookInv
<1>7. CallInv'
  <2>1. ASSUME NEW t \in Sessions, NEW q \in Runs
        PROVE  bindingLock'[q] = <<"call", t>> <=> bindingLock[q] = <<"call", t>>
    BY <1>1, <1>2, Values, Holders
  <2> QED
    BY <1>0, <1>1, <2>1 DEF CallInv, IsOwner
<1> QED
  BY <1>0, <1>1, <1>5, <1>6, <1>7, RunsRest DEF SessionsInv

LEMMA Writing ==
  ASSUME SessionsAssumption, SessionsInv, NEW s \in Sessions, WriteBinding(s)
  PROVE  SessionsInv'
<1>0. BindingInv /\ HookInv /\ CallInv /\ RunsInv
  BY DEF SessionsInv
<1> DEFINE r == hook[s].run
           mine == [session |-> s, live |-> TRUE]
<1>1. r \in Runs /\ bindingLock[r] = <<"hook", s>> /\ StillRead(binding[r], hook[s].read)
  BY <1>0 DEF WriteBinding, HookInv
<1>2. UNCHANGED <<graphVars, call>> /\ hook[s].at = "write"
  BY DEF WriteBinding
<1>3. /\ bindingLock' = [q \in Runs |-> bindingLock'[q]] /\ bindingLock'[r] = None
      /\ \A q \in Runs \ {r} : bindingLock'[q] = bindingLock[q]
  BY <1>0, <1>1 DEF WriteBinding, Lock, BindingInv
<1>4. /\ hook' = [t \in Sessions |-> hook'[t]] /\ hook'[s].at = "idle"
      /\ \A t \in Sessions \ {s} : hook'[t] = hook[t]
  BY <1>0 DEF WriteBinding, HookEnds, HookInv, Idle
<1>5. /\ binding' = [q \in Runs |-> binding'[q]] /\ acted' = [q \in Runs |-> acted'[q]]
      /\ \A q \in Runs \ {r} : binding'[q] = binding[q] /\ acted'[q] = acted[q]
      /\ \/ binding'[r] = binding[r] /\ acted'[r] = acted[r]
         \/ binding'[r] = mine /\ acted'[r] = IF IsOwner(s, hook[s].read) THEN acted[r] ELSE {}
  BY <1>0, <1>1 DEF WriteBinding, BindingInv
<1> HIDE DEF r
<1>6. BindingInv'
  <2>1. ASSUME NEW q \in Runs
        PROVE  /\ binding'[q] \in {None} \cup [session : Sessions, live : BOOLEAN]
               /\ bindingLock'[q] \in {None} \cup LockHolders
               /\ acted'[q] # {} => binding'[q] # None /\ acted'[q] = {binding'[q].session}
    <3>0. /\ binding[q] \in {None} \cup [session : Sessions, live : BOOLEAN]
          /\ bindingLock[q] \in {None} \cup LockHolders
          /\ acted[q] # {} => binding[q] # None /\ acted[q] = {binding[q].session}
      BY <1>0 DEF BindingInv, OnlyOwnerActs
    <3>1. CASE q # r
      BY <1>3, <1>5, <3>0, <3>1
    <3>2. CASE q = r /\ binding'[r] = binding[r] /\ acted'[r] = acted[r]
      BY <1>3, <3>0, <3>2
    <3>3. CASE /\ q = r /\ binding'[r] = mine
               /\ acted'[r] = IF IsOwner(s, hook[s].read) THEN acted[r] ELSE {}
      <4>1. mine # None /\ mine.session = s /\ mine \in [session : Sessions, live : BOOLEAN]
        BY Values
      <4>2. CASE IsOwner(s, hook[s].read)
        BY <1>1, <1>3, <3>0, <3>3, <4>1, <4>2 DEF IsOwner, StillRead
      <4>3. CASE ~IsOwner(s, hook[s].read)
        BY <1>3, <3>3, <4>1, <4>3
      <4> QED
        BY <4>2, <4>3
    <3> QED
      BY <1>5, <3>1, <3>2, <3>3
  <2> HIDE DEF mine
  <2> QED
    BY <1>3, <1>5, <2>1 DEF BindingInv, OnlyOwnerActs, LockHolders
<1>7. HookInv'
  <2>1. ASSUME NEW t \in Sessions \ {s}
        PROVE  /\ \A q \in Runs : bindingLock'[q] = <<"hook", t>> <=> 
                                    hook'[t].at = "write" /\ hook'[t].run = q
               /\ hook'[t].at = "write" => StillRead(binding'[hook'[t].run], hook'[t].read)
    <3>1. ~(hook[t].at = "write" /\ hook[t].run = r)
      BY <1>0, <1>1, Holders DEF HookInv
    <3>2. \A q \in Runs : bindingLock'[q] = <<"hook", t>> <=> bindingLock[q] = <<"hook", t>>
      BY <1>1, <1>3, Values, Holders
    <3>3. hook[t].at = "write" => hook[t].run \in Runs \ {r}
      BY <1>0, <3>1 DEF HookInv
    <3> QED
      BY <1>0, <1>4, <1>5, <3>2, <3>3 DEF HookInv
  <2>2. \A q \in Runs : bindingLock'[q] # <<"hook", s>>
    <3>1. \A q \in Runs : bindingLock[q] = <<"hook", s>> => q = r
      BY <1>0 DEF HookInv, r
    <3> QED
      BY <1>3, <3>1, Values
  <2>3. \A t \in Sessions :
          /\ hook'[t].at \in HookSteps
          /\ hook'[t].at \in {"posttool", "touch", "write", "refresh"} => hook'[t].run \in Runs
    BY <1>0, <1>4 DEF HookInv, HookSteps
  <2> QED
    BY <1>4, <2>1, <2>2, <2>3 DEF HookInv
<1>8. CallInv'
  <2>1. ASSUME NEW t \in Sessions, NEW q \in Runs
        PROVE  bindingLock'[q] = <<"call", t>> <=> bindingLock[q] = <<"call", t>>
    <3>1. CASE q = r
      <4>1. <<"call", t>> # <<"hook", s>> /\ <<"call", t>> # None
        BY Values, Holders
      <4> QED
        BY <1>1, <1>3, <3>1, <4>1
    <3> QED
      BY <1>3, <3>1
  <2>2. \A t \in Sessions : call[t].at \in Locked => call[t].run \in Runs \ {r}
    <3>1. ASSUME NEW t \in Sessions, call[t].at \in Locked
          PROVE  call[t].run \in Runs \ {r}
      <4>1. call[t].at # "idle"
        BY <3>1 DEF Locked
      <4>2. bindingLock[call[t].run] = <<"call", t>> /\ call[t].run \in Runs
        BY <1>0, <3>1, <4>1 DEF CallInv
      <4> QED
        BY <1>1, <4>2, Holders
    <3> QED
      BY <3>1
  <2> QED
    BY <1>0, <1>2, <1>5, <2>1, <2>2 DEF CallInv, IsOwner
<1> QED
  BY <1>0, <1>2, <1>6, <1>7, <1>8, RunsRest DEF SessionsInv

LEMMA Refreshing ==
  ASSUME SessionsAssumption, SessionsInv, NEW s \in Sessions, Refresh(s)
  PROVE  SessionsInv'
<1>0. BindingInv /\ HookInv /\ CallInv /\ RunsInv
  BY DEF SessionsInv
<1>1. hook[s].run \in Runs /\ hook[s].at = "refresh"
      /\ UNCHANGED <<graphVars, binding, bindingLock, call>>
  BY <1>0 DEF Refresh, HookInv
<1>2. HookInv'
  <2>1. HookEnds(s) \/ HookGoes(s, "gate", None, hook[s].left, None)
    BY DEF Refresh
  <2> QED
    BY <1>0, <1>1, <2>1, HookMoves, HookLeaves DEF HookSteps
<1>3. BindingInv'
  <2>1. CASE acted' = acted
    BY <1>0, <1>1, <2>1, BindingsRest
  <2>2. CASE IsOwner(s, binding[hook[s].run]) /\ acted' = [acted EXCEPT ![hook[s].run] = @ \cup {s}]
    <3>1. /\ acted' = [q \in Runs |-> acted'[q]]
          /\ acted'[hook[s].run] = acted[hook[s].run] \cup {s}
          /\ \A q \in Runs \ {hook[s].run} : acted'[q] = acted[q]
      BY <1>0, <1>1, <2>2 DEF BindingInv
    <3> QED
      BY <1>0, <1>1, <2>2, <3>1 DEF BindingInv, OnlyOwnerActs, IsOwner, LockHolders
  <2> QED
    BY <2>1, <2>2 DEF Refresh
<1> QED
  BY <1>0, <1>1, <1>2, <1>3, CallRests, RunsRest DEF SessionsInv

LEMMA Calling ==
  ASSUME SessionsAssumption, SessionsInv, NEW s \in Sessions, NEW r \in Runs, NEW i, Call(s, r, i)
  PROVE  SessionsInv'
<1>0. BindingInv /\ HookInv /\ CallInv /\ RunsInv
  BY DEF SessionsInv
<1>1. UNCHANGED <<graphVars, binding, bindingLock, hook, acted>> /\ call[s].at = "idle"
  BY DEF Call, Idle
<1>2. /\ call' = [t \in Sessions |-> call'[t]]
      /\ call'[s] = [at |-> "own", run |-> r, left |-> {}, read |-> None, step |-> i]
      /\ \A t \in Sessions \ {s} : call'[t] = call[t]
  BY <1>0 DEF Call, CallInv, Idle
<1>3. call'[s].at = "own" /\ call'[s].run = r
  BY <1>2
<1>4. CallInv'
  <2>1. \A t \in Sessions : call'[t] = [at |-> call'[t].at, run |-> call'[t].run,
          left |-> call'[t].left, read |-> call'[t].read, step |-> call'[t].step]
    BY <1>0, <1>2 DEF CallInv
  <2>2. "own" \in CallSteps /\ "own" \notin Locked /\ "idle" \notin Locked
    BY DEF CallSteps, Locked
  <2> QED
    BY <1>0, <1>1, <1>2, <1>3, <2>1, <2>2 DEF CallInv, IsOwner
<1> QED
  BY <1>0, <1>1, <1>2, <1>3, <1>4, BindingsRest, HookRests, RunsRest DEF SessionsInv

(* A call takes the lock, and a call gives it back: nothing of the hooks    *)
(* depends on it.                                                          *)
LEMMA CallLocks ==
  ASSUME SessionsAssumption, BindingInv, HookInv, NEW s \in Sessions,
         UNCHANGED <<binding, acted, hook>>,
         bindingLock' = [q \in Runs |-> bindingLock'[q]],
         \A q \in Runs :
           \/ bindingLock'[q] = bindingLock[q]
           \/ bindingLock[q] = None /\ bindingLock'[q] = <<"call", s>>
           \/ bindingLock[q] = <<"call", s>> /\ bindingLock'[q] = None
  PROVE  BindingInv' /\ HookInv'
<1>1. <<"call", s>> \in LockHolders
  BY DEF LockHolders
<1>2. \A q \in Runs : bindingLock'[q] \in {None} \cup LockHolders
  BY <1>1 DEF BindingInv
<1>3. BindingInv'
  BY <1>2 DEF BindingInv, OnlyOwnerActs, LockHolders
<1>4. ASSUME NEW t \in Sessions, NEW q \in Runs
      PROVE  bindingLock'[q] = <<"hook", t>> <=> bindingLock[q] = <<"hook", t>>
  <2>1. <<"hook", t>> # <<"call", s>> /\ <<"hook", t>> # None
    BY Values, Holders
  <2> QED
    BY <2>1
<1>5. HookInv'
  BY <1>4 DEF HookInv
<1> QED
  BY <1>3, <1>5

LEMMA Releasing ==
  ASSUME SessionsAssumption, BindingInv, HookInv, CallInv, NEW s \in Sessions,
         call[s].at \in Locked, Release(s), UNCHANGED <<binding, acted, hook>>
  PROVE  /\ BindingInv' /\ HookInv' /\ CallInv'
         /\ \A t \in Sessions : call'[t] = call[t] \/ call'[t].at = "idle"
<1>1. call[s].run \in Runs /\ bindingLock[call[s].run] = <<"call", s>>
  BY DEF CallInv, Locked
<1>2. /\ bindingLock' = [q \in Runs |-> bindingLock'[q]] /\ bindingLock'[call[s].run] = None
      /\ \A q \in Runs \ {call[s].run} :
           bindingLock'[q] = bindingLock[q] /\ bindingLock[q] # <<"call", s>>
  BY <1>1 DEF Release, BindingInv, CallInv
<1>3. CallEnds(s)
  BY DEF Release
<1>4. BindingInv' /\ HookInv'
  BY <1>1, <1>2, CallLocks
<1>5. CallInv'
  BY <1>1, <1>2, <1>3, CallLeaves
<1>6. \A t \in Sessions : call'[t] = call[t] \/ call'[t].at = "idle"
  BY <1>3 DEF CallEnds, CallInv, Idle
<1> QED
  BY <1>4, <1>5, <1>6

LEMMA Owning ==
  ASSUME SessionsAssumption, SessionsInv, NEW s \in Sessions, Own(s)
  PROVE  SessionsInv'
<1>0. BindingInv /\ HookInv /\ CallInv /\ RunsInv
  BY DEF SessionsInv
<1> DEFINE r == call[s].run
<1>1. /\ r \in Runs /\ call[s].at = "own" /\ bindingLock[r] = None
      /\ UNCHANGED <<graphVars, binding, hook, acted>>
  BY <1>0 DEF Own, CallInv
<1>2. CASE CallEnds(s) /\ UNCHANGED bindingLock
  <2>1. \A q \in Runs : bindingLock[q] # <<"call", s>>
    BY <1>0, <1>1 DEF CallInv, Locked
  <2>2. CallInv'
    BY <1>0, <1>1, <1>2, <2>1, CallLeaves DEF BindingInv
  <2>3. \A t \in Sessions : call'[t] = call[t] \/ call'[t].at = "idle"
    BY <1>0, <1>2 DEF CallEnds, CallInv, Idle
  <2> QED
    BY <1>0, <1>1, <1>2, <2>2, <2>3, BindingsRest, HookRests, RunsRest DEF SessionsInv
<1>3. CASE /\ IsOwner(s, binding[r]) /\ CallGoes(s, "select", call[s].step)
           /\ Lock(r, <<"call", s>>)
  <2>1. /\ bindingLock' = [q \in Runs |-> bindingLock'[q]] /\ bindingLock'[r] = <<"call", s>>
        /\ \A q \in Runs \ {r} : bindingLock'[q] = bindingLock[q]
    BY <1>0, <1>1, <1>3 DEF Lock, BindingInv
  <2>2. /\ call' = [t \in Sessions |-> call'[t]]
        /\ call'[s].at = "select" /\ call'[s].run = r
        /\ \A t \in Sessions : call'[t] =
             [at |-> call'[t].at, run |-> call'[t].run, left |-> call'[t].left,
              read |-> call'[t].read, step |-> call'[t].step]
        /\ \A t \in Sessions \ {s} : call'[t] = call[t]
    BY <1>0, <1>3, CallGoesOn
  <2>4. "select" \in CallSteps /\ "select" \in Locked
    BY DEF CallSteps, Locked
  <2>5. \A q \in Runs : bindingLock[q] # <<"call", s>>
    BY <1>0, <1>1 DEF CallInv, Locked
  <2> HIDE DEF r
  <2>6. BindingInv' /\ HookInv'
    BY <1>0, <1>1, <2>1, CallLocks
  <2>7. CallInv'
    <3>1. ASSUME NEW t \in Sessions \ {s}, NEW q \in Runs
          PROVE  bindingLock'[q] = <<"call", t>> <=> bindingLock[q] = <<"call", t>>
      <4>1. <<"call", t>> # <<"call", s>> /\ <<"call", t>> # None
        BY Values, Holders
      <4> QED
        BY <1>1, <2>1, <4>1
    <3>2. ASSUME NEW q \in Runs
          PROVE  bindingLock'[q] = <<"call", s>> <=> q = r
      BY <2>1, <2>5
    <3> QED
      BY <1>0, <1>1, <1>3, <2>2, <2>4, <3>1, <3>2 DEF CallInv, IsOwner
  <2> QED
    BY <1>0, <1>1, <2>2, <2>6, <2>7, RunsRest DEF SessionsInv
<1> QED
  BY <1>2, <1>3 DEF Own

(* A run goes on that no call between its look at the status and its        *)
(* commit is about.                                                        *)
LEMMA RunMoves ==
  ASSUME RunsInv, NEW r \in Runs,
         position' \in [Runs -> 0 .. Len(Steps) + 1], phase' \in [Runs -> [Items -> Phases]],
         \A q \in Runs \ {r} : position'[q] = position[q] /\ phase'[q] = phase[q],
         \A t \in Sessions : call'[t].at \in {"match", "commit"} =>
           call'[t] = call[t] /\ call[t].run \in Runs \ {r}
  PROVE  RunsInv'
<1>1. \A q \in Runs \ {r} : Pending(q)' = Pending(q) /\ Status(q)' = Status(q)
  BY SameRun
<1> QED
  BY <1>1 DEF RunsInv

LEMMA Answering ==
  ASSUME SessionsAssumption, RunsInv, NEW r \in Runs, NEW i \in Pending(r), Answer(r, i)
  PROVE  /\ position' \in [Runs -> 0 .. Len(Steps) + 1] /\ phase' \in [Runs -> [Items -> Phases]]
         /\ \A q \in Runs \ {r} : position'[q] = position[q] /\ phase'[q] = phase[q]
<1> DEFINE answered == [phase[r] EXCEPT ![i] = "answered"]
<1>1. Len(Steps) \in Nat /\ DOMAIN Steps = 1 .. Len(Steps) /\ i \in Items
  BY Values, PendingItems
<1>2. position[r] \in DOMAIN Steps
  BY DEF Pending
<1>3. /\ position \in [Runs -> 0 .. Len(Steps) + 1] /\ phase \in [Runs -> [Items -> Phases]]
      /\ answered \in [Items -> Phases] /\ Fresh \in [Items -> Phases]
  BY <1>1 DEF RunsInv, Phases, Fresh
<1>4. \/ position' = [position EXCEPT ![r] = position[r] + 1] /\ phase' = [phase EXCEPT ![r] = Fresh]
      \/ phase' = [phase EXCEPT ![r] = answered] /\ position' = position
  BY DEF Answer
<1>5. position[r] + 1 \in 0 .. Len(Steps) + 1
  BY <1>1, <1>2
<1> HIDE DEF answered
<1> QED
  BY <1>3, <1>4, <1>5

(* While a run awaits nothing of it is the engine's. *)
LEMMA Awaited ==
  ASSUME NEW r, Status(r) = "awaiting"
  PROVE  position[r] # 0 /\ \A i \in Pending(r) : IsWorkers(r, i)
BY DEF Status

LEMMA Starting ==
  ASSUME SessionsAssumption, SessionsInv, NEW s \in Sessions, NEW r \in Runs, Start(s, r)
  PROVE  SessionsInv'
<1>0. BindingInv /\ HookInv /\ CallInv /\ RunsInv
  BY DEF SessionsInv
<1>1. UNCHANGED <<phase, binding, bindingLock, call, acted>> /\ hook[s].at = "idle"
  BY DEF Start, Idle
<1>2. HookInv'
  BY <1>0, <1>1, HookMoves, HookRests DEF Start, HookSteps
<1>3. RunsInv'
  <2>1. /\ position' = [q \in Runs |-> position'[q]]
        /\ \A q \in Runs : position'[q] = position[q] \/ (position[q] = 0 /\ position'[q] = 1)
    BY <1>0 DEF Start, RunsInv
  <2>2. position' \in [Runs -> 0 .. Len(Steps) + 1]
    <3>1. Len(Steps) \in Nat
      BY Values
    <3>2. 1 \in 0 .. Len(Steps) + 1
      BY <3>1
    <3> QED
      BY <1>0, <2>1, <3>2 DEF RunsInv
  <2>3. \A q \in Runs : Status(q) = "awaiting" =>
          Pending(q)' = Pending(q) /\ Status(q)' = Status(q)
    BY <1>1, <2>1, Awaited, SameRun
  <2>4. \A t \in Sessions : call[t].at \in {"match", "commit"} => call[t].run \in Runs
    BY <1>0 DEF CallInv
  <2> QED
    BY <1>0, <1>1, <2>2, <2>3, <2>4 DEF RunsInv
<1> QED
  BY <1>0, <1>1, <1>2, <1>3, BindingsRest, CallRests DEF SessionsInv

LEMMA Selecting ==
  ASSUME SessionsAssumption, SessionsInv, NEW s \in Sessions, Select(s)
  PROVE  SessionsInv'
<1>0. BindingInv /\ HookInv /\ CallInv /\ RunsInv
  BY DEF SessionsInv
<1>1. call[s].at \in Locked /\ UNCHANGED <<graphVars, binding, hook, acted>>
  BY DEF Select, Locked
<1>2. CASE /\ Status(call[s].run) = "awaiting" /\ CallGoes(s, "match", call[s].step)
           /\ UNCHANGED bindingLock
  <2>1. CallInv'
    BY <1>0, <1>1, <1>2, CallMoves DEF Locked
  <2>2. /\ call'[s].at = "match" /\ call'[s].run = call[s].run
        /\ \A t \in Sessions \ {s} : call'[t] = call[t]
    BY <1>0, <1>2, CallGoesOn
  <2>3. RunsInv'
    <3>1. \A q : Pending(q)' = Pending(q) /\ Status(q)' = Status(q)
      BY <1>1, SameRun DEF graphVars
    <3> QED
      BY <1>0, <1>1, <1>2, <2>2, <3>1 DEF RunsInv, graphVars
  <2> QED
    BY <1>0, <1>1, <1>2, <2>1, <2>3, BindingsRest, HookRests DEF SessionsInv
<1>3. CASE Release(s)
  BY <1>0, <1>1, <1>3, Releasing, RunsRest DEF SessionsInv
<1> QED
  BY <1>2, <1>3 DEF Select

LEMMA Matching ==
  ASSUME SessionsAssumption, SessionsInv, NEW s \in Sessions, Match(s)
  PROVE  SessionsInv'
<1>0. BindingInv /\ HookInv /\ CallInv /\ RunsInv
  BY DEF SessionsInv
<1>1. call[s].at \in Locked /\ UNCHANGED <<graphVars, binding, hook, acted>>
  BY DEF Match, Locked
<1>2. ASSUME NEW i \in Pending(call[s].run), CallGoes(s, "commit", i), UNCHANGED bindingLock
      PROVE  SessionsInv'
  <2>1. CallInv'
    BY <1>0, <1>1, <1>2, CallMoves DEF Locked
  <2>2. /\ call'[s].at = "commit" /\ call'[s].run = call[s].run /\ call'[s].step = i
        /\ \A t \in Sessions \ {s} : call'[t] = call[t]
    BY <1>0, <1>2, CallGoesOn
  <2>3. Status(call[s].run) = "awaiting"
    BY <1>0 DEF Match, RunsInv
  <2>4. RunsInv'
    <3>1. \A q : Pending(q)' = Pending(q) /\ Status(q)' = Status(q)
      BY <1>1, SameRun DEF graphVars
    <3> QED
      BY <1>0, <1>1, <1>2, <2>2, <2>3, <3>1 DEF RunsInv, graphVars
  <2> QED
    BY <1>0, <1>1, <1>2, <2>1, <2>4, BindingsRest, HookRests DEF SessionsInv
<1>3. CASE Release(s)
  BY <1>0, <1>1, <1>3, Releasing, RunsRest DEF SessionsInv
<1> QED
  BY <1>2, <1>3 DEF Match, Matches

LEMMA Returning ==
  ASSUME SessionsAssumption, SessionsInv, NEW s \in Sessions, Return(s)
  PROVE  SessionsInv'
BY Releasing, RunsRest DEF SessionsInv, Return, Locked

(* The holder of the lock commits; it is the owner, and no other call is in *)
(* between its look at this run and its commit.                            *)
LEMMA Committing ==
  ASSUME SessionsAssumption, SessionsInv, NEW s \in Sessions, Commit(s)
  PROVE  SessionsInv'
<1>0. BindingInv /\ HookInv /\ CallInv /\ RunsInv
  BY DEF SessionsInv
<1> DEFINE r == call[s].run
           i == call[s].step
<1>1. /\ call[s].at = "commit" /\ call[s].at \in Locked /\ r \in Runs /\ IsOwner(s, binding[r])
      /\ bindingLock[r] = <<"call", s>> /\ UNCHANGED <<binding, hook>>
  BY <1>0 DEF Commit, Locked, CallInv
<1>2. CASE UNCHANGED <<graphVars, acted>> /\ Release(s)
  BY <1>0, <1>1, <1>2, Releasing, RunsRest DEF SessionsInv
<1>3. CASE /\ i \in Pending(r)
           /\ IF Kind[i] = "manual"
              THEN phase' = [phase EXCEPT ![r][i] = "sealed"] /\ UNCHANGED position
              ELSE Answer(r, i)
           /\ acted' = [acted EXCEPT ![r] = @ \cup {s}]
           /\ CallGoes(s, "drive", i) /\ UNCHANGED bindingLock
  <2>1. CallInv'
    BY <1>0, <1>1, <1>3, CallMoves DEF Locked
  <2>2. call'[s].at = "drive" /\ \A t \in Sessions \ {s} : call'[t] = call[t]
    BY <1>0, <1>3, CallGoesOn
  <2>3. BindingInv'
    <3>1. /\ acted' = [q \in Runs |-> acted'[q]] /\ acted'[r] = acted[r] \cup {s}
          /\ \A q \in Runs \ {r} : acted'[q] = acted[q]
      BY <1>0, <1>1, <1>3 DEF BindingInv
    <3> QED
      BY <1>0, <1>1, <1>3, <3>1 DEF BindingInv, OnlyOwnerActs, IsOwner, LockHolders
  <2>4. /\ position' \in [Runs -> 0 .. Len(Steps) + 1] /\ phase' \in [Runs -> [Items -> Phases]]
        /\ \A q \in Runs \ {r} : position'[q] = position[q] /\ phase'[q] = phase[q]
    <3>1. CASE phase' = [phase EXCEPT ![r][i] = "sealed"] /\ UNCHANGED position
      BY <1>0, <1>1, <3>1 DEF RunsInv, Phases
    <3>2. CASE Answer(r, i)
      BY <1>0, <1>1, <1>3, <3>2, Answering
    <3> QED
      BY <1>3, <3>1, <3>2
  <2>5. ASSUME NEW t \in Sessions, call'[t].at \in {"match", "commit"}
        PROVE  call'[t] = call[t] /\ call[t].run \in Runs \ {r}
    <3>1. t # s /\ call'[t] = call[t]
      BY <2>2, <2>5
    <3>2. call[t].run \in Runs /\ bindingLock[call[t].run] = <<"call", t>>
      BY <1>0, <2>5, <3>1 DEF CallInv, Locked
    <3> QED
      BY <1>1, <3>1, <3>2, Holders
  <2>6. RunsInv'
    <3> HIDE DEF r, i
    <3> QED
      BY <1>0, <1>1, <2>4, <2>5, RunMoves
  <2> QED
    BY <1>0, <1>1, <1>3, <2>1, <2>3, <2>6, HookRests DEF SessionsInv
<1> QED
  BY <1>2, <1>3 DEF Commit

(* The engine has nothing to do at a run that awaits. *)
LEMMA EngineGoes ==
  ASSUME SessionsAssumption, SessionsInv, NEW r \in Runs, NEW i \in Items, Engine(r, i)
  PROVE  SessionsInv'
<1>0. BindingInv /\ HookInv /\ CallInv /\ RunsInv
  BY DEF SessionsInv
<1>1. UNCHANGED <<binding, bindingLock, hook, call, acted>> /\ i \in Pending(r)
  BY DEF Engine
<1>2. Status(r) # "awaiting"
  <2>1. ~IsWorkers(r, i)
    BY DEF Engine, IsWorkers
  <2> QED
    BY <1>1, <2>1, Awaited
<1>3. \A t \in Sessions : call'[t].at \in {"match", "commit"} =>
        call'[t] = call[t] /\ call[t].run \in Runs \ {r}
  BY <1>0, <1>1, <1>2 DEF CallInv, RunsInv
<1>4. /\ position' \in [Runs -> 0 .. Len(Steps) + 1] /\ phase' \in [Runs -> [Items -> Phases]]
      /\ \A q \in Runs \ {r} : position'[q] = position[q] /\ phase'[q] = phase[q]
  <2>1. CASE Answer(r, i)
    BY <1>0, <1>1, <2>1, Answering
  <2>2. CASE \E new \in Phases : phase' = [phase EXCEPT ![r][i] = new] /\ UNCHANGED position
    BY <1>0, <2>2 DEF RunsInv
  <2> QED
    BY <2>1, <2>2 DEF Engine, Phases
<1>5. RunsInv'
  BY <1>0, <1>3, <1>4, RunMoves
<1> QED
  BY <1>0, <1>1, <1>5, BindingsRest, HookRests, CallRests DEF SessionsInv

(* The owner of a binding that lapses stays its owner. *)
LEMMA Lapsing ==
  ASSUME SessionsAssumption, SessionsInv, NEW r \in Runs, Lapse(r)
  PROVE  SessionsInv'
<1>0. BindingInv /\ HookInv /\ CallInv /\ RunsInv
  BY DEF SessionsInv
<1>1. UNCHANGED <<graphVars, bindingLock, hook, call, acted>>
  BY DEF Lapse
<1>2. /\ binding[r] \in [session : Sessions, live : BOOLEAN] /\ binding[r] # None
      /\ binding[r].live
  BY <1>0 DEF Lapse, IsLive, BindingInv
<1>3. /\ binding' = [q \in Runs |-> binding'[q]]
      /\ binding'[r] = [session |-> binding[r].session, live |-> FALSE]
      /\ \A q \in Runs \ {r} : binding'[q] = binding[q]
  BY <1>0, <1>2 DEF Lapse, BindingInv
<1>4. /\ binding'[r] \in [session : Sessions, live : BOOLEAN] /\ binding'[r] # None
      /\ binding'[r].session = binding[r].session /\ ~binding'[r].live
  <2>1. binding[r].session \in Sessions
    BY <1>2
  <2>2. binding'[r] \in [session : Sessions, live : BOOLEAN]
    BY <1>3, <2>1
  <2>3. binding'[r] # None
    BY <2>2, Values
  <2>4. binding'[r].session = binding[r].session /\ binding'[r].live = FALSE
    BY <1>3
  <2> QED
    BY <2>2, <2>3, <2>4
<1>5. BindingInv'
  <2>1. ASSUME NEW q \in Runs
        PROVE  /\ binding'[q] \in {None} \cup [session : Sessions, live : BOOLEAN]
               /\ bindingLock'[q] \in {None} \cup LockHolders
               /\ acted'[q] # {} => binding'[q] # None /\ acted'[q] = {binding'[q].session}
    <3>1. CASE q = r
      BY <1>0, <1>1, <1>4, <3>1 DEF BindingInv, OnlyOwnerActs
    <3>2. CASE q # r
      BY <1>0, <1>1, <1>3, <3>2 DEF BindingInv, OnlyOwnerActs
    <3> QED
      BY <3>1, <3>2
  <2> QED
    BY <1>0, <1>1, <1>3, <2>1 DEF BindingInv, OnlyOwnerActs, LockHolders
<1>6. \A q \in Runs : \A read : StillRead(binding[q], read) => StillRead(binding'[q], read)
  BY <1>2, <1>3, <1>4 DEF StillRead
<1>7. \A q \in Runs, s \in Sessions : IsOwner(s, binding[q]) => IsOwner(s, binding'[q])
  BY <1>2, <1>3, <1>4 DEF IsOwner
<1>8. HookInv'
  BY <1>0, <1>1, <1>6 DEF HookInv
<1>9. CallInv'
  <2>1. \A t \in Sessions : call[t].at \in Locked => call[t].run \in Runs
    BY <1>0 DEF CallInv, Locked
  <2> QED
    BY <1>0, <1>1, <1>7, <2>1 DEF CallInv
<1> QED
  BY <1>0, <1>1, <1>5, <1>8, <1>9, RunsRest DEF SessionsInv

LEMMA Killing ==
  ASSUME SessionsAssumption, SessionsInv, NEW s \in Sessions, Kill(s)
  PROVE  SessionsInv'
<1>0. BindingInv /\ HookInv /\ CallInv /\ RunsInv
  BY DEF SessionsInv
<1>1. UNCHANGED <<graphVars, binding, acted>>
  BY DEF Kill
<1>2. CASE /\ HookEnds(s) /\ UNCHANGED call
           /\ bindingLock' = [r \in Runs |-> IF bindingLock[r] = <<"hook", s>> THEN None
                                             ELSE bindingLock[r]]
  <2>1. /\ hook' = [t \in Sessions |-> hook'[t]] /\ hook'[s].at = "idle"
        /\ \A t \in Sessions \ {s} : hook'[t] = hook[t]
    BY <1>0, <1>2 DEF HookEnds, HookInv, Idle
  <2>2. BindingInv'
    BY <1>0, <1>1, <1>2 DEF BindingInv, OnlyOwnerActs, LockHolders
  <2>3. \A q \in Runs : bindingLock'[q] # <<"hook", s>>
    BY <1>2, Values
  <2>4. ASSUME NEW q \in Runs, NEW t \in Sessions
        PROVE  /\ t # s => (bindingLock'[q] = <<"hook", t>> <=> bindingLock[q] = <<"hook", t>>)
               /\ bindingLock'[q] = <<"call", t>> <=> bindingLock[q] = <<"call", t>>
    <3>1. /\ t # s => <<"hook", t>> # <<"hook", s>>
          /\ <<"hook", s>> # <<"call", t>> /\ <<"hook", t>> # None /\ <<"call", t>> # None
      BY Values, Holders
    <3> QED
      BY <1>2, <3>1
  <2>5. HookInv'
    BY <1>0, <1>1, <2>1, <2>3, <2>4 DEF HookInv, HookSteps
  <2>6. CallInv'
    BY <1>0, <1>1, <1>2, <2>4 DEF CallInv, IsOwner
  <2> QED
    BY <1>0, <1>1, <1>2, <2>2, <2>5, <2>6, RunsRest DEF SessionsInv
<1>3. CASE /\ CallEnds(s) /\ UNCHANGED hook
           /\ bindingLock' = [r \in Runs |-> IF bindingLock[r] = <<"call", s>> THEN None
                                             ELSE bindingLock[r]]
  <2>1. CallInv'
    BY <1>0, <1>1, <1>3, CallLeaves
  <2>2. BindingInv' /\ HookInv'
    BY <1>0, <1>1, <1>3, CallLocks
  <2>3. \A t \in Sessions : call'[t] = call[t] \/ call'[t].at = "idle"
    BY <1>0, <1>3 DEF CallEnds, CallInv, Idle
  <2> QED
    BY <1>0, <1>1, <2>1, <2>2, <2>3, RunsRest DEF SessionsInv
<1> QED
  BY <1>2, <1>3 DEF Kill

(***************************************************************************)
(* A lock is held exactly in the steps between taking it and giving it     *)
(* back; while a hook is about to write, the binding is what it has read   *)
(* or has lapsed; while a call is under way, its session is the owner and, *)
(* from its look at the status to its commit, its run awaits.              *)
(***************************************************************************)
THEOREM SessionsInvariant ==
  ASSUME SessionsAssumption
  PROVE  SessionsSpec => []SessionsInv
<1>1. SessionsInit => SessionsInv
  BY Opening
<1>2. SessionsInv /\ [SessionsNext]_sessionsVars => SessionsInv'
  <2> SUFFICES ASSUME SessionsInv, [SessionsNext]_sessionsVars
               PROVE  SessionsInv'
    OBVIOUS
  <2>1. ASSUME NEW s \in Sessions, HookStep(s)
        PROVE  SessionsInv'
    BY <2>1, HookWithoutLock, Reading, Writing, Refreshing DEF HookStep
  <2>2. ASSUME NEW s \in Sessions, CallStep(s)
        PROVE  SessionsInv'
    BY <2>2, Owning, Selecting, Matching, Committing, Returning DEF CallStep
  <2>3. ASSUME NEW s \in Sessions, NEW r \in Runs, Start(s, r) \/ \E i : Call(s, r, i)
        PROVE  SessionsInv'
    BY <2>3, Starting, Calling
  <2>4. CASE UNCHANGED sessionsVars
    <3>1. UNCHANGED <<graphVars, binding, bindingLock, hook, call, acted>>
      BY <2>4 DEF sessionsVars
    <3> QED
      BY <3>1, BindingsRest, HookRests, CallRests, RunsRest DEF SessionsInv
  <2> QED
    BY <2>1, <2>2, <2>3, <2>4, Killing, Lapsing, EngineGoes DEF SessionsNext
<1> QED
  BY <1>1, <1>2, PTL DEF SessionsSpec

(***************************************************************************)
(* For any number of sessions and any recipe: from the moment a session    *)
(* has taken a run over nobody else answers it or is let write for it, and *)
(* a run that says it awaits can be answered at once and keeps awaiting    *)
(* while the call that was let in by that is under way.                    *)
(***************************************************************************)
THEOREM OwnersAnswer ==
  ASSUME SessionsAssumption
  PROVE  SessionsSpec => []OwnerAnswers
<1>1. SessionsInv => SessionsTypeOK /\ OnlyOwnerActs
  <2> SUFFICES ASSUME SessionsInv
               PROVE  SessionsTypeOK /\ OnlyOwnerActs
    OBVIOUS
  <2>1. \A r \in Runs : binding[r] # None => binding[r].session \in Sessions
    BY DEF SessionsInv, BindingInv
  <2> QED
    BY <2>1 DEF SessionsInv, BindingInv, HookInv, RunsInv, SessionsTypeOK
<1>2. SessionsInv => AwaitingIsHonest
  <2>1. ASSUME NEW r \in Runs, Status(r) = "awaiting", NEW i \in Pending(r)
        PROVE  IsWorkers(r, i) /\ Matches(r, i) = {i}
    <3>1. i # None
      BY PendingItems, Values
    <3> QED
      BY <2>1, <3>1, Awaited DEF Matches
  <2> QED
    BY <2>1 DEF AwaitingIsHonest, SessionsInv, RunsInv
<1> QED
  BY <1>1, <1>2, SessionsInvariant, PTL DEF OwnerAnswers

(***************************************************************************)
(* Only a hook at its write changes whose a run is, and it does so under   *)
(* the lock, by a binding that was its own, nobody's, or not live when it  *)
(* was read under the same lock.                                           *)
(***************************************************************************)
THEOREM OwnerStays ==
  ASSUME SessionsAssumption
  PROVE  SessionsSpec => OwnerIsNotRobbed
<1>1. SessionsInv /\ [SessionsNext]_sessionsVars =>
        [\A r \in Runs :
           IsLive(binding[r]) => IsOwner(binding[r].session, binding'[r])]_binding
  <2> SUFFICES ASSUME SessionsInv, [SessionsNext]_sessionsVars, binding' # binding,
                      NEW r \in Runs, IsLive(binding[r])
               PROVE  IsOwner(binding[r].session, binding'[r])
    OBVIOUS
  <2>0. binding \in [Runs -> {None} \cup [session : Sessions, live : BOOLEAN]]
    BY DEF SessionsInv, BindingInv
  <2>1. \/ \E s \in Sessions : WriteBinding(s)
        \/ \E q \in Runs : Lapse(q)
    BY DEF SessionsNext, HookStep, CallStep, PostTool, ReadBinding, PreTool, Check, Refresh, Deny,
       Start, Call, Own, Select, Match, Commit, Return, Engine, Kill, sessionsVars
  <2>2. ASSUME NEW s \in Sessions, WriteBinding(s)
        PROVE  IsOwner(binding[r].session, binding'[r])
    <3>1. CASE r = hook[s].run
      <4>1. StillRead(binding[r], hook[s].read)
        BY <2>2, <3>1 DEF SessionsInv, HookInv, WriteBinding
      <4>2. hook[s].read = binding[r]
        BY <4>1 DEF StillRead, IsLive
      <4>3. IsOwner(s, binding[r])
        BY <2>2, <4>2 DEF WriteBinding
      <4>4. binding'[r] = [session |-> s, live |-> TRUE]
        BY <2>0, <2>2, <3>1, <4>2, <4>3 DEF WriteBinding
      <4>5. binding'[r] \in [session : Sessions, live : BOOLEAN] /\ binding'[r].session = s
        BY <4>4
      <4> QED
        BY <4>3, <4>5, Values DEF IsOwner
    <3>2. CASE r # hook[s].run
      <4>1. binding'[r] = binding[r]
        BY <2>0, <2>2, <3>2 DEF WriteBinding
      <4> QED
        BY <4>1 DEF IsOwner, IsLive
    <3> QED
      BY <3>1, <3>2
  <2>3. ASSUME NEW q \in Runs, Lapse(q)
        PROVE  IsOwner(binding[r].session, binding'[r])
    <3>1. binding[r] \in [session : Sessions, live : BOOLEAN] /\ binding[r] # None
      BY <2>0 DEF IsLive
    <3>2. \/ binding'[r] = binding[r]
          \/ binding'[r] = [session |-> binding[r].session, live |-> FALSE]
      BY <2>0, <2>3, <3>1 DEF Lapse
    <3>3. [session |-> binding[r].session, live |-> FALSE] # None
      BY <3>1, Values
    <3> QED
      BY <3>1, <3>2, <3>3 DEF IsOwner
  <2> QED
    BY <2>1, <2>2, <2>3
<1> QED
  BY <1>1, SessionsInvariant, PTL DEF SessionsSpec, OwnerIsNotRobbed

(***************************************************************************)
(* The file lock.  First the names of the steps of a session, for what its *)
(* verdict was about.                                                      *)
(***************************************************************************)
ReleaseSteps == {"rel_read", "rel_unlink", "fb_read", "fb_unlink"}
OwningSteps  == {"write_lock", "cs", "rel_unlink", "fb_unlink"}

(***************************************************************************)
(* The break mutex: as long as nobody died inside a session, its file is   *)
(* the fresh file of the one open session, and nobody ever came to move a  *)
(* mutex aside.                                                            *)
(***************************************************************************)
MutexInv ==
  /\ \A c \in Calls : syscall[c] \notin RecoverySteps /\ side[c] = NoFile
  /\ \A c \in Calls : InSession(c) => brk.maker = c
  /\ brk # NoFile =>
       /\ brk.maker \in Calls /\ InSession(brk.maker)
       /\ brk.token = token[brk.maker]
       /\ brk.written = wrote[brk.maker]
       /\ ~brk.stale

(***************************************************************************)
(* The lock: who is about to use or to remove its own file finds it under  *)
(* the name, and fresh; who is about to break a file has its verdict still *)
(* true; and no stale file is that of a holder.                            *)
(***************************************************************************)
NameInv ==
  /\ \A c \in Calls : syscall[c] \in ReleaseSteps => goal[c] = "release"
  /\ \A c \in Calls : syscall[c] \in OwningSteps => lock.maker = c /\ ~lock.stale
  /\ \A c \in Calls : At(c, "break") => lock # NoFile /\ lock.stale
  /\ lock # NoFile => lock.maker \in Calls
  /\ lock # NoFile /\ lock.stale => ~Holding(lock.maker)

Undisturbed == MutexInv /\ NameInv

LockInv == TypeOK /\ (~orphaned => Undisturbed)

-----------------------------------------------------------------------------
(* Types *)

LEMMA NoFileIsNobodys == NoFile.maker \notin Calls /\ NoFile.token = 0 /\ ~NoFile.stale
BY CallsAssumption DEF NoFile

LEMMA TokenSet == Tokens \subseteq Nat \ {0}
BY CallsAssumption, FS_CardinalityType DEF Tokens

(* A set of one token per caller has no more tokens than there are callers. *)
LEMMA OneEach ==
  ASSUME NEW f, f \in [Calls -> Tokens \cup {0}]
  PROVE  LET T == {f[c] : c \in Calls}
         IN  IsFiniteSet(T) /\ Cardinality(T) <= Cardinality(Calls)
<1> DEFINE T == {f[c] : c \in Calls}
<1>1. f \in Surjection(Calls, T)
  BY DEF Surjection
<1> QED
  BY <1>1, CallsAssumption, FS_Surjection

(***************************************************************************)
(* With no mutex under the name there is a token that nothing refers to:   *)
(* every caller has at most one in its session and one in the file it has  *)
(* moved aside.                                                            *)
(***************************************************************************)
LEMMA TokenIsFresh ==
  ASSUME TypeOK, brk = NoFile
  PROVE  FreshToken \in Tokens /\ FreshToken \notin UsedTokens
<1> DEFINE aside == [c \in Calls |-> side[c].token]
           A == {aside[c] : c \in Calls}
           B == {token[c] : c \in Calls}
           n == Cardinality(Calls)
<1>1. n \in Nat
  BY CallsAssumption, FS_CardinalityType
<1>2. aside \in [Calls -> Tokens \cup {0}]
  BY DEF TypeOK, File, NoFile
<1>3. IsFiniteSet(A) /\ Cardinality(A) <= n
  BY <1>2, OneEach
<1>4. IsFiniteSet(B) /\ Cardinality(B) <= n
  BY OneEach DEF TypeOK
<1> DEFINE U == A \cup B
<1>5. IsFiniteSet(U) /\ Cardinality(U) <= 2 * n
  <2>1. IsFiniteSet(A \cap B)
    BY <1>3, FS_Intersection
  <2>2. Cardinality(A) \in Nat /\ Cardinality(B) \in Nat /\ Cardinality(A \cap B) \in Nat
    BY <1>3, <1>4, <2>1, FS_CardinalityType
  <2>3. IsFiniteSet(U) /\ Cardinality(U) = Cardinality(A) + Cardinality(B) - Cardinality(A \cap B)
    BY <1>3, <1>4, FS_Union
  <2> QED
    BY <1>1, <1>3, <1>4, <2>2, <2>3
<1>6. IsFiniteSet(Tokens) /\ Cardinality(Tokens) = 2 * n + 1
  BY <1>1, FS_Interval DEF Tokens
<1>7. \E t \in Tokens : t \notin U
  <2> SUFFICES ASSUME Tokens \subseteq U PROVE FALSE
    OBVIOUS
  <2>1. Cardinality(Tokens) <= Cardinality(U)
    BY <1>5, FS_Subset
  <2>2. Cardinality(U) \in Nat
    BY <1>5, FS_CardinalityType
  <2> QED
    BY <1>1, <1>5, <1>6, <2>1, <2>2
<1>8. UsedTokens = U \cup {0}
  BY NoFileIsNobodys DEF UsedTokens
<1>9. \E t \in Tokens : t \notin UsedTokens
  BY <1>7, <1>8, TokenSet
<1> QED
  BY <1>9 DEF FreshToken
(* A file stays one when its payload is written or its mtime changes.       *)
LEMMA FileRewritten ==
  ASSUME NEW f \in File \cup {NoFile}, f.maker \in Calls,
         NEW w \in BOOLEAN, NEW s \in BOOLEAN
  PROVE  /\ f \in File
         /\ [f EXCEPT !.written = w] \in File
         /\ [f EXCEPT !.stale = s] \in File
         /\ [f EXCEPT !.written = w, !.stale = s] \in File
<1>1. f \in File
  BY NoFileIsNobodys
<1> QED
  BY <1>1 DEF File

LEMMA FileMade ==
  ASSUME NEW c \in Calls, NEW t \in Tokens \cup {0}
  PROVE  [maker |-> c, token |-> t, written |-> FALSE, stale |-> FALSE] \in File
BY DEF File

LEMMA FileParts ==
  ASSUME NEW f \in File \cup {NoFile}
  PROVE  f.token \in Tokens \cup {0} /\ f.written \in BOOLEAN /\ f.stale \in BOOLEAN
<1>1. CASE f \in File
  BY <1>1 DEF File
<1>2. CASE f = NoFile
  BY <1>2 DEF NoFile
<1> QED
  BY <1>1, <1>2

LEMMA FilledType ==
  ASSUME NEW f \in File \cup {NoFile}, NEW c \in Calls
  PROVE  Filled(f, c) \in File \cup {NoFile}
BY FileRewritten DEF Filled

LEMMA StepLockTypes == TypeOK /\ [Next]_vars => TypeOK'
<1> SUFFICES ASSUME TypeOK, [Next]_vars PROVE TypeOK'
  OBVIOUS
<1> USE DEF TypeOK, LockSteps, SessionSteps, RecoverySteps, At, GoesTo, Files, locals
<1>1. ASSUME NEW c \in Calls, Step(c) PROVE TypeOK'
  <2>1. CASE Ask(c)
    BY <2>1 DEF Ask
  <2>2. CASE OpenLock(c)
    BY <2>2 DEF OpenLock, File, NoFile
  <2>3. CASE WriteLock(c)
    <3>1. lock' \in File \cup {NoFile}
      <4>1. lock.maker = c => [lock EXCEPT !.written = TRUE] \in File
        BY FileRewritten
      <4> QED
        BY <2>3, <4>1 DEF WriteLock
    <3>2. syscall' \in [Calls -> LockSteps]
      BY <2>3 DEF WriteLock
    <3> QED
      BY <2>3, <3>1, <3>2 DEF WriteLock
  <2>4. CASE StatLock(c)
    BY <2>4 DEF StatLock, Poll
  <2>5. CASE Leave(c)
    BY <2>5 DEF Leave
  <2>6. CASE OpenBreak(c)
    <3>1. CASE brk = NoFile
      <4>1. FreshToken \in Tokens
        BY <3>1, TokenIsFresh
      <4>2. brk' \in File
        BY <2>6, <3>1, <4>1, FileMade DEF OpenBreak
      <4> QED
        BY <2>6, <3>1, <4>1, <4>2 DEF OpenBreak
    <3>2. CASE brk # NoFile
      BY <2>6, <3>2 DEF OpenBreak
    <3> QED
      BY <3>1, <3>2
  <2>7. CASE StatBreak(c)
    BY <2>7 DEF StatBreak, Refused, Poll
  <2>8. CASE WriteBreak(c)
    <3>1. brk' \in File \cup {NoFile}
      BY <2>8, FilledType DEF WriteBreak
    <3>2. side' \in [Calls -> File \cup {NoFile}]
      <4>1. \A d \in Calls : Filled(side[d], c) \in File \cup {NoFile}
        BY FilledType
      <4> QED
        BY <2>8, <4>1 DEF WriteBreak
    <3>3. syscall' \in [Calls -> LockSteps] /\ wrote' \in [Calls -> BOOLEAN]
      BY <2>8 DEF WriteBreak, SessionBody
    <3> QED
      BY <2>8, <3>1, <3>2, <3>3 DEF WriteBreak
  <2>9. CASE Recheck(c)
    BY <2>9 DEF Recheck
  <2>10. CASE BreakLock(c)
    BY <2>10 DEF BreakLock
  <2>11. CASE ReadOwner(c)
    BY <2>11 DEF ReadOwner
  <2>12. CASE UnlinkOwn(c)
    BY <2>12 DEF UnlinkOwn
  <2>13. CASE ReadBreak(c)
    BY <2>13 DEF ReadBreak, SessionOver, Poll
  <2>14. CASE UnlinkBreak(c)
    BY <2>14 DEF UnlinkBreak, SessionOver, Poll
  <2>15. CASE RenameAside(c)
    BY <2>15 DEF RenameAside, Refused, Poll, File, NoFile
  <2>16. CASE StatSide(c)
    BY <2>16 DEF StatSide, Refused, Poll, File, NoFile
  <2>17. CASE Restore(c)
    BY <2>17, FileMade, FileParts DEF Restore, Refused, Poll
  <2>18. CASE RestoreWrite(c)
    BY <2>18, FileRewritten, FileParts DEF RestoreWrite, Refused, Poll
  <2> QED
    BY <1>1, <2>1, <2>2, <2>3, <2>4, <2>5, <2>6, <2>7, <2>8, <2>9, <2>10, <2>11, <2>12, <2>13, <2>14, <2>15, <2>16, <2>17, <2>18 DEF Step
<1>2. ASSUME NEW c \in Calls, Die(c) PROVE TypeOK'
  BY <1>2 DEF Die
<1>3. CASE AgeLock
  BY <1>3 DEF AgeLock, File
<1>4. CASE AgeBreak
  BY <1>4 DEF AgeBreak, File
<1>5. CASE UNCHANGED vars
  BY <1>5 DEF vars
<1> QED
  BY <1>1, <1>2, <1>3, <1>4, <1>5 DEF Next
-----------------------------------------------------------------------------
(* The break mutex and the lock *)

LEMMA SessionEnds ==
  ASSUME TypeOK, NEW c \in Calls, SessionOver(c)
  PROVE  /\ \/ syscall' = [syscall EXCEPT ![c] = "idle"]
            \/ syscall' = [syscall EXCEPT ![c] = "open_lock"]
         /\ goal' = [goal EXCEPT ![c] = "break"]
         /\ token' = [token EXCEPT ![c] = 0]
<1>1. goal[c] \in {"break", "broke", "release"}
  BY DEF TypeOK
<1> QED
  BY <1>1 DEF SessionOver, Poll, GoesTo

(* The mutex a session finds under the name is its own.                    *)
LEMMA SessionsOwn ==
  ASSUME MutexInv, NEW c \in Calls, InSession(c)
  PROVE  brk # NoFile /\ brk.maker = c /\ brk.token = token[c] /\ ~Theirs(c)
BY NoFileIsNobodys DEF MutexInv, Theirs

LEMMA MutexIsFresh == MutexInv => ~brk.stale
BY NoFileIsNobodys DEF MutexInv

LEMMA StepMutex ==
  ASSUME TypeOK, Undisturbed, [Next]_vars, ~orphaned'
  PROVE  MutexInv'
<1> USE CallsAssumption DEF TypeOK, Undisturbed, MutexInv, InSession, LockSteps, SessionSteps, RecoverySteps, At, GoesTo, Files, locals
<1>1. ASSUME NEW c \in Calls, Step(c) PROVE MutexInv'
  <2>1. CASE Ask(c)
    BY <2>1 DEF Ask
  <2>2. CASE OpenLock(c)
    BY <2>2 DEF OpenLock, NoFile
  <2>3. CASE WriteLock(c)
    BY <2>3 DEF WriteLock
  <2>4. CASE StatLock(c)
    BY <2>4 DEF StatLock, Poll
  <2>5. CASE Leave(c)
    BY <2>5 DEF Leave
  <2>6. CASE OpenBreak(c)
    <3>1. CASE brk = NoFile
      <4> DEFINE f == [maker |-> c, token |-> FreshToken, written |-> FALSE, stale |-> FALSE]
      <4>1. brk' = f /\ token' = [token EXCEPT ![c] = FreshToken] /\ wrote' = [wrote EXCEPT ![c] = FALSE]
        BY <2>6, <3>1 DEF OpenBreak
      <4>2. syscall' = [syscall EXCEPT ![c] = "brk_write"] /\ side' = side
        BY <2>6, <3>1 DEF OpenBreak
      <4>3. \A d \in Calls : ~InSession(d)
        BY <3>1, NoFileIsNobodys
      <4> QED
        BY <4>1, <4>2, <4>3
    <3>2. CASE brk # NoFile
      BY <2>6, <3>2 DEF OpenBreak
    <3> QED
      BY <3>1, <3>2
  <2>7. CASE StatBreak(c)
    BY <2>7, MutexIsFresh DEF StatBreak, Refused, Poll
  <2>8. CASE WriteBreak(c)
    <3>1. brk # NoFile /\ brk.maker = c /\ brk.token = token[c]
      BY <2>8, SessionsOwn DEF WriteBreak
    <3>2. Filled(brk, c) = [brk EXCEPT !.written = TRUE]
      BY <3>1 DEF Filled
    <3>3. \A d \in Calls : Filled(side[d], c) = NoFile
      BY NoFileIsNobodys DEF Filled
    <3>4. [brk EXCEPT !.written = TRUE].maker = c
          /\ [brk EXCEPT !.written = TRUE].token = token[c]
          /\ [brk EXCEPT !.written = TRUE].written
          /\ ~[brk EXCEPT !.written = TRUE].stale
      BY <3>1, FileRewritten DEF File
    <3>5. \A d \in Calls : side'[d] = NoFile
      BY <2>8, <3>3 DEF WriteBreak
    <3>6. syscall' \in {[syscall EXCEPT ![c] = "rel_read"], [syscall EXCEPT ![c] = "recheck"]}
      BY <2>8 DEF WriteBreak, SessionBody
    <3>7. CASE UNCHANGED <<wrote, brk, side>>
      BY <2>8, <3>6, <3>7 DEF WriteBreak
    <3>8. CASE wrote' = [wrote EXCEPT ![c] = TRUE] /\ brk' = Filled(brk, c)
      <4>1. /\ brk'.maker = c /\ brk'.token = token[c] /\ brk'.written /\ ~brk'.stale
            /\ brk'.maker \in Calls
        BY <3>2, <3>4, <3>8
      <4>2. /\ \A d \in Calls \ {c} : syscall'[d] = syscall[d]
            /\ syscall'[c] \in {"rel_read", "recheck"} /\ wrote'[c] = TRUE /\ token' = token
        BY <2>8, <3>6, <3>8 DEF WriteBreak
      <4>3. \A d \in Calls : InSession(d) => d = c
        BY <3>1
      <4>4. \A d \in Calls : InSession(d)' => brk'.maker = d
        BY <4>1, <4>2, <4>3
      <4>5. InSession(c)' /\ \A d \in Calls : syscall'[d] \notin RecoverySteps
        BY <4>2
      <4> QED
        BY <3>5, <4>1, <4>2, <4>4, <4>5
    <3> QED
      BY <2>8, <3>7, <3>8 DEF WriteBreak
  <2>9. CASE Recheck(c)
    BY <2>9 DEF Recheck
  <2>10. CASE BreakLock(c)
    BY <2>10 DEF BreakLock, NoFile
  <2>11. CASE ReadOwner(c)
    BY <2>11 DEF ReadOwner
  <2>12. CASE UnlinkOwn(c)
    BY <2>12 DEF UnlinkOwn, NoFile
  <2>13. CASE ReadBreak(c)
    <3>1. ~Theirs(c)
      BY <2>13, SessionsOwn DEF ReadBreak
    <3> QED
      BY <2>13, <3>1 DEF ReadBreak
  <2>14. CASE UnlinkBreak(c)
    <3>1. brk.maker = c
      BY <2>14, SessionsOwn DEF UnlinkBreak
    <3>2. SessionOver(c)
      BY <2>14 DEF UnlinkBreak
    <3> QED
      BY <2>14, <3>1, <3>2, SessionEnds, NoFileIsNobodys DEF UnlinkBreak
  <2>15. CASE RenameAside(c)
    BY <2>15 DEF RenameAside
  <2>16. CASE StatSide(c)
    BY <2>16 DEF StatSide
  <2>17. CASE Restore(c)
    BY <2>17 DEF Restore
  <2>18. CASE RestoreWrite(c)
    BY <2>18 DEF RestoreWrite
  <2> QED
    BY <1>1, <2>1, <2>2, <2>3, <2>4, <2>5, <2>6, <2>7, <2>8, <2>9, <2>10, <2>11, <2>12, <2>13, <2>14, <2>15, <2>16, <2>17, <2>18 DEF Step
<1>2. ASSUME NEW c \in Calls, Die(c) PROVE MutexInv'
  BY <1>2 DEF Die
<1>3. CASE AgeLock
  BY <1>3 DEF AgeLock
<1>4. CASE AgeBreak
  BY <1>4 DEF AgeBreak, SessionLive
<1>5. CASE UNCHANGED vars
  BY <1>5 DEF vars
<1> QED
  BY <1>1, <1>2, <1>3, <1>4, <1>5 DEF Next

LEMMA StepName ==
  ASSUME TypeOK, Undisturbed, [Next]_vars, ~orphaned'
  PROVE  NameInv'
<1> USE CallsAssumption DEF TypeOK, Undisturbed, MutexInv, NameInv, Holding, ReleaseSteps, OwningSteps, InSession, LockSteps, SessionSteps, RecoverySteps, At, GoesTo, Files, locals
<1>1. ASSUME NEW c \in Calls, Step(c) PROVE NameInv'
  <2>1. CASE Ask(c)
    BY <2>1 DEF Ask
  <2>2. CASE OpenLock(c)
    BY <2>2 DEF OpenLock, NoFile
  <2>3. CASE WriteLock(c)
    <3>1. lock \in File /\ lock.maker = c /\ ~lock.stale
      BY <2>3, FileRewritten DEF WriteLock
    <3>2. lock' \in File /\ lock'.maker = c /\ ~lock'.stale
      <4>1. lock' = lock \/ lock' = [lock EXCEPT !.written = TRUE]
        BY <2>3 DEF WriteLock
      <4> DEFINE g == [lock EXCEPT !.written = TRUE]
      <4>2. g \in File /\ g.maker = lock.maker /\ g.stale = lock.stale
        BY <3>1, FileRewritten DEF File
      <4> QED
        BY <3>1, <4>1, <4>2
    <3> QED
      BY <2>3, <3>1, <3>2 DEF WriteLock
  <2>4. CASE StatLock(c)
    BY <2>4 DEF StatLock, Poll
  <2>5. CASE Leave(c)
    BY <2>5 DEF Leave
  <2>6. CASE OpenBreak(c)
    BY <2>6, TokenIsFresh DEF OpenBreak, NoFile
  <2>7. CASE StatBreak(c)
    BY <2>7 DEF StatBreak, Refused, Poll
  <2>8. CASE WriteBreak(c)
    BY <2>8 DEF WriteBreak, Filled, SessionBody
  <2>9. CASE Recheck(c)
    BY <2>9, NoFileIsNobodys DEF Recheck
  <2>10. CASE BreakLock(c)
    BY <2>10 DEF BreakLock, NoFile
  <2>11. CASE ReadOwner(c)
    BY <2>11, NoFileIsNobodys DEF ReadOwner
  <2>12. CASE UnlinkOwn(c)
    BY <2>12 DEF UnlinkOwn, NoFile
  <2>13. CASE ReadBreak(c)
    <3>1. ~Theirs(c)
      BY <2>13, SessionsOwn DEF ReadBreak
    <3> QED
      BY <2>13, <3>1 DEF ReadBreak
  <2>14. CASE UnlinkBreak(c)
    <3>1. brk.maker = c
      BY <2>14, SessionsOwn DEF UnlinkBreak
    <3>2. SessionOver(c)
      BY <2>14 DEF UnlinkBreak
    <3> QED
      BY <2>14, <3>1, <3>2, SessionEnds, NoFileIsNobodys DEF UnlinkBreak
  <2>15. CASE RenameAside(c)
    BY <2>15 DEF RenameAside
  <2>16. CASE StatSide(c)
    BY <2>16 DEF StatSide
  <2>17. CASE Restore(c)
    BY <2>17 DEF Restore
  <2>18. CASE RestoreWrite(c)
    BY <2>18 DEF RestoreWrite
  <2> QED
    BY <1>1, <2>1, <2>2, <2>3, <2>4, <2>5, <2>6, <2>7, <2>8, <2>9, <2>10, <2>11, <2>12, <2>13, <2>14, <2>15, <2>16, <2>17, <2>18 DEF Step
<1>2. ASSUME NEW c \in Calls, Die(c) PROVE NameInv'
  BY <1>2 DEF Die
<1>3. CASE AgeLock
  BY <1>3 DEF AgeLock
<1>4. CASE AgeBreak
  BY <1>4 DEF AgeBreak, SessionLive
<1>5. CASE UNCHANGED vars
  BY <1>5 DEF vars
<1> QED
  BY <1>1, <1>2, <1>3, <1>4, <1>5 DEF Next

-----------------------------------------------------------------------------
(* The theorems *)

LEMMA InitLockInv == Init => LockInv
<1> SUFFICES ASSUME Init PROVE LockInv
  OBVIOUS
<1>1. TypeOK
  BY DEF Init, TypeOK, LockSteps
<1>2. MutexInv /\ NameInv
  BY NoFileIsNobodys DEF Init, MutexInv, NameInv, InSession, SessionSteps, RecoverySteps,
     ReleaseSteps, OwningSteps, At
<1> QED
  BY <1>1, <1>2 DEF LockInv, Undisturbed

(* A death inside a session is never forgotten. *)
LEMMA OrphanedForEver == [Next]_vars /\ orphaned => orphaned'
BY DEF Next, Step, vars, locals, Files, Ask, OpenLock, WriteLock, StatLock, Leave, OpenBreak,
   StatBreak, WriteBreak, Recheck, BreakLock, ReadOwner, UnlinkOwn, ReadBreak, UnlinkBreak,
   RenameAside, StatSide, Restore, RestoreWrite, AgeLock, AgeBreak, Die

LEMMA StepLockInv == LockInv /\ [Next]_vars => LockInv'
<1> SUFFICES ASSUME LockInv, [Next]_vars PROVE LockInv'
  OBVIOUS
<1>1. TypeOK'
  BY StepLockTypes DEF LockInv
<1>2. ASSUME ~orphaned' PROVE Undisturbed'
  <2>1. TypeOK /\ Undisturbed
    BY <1>2, OrphanedForEver DEF LockInv
  <2> QED
    BY <1>2, <2>1, StepMutex, StepName DEF Undisturbed
<1> QED
  BY <1>1, <1>2 DEF LockInv

(***************************************************************************)
(* The inductive invariant of the lock: the types, and until a process     *)
(* dies inside a breaker session (locking.py _breaker_session), what the   *)
(* two names hold for the callers that are about to act on them.           *)
(***************************************************************************)
THEOREM LockInvariant == Spec => []LockInv
BY InitLockInv, StepLockInv, PTL DEF Spec

(***************************************************************************)
(* The promise of the docstring of locking.py for any number of callers    *)
(* and deaths: no two of them are in the critical section, the holder's    *)
(* file stays under the name and fresh, and one breaker session is open at *)
(* a time, unless a process died inside one.                               *)
(***************************************************************************)
THEOREM LockHasOneHolder == Spec => []OneHolder
<1>1. LockInv => OneHolder
  <2> SUFFICES ASSUME LockInv PROVE OneHolder
    OBVIOUS
  <2>1. MutualExclusion /\ HolderOwnsName
    BY DEF LockInv, Undisturbed, NameInv, OwningSteps, MutualExclusion, HolderOwnsName, At
  <2>2. OneSession
    BY SessionsOwn DEF LockInv, Undisturbed, OneSession
  <2> QED
    BY <2>1, <2>2 DEF LockInv, OneHolder
<1> QED
  BY <1>1, LockInvariant, PTL

-----------------------------------------------------------------------------
(***************************************************************************)
(* The snapshots of a parallel block.  A snapshot that is bound, or about  *)
(* to be bound as an input, is sound: its history is finite, has no cycles *)
(* and begins at the start, and every snapshot of it shows, in the surface *)
(* of a branch, the branch's successor if that is in its own history, and  *)
(* otherwise the start.                                                    *)
(***************************************************************************)
BlockSurface == UNION {Surface[b] : b \in Branches}

TrueToBranches(s) ==
  /\ \A b \in Branches :
       /\ \A n \in successor[b] : n \in Chain(s) =>
            \A p \in Surface[b] : s.files[p] = n.files[p]
       /\ successor[b] \cap Chain(s) = {} =>
            \A p \in Surface[b] : s.files[p] = start.files[p]
  /\ \A p \in ProjectPaths \ BlockSurface : s.files[p] = start.files[p]

Sound(s) ==
  /\ IsFiniteSet(Chain(s))
  /\ \A t \in Chain(s) :
       /\ t \notin t.past /\ \A u \in t.past : Chain(u) \subseteq t.past
       /\ start \in Chain(t) /\ TrueToBranches(t)

(* A successor of b that is not bound yet: only the surface of b is new.   *)
Follows(n, b) ==
  \E q \in n.previous :
    /\ n.previous = {q} /\ Sound(q) /\ n.past = Chain(q) /\ n \notin n.past
    /\ \A p \in ProjectPaths \ Surface[b] : n.files[p] = q.files[p]

(* A managed branch works on the start, whatever the others do: a manual   *)
(* one is submitted only when the managed ones have been delivered.        *)
OfManaged(n) == ~n.manual /\ n.previous = {start} /\ n.past = {start}

OfKind(n, b) ==
  /\ b \in Manual => n.manual /\ Managed \subseteq delivered
  /\ b \in Managed => OfManaged(n)

(* The join has read when all had been delivered, and has what was accepted.*)
JoinHas(s) ==
  /\ delivered = Branches
  /\ Accepted \cap Manual # {} => \A b \in Accepted : successor[b] \cap Chain(s) # {}

AtMostOne(S) == \A s, t \in S : s = t

StartInv ==
  /\ project \in [ProjectPaths -> Content]
  /\ start.previous = {} /\ start.past = {} /\ ~start.manual /\ Sound(start)

FactsInv ==
  /\ current = [e \in Effects |-> current[e]]
  /\ successor = [b \in Branches |-> successor[b]] /\ result = [b \in Managed |-> result[b]]
  /\ \A e \in Effects : AtMostOne(current[e]) /\ \A s \in current[e] : Sound(s)
  /\ \A b \in Branches :
       AtMostOne(successor[b]) /\ \A s \in successor[b] : Sound(s) /\ OfKind(s, b)
  /\ \A b \in Managed :
       /\ current[b] \subseteq {start}
       /\ \A s \in result[b] : current[b] = {start} /\ OfManaged(s) /\ Follows(s, b)
  /\ \A s \in current["join"] : JoinHas(s)

AnswersInv ==
  /\ sealed \in [Branches -> {"none", "PASS", "FAIL", "ERROR", "manifest_invalid"}]
  /\ delivered \subseteq {b \in Branches : sealed[b] # "none"}
  /\ \A b \in Accepted : successor[b] # {}

DriveInv(d) ==
  LET r == drive[d]
  IN  /\ r.effect \in Effects
      /\ r.doing \in {"idle", "bind_input", "capture", "bind_successor", "seal"}
      /\ r.doing = "bind_input" =>
           /\ r.effect \in Managed \cup {"join"}
           /\ \E s \in r.snapshot :
                /\ r.snapshot = {s} /\ Sound(s)
                /\ IF r.effect = "join" THEN JoinHas(s) ELSE s = start
      /\ r.doing = "capture" =>
           r.effect \in Manual /\ Managed \subseteq delivered /\ r.outcome \in {"PASS", "FAIL"}
      /\ r.doing = "bind_successor" =>
           /\ r.effect \in Branches /\ r.outcome \in {"PASS", "FAIL"}
           /\ \E n \in r.snapshot :
                r.snapshot = {n} /\ Follows(n, r.effect) /\ OfKind(n, r.effect)
      /\ r.doing = "seal" =>
           /\ r.effect \in Branches /\ r.outcome \in {"PASS", "FAIL", "manifest_invalid"}
           /\ r.outcome # "manifest_invalid" => successor[r.effect] # {}

LineageInv ==
  /\ StartInv /\ FactsInv /\ AnswersInv
  /\ drive = [d \in Drives |-> drive[d]] /\ \A d \in Drives : DriveInv(d)

-----------------------------------------------------------------------------
(* The history of snapshots *)

LEMMA PartIsSound ==
  ASSUME NEW s, Sound(s), NEW t \in Chain(s)
  PROVE  Sound(t) /\ Chain(t) \subseteq Chain(s)
<1>1. Chain(t) \subseteq Chain(s)
  BY DEF Sound, Chain
<1>2. IsFiniteSet(Chain(t))
  BY <1>1, FS_Subset DEF Sound
<1> QED
  BY <1>1, <1>2 DEF Sound

LEMMA ImageIsFinite ==
  ASSUME NEW S, IsFiniteSet(S), NEW f, f = [x \in S |-> f[x]]
  PROVE  IsFiniteSet({f[x] : x \in S})
<1> DEFINE T == {f[x] : x \in S}
<1>1. f \in Surjection(S, T)
  BY DEF Surjection
<1> QED
  BY <1>1, FS_Surjection

(* Among finitely many snapshots, each comes before a tip or is one. *)
LEMMA EachHasATip ==
  ASSUME NEW S, IsFiniteSet(S), \A x \in S : Sound(x), NEW s \in S
  PROVE  \E t \in Tips(S) : s \in Chain(t)
<1> DEFINE later(x) == {u \in S : x \in u.past}
           X == {x \in S : s \in Chain(x)}
           sizes == {Cardinality(later(x)) : x \in X}
<1>1. \A x \in S : IsFiniteSet(later(x)) /\ Cardinality(later(x)) \in Nat
  BY FS_Subset, FS_CardinalityType
<1>2. sizes \subseteq Nat /\ sizes # {}
  BY <1>1 DEF Chain
<1>3. PICK n \in sizes : \A m \in sizes : ~(<<m, n>> \in OpToRel(<, Nat))
  <2> HIDE DEF sizes
  <2> QED
    BY <1>2, NatLessThanWellFounded, WFMin
<1>4. PICK x \in X : n = Cardinality(later(x))
  BY <1>3
<1>5. ASSUME NEW u \in S \ {x}, x \in Ancestors(u)
      PROVE  FALSE
  <2>1. x \in u.past /\ u \in Chain(u) /\ Sound(u)
    BY <1>5 DEF Ancestors, Chain
  <2>2. u \notin u.past /\ Chain(x) \subseteq u.past
    BY <2>1 DEF Sound
  <2>3. u \in X
    BY <1>4, <2>2 DEF Chain
  <2>4. \A v \in S : u \in v.past => x \in v.past
    BY <2>1 DEF Sound, Chain
  <2>5. later(u) \subseteq later(x) /\ u \in later(x) /\ u \notin later(u)
    BY <2>1, <2>2, <2>4
  <2>6. Cardinality(later(u)) <= n /\ Cardinality(later(u)) # n
    BY <1>1, <1>4, <2>5, FS_Subset
  <2>7. Cardinality(later(u)) \in sizes
    BY <2>3
  <2>8. Cardinality(later(u)) < n /\ Cardinality(later(u)) \in Nat /\ n \in Nat
    <3> HIDE DEF later
    <3> QED
      BY <1>1, <1>4, <2>6
  <2> QED
    BY <1>3, <2>7, <2>8 DEF OpToRel
<1>6. x \in Tips(S)
  BY <1>4, <1>5 DEF Tips
<1> QED
  BY <1>4, <1>6

LEMMA TipsStandApart ==
  ASSUME NEW S, NEW s \in Tips(S), NEW t \in Tips(S), s # t
  PROVE  s \notin Chain(t)
BY DEF Tips, Ancestors

OneSuccessorEach == \A b \in Branches : AtMostOne(successor[b])

(* A change since an earlier snapshot is the change of a successor. *)
LEMMA ChangeIsASuccessors ==
  ASSUME NEW t, Sound(t), NEW base \in Chain(t), NEW p \in ChangedIn(t, base)
  PROVE  \E b \in Branches : p \in Surface[b] /\
           \E n \in successor[b] : n \in Chain(t) /\ t.files[p] = n.files[p]
<1>1. Sound(base) /\ Chain(base) \subseteq Chain(t)
  BY PartIsSound
<1>2. t \in Chain(t) /\ base \in Chain(base)
  BY DEF Chain
<1>3. TrueToBranches(t) /\ TrueToBranches(base)
  BY <1>1, <1>2 DEF Sound
<1>4. p \in ProjectPaths /\ t.files[p] # base.files[p]
  BY DEF ChangedIn
<1>5. p \in BlockSurface
  BY <1>3, <1>4 DEF TrueToBranches
<1>6. PICK b \in Branches : p \in Surface[b]
  BY <1>5 DEF BlockSurface
<1>7. successor[b] \cap Chain(base) = {}
  BY <1>1, <1>3, <1>4, <1>6 DEF TrueToBranches
<1>8. t.files[p] # start.files[p]
  BY <1>3, <1>4, <1>6, <1>7 DEF TrueToBranches
<1>9. successor[b] \cap Chain(t) # {}
  BY <1>3, <1>6, <1>8 DEF TrueToBranches
<1> QED
  BY <1>3, <1>6, <1>9 DEF TrueToBranches

(* So two snapshots never change the same path in different ways. *)
LEMMA ChangesAgree ==
  ASSUME LineageAssumption, OneSuccessorEach, NEW s, NEW t, Sound(s), Sound(t),
         NEW base, base \in Chain(s), base \in Chain(t),
         NEW p \in ChangedIn(s, base) \cap ChangedIn(t, base)
  PROVE  s.files[p] = t.files[p]
<1>1. PICK a \in Branches : p \in Surface[a] /\
        \E n \in successor[a] : n \in Chain(s) /\ s.files[p] = n.files[p]
  BY ChangeIsASuccessors
<1>2. PICK b \in Branches : p \in Surface[b] /\
        \E n \in successor[b] : n \in Chain(t) /\ t.files[p] = n.files[p]
  BY ChangeIsASuccessors
<1>3. a = b
  BY <1>1, <1>2 DEF LineageAssumption
<1> QED
  BY <1>1, <1>2, <1>3 DEF OneSuccessorEach, AtMostOne

LEMMA MergedFiles ==
  ASSUME NEW T, NEW base, NEW p \in ProjectPaths
  PROVE  \/ \E t \in T : p \in ChangedIn(t, base) /\ Merged(T, base).files[p] = t.files[p]
         \/ /\ \A t \in T : t.files[p] = base.files[p]
            /\ Merged(T, base).files[p] = base.files[p]
<1>1. Merged(T, base).files[p] =
        IF \E t \in T : p \in ChangedIn(t, base)
        THEN (CHOOSE t \in T : p \in ChangedIn(t, base)).files[p]
        ELSE base.files[p]
  BY DEF Merged, ProjectSnapshot
<1> QED
  BY <1>1 DEF ChangedIn

(* What is merged keeps the successors of all it is merged from. *)
LEMMA MergedIsSound ==
  ASSUME LineageAssumption, OneSuccessorEach, NEW T, IsFiniteSet(T), T # {}, NEW base,
         \A t \in T : Sound(t) /\ base \in Chain(t)
  PROVE  /\ Sound(Merged(T, base))
         /\ \A t \in T : Chain(t) \subseteq Chain(Merged(T, base))
<1> DEFINE m == Merged(T, base)
<1>0. \A t \in T : Chain(base) \subseteq Chain(t)
  BY PartIsSound
<1>1. m.past = UNION {Chain(t) : t \in T}
  <2>1. m.past = UNION {Chain(q) : q \in {base} \cup T}
    BY DEF Merged, ProjectSnapshot
  <2> QED
    BY <1>0, <2>1
<1>2. \A u \in m.past : Sound(u) /\ Chain(u) \subseteq m.past
  BY <1>1, PartIsSound
<1>3. m \notin m.past
  BY <1>2 DEF Sound, Chain
<1>4. IsFiniteSet(Chain(m))
  <2> DEFINE f == [t \in T |-> Chain(t)]
  <2>1. IsFiniteSet({f[t] : t \in T})
    BY ImageIsFinite
  <2>2. \A C \in {f[t] : t \in T} : IsFiniteSet(C)
    BY DEF Sound
  <2>3. IsFiniteSet(UNION {f[t] : t \in T})
    BY <2>1, <2>2, FS_UNION
  <2>4. UNION {f[t] : t \in T} = m.past
    BY <1>1
  <2>5. Chain(m) = m.past \cup {m}
    BY DEF Chain
  <2> HIDE DEF m, f
  <2> QED
    BY <2>3, <2>4, <2>5, FS_AddElement
<1>5. start \in Chain(m)
  <2>1. PICK t \in T : TRUE
    OBVIOUS
  <2>2. start \in Chain(t)
    BY <2>1 DEF Sound, Chain
  <2> QED
    BY <1>1, <2>2 DEF Chain
<1>6. \A t \in T : TrueToBranches(t)
  BY DEF Sound, Chain
<1>7. TrueToBranches(base)
  <2>1. PICK t \in T : TRUE
    OBVIOUS
  <2> QED
    BY <2>1 DEF Sound
<1>8. \A t \in T : Chain(t) \subseteq Chain(m)
  BY <1>1 DEF Chain
<1>9. TrueToBranches(m)
  <2>1. ASSUME NEW b \in Branches, NEW n \in successor[b], n \in Chain(m), NEW p \in Surface[b]
        PROVE  m.files[p] = n.files[p]
    <3>0. p \in ProjectPaths
      BY <2>1 DEF LineageAssumption
    <3>1. CASE n = m
      BY <3>1
    <3>2. CASE n # m
      <4>1. PICK u \in T : n \in Chain(u)
        BY <1>1, <2>1, <3>2 DEF Chain
      <4>2. u.files[p] = n.files[p]
        BY <1>6, <2>1, <4>1 DEF TrueToBranches
      <4>3. ASSUME NEW t \in T, p \in ChangedIn(t, base)
            PROVE  t.files[p] = n.files[p]
        <5>1. PICK a \in Branches : p \in Surface[a] /\
                \E k \in successor[a] : k \in Chain(t) /\ t.files[p] = k.files[p]
          BY <4>3, ChangeIsASuccessors
        <5>2. a = b
          BY <2>1, <5>1 DEF LineageAssumption
        <5> QED
          BY <2>1, <5>1, <5>2 DEF OneSuccessorEach, AtMostOne
      <4> QED
        BY <3>0, <4>1, <4>2, <4>3, MergedFiles
    <3> QED
      BY <3>1, <3>2
  <2>2. ASSUME NEW b \in Branches, successor[b] \cap Chain(m) = {}, NEW p \in Surface[b]
        PROVE  m.files[p] = start.files[p]
    <3>0. p \in ProjectPaths
      BY <2>2 DEF LineageAssumption
    <3>1. \A t \in T : t.files[p] = start.files[p]
      BY <1>6, <1>8, <2>2 DEF TrueToBranches
    <3>2. base.files[p] = start.files[p]
      BY <1>0, <1>7, <1>8, <2>2 DEF TrueToBranches
    <3> QED
      BY <3>0, <3>1, <3>2, MergedFiles
  <2>3. ASSUME NEW p \in ProjectPaths \ BlockSurface
        PROVE  m.files[p] = start.files[p]
    BY <1>6, <1>7, <2>3, MergedFiles DEF TrueToBranches
  <2> QED
    BY <2>1, <2>2, <2>3 DEF TrueToBranches
<1>10. \A t \in Chain(m) :
         /\ t \notin t.past /\ \A u \in t.past : Chain(u) \subseteq t.past
         /\ start \in Chain(t) /\ TrueToBranches(t)
  <2>1. ASSUME NEW t \in m.past
        PROVE  /\ t \notin t.past /\ \A u \in t.past : Chain(u) \subseteq t.past
               /\ start \in Chain(t) /\ TrueToBranches(t)
    BY <1>2, <2>1 DEF Sound, Chain
  <2>2. /\ m \notin m.past /\ \A u \in m.past : Chain(u) \subseteq m.past
        /\ start \in Chain(m) /\ TrueToBranches(m)
    BY <1>2, <1>3, <1>5, <1>9
  <2> HIDE DEF m
  <2> QED
    BY <2>1, <2>2 DEF Chain
<1> HIDE DEF m
<1>11. Sound(m)
  BY <1>4, <1>10 DEF Sound
<1> QED
  BY <1>8, <1>11 DEF m

(* There is always something to merge to; what it is has every reference in *)
(* its history, unless it is the baseline of tips without manual steps.     *)
LEMMA MergeIsSound ==
  ASSUME LineageAssumption, OneSuccessorEach, NEW refs, IsFiniteSet(refs), refs # {},
         \A s \in refs : Sound(s)
  PROVE  /\ Merge(refs) # {}
         /\ \A m \in Merge(refs) :
              /\ Sound(m)
              /\ \/ \A s \in refs : s \in Chain(m)
                 \/ /\ ~OwnManual(Tips(refs), m)
                    /\ \A s \in Tips(refs) :
                         m \in Chain(s) /\ \E t \in Tips(refs) : t # s
<1> DEFINE tips == Tips(refs)
           C == {s \in UNION {Chain(t) : t \in tips} : \A t \in tips : s \in Chain(t)}
<1>1. tips \subseteq refs /\ tips # {}
  BY EachHasATip DEF Tips
<1>2. IsFiniteSet(tips)
  BY <1>1, FS_Subset
<1>3. CASE Cardinality(tips) = 1
  <2>1. PICK t : tips = {t}
    BY <1>2, <1>3, FS_Singleton
  <2>2. Merge(refs) = {t}
    BY <1>3, <2>1 DEF Merge
  <2>3. Sound(t) /\ \A s \in refs : s \in Chain(t)
    BY <1>1, <2>1, EachHasATip
  <2> QED
    BY <2>2, <2>3
<1>4. CASE Cardinality(tips) # 1
  <2>1. \A s \in tips : \E t \in tips : t # s
    <3>1. ASSUME NEW s \in tips, \A t \in tips : t = s
          PROVE  FALSE
      <4>1. tips = {s}
        BY <3>1
      <4> QED
        BY <1>4, <4>1, FS_Singleton
    <3> QED
      BY <3>1
  <2>2. Merge(refs) = {IF OwnManual(tips, base) THEN Merged(tips, base) ELSE base :
                         base \in {c \in Common(tips) :
                                     ~(OwnManual(tips, c) /\ Conflict(tips, c))}}
    BY <1>4 DEF Merge
  <2>3. C # {} /\ IsFiniteSet(C) /\ \A s \in C : Sound(s)
    <3>1. PICK t \in tips : TRUE
      BY <1>1
    <3>2. \A s \in tips : start \in Chain(s)
      BY <1>1 DEF Sound, Chain
    <3>3. C \subseteq Chain(t) /\ start \in C
      BY <3>1, <3>2
    <3>4. Sound(t)
      BY <1>1, <3>1
    <3> HIDE DEF C
    <3> QED
      BY <3>3, <3>4, FS_Subset, PartIsSound DEF Sound
  <2>4. Common(tips) # {} /\ Common(tips) \subseteq C
    <3>1. Common(tips) = Tips(C)
      BY DEF Common
    <3> HIDE DEF C
    <3> QED
      BY <2>3, <3>1, EachHasATip DEF Tips
  <2>5. \A c \in Common(tips) : ~Conflict(tips, c) /\ \A t \in tips : c \in Chain(t)
    <3>1. \A c \in Common(tips) : \A t \in tips : c \in Chain(t)
      BY <2>4
    <3> QED
      BY <1>1, <3>1, ChangesAgree DEF Conflict
  <2>6. Merge(refs) # {}
    BY <2>2, <2>4, <2>5
  <2>7. ASSUME NEW m \in Merge(refs)
        PROVE  /\ Sound(m)
               /\ \/ \A s \in refs : s \in Chain(m)
                  \/ /\ ~OwnManual(tips, m)
                     /\ \A s \in tips : m \in Chain(s) /\ \E t \in tips : t # s
    <3>1. PICK base \in Common(tips) :
            m = IF OwnManual(tips, base) THEN Merged(tips, base) ELSE base
      BY <2>2, <2>7
    <3>2. \A t \in tips : Sound(t) /\ base \in Chain(t)
      BY <1>1, <2>5, <3>1
    <3>3. CASE OwnManual(tips, base)
      <4>1. Sound(m) /\ \A t \in tips : Chain(t) \subseteq Chain(m)
        BY <1>1, <1>2, <3>1, <3>2, <3>3, MergedIsSound
      <4>2. \A s \in refs : \E t \in tips : s \in Chain(t)
        BY EachHasATip
      <4> QED
        BY <4>1, <4>2
    <3>4. CASE ~OwnManual(tips, base)
      BY <2>1, <2>3, <2>4, <3>1, <3>2, <3>4
    <3> QED
      BY <3>3, <3>4
  <2> QED
    BY <2>6, <2>7
<1> QED
  BY <1>3, <1>4

-----------------------------------------------------------------------------
(* What lasts *)

(* Snapshots stay sound, successors stay bound, deliveries are for good,    *)
(* and when all is delivered nothing more is accepted.                      *)
Grows ==
  /\ start' = start /\ \A s : Sound(s) => Sound(s)'
  /\ \A b \in Branches : successor[b] \subseteq successor'[b]
  /\ delivered \subseteq delivered'
  /\ delivered = Branches => delivered' = Branches /\ Accepted' = Accepted

LEMMA SoundRests ==
  ASSUME UNCHANGED <<start, successor>>, NEW s, Sound(s)
  PROVE  Sound(s)'
BY DEF Sound, TrueToBranches

LEMMA RestGrows ==
  ASSUME AnswersInv, UNCHANGED <<start, successor>>,
         delivered \subseteq delivered', delivered' \subseteq Branches,
         \A b \in Branches : sealed[b] # "none" => sealed'[b] = sealed[b]
  PROVE  Grows
<1>1. delivered = Branches => delivered' = Branches /\ Accepted' = Accepted
  BY DEF AnswersInv, Accepted
<1>2. \A s : Sound(s) => Sound(s)'
  BY SoundRests
<1> QED
  BY <1>1, <1>2 DEF Grows

LEMMA JoinHasLasts ==
  ASSUME Grows, NEW s, JoinHas(s)
  PROVE  JoinHas(s)'
<1>1. delivered' = Branches /\ Accepted' = Accepted /\ Accepted \subseteq Branches
  BY DEF Grows, JoinHas, Accepted
<1>2. \A b \in Branches : successor[b] \cap Chain(s) # {} => successor'[b] \cap Chain(s) # {}
  BY DEF Grows
<1> QED
  BY <1>1, <1>2 DEF JoinHas

LEMMA FollowsLasts ==
  ASSUME Grows
  PROVE  \A n, b : /\ Follows(n, b) => Follows(n, b)'
                   /\ OfManaged(n) => OfManaged(n)'
                   /\ OfKind(n, b) => OfKind(n, b)'
BY DEF Grows, Follows, OfManaged, OfKind

LEMMA StartRests ==
  ASSUME StartInv, Grows, project' \in [ProjectPaths -> Content]
  PROVE  StartInv'
BY DEF StartInv, Grows

LEMMA FactsRest ==
  ASSUME FactsInv, Grows, UNCHANGED <<current, successor, result>>
  PROVE  FactsInv'
<1>0. \A n, b : OfKind(n, b) => OfKind(n, b)'
  BY FollowsLasts
<1>1. \A e \in Effects : AtMostOne(current'[e]) /\ \A s \in current'[e] : Sound(s)'
  BY DEF FactsInv, Grows
<1>2. \A b \in Branches :
        AtMostOne(successor'[b]) /\ \A s \in successor'[b] : Sound(s)' /\ OfKind(s, b)'
  BY <1>0 DEF FactsInv, Grows
<1>3. \A b \in Managed :
        /\ current'[b] \subseteq {start'}
        /\ \A s \in result'[b] : current'[b] = {start'} /\ OfManaged(s)' /\ Follows(s, b)'
  BY FollowsLasts DEF FactsInv, Grows
<1>4. \A s \in current'["join"] : JoinHas(s)'
  BY JoinHasLasts DEF FactsInv
<1> QED
  BY <1>1, <1>2, <1>3, <1>4 DEF FactsInv

LEMMA AnswersRest ==
  ASSUME AnswersInv, Grows, UNCHANGED <<sealed, delivered>>
  PROVE  AnswersInv'
<1>1. Accepted' = Accepted /\ Accepted \subseteq Branches
  BY DEF Accepted
<1> QED
  BY <1>1 DEF AnswersInv, Grows

LEMMA DriveRests ==
  ASSUME Grows, NEW d, DriveInv(d), drive'[d] = drive[d]
  PROVE  DriveInv(d)'
<1> DEFINE r == drive[d]
<1>0. drive'[d] = r /\ start' = start
  BY DEF Grows
<1>1. r.effect \in Effects /\
      r.doing \in {"idle", "bind_input", "capture", "bind_successor", "seal"}
  BY DEF DriveInv
<1>2. r.doing = "bind_input" =>
        /\ r.effect \in Managed \cup {"join"}
        /\ \E s \in r.snapshot :
             /\ r.snapshot = {s} /\ Sound(s)'
             /\ IF r.effect = "join" THEN JoinHas(s)' ELSE s = start
  BY JoinHasLasts DEF DriveInv, Grows
<1>3. r.doing = "capture" =>
        r.effect \in Manual /\ Managed \subseteq delivered' /\ r.outcome \in {"PASS", "FAIL"}
  BY DEF DriveInv, Grows
<1>4. r.doing = "bind_successor" =>
        /\ r.effect \in Branches /\ r.outcome \in {"PASS", "FAIL"}
        /\ \E n \in r.snapshot :
             r.snapshot = {n} /\ Follows(n, r.effect)' /\ OfKind(n, r.effect)'
  <2>1. SUFFICES ASSUME r.doing = "bind_successor"
                 PROVE  /\ r.effect \in Branches /\ r.outcome \in {"PASS", "FAIL"}
                        /\ \E n \in r.snapshot :
                             /\ r.snapshot = {n}
                             /\ Follows(n, r.effect)' /\ OfKind(n, r.effect)'
    OBVIOUS
  <2>2. PICK n \in r.snapshot :
          r.snapshot = {n} /\ Follows(n, r.effect) /\ OfKind(n, r.effect)
    BY <2>1 DEF DriveInv
  <2>3. \A b : (Follows(n, b) => Follows(n, b)') /\ (OfKind(n, b) => OfKind(n, b)')
    BY FollowsLasts
  <2>4. Follows(n, r.effect)' /\ OfKind(n, r.effect)'
    <3>1. r.effect' = r.effect
      BY <1>0
    <3> QED
      BY <2>2, <2>3, <3>1 DEF Follows, OfKind
  <2> QED
    BY <2>1, <2>2, <2>4 DEF DriveInv
<1>5. r.doing = "seal" =>
        /\ r.effect \in Branches /\ r.outcome \in {"PASS", "FAIL", "manifest_invalid"}
        /\ r.outcome # "manifest_invalid" => successor'[r.effect] # {}
  BY DEF DriveInv, Grows
<1> QED
  BY <1>0, <1>1, <1>2, <1>3, <1>4, <1>5 DEF DriveInv

-----------------------------------------------------------------------------
(* What is current *)

SeenBy(e) == UNION {successor[b] : b \in {a \in Branches : Sees(e, a)}}

LEMMA CandidatesAreSound ==
  ASSUME LineageAssumption, FactsInv, NEW e
  PROVE  /\ OneSuccessorEach /\ IsFiniteSet(SeenBy(e))
         /\ \A s \in SeenBy(e) : Sound(s)
<1> DEFINE sees == {a \in Branches : Sees(e, a)}
           f == [a \in sees |-> successor[a]]
<1>1. IsFiniteSet(sees)
  BY FS_Subset DEF LineageAssumption
<1>2. IsFiniteSet({f[a] : a \in sees})
  <2> HIDE DEF sees
  <2> QED
    BY <1>1, ImageIsFinite
<1>3. ASSUME NEW a \in Branches
      PROVE  IsFiniteSet(successor[a])
  <2>1. CASE successor[a] = {}
    BY <2>1, FS_EmptySet
  <2>2. CASE successor[a] # {}
    <3>1. PICK s : successor[a] = {s}
      BY <1>3, <2>2 DEF FactsInv, AtMostOne
    <3> QED
      BY <3>1, FS_Singleton
  <2> QED
    BY <2>1, <2>2
<1>4. \A C \in {f[a] : a \in sees} : IsFiniteSet(C)
  BY <1>3
<1>5. IsFiniteSet(UNION {f[a] : a \in sees})
  BY <1>2, <1>4, FS_UNION
<1>6. SeenBy(e) = UNION {f[a] : a \in sees}
  BY DEF SeenBy
<1> QED
  BY <1>5, <1>6 DEF FactsInv, SeenBy, OneSuccessorEach

LEMMA CurrentIsSound ==
  ASSUME LineageAssumption, StartInv, FactsInv, NEW e
  PROVE  CurrentRefs(e) # {} /\ \A s \in CurrentRefs(e) : Sound(s)
<1>1. CurrentRefs(e) = IF SeenBy(e) = {} THEN {start} ELSE Merge(SeenBy(e))
  BY DEF CurrentRefs, SeenBy
<1>2. CASE SeenBy(e) = {}
  BY <1>1, <1>2 DEF StartInv
<1>3. CASE SeenBy(e) # {}
  BY <1>1, <1>3, CandidatesAreSound, MergeIsSound
<1> QED
  BY <1>2, <1>3

(* For a managed branch that is still open the start is current.            *)
LEMMA ManagedOnStart ==
  ASSUME LineageAssumption, FactsInv, NEW e \in Managed, e \notin delivered
  PROVE  CurrentRefs(e) = {start}
<1>1. \A b \in Branches : Sees(e, b) => successor[b] = {}
  BY DEF Sees, FactsInv, OfKind, LineageAssumption, Branches
<1>2. SeenBy(e) = {}
  BY <1>1 DEF SeenBy
<1> QED
  BY <1>2 DEF CurrentRefs, SeenBy

(* What the join finds has all that was accepted.                           *)
LEMMA JoinFindsAccepted ==
  ASSUME LineageAssumption, StartInv, FactsInv, AnswersInv, delivered = Branches,
         NEW s \in CurrentRefs("join")
  PROVE  JoinHas(s)
<1> DEFINE refs == SeenBy("join")
<1>1. SUFFICES ASSUME NEW a \in Accepted \cap Manual, NEW b \in Accepted
               PROVE  successor[b] \cap Chain(s) # {}
  BY DEF JoinHas
<1>2. a \in Branches /\ b \in Branches
  BY DEF Accepted
<1>3. \A c \in Branches : successor[c] \subseteq refs
  BY DEF SeenBy, Sees
<1>4. PICK m : m \in successor[a]
  BY <1>1 DEF AnswersInv
<1>5. PICK n : n \in successor[b]
  BY <1>1 DEF AnswersInv
<1>6. m \in refs /\ n \in refs
  BY <1>2, <1>3, <1>4, <1>5
<1>7. CurrentRefs("join") = Merge(refs)
  BY <1>6 DEF CurrentRefs, SeenBy
<1>8. OneSuccessorEach /\ IsFiniteSet(refs) /\ \A x \in refs : Sound(x)
  BY CandidatesAreSound
<1>9. \/ \A x \in refs : x \in Chain(s)
      \/ /\ ~OwnManual(Tips(refs), s)
         /\ \A x \in Tips(refs) : s \in Chain(x) /\ \E t \in Tips(refs) : t # x
  <2> HIDE DEF refs
  <2> QED
    BY <1>6, <1>7, <1>8, MergeIsSound
<1>10. ASSUME ~OwnManual(Tips(refs), s),
              \A x \in Tips(refs) : s \in Chain(x) /\ \E t \in Tips(refs) : t # x
       PROVE  FALSE
  <2>1. PICK t \in Tips(refs) : m \in Chain(t)
    BY <1>6, <1>8, EachHasATip
  <2>2. PICK c \in Branches : t \in successor[c]
    BY <2>1 DEF Tips, SeenBy
  <2>3. m.manual /\ ~start.manual
    BY <1>1, <1>2, <1>4 DEF FactsInv, OfKind, StartInv
  <2>4. CASE c \in Managed
    <3>1. ~t.manual /\ Chain(t) = {t, start}
      BY <2>2, <2>4 DEF FactsInv, OfKind, OfManaged, Chain
    <3> QED
      BY <2>1, <2>3, <3>1
  <2>5. CASE c \in Manual
    <3>1. t.manual
      BY <2>2, <2>5 DEF FactsInv, OfKind
    <3>2. PICK u \in Tips(refs) : u # t
      BY <1>10, <2>1
    <3>3. Sound(u) /\ s \in Chain(u)
      BY <1>8, <1>10, <3>2 DEF Tips
    <3>4. t \notin Chain(s)
      BY <3>2, <3>3, PartIsSound, TipsStandApart
    <3>5. t \in Chain(t) \ Chain(s)
      BY <3>4 DEF Chain
    <3> QED
      BY <1>10, <2>1, <3>1, <3>5 DEF OwnManual
  <2> QED
    BY <2>2, <2>4, <2>5 DEF Branches
<1> QED
  BY <1>5, <1>6, <1>9, <1>10

(* A new snapshot of a branch follows the one it was made from.             *)
LEMMA NewFollows ==
  ASSUME NEW q, Sound(q), NEW b, NEW n, n.previous = {q}, n.past = Chain(q),
         \A p \in ProjectPaths \ Surface[b] : n.files[p] = q.files[p]
  PROVE  Follows(n, b)
<1>1. n \notin n.past
  <2>1. SUFFICES ASSUME n \in Chain(q)
                 PROVE  FALSE
    OBVIOUS
  <2> QED
    BY <2>1 DEF Sound
<1> QED
  BY <1>1 DEF Follows

(* Binding it leaves every sound snapshot sound, and it is one itself.      *)
LEMMA BindingGrowsHistory ==
  ASSUME LineageAssumption, FactsInv, NEW b \in Branches, successor[b] = {},
         NEW n, Follows(n, b), start' = start,
         successor' = [successor EXCEPT ![b] = {n}]
  PROVE  (\A s : Sound(s) => Sound(s)') /\ Sound(n)'
<1>0. /\ successor'[b] = {n} /\ \A a \in Branches \ {b} : successor'[a] = successor[a]
  BY DEF FactsInv
<1>1. ASSUME NEW s, Sound(s)
      PROVE  Sound(s)'
  <2>1. ASSUME NEW t \in Chain(s)
        PROVE  TrueToBranches(t)'
    <3>1. Sound(t) /\ TrueToBranches(t)
      BY <1>1, <2>1, PartIsSound DEF Sound
    <3>2. ASSUME n \in Chain(t), NEW p \in Surface[b]
          PROVE  t.files[p] = n.files[p]
      <4>1. TrueToBranches(n)
        BY <3>1, <3>2 DEF Sound
      <4> QED
        BY <3>1, <4>1 DEF TrueToBranches
    <3>3. \A p \in Surface[b] : t.files[p] = start.files[p]
      BY <3>1 DEF TrueToBranches
    <3>4. ASSUME NEW a \in Branches
          PROVE  /\ \A k \in successor'[a] : k \in Chain(t) =>
                      \A p \in Surface[a] : t.files[p] = k.files[p]
                 /\ successor'[a] \cap Chain(t) = {} =>
                      \A p \in Surface[a] : t.files[p] = start.files[p]
      <4>1. CASE a = b
        BY <1>0, <3>2, <3>3, <4>1
      <4>2. CASE a # b
        BY <1>0, <3>1, <4>2 DEF TrueToBranches
      <4> QED
        BY <4>1, <4>2
    <3> QED
      BY <3>1, <3>4 DEF TrueToBranches
  <2> QED
    BY <1>1, <2>1 DEF Sound
<1>2. PICK q \in n.previous :
        /\ n.previous = {q} /\ Sound(q) /\ n.past = Chain(q) /\ n \notin n.past
        /\ \A p \in ProjectPaths \ Surface[b] : n.files[p] = q.files[p]
  BY DEF Follows
<1>3. Sound(q)'
  BY <1>1, <1>2
<1>4. q \in Chain(q) /\ Chain(n) = {n} \cup Chain(q)
  BY <1>2 DEF Chain
<1>5. TrueToBranches(n)'
  <2>1. TrueToBranches(q)
    BY <1>2, <1>4 DEF Sound
  <2>2. ASSUME NEW a \in Branches
        PROVE  /\ \A k \in successor'[a] : k \in Chain(n) =>
                    \A p \in Surface[a] : n.files[p] = k.files[p]
               /\ successor'[a] \cap Chain(n) = {} =>
                    \A p \in Surface[a] : n.files[p] = start.files[p]
    <3>1. CASE a = b
      BY <1>0, <1>4, <3>1
    <3>2. CASE a # b
      <4>1. \A p \in Surface[a] : n.files[p] = q.files[p]
        BY <1>2, <3>2 DEF LineageAssumption
      <4> QED
        BY <1>0, <1>4, <2>1, <3>2, <4>1 DEF TrueToBranches
    <3> QED
      BY <3>1, <3>2
  <2>3. \A p \in ProjectPaths \ BlockSurface : n.files[p] = start.files[p]
    BY <1>2, <2>1 DEF TrueToBranches, BlockSurface
  <2> QED
    BY <2>2, <2>3 DEF TrueToBranches
<1>6. ASSUME NEW t \in Chain(n)
      PROVE  /\ t \notin t.past /\ \A u \in t.past : Chain(u) \subseteq t.past
             /\ start \in Chain(t) /\ TrueToBranches(t)'
  <2>1. CASE t = n
    <3>1. \A u \in Chain(q) : Chain(u) \subseteq Chain(q)
      BY <1>2, PartIsSound
    <3>2. start \in Chain(q)
      BY <1>2, <1>4 DEF Sound
    <3> QED
      BY <1>2, <1>4, <1>5, <2>1, <3>1, <3>2
  <2>2. CASE t \in Chain(q)
    BY <1>2, <1>3, <2>2 DEF Sound
  <2> QED
    BY <1>4, <2>1, <2>2
<1>7. IsFiniteSet(Chain(n))
  BY <1>2, <1>4, FS_AddElement DEF Sound
<1>8. Sound(n)'
  BY <1>6, <1>7 DEF Sound
<1> QED
  BY <1>1, <1>8

-----------------------------------------------------------------------------
(* Every step *)

DrivesInv == drive = [d \in Drives |-> drive[d]] /\ \A d \in Drives : DriveInv(d)

LEMMA DrivesRest ==
  ASSUME DrivesInv, Grows, UNCHANGED drive
  PROVE  DrivesInv'
BY DriveRests DEF DrivesInv

LEMMA OneDriveMoves ==
  ASSUME DrivesInv, Grows, NEW d \in Drives, NEW r, drive' = [drive EXCEPT ![d] = r],
         drive'[d] = r => DriveInv(d)'
  PROVE  DrivesInv'
<1>1. drive'[d] = r /\ \A c \in Drives \ {d} : drive'[c] = drive[c]
  BY DEF DrivesInv
<1>2. \A c \in Drives \ {d} : DriveInv(c)'
  BY <1>1, DriveRests DEF DrivesInv
<1>3. drive' = [c \in Drives |-> drive'[c]]
  BY DEF DrivesInv
<1> QED
  BY <1>1, <1>2, <1>3 DEF DrivesInv

LEMMA RestingDrive ==
  ASSUME NEW d, drive'[d] = AtRest
  PROVE  DriveInv(d)'
BY DEF DriveInv, AtRest, Effects

LEMMA Editing ==
  ASSUME LineageInv, NEW p \in ProjectPaths, NEW v \in Content, Edit(p, v)
  PROVE  LineageInv'
<1>1. /\ UNCHANGED <<start, current, successor, result, sealed, delivered, drive>>
      /\ project' \in [ProjectPaths -> Content]
  BY DEF Edit, facts, LineageInv, StartInv
<1>2. Grows
  BY <1>1, RestGrows DEF LineageInv, AnswersInv
<1> QED
  BY <1>1, <1>2, StartRests, FactsRest, AnswersRest, DrivesRest DEF LineageInv, DrivesInv

(* A step of one drive that writes nothing else. *)
LEMMA OnlyTheDriveMoves ==
  ASSUME LineageInv, UNCHANGED <<project, facts, result, sealed, delivered>>,
         NEW d \in Drives, NEW r, drive' = [drive EXCEPT ![d] = r],
         Grows /\ drive'[d] = r => DriveInv(d)'
  PROVE  LineageInv'
<1>1. Grows
  BY RestGrows DEF LineageInv, AnswersInv, facts
<1>2. project' \in [ProjectPaths -> Content]
  BY DEF LineageInv, StartInv
<1>3. DrivesInv'
  BY <1>1, OneDriveMoves DEF LineageInv, DrivesInv
<1> QED
  BY <1>1, <1>2, <1>3, StartRests, FactsRest, AnswersRest DEF LineageInv, DrivesInv, facts

LEMMA ResolvingInput ==
  ASSUME LineageAssumption, LineageInv, NEW d \in Drives, NEW e \in Effects,
         ResolveInput(d, e)
  PROVE  LineageInv'
<1>1. PICK s \in CurrentRefs(e) :
        drive' = [drive EXCEPT ![d] = [doing |-> "bind_input", effect |-> e,
                                       snapshot |-> {s}, outcome |-> "none"]]
  BY DEF ResolveInput, Set
<1> DEFINE r == [doing |-> "bind_input", effect |-> e, snapshot |-> {s}, outcome |-> "none"]
<1>2. Sound(s) /\ e \in Managed \cup {"join"}
  BY CurrentIsSound DEF LineageInv, ResolveInput
<1>3. IF e = "join" THEN JoinHas(s) ELSE s = start
  <2>1. CASE e = "join"
    BY <2>1, JoinFindsAccepted DEF LineageInv, ResolveInput, Waits
  <2>2. CASE e # "join"
    BY <1>2, <2>2, ManagedOnStart DEF LineageInv, ResolveInput, Waits
  <2> QED
    BY <2>1, <2>2
<1>4. ASSUME Grows, drive'[d] = r
      PROVE  DriveInv(d)'
  <2>1. Sound(s)' /\ IF e = "join" THEN JoinHas(s)' ELSE s = start'
    BY <1>2, <1>3, <1>4, JoinHasLasts DEF Grows
  <2>2. /\ drive'[d].doing = "bind_input" /\ drive'[d].effect = e
        /\ drive'[d].snapshot = {s}
    BY <1>4
  <2>3. e \in Effects
    OBVIOUS
  <2> QED
    BY <1>2, <2>1, <2>2, <2>3 DEF DriveInv
<1> QED
  BY <1>1, <1>4, OnlyTheDriveMoves DEF ResolveInput

LEMMA BindingInput ==
  ASSUME LineageAssumption, LineageInv, NEW d \in Drives, BindInput(d)
  PROVE  LineageInv'
<1> DEFINE e == drive[d].effect
<1>1. UNCHANGED <<project, start, successor, result, sealed, delivered>>
  BY DEF BindInput
<1>2. Grows
  BY <1>1, RestGrows DEF LineageInv, AnswersInv
<1>3. project' \in [ProjectPaths -> Content]
  BY <1>1 DEF LineageInv, StartInv
<1>4. PICK s \in drive[d].snapshot :
        /\ e \in Managed \cup {"join"} /\ drive[d].snapshot = {s} /\ Sound(s)
        /\ IF e = "join" THEN JoinHas(s) ELSE s = start
  BY DEF LineageInv, DriveInv, BindInput
<1>5. e \in Effects
  BY <1>4 DEF Effects, Branches
<1>6. /\ current' = [x \in Effects |-> current'[x]]
      /\ current'[e] = IF current[e] = {} THEN {s} ELSE current[e]
      /\ \A x \in Effects \ {e} : current'[x] = current[x]
  BY <1>4, <1>5 DEF BindInput, LineageInv, FactsInv
<1>7. \A x \in Effects : AtMostOne(current'[x]) /\ \A t \in current'[x] : Sound(t)'
  BY <1>2, <1>4, <1>6 DEF LineageInv, FactsInv, Grows, AtMostOne
<1>8. ASSUME NEW b \in Managed
      PROVE  /\ current'[b] \subseteq {start}
             /\ \A t \in result[b] : current'[b] = {start}
  <2>1. b \in Effects /\ b # "join"
    BY DEF Effects, Branches, LineageAssumption
  <2> QED
    BY <1>4, <1>6, <2>1 DEF LineageInv, FactsInv
<1>9. \A t \in current'["join"] : JoinHas(t)'
  <2>1. \A t \in current'["join"] : JoinHas(t)
    BY <1>4, <1>6 DEF LineageInv, FactsInv, Effects
  <2> QED
    BY <1>2, <2>1, JoinHasLasts
<1>10. /\ \A b \in Branches :
            AtMostOne(successor'[b]) /\ \A t \in successor'[b] : Sound(t)' /\ OfKind(t, b)'
       /\ \A b \in Managed : \A t \in result'[b] : OfManaged(t)' /\ Follows(t, b)'
  <2>1. \A n, b : (OfManaged(n) => OfManaged(n)') /\ (OfKind(n, b) => OfKind(n, b)') /\
                  (Follows(n, b) => Follows(n, b)')
    BY <1>2, FollowsLasts
  <2>2. \A t : Sound(t) => Sound(t)'
    BY <1>2 DEF Grows
  <2> QED
    BY <1>1, <2>1, <2>2 DEF LineageInv, FactsInv
<1>11. FactsInv'
  BY <1>1, <1>6, <1>7, <1>8, <1>9, <1>10 DEF LineageInv, FactsInv
<1>12. DrivesInv'
  BY <1>2, OneDriveMoves, RestingDrive DEF LineageInv, DrivesInv, BindInput, Rest
<1> QED
  BY <1>1, <1>2, <1>3, <1>11, <1>12, StartRests, AnswersRest DEF LineageInv, DrivesInv

LEMMA Working ==
  ASSUME LineageAssumption, LineageInv, NEW b \in Managed, WorkOn(b)
  PROVE  LineageInv'
<1>1. UNCHANGED <<project, start, current, successor, sealed, delivered, drive>>
  BY DEF WorkOn, facts
<1>2. Grows
  BY <1>1, RestGrows DEF LineageInv, AnswersInv
<1>3. project' \in [ProjectPaths -> Content]
  BY <1>1 DEF LineageInv, StartInv
<1>4. PICK now \in current[b], v \in {"none", "new"} :
        result' = [result EXCEPT ![b] =
          {ProjectSnapshot([p \in ProjectPaths |-> IF p \in Surface[b] THEN v ELSE now.files[p]],
                           {now}, {}, FALSE, b)}]
  BY DEF WorkOn
<1> DEFINE files == [p \in ProjectPaths |-> IF p \in Surface[b] THEN v ELSE now.files[p]]
           n == ProjectSnapshot(files, {now}, {}, FALSE, b)
<1>5. now = start /\ current[b] = {start} /\ Sound(now) /\ start.past = {}
  BY <1>4 DEF LineageInv, FactsInv, StartInv
<1>6. Follows(n, b) /\ n.previous = {now} /\ n.past = Chain(now) /\ n.manual = FALSE
  <2>1. \A p \in ProjectPaths \ Surface[b] : files[p] = now.files[p]
    OBVIOUS
  <2>2. n.files = files /\ n.previous = {now} /\ n.past = Chain(now) /\ n.manual = FALSE
    BY DEF ProjectSnapshot
  <2> HIDE DEF files, n
  <2> QED
    BY <1>5, <2>1, <2>2, NewFollows
<1> HIDE DEF n
<1>7. OfManaged(n)
  BY <1>5, <1>6 DEF OfManaged, Chain
<1>8. /\ result' = [a \in Managed |-> result'[a]] /\ result'[b] = {n}
      /\ \A a \in Managed \ {b} : result'[a] = result[a]
  BY <1>4 DEF LineageInv, FactsInv, n
<1>9. \A a \in Managed : \A t \in result'[a] :
        current'[a] = {start'} /\ OfManaged(t) /\ Follows(t, a)
  BY <1>1, <1>5, <1>6, <1>7, <1>8 DEF LineageInv, FactsInv
<1>10. \A t, a : /\ OfManaged(t) => OfManaged(t)' /\ (Follows(t, a) => Follows(t, a)')
                 /\ OfKind(t, a) => OfKind(t, a)'
  BY <1>2, FollowsLasts
<1>11. \A t : (Sound(t) => Sound(t)') /\ (JoinHas(t) => JoinHas(t)')
  BY <1>2, JoinHasLasts DEF Grows
<1>12. FactsInv'
  BY <1>1, <1>8, <1>9, <1>10, <1>11 DEF LineageInv, FactsInv
<1> QED
  BY <1>1, <1>2, <1>3, <1>12, StartRests, AnswersRest, DrivesRest DEF LineageInv, DrivesInv

LEMMA StartsToBind ==
  ASSUME LineageInv, UNCHANGED <<project, facts, result, sealed, delivered>>,
         NEW d \in Drives, NEW b \in Branches, NEW n, NEW outcome \in {"PASS", "FAIL"},
         Follows(n, b), OfKind(n, b), Set(d, "bind_successor", b, {n}, outcome)
  PROVE  LineageInv'
<1> DEFINE r == [doing |-> "bind_successor", effect |-> b, snapshot |-> {n},
                 outcome |-> outcome]
<1>1. drive' = [drive EXCEPT ![d] = r]
  BY DEF Set
<1>2. ASSUME Grows, drive'[d] = r
      PROVE  DriveInv(d)'
  <2>1. Follows(n, b)' /\ OfKind(n, b)'
    BY <1>2, FollowsLasts
  <2>2. /\ drive'[d].doing = "bind_successor" /\ drive'[d].effect = b
        /\ drive'[d].snapshot = {n} /\ drive'[d].outcome = outcome
    BY <1>2
  <2> QED
    BY <2>1, <2>2 DEF DriveInv, Effects
<1> QED
  BY <1>1, <1>2, OnlyTheDriveMoves

LEMMA Adopting ==
  ASSUME LineageAssumption, LineageInv, NEW d \in Drives, NEW b \in Managed, Adopt(d, b)
  PROVE  LineageInv'
<1>0. UNCHANGED <<project, facts, result, sealed, delivered>>
  BY DEF Adopt
<1>1. PICK s \in result[b] :
        IF successor[b] = {s}
        THEN Set(d, "seal", b, {}, "PASS")
        ELSE Set(d, "bind_successor", b, {s}, "PASS")
  BY DEF Adopt
<1>2. b \in Branches /\ b \in Effects /\ Follows(s, b) /\ OfKind(s, b)
  BY DEF Branches, Effects, LineageInv, FactsInv, OfKind, LineageAssumption
<1>3. CASE successor[b] = {s}
  <2> DEFINE r == [doing |-> "seal", effect |-> b, snapshot |-> {}, outcome |-> "PASS"]
  <2>1. drive' = [drive EXCEPT ![d] = r]
    BY <1>1, <1>3 DEF Set
  <2>2. ASSUME drive'[d] = r
        PROVE  DriveInv(d)'
    BY <1>0, <1>2, <1>3, <2>2 DEF DriveInv, facts
  <2> QED
    BY <1>0, <2>1, <2>2, OnlyTheDriveMoves
<1>4. CASE successor[b] # {s}
  BY <1>0, <1>1, <1>2, <1>4, StartsToBind
<1> QED
  BY <1>3, <1>4

(* A step that answers or delivers. *)
LEMMA OnlyAnswersMove ==
  ASSUME LineageInv, UNCHANGED <<project, facts, result>>,
         AnswersInv', delivered \subseteq delivered',
         \A b \in Branches : sealed[b] # "none" => sealed'[b] = sealed[b],
         Grows => DrivesInv'
  PROVE  LineageInv'
<1>1. Grows
  BY RestGrows DEF LineageInv, AnswersInv, facts
<1>2. project' \in [ProjectPaths -> Content]
  BY DEF LineageInv, StartInv
<1> QED
  BY <1>1, <1>2, StartRests, FactsRest DEF LineageInv, DrivesInv, facts

LEMMA TimingOut ==
  ASSUME LineageInv, NEW b \in Managed, DeadlineAnswers(b)
  PROVE  LineageInv'
<1>1. b \in Branches /\ UNCHANGED <<project, facts, result, delivered, drive, successor>>
  BY DEF Branches, DeadlineAnswers, facts
<1>2. /\ sealed' \in [Branches -> {"none", "PASS", "FAIL", "ERROR", "manifest_invalid"}]
      /\ sealed'[b] = "ERROR" /\ sealed[b] = "none"
      /\ \A a \in Branches \ {b} : sealed'[a] = sealed[a]
  BY <1>1 DEF DeadlineAnswers, LineageInv, AnswersInv
<1>3. AnswersInv'
  BY <1>1, <1>2 DEF LineageInv, AnswersInv, Accepted
<1> QED
  BY <1>1, <1>2, <1>3, OnlyAnswersMove, DrivesRest DEF LineageInv, DrivesInv

LEMMA Delivering ==
  ASSUME LineageInv, NEW b \in Branches, Deliver(b)
  PROVE  LineageInv'
<1>1. /\ UNCHANGED <<project, facts, result, sealed, drive, successor>>
      /\ delivered' = delivered \cup {b} /\ sealed[b] # "none"
  BY DEF Deliver, facts
<1>2. AnswersInv'
  BY <1>1 DEF LineageInv, AnswersInv, Accepted
<1> QED
  BY <1>1, <1>2, OnlyAnswersMove, DrivesRest DEF LineageInv, DrivesInv

LEMMA HandingOver ==
  ASSUME LineageInv, NEW d, NEW b \in Manual, HandOver(d, b)
  PROVE  LineageInv'
<1>1. UNCHANGED <<project, facts, successor, result, sealed, delivered, drive>>
  BY DEF HandOver, facts
<1>2. AnswersInv'
  BY <1>1 DEF LineageInv, AnswersInv, Accepted
<1> QED
  BY <1>1, <1>2, OnlyAnswersMove, DrivesRest DEF LineageInv, DrivesInv

LEMMA Losing ==
  ASSUME LineageInv, NEW d \in Drives, Lose(d)
  PROVE  LineageInv'
BY OnlyTheDriveMoves, RestingDrive DEF Lose, Rest

LEMMA Submitting ==
  ASSUME LineageAssumption, LineageInv, NEW d \in Drives, NEW b \in Manual,
         NEW claimed \in Claims, Submit(d, b, claimed)
  PROVE  LineageInv'
<1>0. UNCHANGED <<project, facts, result, sealed, delivered>> /\ Managed \subseteq delivered
  BY DEF Submit
<1>1. b \in Branches /\ b \in Effects /\ claimed \in {"PASS", "FAIL"}
  BY DEF Branches, Effects, LineageAssumption
<1>2. CASE Set(d, "capture", b, {}, claimed)
  <2> DEFINE r == [doing |-> "capture", effect |-> b, snapshot |-> {}, outcome |-> claimed]
  <2>1. drive' = [drive EXCEPT ![d] = r]
    BY <1>2 DEF Set
  <2>2. ASSUME drive'[d] = r
        PROVE  DriveInv(d)'
    BY <1>0, <1>1, <2>2 DEF DriveInv
  <2> QED
    BY <1>0, <2>1, <2>2, OnlyTheDriveMoves
<1>3. CASE Set(d, "seal", b, {}, "manifest_invalid")
  <2> DEFINE r == [doing |-> "seal", effect |-> b, snapshot |-> {},
                   outcome |-> "manifest_invalid"]
  <2>1. drive' = [drive EXCEPT ![d] = r]
    BY <1>3 DEF Set
  <2>2. ASSUME drive'[d] = r
        PROVE  DriveInv(d)'
    BY <1>1, <2>2 DEF DriveInv
  <2> QED
    BY <1>0, <2>1, <2>2, OnlyTheDriveMoves
<1> QED
  BY <1>2, <1>3 DEF Submit

LEMMA Capturing ==
  ASSUME LineageAssumption, LineageInv, NEW d \in Drives, CaptureSuccessor(d)
  PROVE  LineageInv'
<1>0. UNCHANGED <<project, facts, result, sealed, delivered, successor>>
  BY DEF CaptureSuccessor, facts
<1>1. PICK b, outcome : b = drive[d].effect /\ outcome = drive[d].outcome
  OBVIOUS
<1>2. /\ b \in Manual /\ b \in Branches /\ b \in Effects /\ b \notin Managed
      /\ Managed \subseteq delivered /\ outcome \in {"PASS", "FAIL"}
  BY <1>1 DEF LineageInv, DriveInv, CaptureSuccessor, Branches, Effects, LineageAssumption
<1>3. CASE Rest(d)
  BY <1>0, <1>3, OnlyTheDriveMoves, RestingDrive DEF Rest
<1>4. CASE successor[b] # {} /\ Set(d, "seal", b, {}, outcome)
  <2> DEFINE r == [doing |-> "seal", effect |-> b, snapshot |-> {}, outcome |-> outcome]
  <2>1. drive' = [drive EXCEPT ![d] = r]
    BY <1>4 DEF Set
  <2>2. ASSUME drive'[d] = r
        PROVE  DriveInv(d)'
    BY <1>0, <1>2, <1>4, <2>2 DEF DriveInv
  <2> QED
    BY <1>0, <2>1, <2>2, OnlyTheDriveMoves
<1>5. ASSUME NEW previous \in CurrentRefs(b), NEW n,
             n = ProjectSnapshot([p \in ProjectPaths |-> IF p \in Surface[b] THEN project[p]
                                                         ELSE previous.files[p]],
                                 {previous}, {}, TRUE, "manual"),
             Set(d, "bind_successor", b, {n}, outcome)
      PROVE  LineageInv'
  <2>1. Sound(previous)
    BY CurrentIsSound DEF LineageInv
  <2>2. /\ n.previous = {previous} /\ n.past = Chain(previous) /\ n.manual
        /\ n.files = [p \in ProjectPaths |-> IF p \in Surface[b] THEN project[p]
                                             ELSE previous.files[p]]
    BY <1>5 DEF ProjectSnapshot
  <2>3. \A p \in ProjectPaths \ Surface[b] : n.files[p] = previous.files[p]
    BY <2>2
  <2>4. Follows(n, b) /\ OfKind(n, b)
    BY <1>2, <2>1, <2>2, <2>3, NewFollows DEF OfKind
  <2> QED
    BY <1>0, <1>2, <1>5, <2>4, StartsToBind
<1> QED
  BY <1>1, <1>3, <1>4, <1>5 DEF CaptureSuccessor

LEMMA BindingSuccessor ==
  ASSUME LineageAssumption, LineageInv, NEW d \in Drives, BindSuccessor(d)
  PROVE  LineageInv'
<1>1. PICK b, outcome : b = drive[d].effect /\ outcome = drive[d].outcome
  OBVIOUS
<1>2. PICK n \in drive[d].snapshot :
        /\ b \in Branches /\ outcome \in {"PASS", "FAIL"}
        /\ drive[d].snapshot = {n} /\ Follows(n, b) /\ OfKind(n, b)
  BY <1>1 DEF LineageInv, DriveInv, BindSuccessor
<1>3. UNCHANGED <<project, start, current, result, sealed, delivered>> /\ b \in Effects
  BY <1>2 DEF BindSuccessor, Effects
<1>4. CASE successor[b] \notin {{}, {n}}
  <2>1. Rest(d) /\ UNCHANGED facts
    BY <1>1, <1>2, <1>3, <1>4 DEF BindSuccessor, facts
  <2> QED
    BY <1>3, <2>1, OnlyTheDriveMoves, RestingDrive DEF Rest
<1> DEFINE r == [doing |-> "seal", effect |-> b, snapshot |-> {}, outcome |-> outcome]
<1>5. ASSUME successor[b] \in {{}, {n}}
      PROVE  /\ successor' = [successor EXCEPT ![b] = {n}] /\ successor'[b] = {n}
             /\ drive' = [drive EXCEPT ![d] = r]
  BY <1>1, <1>2, <1>5 DEF BindSuccessor, Set, LineageInv, FactsInv
<1>6. ASSUME drive'[d] = r, successor'[b] = {n}
      PROVE  DriveInv(d)'
  BY <1>2, <1>3, <1>6 DEF DriveInv
<1>7. CASE successor[b] = {n}
  <2>1. successor' = successor
    BY <1>2, <1>5, <1>7 DEF LineageInv, FactsInv
  <2> QED
    BY <1>3, <1>5, <1>6, <1>7, <2>1, OnlyTheDriveMoves DEF facts
<1>8. CASE successor[b] = {}
  <2>1. (\A s : Sound(s) => Sound(s)') /\ Sound(n)'
    BY <1>2, <1>3, <1>5, <1>8, BindingGrowsHistory DEF LineageInv
  <2>2. \A a \in Branches \ {b} : successor'[a] = successor[a]
    BY <1>5, <1>8 DEF LineageInv, FactsInv
  <2>3. Accepted' = Accepted
    BY <1>3 DEF Accepted
  <2>4. Grows
    BY <1>3, <1>8, <2>1, <2>2, <2>3 DEF Grows
  <2>5. \A t, a : /\ OfManaged(t) => OfManaged(t)'
                  /\ Follows(t, a) => Follows(t, a)'
                  /\ OfKind(t, a) => OfKind(t, a)'
    BY <2>4, FollowsLasts
  <2>6. FactsInv'
    <3>1. \A e \in Effects : AtMostOne(current'[e]) /\ \A s \in current'[e] : Sound(s)'
      BY <1>3, <2>1 DEF LineageInv, FactsInv
    <3>2. \A a \in Branches \ {b} :
            AtMostOne(successor'[a]) /\ \A s \in successor'[a] : Sound(s)' /\ OfKind(s, a)'
      BY <2>1, <2>2, <2>5 DEF LineageInv, FactsInv
    <3>3. AtMostOne(successor'[b]) /\ \A s \in successor'[b] : Sound(s)' /\ OfKind(s, b)'
      <4>1. OfKind(n, b)'
        BY <1>2, <2>5
      <4> QED
        BY <1>5, <1>8, <2>1, <4>1 DEF AtMostOne
    <3>4. \A a \in Managed :
            /\ current'[a] \subseteq {start'}
            /\ \A s \in result'[a] : current'[a] = {start'} /\ OfManaged(s)' /\ Follows(s, a)'
      BY <1>3, <2>5 DEF LineageInv, FactsInv
    <3>5. \A s \in current'["join"] : JoinHas(s)'
      BY <1>3, <2>4, JoinHasLasts DEF LineageInv, FactsInv
    <3>6. /\ current' = [e \in Effects |-> current'[e]]
          /\ successor' = [a \in Branches |-> successor'[a]]
          /\ result' = [a \in Managed |-> result'[a]]
      BY <1>3, <1>5, <1>8 DEF LineageInv, FactsInv
    <3> QED
      BY <3>1, <3>2, <3>3, <3>4, <3>5, <3>6 DEF FactsInv
  <2>7. project' \in [ProjectPaths -> Content]
    BY <1>3 DEF LineageInv, StartInv
  <2>8. DrivesInv'
    BY <1>5, <1>6, <1>8, <2>4, OneDriveMoves DEF LineageInv, DrivesInv
  <2> QED
    BY <1>3, <2>4, <2>6, <2>7, <2>8, StartRests, AnswersRest DEF LineageInv, DrivesInv
<1> QED
  BY <1>4, <1>7, <1>8

LEMMA Sealing ==
  ASSUME LineageInv, NEW d \in Drives, SealBranch(d)
  PROVE  LineageInv'
<1>1. PICK b, outcome : b = drive[d].effect /\ outcome = drive[d].outcome
  OBVIOUS
<1>2. /\ b \in Branches /\ outcome \in {"PASS", "FAIL", "manifest_invalid"}
      /\ outcome # "manifest_invalid" => successor[b] # {}
  BY <1>1 DEF LineageInv, DriveInv, SealBranch
<1>3. UNCHANGED <<project, facts, successor, result, delivered>>
  BY DEF SealBranch, facts
<1>4. /\ sealed' \in [Branches -> {"none", "PASS", "FAIL", "ERROR", "manifest_invalid"}]
      /\ sealed'[b] = IF sealed[b] = "none" THEN outcome ELSE sealed[b]
      /\ \A a \in Branches \ {b} : sealed'[a] = sealed[a]
  <2>1. sealed' = [sealed EXCEPT ![b] = IF sealed[b] = "none" THEN outcome ELSE sealed[b]]
    BY <1>1 DEF SealBranch
  <2>2. sealed \in [Branches -> {"none", "PASS", "FAIL", "ERROR", "manifest_invalid"}]
    BY DEF LineageInv, AnswersInv
  <2> QED
    BY <1>2, <2>1, <2>2
<1>5. \A a \in Branches : sealed[a] # "none" => sealed'[a] = sealed[a]
  BY <1>4
<1>6. \A a \in Accepted' : successor'[a] # {}
  <2>1. SUFFICES ASSUME NEW a \in Accepted'
                 PROVE  successor[a] # {}
    BY <1>3
  <2>2. CASE a \in Accepted
    BY <2>2 DEF LineageInv, AnswersInv
  <2>3. CASE a \notin Accepted
    BY <1>2, <1>4, <2>1, <2>3 DEF Accepted
  <2> QED
    BY <2>2, <2>3
<1>7. AnswersInv'
  BY <1>3, <1>4, <1>5, <1>6 DEF LineageInv, AnswersInv
<1>8. ASSUME Grows
      PROVE  DrivesInv'
  BY <1>8, OneDriveMoves, RestingDrive DEF SealBranch, Rest, LineageInv, DrivesInv
<1> QED
  BY <1>3, <1>5, <1>7, <1>8, OnlyAnswersMove

-----------------------------------------------------------------------------
(* The theorems *)

LEMMA InitLineageInv ==
  ASSUME LineageAssumption, LineageInit
  PROVE  LineageInv
<1>1. /\ start.files = project /\ start.previous = {} /\ start.past = {}
      /\ start.manual = FALSE
  BY DEF LineageInit, RootOf, ProjectSnapshot
<1>2. Chain(start) = {start}
  BY <1>1 DEF Chain
<1>3. \A b \in Branches : successor[b] = {}
  BY DEF LineageInit
<1>4. Sound(start)
  <2>1. IsFiniteSet({start})
    BY FS_Singleton
  <2> QED
    BY <1>1, <1>2, <1>3, <2>1 DEF Sound, TrueToBranches
<1>5. StartInv
  BY <1>1, <1>4 DEF StartInv, LineageInit, Content
<1>6. FactsInv
  BY DEF LineageInit, FactsInv, AtMostOne, Effects, Branches
<1>7. AnswersInv
  BY DEF LineageInit, AnswersInv, Accepted
<1>8. DrivesInv
  BY DEF LineageInit, DrivesInv, DriveInv, AtRest, Effects
<1> QED
  BY <1>5, <1>6, <1>7, <1>8 DEF LineageInv, DrivesInv

LEMMA StepLineageInv ==
  ASSUME LineageAssumption, LineageInv, [LineageNext]_lineageVars
  PROVE  LineageInv'
<1>1. ASSUME NEW d \in Drives, DriveStep(d)
      PROVE  LineageInv'
  BY <1>1, BindingInput, Capturing, BindingSuccessor, Sealing DEF DriveStep
<1>2. ASSUME NEW d \in Drives, NEW b \in Manual, NEW o \in Claims,
             HandOver(d, b) \/ Submit(d, b, o)
      PROVE  LineageInv'
  BY <1>2, HandingOver, Submitting
<1>3. CASE UNCHANGED lineageVars
  <2>1. UNCHANGED <<project, facts, successor, result, sealed, delivered, drive>>
    BY <1>3 DEF lineageVars, facts
  <2>2. AnswersInv'
    BY <2>1 DEF LineageInv, AnswersInv, Accepted
  <2> QED
    BY <2>1, <2>2, OnlyAnswersMove, DrivesRest DEF LineageInv, DrivesInv
<1>4. ASSUME NEW d \in Drives, NEW b \in Manual, HandOver(d, b)
      PROVE  LineageInv'
  BY <1>4, HandingOver
<1> QED
  BY <1>1, <1>2, <1>3, <1>4, Editing, Losing, ResolvingInput, Adopting, Working, TimingOut,
     Delivering DEF LineageNext

(***************************************************************************)
(* The inductive invariant of the snapshots (snapshot_resolver.py,         *)
(* _snapshot_lineage.py): whatever people edit and in whatever order       *)
(* drives read, capture, bind, seal and deliver, every bound snapshot has  *)
(* a finite history without cycles, which begins at the start and shows    *)
(* each branch's own change or none.                                       *)
(***************************************************************************)
THEOREM LineageInvariant ==
  ASSUME LineageAssumption
  PROVE  LineageSpec => []LineageInv
<1>1. LineageInit => LineageInv
  BY InitLineageInv
<1>2. LineageInv /\ [LineageNext]_lineageVars => LineageInv'
  BY StepLineageInv
<1> QED
  BY <1>1, <1>2, PTL DEF LineageSpec

LEMMA LineageInvMeets ==
  ASSUME LineageAssumption, LineageInv
  PROVE  BranchesMeet
<1>1. StartInv /\ FactsInv /\ AnswersInv
  BY DEF LineageInv
<1>2. LineageTypeOK
  <2>1. \A s : Sound(s) => start \in Chain(s)
    BY DEF Sound, Chain
  <2> QED
    BY <1>1, <2>1 DEF LineageTypeOK, LineageInv, StartInv, FactsInv, AnswersInv, DriveInv
<1>3. ASSUME NEW now \in current["join"]
      PROVE  /\ Accepted \cap Manual # {} => \A b \in Branches :
                  \/ \E s \in successor[b] : \A p \in Surface[b] : now.files[p] = s.files[p]
                  \/ b \notin Accepted /\ \A p \in Surface[b] : now.files[p] = start.files[p]
             /\ ChangedIn(now, start) \subseteq UNION {Surface[b] : b \in Branches}
  <2>1. Sound(now) /\ JoinHas(now)
    BY <1>1, <1>3 DEF FactsInv, Effects
  <2>2. TrueToBranches(now)
    BY <2>1 DEF Sound, Chain
  <2>3. ChangedIn(now, start) \subseteq BlockSurface
    BY <2>2 DEF TrueToBranches, ChangedIn
  <2>4. ASSUME Accepted \cap Manual # {}, NEW b \in Branches
        PROVE  \/ \E s \in successor[b] : \A p \in Surface[b] : now.files[p] = s.files[p]
               \/ b \notin Accepted /\ \A p \in Surface[b] : now.files[p] = start.files[p]
    <3>1. CASE successor[b] \cap Chain(now) # {}
      BY <2>2, <3>1 DEF TrueToBranches
    <3>2. CASE successor[b] \cap Chain(now) = {}
      BY <2>1, <2>2, <2>4, <3>2 DEF TrueToBranches, JoinHas
    <3> QED
      BY <3>1, <3>2
  <2> QED
    BY <2>3, <2>4 DEF BlockSurface
<1>4. JoinSeesAccepted
  BY <1>1, <1>3, CurrentIsSound DEF JoinSeesAccepted
<1>5. WorkIsAdopted
  <2>1. SUFFICES ASSUME NEW b \in Managed, sealed[b] = "none", NEW s \in result[b]
                 PROVE  s.previous = current[b] /\ current[b] \subseteq CurrentRefs(b)
    BY DEF WorkIsAdopted
  <2>2. b \notin delivered
    BY <1>1, <2>1 DEF AnswersInv
  <2>3. CurrentRefs(b) = {start}
    BY <1>1, <2>2, ManagedOnStart
  <2> QED
    BY <1>1, <2>1, <2>3 DEF FactsInv, OfManaged
<1> QED
  BY <1>2, <1>4, <1>5 DEF BranchesMeet

(***************************************************************************)
(* What the join of a parallel block works on has the changes of every     *)
(* accepted branch and nothing else, there always is an input for it, and  *)
(* what a worker has made of its input is never refused                    *)
(* (merge_lineage_snapshots, capture_successor, adopt_successor), for any  *)
(* finite set of branches, any number of drives and edits.                 *)
(***************************************************************************)
THEOREM BranchesAlwaysMeet ==
  ASSUME LineageAssumption
  PROVE  LineageSpec => []BranchesMeet
<1>1. LineageInv => BranchesMeet
  BY LineageInvMeets
<1> QED
  BY <1>1, LineageInvariant, PTL
=============================================================================
