-------------------------------- MODULE Schema --------------------------------
(***************************************************************************)
(* Opening the runtime database (_storage_migration.py, storage.py) and    *)
(* the backfill of the watches of old runs (_recovery_backfill.py).        *)
(* Every process that opens the owner state classifies the database first: *)
(* it is absent, of epoch 2, or of the schema before, which is taken to    *)
(* epoch 2 in one exclusive transaction.  Runs that were admitted before   *)
(* there were watches get one from a backfill, a page of the catalog at a  *)
(* time, while other processes admit, finish and forget runs.              *)
(***************************************************************************)
EXTENDS Integers, FiniteSets, FiniteSetsExt

CONSTANTS
  Procs,         \* processes that open the owner state for writing
  RunIds,        \* public run ids, numbered in their order
  PageSize,      \* _RunDriveBackfill.PAGE_SIZE
  MaxDeaths      \* BOUND: processes that die

ASSUME SchemaAssumption ==
  /\ RunIds \subseteq Nat \ {0} /\ IsFiniteSet(RunIds)
  /\ PageSize \in Nat \ {0} /\ MaxDeaths \in Nat

VARIABLES
  tables,        \* which tables the file has
  epoch,         \* is the row of runtime_schema_epoch (1, 2)
  catalog,       \* the runs of the catalog
  graph,         \* run -> what its checkpoint says
  old,           \* runs with a row in effect_dispatch_watches, input and all
  watched,       \* runs with a row in run_drive_watches
  inputs,        \* those of them whose row names the input of the start
  after,         \* cursor of the migration row, 0 for none
  completed,     \* the migration row: "no row", "running", "completed"
  fence,         \* the process in runtime-schema.lock
  pc,            \* process -> where it is
  missing,       \* process -> the tables it found missing
  cached,        \* process -> the migration row as it read or wrote it last
  page,          \* process -> the runs it has classified for the next page
  deaths

rows  == <<old, watched, inputs>>
file  == <<tables, epoch, catalog, graph, rows>>
row   == <<after, completed>>
local == <<missing, cached, page>>
schemaVars == <<file, row, fence, pc, local, deaths>>

NoProc == "none"
NoPage == [runs |-> {}, open |-> {}, taken |-> FALSE, last |-> FALSE]

(* create_all creates the tables in the order of their dependencies: some   *)
(* before runtime_schema_epoch, then this one, then the others.             *)
Stages == <<"before", "epoch", "others">>
V2 == {"before", "epoch", "others"}
Legacy == {"legacy"}

(* _validate_database_integrity against the exact manifest of a schema.     *)
IsLegacy == tables = Legacy
IsV2 == tables = V2 /\ epoch

Row == [after |-> after, completed |-> completed]

(* A run is admitted before it has a checkpoint; one that has neither a     *)
(* checkpoint nor a watch, or cannot be bound, is broken.                   *)
Graphs == {"absent", "admitted", "open", "ended", "broken"}

SchemaInit ==
  /\ \/ tables = {} /\ catalog = {} /\ old = {}
     \/ tables = Legacy /\ catalog \in SUBSET RunIds /\ old \in SUBSET catalog
  /\ epoch = FALSE /\ watched = {} /\ inputs = {}
  /\ graph \in {g \in [RunIds -> Graphs] :
                  \A r \in RunIds : /\ g[r] = "absent" <=> r \notin catalog
                                    /\ g[r] = "admitted" => r \in old
                                    /\ g[r] = "broken" => r \notin old}
  /\ after = 0 /\ completed = "no row" /\ fence = NoProc
  /\ pc = [p \in Procs |-> "down"]
  /\ missing = [p \in Procs |-> {}]
  /\ cached = [p \in Procs |-> [after |-> 0, completed |-> "no row"]]
  /\ page = [p \in Procs |-> NoPage]
  /\ deaths = 0

-----------------------------------------------------------------------------
(* Opening *)

Goto(p, step) == pc' = [pc EXCEPT ![p] = step]

(* transition_legacy_to_v2: an absent or empty file is left to the store.   *)
Classify(p) ==
  /\ pc[p] = "down" /\ tables = {} /\ Goto(p, "store")
  /\ UNCHANGED <<file, row, fence, local, deaths>>

TakeFence(p) ==
  /\ pc[p] = "down" /\ tables # {} /\ fence = NoProc /\ fence' = p
  /\ Goto(p, "transition")
  /\ UNCHANGED <<file, row, local, deaths>>

(* The new tables, a row with its input for each of the old table, the      *)
(* epoch, and the old table dropped (_populate_v2_run_drive_schema).        *)
CopyWatches ==
  /\ tables' = V2 /\ epoch' = TRUE
  /\ watched' = old /\ inputs' = old /\ old' = {}

(* Mutant: only the ids are copied; the input may be null in the new table. *)
TransitionForgets(p) ==
  /\ pc[p] = "transition" /\ fence' = NoProc
  /\ IF IsLegacy
     THEN /\ tables' = V2 /\ epoch' = TRUE /\ Goto(p, "store")
          /\ watched' = old /\ inputs' = {} /\ old' = {}
     ELSE /\ Goto(p, IF IsV2 THEN "store" ELSE "refused")
          /\ UNCHANGED <<tables, epoch, rows>>
  /\ UNCHANGED <<catalog, graph, row, local, deaths>>

(* Mutant: the fence is kept when there is nothing to migrate.              *)
TransitionKeepsFence(p) ==
  /\ pc[p] = "transition"
  /\ IF IsLegacy
     THEN CopyWatches /\ Goto(p, "store") /\ fence' = NoProc
     ELSE /\ Goto(p, IF IsV2 THEN "store" ELSE "refused")
          /\ UNCHANGED <<tables, epoch, rows, fence>>
  /\ UNCHANGED <<catalog, graph, row, local, deaths>>

(* The exclusive transaction: exact epoch 2 is accepted; the exact schema   *)
(* before it becomes epoch 2 with its watches; anything else is refused.    *)
Transition(p) ==
  /\ pc[p] = "transition" /\ fence' = NoProc
  /\ IF IsLegacy
     THEN CopyWatches /\ Goto(p, "store")
     ELSE /\ Goto(p, IF IsV2 THEN "store" ELSE "refused")
          /\ UNCHANGED <<tables, epoch, rows>>
  /\ UNCHANGED <<catalog, graph, row, local, deaths>>

(* SQLiteStore inspects the tables: a database without the epoch table is   *)
(* refused, and create_all notes which tables it will have to create.       *)
OpenStore(p) ==
  /\ pc[p] = "store"
  /\ IF tables # {} /\ "epoch" \notin tables
     THEN Goto(p, "refused") /\ UNCHANGED missing
     ELSE Goto(p, "create") /\ missing' = [missing EXCEPT ![p] = V2 \ tables]
  /\ UNCHANGED <<file, row, fence, cached, page, deaths>>

(* One stage of create_all; every CREATE TABLE is durable at once, and one  *)
(* for a table that somebody else has created meanwhile fails.              *)
CreateStage(p) ==
  /\ pc[p] = "create" /\ missing[p] # {}
  /\ LET i == Min({n \in 1 .. 3 : Stages[n] \in missing[p]})
     IN  IF Stages[i] \in tables
         THEN Goto(p, "refused") /\ UNCHANGED <<tables, missing>>
         ELSE /\ tables' = tables \cup {Stages[i]}
              /\ missing' = [missing EXCEPT ![p] = missing[p] \ {Stages[i]}]
              /\ UNCHANGED pc
  /\ UNCHANGED <<epoch, catalog, graph, rows, row, fence, cached, page, deaths>>

(* INSERT OR IGNORE of the epoch; the recovery driver of the core is built  *)
(* over the store and reads the migration row once.                         *)
WriteEpoch(p) ==
  /\ pc[p] = "create" /\ missing[p] = {} /\ epoch' = TRUE /\ Goto(p, "up")
  /\ cached' = [cached EXCEPT ![p] = Row]
  /\ UNCHANGED <<tables, catalog, graph, rows, row, fence, missing, page, deaths>>

(* A process dies, or gives up a refused open and is started again.  What a *)
(* transaction had not committed is not in the file.                        *)
Restart(p) ==
  /\ pc[p] # "down"
  /\ \/ pc[p] \in {"refused", "stopped"} /\ UNCHANGED deaths
     \/ /\ pc[p] \notin {"refused", "stopped"}
        /\ deaths < MaxDeaths /\ deaths' = deaths + 1
  /\ Goto(p, "down")
  /\ fence' = IF fence = p THEN NoProc ELSE fence
  /\ missing' = [missing EXCEPT ![p] = {}] /\ page' = [page EXCEPT ![p] = NoPage]
  /\ UNCHANGED <<file, row, cached>>

-----------------------------------------------------------------------------
(* Runs *)

(* A start inserts the run and its watch in one transaction of epoch 2.     *)
Admit(p, r) ==
  /\ pc[p] = "up" /\ r \notin catalog /\ epoch
  /\ catalog' = catalog \cup {r}
  /\ watched' = watched \cup {r} /\ inputs' = inputs \cup {r}
  /\ graph' = [graph EXCEPT ![r] = "admitted"]
  /\ UNCHANGED <<tables, epoch, old, row, fence, pc, local, deaths>>

(* The start that admitted the run, or a sweep, begins it with the input    *)
(* its watch names; a watch without one is passed by.                       *)
Begin(p, r) ==
  /\ pc[p] = "up" /\ r \in watched \cap inputs /\ graph[r] = "admitted"
  /\ graph' \in {[graph EXCEPT ![r] = g] : g \in {"open", "ended"}}
  /\ UNCHANGED <<tables, epoch, catalog, rows, row, fence, pc, local, deaths>>

(* A command or a recovery drives the run to its end.                       *)
Finish(p, r) ==
  /\ pc[p] = "up" /\ graph[r] = "open" /\ graph' = [graph EXCEPT ![r] = "ended"]
  /\ UNCHANGED <<tables, epoch, catalog, rows, row, fence, pc, local, deaths>>

(* A recovery acknowledges the watch of a run that has ended.               *)
Acknowledge(p, r) ==
  /\ pc[p] = "up" /\ r \in watched /\ graph[r] = "ended"
  /\ watched' = watched \ {r} /\ inputs' = inputs \ {r}
  /\ UNCHANGED <<tables, epoch, catalog, graph, old, row, fence, pc, local, deaths>>

-----------------------------------------------------------------------------
(* The backfill *)

Candidates(cursor) == {r \in catalog : r > cursor}

(* list_after_public_run_id: the first n in order.                          *)
First(S, n) == {r \in S : Cardinality({x \in S : x < r}) < n}

(* _classify_snapshot: only a run whose checkpoint is open is to be watched;*)
(* a run that cannot be bound, or has no checkpoint, is malformed.          *)
IsOpen(r) == graph[r] = "open"

(* Mutant: a full page is taken for the last one.                           *)
ClassifyPageEarly(p) ==
  /\ pc[p] = "up" /\ ~page[p].taken /\ cached[p].completed # "completed"
  /\ LET candidates == Candidates(cached[p].after)
         runs == First(candidates, PageSize)
     IN  /\ ~(candidates = {} /\ cached[p].completed = "no row")
         /\ page' = [page EXCEPT ![p] =
              [runs |-> runs, open |-> {r \in runs : IsOpen(r)},
               taken |-> TRUE, last |-> Cardinality(candidates) <= PageSize + 1]]
  /\ UNCHANGED <<file, row, fence, pc, missing, cached, deaths>>

(* apply_next_page up to the transaction: the catalog after the cursor this *)
(* process knows is read, and each run is classified by its checkpoint.     *)
ClassifyPage(p) ==
  /\ pc[p] = "up" /\ ~page[p].taken /\ cached[p].completed # "completed"
  /\ LET candidates == Candidates(cached[p].after)
         runs == First(candidates, PageSize)
     IN  /\ ~(candidates = {} /\ cached[p].completed = "no row")
         /\ page' = [page EXCEPT ![p] =
              [runs |-> runs, open |-> {r \in runs : IsOpen(r)},
               taken |-> TRUE, last |-> Cardinality(candidates) <= PageSize]]
  /\ UNCHANGED <<file, row, fence, pc, missing, cached, deaths>>

(* _validate_existing_run_drive_watch_migration: the row is the one this    *)
(* process read, or there is none yet.                                      *)
CursorIsCurrent(p) ==
  \/ completed = "no row" /\ cached[p].after = 0
  \/ completed = "running" /\ after = cached[p].after

(* _validate_run_drive_watch_page_envelope. *)
ValidPage(p) ==
  /\ Cardinality(page[p].runs) <= PageSize /\ page[p].open \subseteq page[p].runs
  /\ \A r \in page[p].runs : r > cached[p].after

(* apply_run_drive_watch_page, in one transaction of epoch 2 under the      *)
(* fence: the open runs of the page that have none get a watch, without an  *)
(* input, and the cursor goes on.  If another process has moved it, the     *)
(* page raises and the pump ends.                                           *)
ApplyPage(p) ==
  /\ pc[p] = "up" /\ page[p].taken /\ fence = NoProc /\ epoch /\ ValidPage(p)
  /\ page' = [page EXCEPT ![p] = NoPage]
  /\ IF CursorIsCurrent(p)
     THEN /\ watched' = watched \cup page[p].open
          /\ after' = IF page[p].runs = {} THEN after ELSE Max(page[p].runs)
          /\ completed' = IF page[p].last THEN "completed" ELSE "running"
          /\ cached' = [cached EXCEPT ![p] =
                         [after |-> after', completed |-> completed']]
          /\ UNCHANGED pc
     ELSE Goto(p, "stopped") /\ UNCHANGED <<watched, row, cached>>
  /\ UNCHANGED <<tables, epoch, catalog, graph, old, inputs, fence, missing, deaths>>

-----------------------------------------------------------------------------

OpenStep(p) ==
  \/ Classify(p) \/ TakeFence(p) \/ Transition(p) \/ OpenStore(p)
  \/ CreateStage(p) \/ WriteEpoch(p)

PageStep(p) == ClassifyPage(p) \/ ApplyPage(p)

SchemaNext ==
  \E p \in Procs :
    \/ OpenStep(p) \/ PageStep(p) \/ Restart(p)
    \/ \E r \in RunIds : Admit(p, r) \/ Begin(p, r) \/ Finish(p, r) \/ Acknowledge(p, r)

(* A process that was started goes on, its pump sweeps four times a second, *)
(* and a client starts a server that has stopped or refused.                *)
SchemaFairness ==
  \A p \in Procs :
    /\ WF_schemaVars(OpenStep(p)) /\ SF_schemaVars(TakeFence(p))
    /\ WF_schemaVars(ClassifyPage(p)) /\ SF_schemaVars(ApplyPage(p))
    /\ WF_schemaVars(\E r \in RunIds : Begin(p, r))
    /\ WF_schemaVars(pc[p] \in {"refused", "stopped"} /\ Restart(p))

SchemaSpec == SchemaInit /\ [][SchemaNext]_schemaVars /\ SchemaFairness

-----------------------------------------------------------------------------
(* Properties *)

SchemaTypeOK ==
  /\ tables \in {Legacy} \cup SUBSET V2 /\ epoch \in BOOLEAN
  /\ catalog \subseteq RunIds /\ graph \in [RunIds -> Graphs]
  /\ old \subseteq catalog /\ watched \subseteq catalog /\ inputs \subseteq watched
  /\ after \in RunIds \cup {0} /\ completed \in {"no row", "running", "completed"}
  /\ fence \in Procs \cup {NoProc}
  /\ pc \in [Procs -> {"down", "transition", "store", "create", "up", "refused",
                        "stopped"}]
  /\ missing \in [Procs -> SUBSET V2]
  /\ \A p \in Procs : page[p].open \subseteq page[p].runs

(* Once the backfill says it is complete, every run that is still open has  *)
(* a watch, whoever admitted, classified or inserted what in the meantime:  *)
(* no run of an old database is forgotten for good.                         *)
CompletedMeansWatched ==
  completed = "completed" => \A r \in catalog : graph[r] = "open" => r \in watched

(* A run that was admitted and has not begun has a watch with its input, in *)
(* the one table of watches the file has.                                   *)
UnbegunHasInput ==
  \A r \in catalog :
    graph[r] = "admitted" => r \in (IF IsLegacy THEN old ELSE watched \cap inputs)

(* The tables are those of a version that exists, the backfill does not say *)
(* too early that it is complete, and what is needed to begin a run is      *)
(* there until it has begun.                                                *)
BackfillIsSound == SchemaTypeOK /\ CompletedMeansWatched /\ UnbegunHasInput

(* A run that was admitted is begun in the end, although the process that   *)
(* admitted it died, the database has been migrated since, and the next     *)
(* processes die between the steps of opening it.                           *)
AdmittedRunsBegin ==
  \A r \in RunIds : (graph[r] = "admitted") ~> (graph[r] # "admitted")

(* The backfill of an old database with runs is completed, although         *)
(* processes that lose the race for a page stop and have to be restarted.   *)
BackfillCompletes ==
  (tables = Legacy /\ catalog # {}) ~> (completed = "completed")
=============================================================================
