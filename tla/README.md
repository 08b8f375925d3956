# Verification of lockstep

This directory holds TLA+ modules, TLC configurations and TLAPS proofs for the
repository `claude-essentials`, a marketplace of agent plugins. Its core is
**lockstep** (`lockstep/engine/src/lockstep`), an engine that runs recipes as
durable graphs: every engine-owned effect of a run (a coding worker, a
validation, a manual step, an acceptance, a publication) is a row of a durable
ledger, is started at most once, survives the death of every process, and is
answered to the graph exactly once. Of the other plugins, which are small tools,
the memory of **redis-memory-mcp** has state and concurrency enough to be modelled.

`PROJECT.json` lists the components, runs, mutants, source lines, hazards
and theorems. Paths below are relative to
`lockstep/engine/src/lockstep/runtime` unless they say otherwise.

## The system

| Part | State | Operations | Hard behaviour |
|---|---|---|---|
| effect ledger (`effects/ledger.py`, `_ledger_policy.py`, `leases.py`) | `effects` rows, `effect_observations` journal, `leases` with epochs (SQLite) | prepare, mark_launching, mark_running, seal, mark_indeterminate, mark_delivered; acquire (renews in the same epoch, takes over in the next), release | stale revisions and leases, retries, clock |
| file lock (`locking.py`) | lock file, break mutex | acquire, break stale, recover mutex, release | check-then-act on names, death anywhere |
| codex attempt (`providers/_codex_attempt.py`, `_codex_supervisor.py`) | launch record, `go`, `state.json`, `terminal.json`, liveness lock, processes | ensure_started, supervisor run, containment, inspect, cancel | death of launcher, supervisor or worker between two writes |
| effect coordinator (`effects/_coordinator_*.py`, `_graph_runtime_guard.py`, `invocation_lock.py`) | none of its own: ledger, graph checkpoint, leases, provider | reconcile one effect, sweep, deliver a batch, recover what the graph consumed | every step reads several stores at different moments |
| drive and pump (`engine_drive_service.py`, `_service_recovery_pump.py`, `_recovery_watch_*.py`) | run watches; per process: slots, completion queue, open native apps, pump failure | start, park, submit, drain, sweep, drive a run, settle and acknowledge its watch, stop at a failure | two processes, one run; a drive that raises; no free slot |
| publication (`publication.py`, `_publication_queries.py`, `effects/_coordinator_publication*.py`) | journals, `active.json`, project files, publication lease | prepare, apply one file, verify, recover | outside edits, other runs of the project, crash between writes |
| owner consent (`effects/owner_consent.py`, `_coordinator_admission.py`) | consent rows, project epoch | issue, redeem, accept, revoke | revocation between check and use |
| owner policy (`effects/owner_snapshot_store.py`, `owner_provisioning.py`, `runtime_execution*.py`) | snapshot file with two generations, its lock | capture, provision, resolve, hold at a commitment, recover work of an older snapshot | replacement while a start or a drive relies on it |
| writable core (`start_service.py`, `_service_writable_core.py`, `_service_activation_lifecycle.py`) | activation and admission locks, open stores, pump, execution context | activate, roll back, start with an owner decision, close and join | three locks in two orders, failure half way |
| runtime database (`_storage_migration.py`, `storage.py`, `_recovery_backfill.py`) | tables, epoch row, fence, cursor of the backfill | classify, create, migrate, apply a page | deaths between steps, several servers |
| sessions, hooks, worker submission (`sessions.py`, `hooks.py`, `_service_worker.py`) | binding and sidecar lock per run | touch, adopt, locked_owner, gate decisions, submit | one process per hook, a binding that goes stale |
| workspaces and artifacts (`providers/_workspace_*.py`, `_codex_preparation.py`, `artifacts.py`) | record, checkout, quarantine, attempt files, keys and marker | materialize, prepare, quarantine, roll over, register, release | deaths between steps, writers nobody waited for |
| snapshots of a run (`snapshot_resolver.py`, `_snapshot_lineage.py`, `providers/manual.py`) | facts per effect | handoff, submit, capture, bind, adopt, merge | parallel branches, people who edit, facts without a fence |
| authoring (`authoring_*.py`) | sources, recipes, namespace lock | compile, install, check | files read and written one by one |
| workflow compiler, recipe profile (`../workflow`, `../recipe`) | none | validate, lower, estimate, admit | what the recipe does when it runs |
| semantic memory (`redis-memory-mcp/server`) | records, chunks and area states in Redis; a manifest on disk | save, search, delete; build, verify, cutover, cleanup | every call many Redis calls, expiry, lost locks |
| CLI, MCP server, other plugins | see `PROJECT.json` | | |

They call each other like this. A command or the completion pump **drives** a
run: under the run's invocation lock it takes a graph snapshot and lets the
**coordinator** reconcile each pending interrupt. The coordinator reads the
**ledger** row under an effect lease and makes one monotonic decision: prepare
the row, start the **provider** inside a *commitment* (invoke lease on the graph
thread, graph re-read, owner authority held), record what the provider observes,
seal a result, or resume the graph with a batch of results and mark them
delivered. A **publication** takes the same road, with the project's publisher
as the provider and the owner's consent as the authority. Everything a decision
relied on may have changed, and every process may have died, between any two of
these steps.

What makes each part correct: the ledger never loses, changes or doubles an
outcome and refuses a stale writer; the lock excludes and recovers; an attempt
has one worker and a receipt proves that the work has stopped; the graph and the
ledger never contradict each other and every effect is answered; a publication
changes only what was planned, under current consent, as a whole; the owner's
revocation holds at the moment of commitment; a server never blocks itself and
can be activated again; no watch and no output is lost to a death or a migration;
one session answers for a run; the branches of a parallel block meet with what
each was accepted with; a compiled recipe does what its workflow means; a memory
stays searchable while it is rewritten, re-embedded and expires.

## Modules

**`LeaseStore`, `EffectLedger`** (`leases.py`, `effects/ledger.py`). One action
per operation; each is one `BEGIN IMMEDIATE` transaction. Callers are not
constrained: any process calls anything with any revision and any lease it was
ever given, at any clock reading. A refused call changes nothing and has no
action. Rows of every kind are prepared with whatever
`_validate_prepare_descriptor` accepts: a manual row and a scope also with a
runner binding or a request. **`EffectPromise`** is what the ledger promises its
callers (an effect is offered once, gets one outcome, keeps it, is delivered
once; a scope and an acceptance are never launched); the ledger implements it
(`KeepsPromise`).

**`FileLock`** (`locking.py`). One action per system call of `file_lock`,
`_breaker_session`, `_recover_break_mutex` and `_release`. A file is a record of
its maker, whether the payload was written and whether its age passed
`stale_after`; contenders may die anywhere and a payload write may fail. It
assumes the module docstring's contract: a live holder is never older than
`stale_after`, and the break mutex is stale only when its owner died.

**`CodexAttempt`** (`providers/_codex_attempt.py`, `_codex_supervisor.py`). The
launchers, the supervisor, its worker and the group's children, with the files
between them. Every process may die between any two durable steps; cancellation
and deadline may come at any time. A process the worker started may leave the
group and hold the output open (`outside`), and the prompt may be left unread
(`unread`): the supervisor then waits in the write of the prompt or in the join
of its readers, neither of which has a timeout.

**`EffectCoordinator`** composes the ledger's row discipline, the graph
checkpoint, the leases and a provider with two concurrent drives (server
processes), each a program counter through one sweep, reconciliation or
delivery. Here an attempt of the provider is the interface that `CodexAttempt`
details. Of a row it keeps phase and outcome, which a drive reads, holds a
current lease for, and writes in separate steps; the revision and epoch tests of
each write are `EffectLedger`'s. **`RunPromise`** is
what a run promises: each effect is started at most once and answered to the
graph at most once, with the answer that was sealed; `KeepsRunPromise` says the
coordinator implements it.

**`Publication`** (`publication.py`, `effects/_coordinator_publication*.py`,
`effects/owner_consent.py`, acceptance in `_coordinator_admission.py`). Runs of
one project share its files, active pointer, publication lease and consent
epoch. Staging, recheck and rename of a replacement are separate steps, and so
are journal, pointer, claim, phase, cursor and seal, with crashes and outside
edits between them. `authority.commitment` is a write transaction of the owner
store, so a revocation waits for it (`tx`).

**`RunDrive`** (`engine_drive_service.py`, `_service_effect_drive.py`,
`_service_recovery_pump.py`, `_recovery_watch_*.py`, `start_service.py`,
`_service_activation_lifecycle.py`). Who drives a run: in every process one
lock, `_admission_recovery_lock`, is held by a start, a submission, the drain of
the completion queue or a recovery sweep, and the holder is a program counter
(`at`) through the runs it has to look at. `active`, `queued`, `queue`, `owned`
are the fields of the command service, `bound` the apps of its graph runtime,
`seq` the rows of `run_drive_watches`, `guard` the invocation lock of a run. One
decision moves the graph between stages; what it does to ledger and provider is
`EffectCoordinator`. A run may wait for an interrupt without a runner beside its
effect (`mixed`): a drive then makes one decision and gives the slot back
(`DecideMixed`), and a sweep passes the run by (`WatchSkips`). `guard` is taken together with the graph's first move
(`StartGraph`, `Submit`), where the code takes it twice in a row; a sweep reads
the watches of its start, not page by page; one lock stands for the activation
lock and the admission lock, which the commands take in turn.

**`OwnerPolicy`, `Activation`** (`effects/owner_*.py`, `runtime_execution*.py`,
`start_service.py`, `_service_writable_core.py`, `_service_composition.py`). The
owner's snapshot as owners replace it, and one server whose command threads and
pump share two locks of the process and the file lock of the snapshot. A command
activates the core (prepare stores, configure the execution context, start the
pump, or roll all of it back), a start holds the snapshot current while it parks
a run, a drive holds it current while it launches, recovery resolves what each
effect row is bound to. It details what `RunDrive` takes as one lock and
`EffectCoordinator` as a verdict.

**`Schema`** (`_storage_migration.py`, `storage.py`, `_recovery_backfill.py`).
Several processes classify and open a database that is absent, old, half made or
current; the transition of an old one is one transaction under a fence, which
copies the watches with the inputs of their runs (`CopyWatches`) into the table
a run is begun from (`Begin`); runs admitted before there were watches get them
page by page, without an input.

**`Workspace`** (`providers/_workspace_*.py`, `_codex_preparation.py`,
`artifacts.py`). The checkout of one attempt from materialization to release: a
tree is a function from paths to contents, directories are variables, each rename
and each file of the attempt a step of its own.

**`Lineage`** (`snapshot_resolver.py`, `_snapshot_lineage.py`,
`providers/manual.py`). The project snapshots around one parallel block. A
snapshot is its content and the contents it came from, its past; the resolver's
walk along lineages is a lookup in that past. A fact is what a store says of an
effect, a store a set of facts. Two drives read and write the facts, with their
reads and writes apart; a person edits the tree.

**`Sessions`** (`sessions.py`, `hooks.py`, `_service_worker.py`, `status.py`).
The binding of a run, touched by the hooks of several sessions and held by the
calls that answer; a run is a sequence of steps that wait together.

**`Authoring`** (`authoring_*.py`). Roles that call one another; a job reads,
plans, checks and publishes file by file under the lock of the namespace, while
a person edits. The orders in which a compilation visits the roles are constants
of the module, any that reach every role called and complete each once;
**`CallOrder`** computes those of the code for the graph of calls of the run.

**`WorkflowSemantics`, `Lowering`, `Fragments`, `Estimate`, `Profile`** are the
compiler and the admission of recipes as operators over blocks and recipes
(`../workflow`, `../recipe/profile.py`); **`NativeRecipe`** is the form they
share, **`NativeGraph`** executes a recipe as `../recipe/yamlgraph_adapter.py`
drives the graph library, and **`WorkflowMeaning`** says, with no graph at all,
what a workflow does for the answers it was given: the reference of the run.

**`MemoryIndex`, `Migration`** (`memory_index.py`, `memory_mcp.py`, `migrate.py`
of `redis-memory-mcp/server`). Records, chunks and area states in Redis, with
expiry; each Redis call or script is a step of a client or of a migration
command. Migration commands fail, die, or stall past their lock.

The `MC*` modules give the constants small values, and put systems that share
nothing side by side: in `MCSessions` (`Lineage`, `Sessions`, `Workspace`),
`MCCompiler` (an executed recipe, `Authoring`) and `MCRecovery` (`Schema`,
`Workspace`) a behaviour is one of one of them, while the others stand still. `map` in
`PROJECT.json` names for every definition the lines it stands for. A definition
marked *Mutant* is a plausible bug; the project's check puts it in the place of
the definition it follows and expects the property named for it to fail.

Properties that belong together are conjuncts of one that the run checks, each a
definition of its own with a comment: `LedgerIsCoherent` (epochs name one owner,
the journal matches the row, one outcome, which is there exactly when the phase
is terminal, and none without a launch), `OneHolder` and `OrphansAreBroken` (the
lock), `AttemptIsSound` and `AttemptEnds` (the attempt), `LedgerIsTrue` (graph
and ledger agree, sealed is quiescent, lineage errors are never false, an
acknowledged watch is settled), `JournalIsTrue` and `FilesUnderConsent`
(publication), `CoreIsSound` and `UnderCurrentOwner` (activation),
`BackfillIsSound`, `HandedOnAsDeclared` and `OutputIsKept` (the checkout),
`WaitingIsLawful` (scopes in force, branches write apart,
artifacts there) and `ProfileIsKept`. The type invariant of a module is a
conjunct of the first.

## Runs

| Run | Instance | Shows |
|---|---|---|
| `effect_ledger` | 1 effect, 2 lease keys, 2 owners, wall clock {0, 1} that may run backwards, 2 epochs | epochs fence, one outcome for ever, the journal explains the row, no outcome of a worker without a launch, refinement of `EffectPromise` |
| `file_lock` | 3 contenders, 1 death or failed write | mutual exclusion, one breaker session, an orphaned lock or mutex is recovered (liveness) |
| `codex_attempt` | 2 engines, 2 supervisors, 1 death | one worker, receipts prove quiescence, PASS is earned, `go` leads to an end unless the supervisor is dead or blocked (liveness) |
| `effect_coordinator` | 2 drives, 2 effects, 1 death, deadline, changed owner policy | graph and ledger agree, sealed means quiescent, lineage errors are never false, an acknowledged watch is settled, launches are committed, refinement of `RunPromise` |
| `effect_liveness` | 2 drives, 1 effect, 2 deaths or stopped pumps, 1 lease that expires under its live holder | every effect is answered |
| `publication` | 2 runs (shared or disjoint destinations), 1 revocation, 1 edit, 1 crash or lapsed lease | consent at commitment, one publication under way, only preimages replaced, applied as a whole, undisturbed publications are sealed (liveness) |
| `run_drive` | 2 processes with one slot each, 2 runs, 1 raising drive or death; 2 runs in one process, or 2 processes on one run | no unfinished run loses its watch, slots, queue and open apps agree, every run that no sweep passes by is driven to its worker or its end and its watch acknowledged (liveness) |
| `activation` | 2 command threads and the pump, 2 owners, 2 runs of one key, 2 commands, 1 failure or death | the core is whole or as if never opened, starts and launches are under the snapshot of the moment, no sweep without authority, the locks never block the process for good |
| `recovery` | 2 processes and 2 runs on a database, pages of one run, 1 death; 1 process on a checkout with 2 paths, 1 death, 1 stray write | what an unbegun run needs is there until it is begun, which it is in the end, the backfill is completed and then every open run is watched, every attempt is answered (liveness) |
| `sessions` | 2 manual branches and a managed one, 2 drives, 1 edit; 2 sessions on one run of 3 steps, 2 starts and lapses, 1 death; 2 processes on a checkout whose 2 paths may collide, 1 death, 1 stray write | the join sees what was accepted, one session answers, an attempt hands on declared changes only, no output is lost |
| `compiler` | 15 workflows that are right and 14 that are wrong, a family of fragments and of hand-written recipes, every answer an effect may give; 2 authoring jobs on a role that calls another, 2 edits | the recipe does what the workflow means, what waits may wait together, fragments do not turn a failure into a pass, estimates bound the run, caps hold; publications of recipes are whole |
| `memory` | 2 calls on an area; 2 migration commands (3 runs) over 2 areas, with leftovers of an earlier migration; 1 call and 1 command (3 runs) without. Records of 2 chunks, clock up to 2 | record and vectors stay together, a search misses nothing published, the manifest is true of Redis, a migration neither makes nor loses a record |

The bounds are the least at which the hazards meet: two actors for a race and a
third to profit from it (the lock), one death at any step (two where the
recovery itself may die), a clock that can pass an expiry and go on, an epoch
that can be taken over once and compared with its successor. Three steps of a
run let a session be overtaken and come back; two records of two chunks are the
fewest a search can page over and a save can tear; the list of workflows
has every kind of block, with retries, repeats and calls inside others. Retries
of calls need no bound: a retried call is a step that is enabled again. Where a system may really
stop (all effects answered, all runs finished, all jobs done, bounds used up) the
configuration switches the deadlock check off. `MCActivation` also bounds when
owners act (its comment says how), `MCRunDrive` which runs meet which processes.

### Fairness

Safety properties use no fairness, and `activation`, `sessions`, `compiler` and
`memory` have none: `SomebodyMoves` says of each state that a step is enabled.
`FileLock`: a live contender takes its next
step (it runs or polls), files age. `CodexAttempt`: a live supervisor takes its
steps, where it is not blocked, and the deadline arrives; launchers, workers, the
readers of the prompt and the processes inside or outside the group owe nothing.
`EffectCoordinator`: drives go on, because the pump's loop polls four
times a second; the deadline of a started attempt arrives and ends it (it does
unless the supervisor is blocked, `AttemptEnds`; this module, `RunDrive` and
`Workspace` assume that it is not); the leases of dead holders expire. A death and a refusal by the
owner are never fair. `Publication`: every run keeps being driven (the pump, or
the status and command operations of the README), and the lease of a dead drive
expires; a crash, edit, revocation or lapsed lease of a live drive is not fair.
`RunDrive`: the holder of the admission lock goes on (weak); the pump, which
asks for that lock four times a second between commands, gets it in the end
(strong, since a stream of commands may take it in between: Python's lock is not
fair but does not starve a waiter for ever); an attempt ends by its deadline. No
command is owed, and after a drive that raised nothing is: its pump may be over.
`Schema`: a process that was started goes on, its sweeps ask for the next page
until they get it and begin the runs that were admitted, and the fence is got in
the end (strong: others hold it briefly), a process that refused or stopped is started again by its client.
`Workspace`: a step that was begun goes on, an effect that is not sealed is driven
again and again (this is `RunsAdvance`), the supervisor ends the worker
(`AttemptEnds`), the deadline passes, and the result's lock is got in the end
(strong).

## Observations

What the models met that a reader of the code may not expect. Each is what the
code does; the properties are stated so that they hold of it, and say where they
except it.

Runtime:

* `_codex_attempt.py:498`: `inspect` calls an attempt absent on `state.json`
  alone, also when its launcher died after `go` and the worker runs
  (`LedgerIsTrue` excepts that attempt). `_codex_supervisor.py:551` says that a
  missing receipt after possible creation is indeterminate.
* `providers/_codex_supervisor.py:223`: the readers of the output are joined
  without a timeout, after the group is dead. Under the profile
  `local_unsandboxed` a process that has left the group and keeps the output open
  holds the receipt back, past the deadline, and `inspect` answers running
  meanwhile. Before that the whole prompt is written (line 349) before anything
  looks at the deadline or at a cancellation, and before the output is read: a
  worker that does not read its prompt is not ended at all. `AttemptEnds` excepts
  both.
* `_recovery_watch_drive.py:29`: a sweep drives a run only if it waits for one
  protected interrupt, or for several that are all effects with a runner
  (`_recovery_watch_inspection.py:33` and `:50`). A run with a manual branch
  beside a managed one launches the managed effect, gives its slot back
  (`engine_drive_service.py:184`), and is passed by from then on: what the attempt
  came to is adopted when a command drives the run, as the README of lockstep
  (`lockstep/README.md:370`) says of interruptions (`RunsAdvance` excepts it).
* The ledger itself would launch a manual row that was prepared with a binding
  and a request; its caller refuses a manual effect with a runner before it
  prepares one (`effects/_coordinator_foundation.py:186`).
* `effects/_coordinator_runner.py:463`: two exceptions of the authority are turned
  into an inspection; the production authority raises others
  (`runtime_execution.py:135`, `effects/owner_snapshot_store.py:256`), so the
  drive fails and the pump stops, where `tests/runtime/effects/test_crash_matrix.py:240`
  expects `authority_blocked`.
* `_graph_runtime_guard.py:119`: the invoke lease of a process that died inside a
  commitment makes every drive of the next minute fail, and the pump of each
  process stop. A pump that has stopped is never started again in its process.
* `_publication_queries.py:71`: an applied publication that was not sealed yet
  loses the active pointer to another run; it is then asked for consent again and
  may be denied, which `publication.py:227` does not expect of a recovery.
* A journal whose consent was revoked, or one of whose destinations was edited,
  stays active and blocks the project's later publications; two runs that share a
  destination may overtake each other between the apply and the seal
  (`AcceptedIsPublished` excepts both).
* A submission or a drain whose drive raises keeps its slot for the next sweep of
  its process. When another process finishes the run first and acknowledges its
  watch, no sweep comes by, and the slot stays taken until the process ends
  (`SlotsAreServed` asks for a queue entry only as long as no drive has raised).
* `providers/_codex_preparation.py:160`: a death between the creation and the
  writing of `result.json` leaves a file that is refused ever after
  (`AttemptIsAnswered` excepts it).

Compiler and profile:

* A parallel branch that is retried, beside a branch with a call: the call saves,
  clears and restores the shared `_loop_counts`, and the retries of the sibling
  are counted again. The list of workflows has no such pair.
* Whether a fragment's routes are exhaustive is decided by a regular expression
  that takes `x == a and y == b` and its negated form for complements; and a join
  of two exclusive branches is admitted although it never completes.
* The estimate of a hand-written recipe is one too low when the cap is on a node
  after the effect (`HandInBounds` asks for a capped entry), and counts nothing
  of a fragment in a workflow.
* The profile accepts a cap on an interrupt, which the adapter's docstring calls a
  silent no-op, and a capped gate with several edges to the marker, where its own
  docstring says exactly one.
* `choose` on the id of a call validates although no result of that name is ever
  set; a cancelled effect of a fragment ends in ERROR, one of a step in ABORTED;
  limits are totals of an activation of the workflow, not of each turn of an
  enclosing repeat.

Memory:

* `migrate.py:176`: the manifest is written without a look at the lock, so a
  command that stalled may put the phase back to building after a cutover, and
  cleanup is refused from then on (`ManifestIsTrue` speaks of the phases that
  claim something).
* `memory_index.py:237`: a search counts the chunks before others stage theirs, and
  a staged vector may displace a published one (`SearchFinds` excepts it, in
  `crowded`). A search overtaken by a migration and its cleanup finds nothing.
* After a cutover that died between two areas the rest is refused once one of its
  records was touched.

## Proofs

Eight modules hold the proofs, one for each component or pair of components that
is proved about. Every theorem is for all values of the constants: any number of
processes, runs, effects, sessions, paths, deaths and faults, with none of the
bounds of the runs. Each follows the same road: the property a run checks is seldom
inductive, because it speaks of what is at rest; the inductive invariant adds
what each process may count on at each of its program points, and why the steps
of the others leave that alone. TLC checked every inductive invariant before it
was proved. One lemma per action, frame lemmas for what a step of one process
leaves of another, and PTL for the temporal theorem at the end.

| Module | Proves of the runs' properties | Under |
|---|---|---|
| `EffectLedgerProofs` | `LedgerIsCoherent`, `StaleHolderCannotWrite`, `KeepsPromise` (a refinement) | `EffectsAssumption` and those of `LeaseStore` |
| `RunDriveProofs` | `UnfinishedIsWatched`, `SlotsAreServed` | `RunDriveAssumption` |
| `CodexAttemptProofs` | `AttemptIsSound`; of `Workspace`: `HandedOnAsDeclared`, `OutputIsKept` | `ProcessesAssumption`, `WorkspaceAssumption` |
| `EffectCoordinatorProofs` | `LedgerIsTrue`, `LaunchIsCommitted`, `KeepsRunPromise` (a refinement) | `DriversAssumption` |
| `PublicationProofs` | `JournalIsTrue`, `FilesUnderConsent`; of `Authoring`: `PublicationsAreWhole` | `PublicationAssumption`, `AuthoringAssumption` |
| `ActivationProofs` | `CoreIsSound`, `SweepHasAuthority`, `UnderCurrentOwner` | `ActivationAssumption`, those of `OwnerPolicy` |
| `SharedStateProofs` | of `Schema`: `BackfillIsSound`; of `Sessions`: `OwnerAnswers`, `OwnerIsNotRobbed`; of `FileLock`: `OneHolder`; of `Lineage`: `BranchesMeet` | `SchemaAssumption`, `SessionsAssumption`, `CallsAssumption`, `LineageAssumption` |
| `MemoryProofs` | of `MemoryIndex`: `EveryRecordIsServed`, `SearchFinds`; of `Migration`: `ManifestIsTrue`, `SourcesArePreserved` | `MemoryAssumption`, `MigrationAssumption` |

**The ledger.** `IInv` (`LedgerInvariant`) adds that epochs of issued leases are
positive and at most the lease row's, that two leases of one epoch and key have
one owner, that a row's revision bounds the journal and names its last entry, and
that outcome, phase and launch mark move together.

**The lock.** `LockInvariant`: as long as nobody died inside a breaker session,
the mutex file is the fresh file of the one open session (`MutexInv`), and who is
about to use or remove its own lock file finds it there, while the verdict of
who is about to break one is still true (`NameInv`). That verdict is the reason
for the mutex: between the look and the unlink only a session may replace the
file. That a token not in use exists is a counting argument over the callers
(`TokenIsFresh`), which is why the callers must be finitely many.

**The attempt.** `AttemptInvariant`: one supervisor passes the claim and is the
one of the ready receipt (`ClaimInv`); nothing is spawned before the claimant
comes to it and a receipt is written after the last process of the group
(`WorkerInv`); what engines read of `state.json` and the receipts stays true
(`KnowledgeInv`).

**The checkout.** `WorkspaceInvariant`: whoever is between taking and giving back
the lock of the record finds it, and the tree, as it left them (`KnowsRecord`);
whoever finalizes does so under its lock, so nobody else stores a result
meanwhile, and a stored result never changes (`KnowsResult`). A rejection before
the launch rolls over without that lock, and therefore stores nothing. What
makes `HandedOnAsDeclared` true whatever is written meanwhile is that a capture
is checked, copied and compared, and that what is recorded is the capture and
never the tree.

**Drives.** `RunDriveInvariant`: `ControlInv` ties the program point of the holder
of the admission lock to what it is doing and to the run in hand, `DrainInv` says
that what a drain took is in its slots, `BindingInv` that the open apps are the
slots and the run in hand, `QueueInv` that a slot without a mark is one the drain
took or the one in hand. A step of one process changes nothing another has in
memory (`StepIsLocal`), and what one finds done stays done (`StepWatched`).

**The coordinator.** `CoordinatorInvariant`: everything that touches a pending
effect happens under the invocation lock of its run, and the one thing that does
not, the settlement of a watch, is decided when nothing is pending and overlooks
no row unless it also says stop (`Excludes`). So what a drive counts on
(`CountsOn`), a transition it has decided and not yet written (`MakesSense`)
included, survives the others' steps. Leases, which expire under a live holder,
carry none of this argument; a lease that is lost costs a drive its step and
never the agreement. `KeepsRunPromise` follows step by step: each action is one
of `RunPromise` or a stutter.

**Publication.** `PublicationInvariant`: whoever is behind the activation finds
its journal active until it is applied (`JournalInv`), whoever is about to move a
prepared journal on is inside its own transaction of the owner store, in which
the authority said yes (`ConsentInv`), and what the last look before a
replacement found is still so except for outside edits (`FilesInv`).

**Publishing of workflows.** `AuthoringInvariant`: a process is between taking and
giving back the lock of the namespace exactly while it is its holder; a check that
began without the lock did so before there was a namespace, so one that was torn
by a publication finds the namespace there when it comes back (`JobInv`). A
compilation past its boundary has a source of every role of the closure
(`PlanInv`), all of one moment once it publishes (`PublishedFromOneMoment`). And
as long as no person writes, either there were sources from the beginning or the
targets of the installation are there up to some place, as planned, and none
after it (`InstallInv`), which is why it can be resumed after any failure: a
compilation has found all sources, so it leaves no gap. Nothing is asked of the
graph of calls, not even that it has no cycle.

**The core.** `ActivationInvariant`: which of the three locks a thread has at each
program point (`HasActivation`, `HasAdmission`, `HasSnapshot`); the snapshot stays
what it is while its file lock is held; generations only grow, and one that took
both numbers of its predecessor is the predecessor. It details for two locks and
a file what `RunDrive` takes as one.

**Database and sessions.** `DatabaseInvariant`: an open run that is behind the
cursor has its watch, and one ahead of it is in the classified page, was admitted
with a watch since, or comes after the page (`Foreseen`); and a run that
is admitted and not begun has its watch and its input in the one table of watches
there is, so every step that rewrites or shrinks it keeps them (`InputKept`). The
page ends at a
largest run, which is found by well-founded induction on a relation, not by an
operator. `SessionsInvariant`: a binding lock is held exactly at the steps between
taking and giving it back, the binding read under it is still that one or has
lapsed since (`StillRead`), and a run that awaits its worker has nothing else to
wait for, so the engine does not move it.

**Branches.** `LineageInvariant`: every snapshot a fact binds is `Sound`: its past
is finite and has no cycle, reaches back to the start, and shows for each branch
the branch's own successor if it is part of that past, and else the start. A
successor that is captured and not bound yet `Follows` its input and differs from
it on its own surface only. Drives interleave their reads and writes as they like:
a fact is bound once, a different one raises, and a managed branch works on the
start whatever the others do, since manual ones are submitted only when the
managed ones have been delivered. So the join, which merges the tips of what is
bound, finds the surface of each as it was accepted (`JoinHas`). That each member
of a finite history comes before a tip is well-founded induction on the number
of those after it. The resolver's walk is no recursion in the model: a snapshot
carries its past.

**Memory and its migration.** `MemoryInvariant` is about `MigrationSpec`: any
store in order, any number of clients and commands, and the bounds of the run
as arbitrary numbers. An id and a generation belong to one process while it
makes them, and are settled once stored (`IdsInv`, `GensInv`); settled ones stay
settled, so a generation that was found whole is never written to again. From
this follows what one step, whoever takes it, may do to an area (`AreaStep`): a
record that stays keeps its vectors for the profile that is served and for the one
that is being built, takes no generation but a fresh one of the target, and under
an id that is settled no chunk appears but for the target. Each claim of a client
(`SearchOf`) or of a command (`MigrOf`) survives such steps: what was verified
stays embedded, what was cleaned stays clean, the hits a search remembers stay
what they are or stop being current. So the manifest may be written without the
lock: it says what its writer knew, and that does not become false. That a search
may stop at its first count is a counting argument: no chunk it did not know is
among its rows unless it is marked `crowded`, so as many rows as were counted are
all of them (`AllRows`).

The assumptions are the named ones in the modules: sets are finite where
the argument counts, the names for nothing are no values, bounds are naturals.
`SessionsAssumption`, `WorkspaceAssumption` and `LineageAssumption` are hypotheses
of their theorems and checked by TLC for the instances in `MCSessions` and
`MCRecovery`.

Only model-checked, for good: all liveness (`OrphansAreBroken`, `AttemptEnds`,
`AcceptedIsPublished`, `EveryEffectAnswered`, `RunsAdvance`, `AdmittedRunsBegin`,
`BackfillCompletes`, `AttemptIsAnswered`), since the prover has no fairness; `SomebodyMoves`, which
asks for an enabled step; and what recursive definitions compute: the compiler,
estimates, profile and the executed recipes of the run `compiler`
(`GraphMeansSource`, `FragmentsAreHonest`, `WaitingIsLawful`, `EstimateBoundsRun`,
`ProfileIsKept`), and that the orders of `CallOrder` are as `AuthoringAssumption`
has them.

## Not modelled, and why

Prompts, schemas, sandbox arguments, digests and canonical encodings are
compared, not computed: a digest is the value it stands for. Path safety
(symlinks, ancestors, device numbers, traversal) is left out everywhere, and so is
the rollback of a publication journal, which nothing outside the tests starts.
The graph library, SQLite, Redis, the kernel's `flock` and the editor are
environment: SQLite transactions and Redis scripts are atomic, `flock` is released
by death, a key is gone when it expires.

Of the modelled parts these are missing: the decision budget of a drive (32
decisions, more than a bounded run needs) and the pages of a sweep; a commitment
that reads the clock twice; validator processes, their timeouts and baselines; the
stop hook, and how the gate reads a shell command; content-addressed bundles and
blobs, which are written once under their digest; the rewriting of templates in
a specialised child; the key-value tools of the memory
server and eviction.

Not modelled at all, because they keep no state between calls: CLI, MCP server,
dependency patches, templates, the speciflow plugin; code-intel (one process that
installs tools and replaces files); tech-radar and continuous-learning (shell glue
and prompts).

## Plan

Order of what follows, most important first:

1. A commitment of `EffectCoordinator` with two readings of the clock, and the
   refinement of its provider by `CodexAttempt`.
2. Validator execution with its timeout, and the key-value tools of the memory.
