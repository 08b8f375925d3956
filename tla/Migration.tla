------------------------------ MODULE Migration ------------------------------
(***************************************************************************)
(* Re-embedding of whole areas for another profile (migrate.py). Commands  *)
(* build, verify, cutover and cleanup run one after another, or again      *)
(* after a failure, each in a process of its own; a manifest on disk says  *)
(* what was found and how far the run is, and a lock in Redis that is      *)
(* renewed while its holder runs keeps two commands apart. Holders may     *)
(* die, or stall until the lock expires and go on: every script is fenced  *)
(* by the lock, the manifest and some deletions are not.                   *)
(*                                                                         *)
(* One manifest, for every area of Order. Redis evicts no key (safety()    *)
(* compares its counter); an index holds whatever was written for it.      *)
(***************************************************************************)
EXTENDS MemoryIndex, Sequences

CONSTANTS
  Migrator,   \* processes
  Target,     \* the profile to migrate to
  Order,      \* the areas of the manifest, in its order
  MaxRuns,    \* BOUND: commands that get the lock
  None

ASSUME MigrationAssumption ==
    /\ Target \in Profile
    /\ Order \in Seq(Area) /\ Area = {Order[i] : i \in 1..Len(Order)} /\ Len(Order) > 0

VARIABLES
  lock,       \* 0, or the run that holds it
  runs,
  manifest,   \* None or [phase, old, records]
  migr

mvars == <<lock, runs, manifest, migr>>

NoData == [phase |-> "building", old |-> <<>>, records |-> <<>>]

Off == [pc |-> "off", cmd |-> "none", owner |-> 0, data |-> NoData, next |-> "none",
        ai |-> 1, todo |-> {}, mid |-> 0, snap |-> 0, gen |-> 0, staged |-> 0, old |-> 0]

MAt(x, pc) == migr[x].pc = pc
AreaOf(x) == Order[migr[x].ai]
Recorded(x) == migr[x].data.records[AreaOf(x)]
Holds(x) == lock = migr[x].owner

\* The command ends or raises: the lock is released, if it is still held.
Released(x) ==
    /\ lock' = IF Holds(x) THEN 0 ELSE lock
    /\ migr' = [migr EXCEPT ![x] = Off]

Becomes(x, me) == migr' = [migr EXCEPT ![x] = me] /\ UNCHANGED lock

\* A step that is taken while the lock is held, and raises otherwise.
Fenced(x, Step) == IF Holds(x) THEN Step ELSE Released(x)

(***************************************************************************)
(* A command starts: all but build read the manifest before they ask for   *)
(* the lock.                                                               *)
(***************************************************************************)
Allowed(cmd) ==
    CASE cmd = "build"   -> TRUE
      [] cmd = "verify"  -> manifest # None
      [] cmd = "cutover" -> manifest # None /\ manifest.phase \in {"verified", "cutover"}
      [] cmd = "cleanup" -> manifest # None /\ manifest.phase \in {"cutover", "cleaned"}

Begin(x, cmd) ==
    /\ MAt(x, "off") /\ runs < MaxRuns /\ Allowed(cmd)
    /\ Becomes(x, [Off EXCEPT !.pc = "lock", !.cmd = cmd,
                      !.data = IF cmd = "build" THEN NoData ELSE manifest])
    /\ UNCHANGED <<memory, client, runs, manifest>>

TakeLock(x) ==
    LET cmd == migr[x].cmd
        pc == CASE cmd = "build" -> "load" [] cmd = "cleanup" -> "clean" [] OTHER -> "verify"
    IN  /\ MAt(x, "lock")
        /\ IF lock # 0 \/ runs = MaxRuns
           THEN migr' = [migr EXCEPT ![x] = Off] /\ UNCHANGED <<lock, runs>>
           ELSE /\ runs' = runs + 1 /\ lock' = runs + 1
                /\ migr' = [migr EXCEPT ![x].pc = pc, ![x].owner = runs + 1]
        /\ UNCHANGED <<memory, client, manifest>>

(***************************************************************************)
(* Build: a durable snapshot first, then area by area claim and re-embed.  *)
(***************************************************************************)
Load(x) ==
    LET me == migr[x]
    IN  /\ MAt(x, "load")
        /\ IF manifest = None THEN Becomes(x, [me EXCEPT !.pc = "source"])
           ELSE IF manifest.phase \in {"building", "verified"}
           THEN Becomes(x, [me EXCEPT !.pc = "mark", !.data = manifest])
           ELSE Released(x)
        /\ UNCHANGED <<memory, client, runs, manifest>>

Source(x) ==
    LET me == migr[x]
        st == state[AreaOf(x)]
    IN  /\ MAt(x, "source")
        /\ IF st.status = "building" \/ Serves(AreaOf(x), Target) THEN Released(x)
           ELSE Becomes(x, [me EXCEPT !.pc = "records",
                               !.data.old = Put(me.data.old, [a \in {AreaOf(x)} |-> st])])
        /\ UNCHANGED <<memory, client, runs, manifest>>

Records(x) ==
    LET me == migr[x]
        a == AreaOf(x)
        found == [m \in DOMAIN parents[a] |-> parents[a][m].expiry]
        read == [me EXCEPT !.data.records = Put(me.data.records, [b \in {a} |-> found])]
    IN  /\ MAt(x, "records")
        /\ Becomes(x, IF me.ai < Len(Order)
                      THEN [read EXCEPT !.ai = me.ai + 1, !.pc = "source"]
                      ELSE [read EXCEPT !.ai = 1, !.pc = "persist", !.next = "mark"])
        /\ UNCHANGED <<memory, client, runs, manifest>>

\* The manifest is replaced, whoever holds the lock by now.
Persist(x) ==
    LET me == migr[x]
    IN  /\ MAt(x, "persist")
        /\ manifest' = me.data
        /\ IF me.next = "end" THEN Released(x)
           ELSE Becomes(x, [me EXCEPT !.pc = me.next])
        /\ UNCHANGED <<memory, client, runs>>

Mark(x) ==
    /\ MAt(x, "mark")
    /\ Fenced(x, Becomes(x, [migr[x] EXCEPT !.data.phase = "building",
                                !.pc = "persist", !.next = "claim"]))
    /\ UNCHANGED <<memory, client, runs, manifest>>

SameRun(st) == st.status = "building" /\ st.target = Target

Claim(x) ==
    LET me == migr[x]
        a == AreaOf(x)
    IN  /\ MAt(x, "claim")
        /\ IF Holds(x) /\ (state[a] = me.data.old[a] \/ SameRun(state[a]))
           THEN /\ state' = [state EXCEPT ![a].status = "building",
                                          ![a].owner = me.owner, ![a].target = Target]
                /\ Becomes(x, [me EXCEPT !.pc = "record", !.todo = DOMAIN Recorded(x)])
           ELSE Released(x) /\ UNCHANGED state
        /\ UNCHANGED <<now, parents, chunks, used, gens, calls, client, runs, manifest>>

Expired(expiry) == expiry # Forever /\ now >= expiry

Complete(a, m, expiry) ==
    IF Live(a, m) THEN parents[a][m].expiry = expiry /\ Whole(a, Target, m)
    ELSE Expired(expiry)

\* What build does with a record: nothing, embed it again, or give up.
Record(x) ==
    LET me == migr[x]
        a == AreaOf(x)
    IN  /\ MAt(x, "record")
        /\ \E m \in me.todo :
              LET expiry == Recorded(x)[m] IN
              Fenced(x,
                 IF Complete(a, m, expiry)
                 THEN Becomes(x, [me EXCEPT !.todo = me.todo \ {m}])
                 ELSE IF ~Live(a, m) \/ parents[a][m].expiry # expiry THEN Released(x)
                 ELSE Becomes(x, [me EXCEPT !.pc = "stage", !.todo = me.todo \ {m}, !.mid = m,
                         !.snap = expiry, !.old = Generation(a, Target, m)]))
        /\ UNCHANGED <<memory, client, runs, manifest>>

\* save(): the lock is checked before the first chunk, not after.
Stage(x) ==
    LET me == migr[x]
        fresh == me.staged = 0
        g == IF fresh THEN gens + 1 ELSE me.gen
        i == me.staged + 1
    IN  /\ MAt(x, "stage")
        /\ fresh => gens < MaxGens
        /\ IF fresh /\ ~Holds(x) THEN Released(x) /\ UNCHANGED <<gens, chunks>>
           ELSE /\ gens' = IF fresh THEN g ELSE gens
                /\ chunks' = [chunks EXCEPT ![AreaOf(x)] =
                      Put(@, [k \in {Key(Target, me.mid, g, i)} |->
                                 Sooner(me.snap, now + Staging)])]
                /\ Becomes(x, [me EXCEPT !.gen = g, !.staged = i,
                                  !.pc = IF i = Chunks THEN "publish" ELSE "stage"])
        /\ UNCHANGED <<now, state, parents, used, calls, client, runs, manifest>>

Owned(x) ==
    /\ state[AreaOf(x)].owner = migr[x].owner /\ state[AreaOf(x)].target = Target
    /\ Holds(x)

Gone(x) == ~Live(AreaOf(x), migr[x].mid)

Republish(x) ==
    LET me == migr[x]
        a == AreaOf(x)
        done == [me EXCEPT !.pc = "record", !.staged = 0]
    IN  /\ MAt(x, "publish")
        /\ IF Owned(x) /\ Gone(x)
           THEN Becomes(x, done) /\ UNCHANGED <<parents, chunks>>
           ELSE IF ~Owned(x) \/ parents[a][me.mid].expiry # me.snap
                             \/ ~StagedWhole(a, Target, me.mid, me.gen)
           THEN Released(x) /\ UNCHANGED <<parents, chunks>>
           ELSE /\ PublishedIn(a, Target, me.mid, me.gen, parents[a][me.mid])
                /\ Becomes(x, IF me.old = 0 THEN done ELSE [done EXCEPT !.pc = "drop"])
        /\ UNCHANGED <<now, state, used, gens, calls, client, runs, manifest>>

Without(a, keys) == [chunks EXCEPT ![a] = [k \in DOMAIN @ \ keys |-> @[k]]]

\* The chunks of the generation that was replaced go, whoever holds the lock.
DropOld(x) ==
    LET me == migr[x]
    IN  /\ MAt(x, "drop")
        /\ chunks' = Without(AreaOf(x), Keys(Target, me.mid, me.old))
        /\ Becomes(x, [me EXCEPT !.pc = "record"])
        /\ UNCHANGED <<now, state, parents, used, gens, calls, client, runs, manifest>>

NextArea(x) ==
    LET me == migr[x]
    IN  /\ MAt(x, "record") /\ me.todo = {}
        /\ Becomes(x, IF me.ai < Len(Order)
                      THEN [me EXCEPT !.ai = me.ai + 1, !.pc = "persist", !.next = "claim"]
                      ELSE [me EXCEPT !.ai = 1, !.pc = "persist", !.next = "verify"])
        /\ UNCHANGED <<memory, client, runs, manifest>>

(***************************************************************************)
(* Verify: every record found in an area was recorded, and every recorded  *)
(* one has its vectors or has expired. The lock is checked at both ends.   *)
(***************************************************************************)
(* Mutant: only the sources are compared, not their vectors.               *)
VerifiedSources(a, data) ==
    /\ SameRun(state[a]) \/ Serves(a, Target)
    /\ DOMAIN parents[a] \subseteq DOMAIN data.records[a]

Verified(a, data) ==
    /\ SameRun(state[a]) \/ Serves(a, Target)
    /\ DOMAIN parents[a] \subseteq DOMAIN data.records[a]
    /\ \A m \in DOMAIN data.records[a] : Complete(a, m, data.records[a][m])

AfterVerify(x) ==
    LET me == migr[x]
        known == me.data.phase \in {"building", "verified"}
        done == IF known THEN [me EXCEPT !.data.phase = "verified"] ELSE me
    IN  IF me.cmd = "cutover" THEN Becomes(x, [me EXCEPT !.ai = 1, !.pc = "cut"])
        ELSE IF known THEN Becomes(x, [done EXCEPT !.pc = "persist", !.next = "end"])
        ELSE Released(x)

Verify(x) ==
    LET me == migr[x]
    IN  /\ MAt(x, "verify")
        /\ IF (me.ai = 1 => Holds(x)) /\ Verified(AreaOf(x), me.data)
           THEN IF me.ai < Len(Order) THEN Becomes(x, [me EXCEPT !.ai = me.ai + 1])
                ELSE Becomes(x, [me EXCEPT !.pc = "verified"])
           ELSE Released(x)
        /\ UNCHANGED <<memory, client, runs, manifest>>

EndVerify(x) ==
    /\ MAt(x, "verified")
    /\ Fenced(x, AfterVerify(x))
    /\ UNCHANGED <<memory, client, runs, manifest>>

Cut(x) ==
    LET me == migr[x]
    IN  /\ MAt(x, "cut")
        /\ IF Holds(x)
           THEN /\ state' = [state EXCEPT ![AreaOf(x)] = Active(Target)]
                /\ Becomes(x, IF me.ai < Len(Order) THEN [me EXCEPT !.ai = me.ai + 1]
                              ELSE [me EXCEPT !.data.phase = "cutover",
                                       !.pc = "persist", !.next = "end"])
           ELSE Released(x) /\ UNCHANGED state
        /\ UNCHANGED <<now, parents, chunks, used, gens, calls, client, runs, manifest>>

(***************************************************************************)
(* Cleanup: what the old profile left, of the ids in the manifest only.    *)
(***************************************************************************)
OldOf(x) == migr[x].data.old[AreaOf(x)].profile

Clean(x) ==
    LET me == migr[x]
    IN  /\ MAt(x, "clean")
        /\ IF Serves(AreaOf(x), Target)
           THEN Becomes(x, [me EXCEPT !.pc = "keys", !.todo = DOMAIN Recorded(x)])
           ELSE Released(x)
        /\ UNCHANGED <<memory, client, runs, manifest>>

OldKeys(x, m) == {k \in Present(AreaOf(x)) : k.profile = OldOf(x) /\ k.mid = m}

CleanKeys(x) ==
    LET me == migr[x]
    IN  /\ MAt(x, "keys")
        /\ \E m \in me.todo :
              IF Holds(x) /\ Serves(AreaOf(x), Target)
              THEN /\ chunks' = Without(AreaOf(x), OldKeys(x, m))
                   /\ Becomes(x, [me EXCEPT !.todo = me.todo \ {m}, !.mid = m, !.pc = "fields"])
              ELSE Released(x) /\ UNCHANGED chunks
        /\ UNCHANGED <<now, state, parents, used, gens, calls, client, runs, manifest>>

CleanFields(x) ==
    LET me == migr[x]
        a == AreaOf(x)
        m == me.mid
    IN  /\ MAt(x, "fields")
        /\ IF ~Live(a, m) THEN Becomes(x, [me EXCEPT !.pc = "keys"]) /\ UNCHANGED parents
           ELSE IF Generation(a, Target, m) # 0 /\ Holds(x) /\ Serves(a, Target)
           THEN /\ parents' = [parents EXCEPT ![a][m].gen[OldOf(x)] = 0]
                /\ Becomes(x, [me EXCEPT !.pc = "keys"])
           ELSE Released(x) /\ UNCHANGED parents
        /\ UNCHANGED <<now, state, chunks, used, gens, calls, client, runs, manifest>>

NextClean(x) ==
    LET me == migr[x]
    IN  /\ MAt(x, "keys") /\ me.todo = {}
        /\ Becomes(x, IF me.ai < Len(Order) THEN [me EXCEPT !.ai = me.ai + 1, !.pc = "clean"]
                      ELSE [me EXCEPT !.data.phase = "cleaned",
                               !.pc = "persist", !.next = "end"])
        /\ UNCHANGED <<memory, client, runs, manifest>>

(***************************************************************************)
(* A command raises, its process dies, the lock expires under its holder.  *)
(***************************************************************************)
Fail(x) == ~MAt(x, "off") /\ Released(x) /\ UNCHANGED <<memory, client, runs, manifest>>

Crash(x) ==
    /\ ~MAt(x, "off")
    /\ migr' = [migr EXCEPT ![x] = Off]
    /\ UNCHANGED <<memory, client, lock, runs, manifest>>

LockExpires ==
    /\ lock # 0 /\ lock' = 0
    /\ UNCHANGED <<memory, client, runs, manifest, migr>>

MigratorStep(x) ==
    \/ \E cmd \in {"build", "verify", "cutover", "cleanup"} : Begin(x, cmd)
    \/ TakeLock(x) \/ Load(x) \/ Source(x) \/ Records(x) \/ Persist(x) \/ Mark(x)
    \/ Claim(x) \/ Record(x) \/ Stage(x) \/ Republish(x) \/ DropOld(x) \/ NextArea(x)
    \/ Verify(x) \/ EndVerify(x) \/ Cut(x)
    \/ Clean(x) \/ CleanKeys(x) \/ CleanFields(x) \/ NextClean(x)
    \/ Fail(x) \/ Crash(x)

(***************************************************************************)
(* The whole: any store that is in order, without the bounds of an         *)
(* instance on who may run and when.                                       *)
(***************************************************************************)
Expiry == Nat \cup {Forever}
ChunkKey == [profile : Profile, mid : Mid, gen : Nat, i : Nat]
RecordType == [days : Nat, expiry : Expiry, gen : [Profile \cup {Legacy} -> Nat]]

StoreInOrder ==
    /\ now \in Nat /\ gens \in Nat /\ calls \in Nat /\ used \subseteq Mid
    /\ state \in [Area -> {Active(p) : p \in Profile} \cup {Blank}]
    /\ DOMAIN parents = Area /\ DOMAIN chunks = Area
    /\ \A a \in Area :
          /\ IsFiniteSet(Present(a)) /\ Present(a) \subseteq ChunkKey
          /\ chunks[a] \in [Present(a) -> Expiry]
          /\ parents[a] \in [DOMAIN parents[a] -> RecordType]
          /\ DOMAIN parents[a] \subseteq used
          /\ \A m \in DOMAIN parents[a] :
                /\ \A p \in Profile \cup {Legacy} : Generation(a, p, m) <= gens
                /\ Whole(a, state[a].profile, m)

MigrationInit ==
    /\ StoreInOrder
    /\ client = [c \in Client |-> Idle]
    /\ lock = 0 /\ runs \in Nat /\ manifest = None
    /\ migr = [x \in Migrator |-> Off]

MigrationNext ==
    \/ (Tick \/ \E c \in Client : ClientStep(c)) /\ UNCHANGED mvars
    \/ \E x \in Migrator : MigratorStep(x)
    \/ LockExpires

MigrationSpec == MigrationInit /\ [][MigrationNext]_<<memory, client, mvars>>

(***************************************************************************)
(* Properties.                                                             *)
(***************************************************************************)

\* Whatever commands run, fail, stall and run again, no step of a migration
\* makes, removes or extends a record: only clients and time do ("Canonical
\* records are never recreated or deleted", migrate.py:1).
SourcesArePreserved ==
    [][now' = now /\ client' = client =>
         \A a \in Area :
            /\ DOMAIN parents'[a] = DOMAIN parents[a]
            /\ \A m \in DOMAIN parents[a] :
                  parents'[a][m].expiry = parents[a][m].expiry]_<<memory, client, mvars>>

\* The phase in the manifest is true of Redis, though it is written without the
\* lock: verified areas that still wait have every vector, after cutover all
\* areas serve the target, and after cleanup nothing of the old profile is left
\* for a recorded id, also when its record has been deleted since.
ManifestIsTrue ==
    manifest # None => \A a \in Area :
        LET ids == DOMAIN manifest.records[a]
            old == manifest.old[a].profile
        IN  /\ manifest.phase = "verified" /\ SameRun(state[a]) =>
                  \A m \in ids : Complete(a, m, manifest.records[a][m])
            /\ manifest.phase \in {"cutover", "cleaned"} => Serves(a, Target)
            /\ manifest.phase = "cleaned" => \A m \in ids :
                  /\ \A k \in Present(a) : k.mid = m => k.profile # old
                  /\ Live(a, m) => Generation(a, old, m) = 0
=============================================================================
