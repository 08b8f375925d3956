---------------------------- MODULE MemoryProofs ----------------------------
(***************************************************************************)
(* Proofs about the semantic memory and its migration, for any number of   *)
(* clients, commands, areas, records and chunks. In order: types and what  *)
(* each actor knows (IInv); who may make an id or a generation; what the   *)
(* steps of clients and of commands do to an area; why that leaves alone   *)
(* what the others know; what the one that steps knows afterwards; the     *)
(* theorems.                                                               *)
(***************************************************************************)
EXTENDS Migration, FiniteSetTheorems, TLAPS

Everything == <<memory, client, mvars>>

(***************************************************************************)
(* Types.                                                                  *)
(***************************************************************************)
AnyProfile == Profile \cup {Legacy}

StateType == [status : {"none", "active", "building"}, profile : AnyProfile,
              owner : Nat, target : {"none", Target}]

Partial(S, T) == UNION {[D -> T] : D \in SUBSET S}

Phases == {"building", "verified", "cutover", "cleaned"}

DataType == [phase : Phases, old : Partial(Area, StateType),
             records : Partial(Area, Partial(Mid, Expiry))]

ClientPc == {"idle", "ensure", "scan", "provision", "stage", "publish", "delete",
             "count", "query", "touch", "found"}
HitSet == SUBSET (Mid \X Nat)
KeySet == SUBSET ChunkKey

ClientType ==
    [pc : ClientPc,
     op : {"none", "save", "search", "delete"}, profile : AnyProfile,
     area : Area \cup {"none"}, mid : Mid \cup {0}, days : Nat, expiry : Expiry,
     gen : Nat, staged : Nat, total : Nat, limit : Nat, rows : KeySet, todo : HitSet,
     found : SUBSET Mid, before : HitSet, known : KeySet, crowded : BOOLEAN]

MigrPc == {"off", "lock", "load", "source", "records", "persist", "mark", "claim",
           "record", "stage", "publish", "drop", "verify", "verified", "cut",
           "clean", "keys", "fields"}

MigrType ==
    [pc : MigrPc,
     cmd : {"none", "build", "verify", "cutover", "cleanup"}, owner : Nat,
     data : DataType, next : {"none", "mark", "claim", "verify", "end"},
     ai : 1..Len(Order), todo : SUBSET Mid, mid : Mid \cup {0},
     snap : Expiry, gen : Nat, staged : Nat, old : Nat]

AreaTypes(a) ==
    /\ IsFiniteSet(Present(a)) /\ Present(a) \subseteq ChunkKey
    /\ chunks[a] \in [Present(a) -> Expiry]
    /\ parents[a] \in [DOMAIN parents[a] -> RecordType]
    /\ DOMAIN parents[a] \subseteq used
    /\ state[a].status = "none" => state[a].profile = Legacy

StoreTypes ==
    /\ now \in Nat /\ gens \in Nat /\ calls \in Nat /\ used \subseteq Mid
    /\ state \in [Area -> StateType]
    /\ DOMAIN parents = Area /\ DOMAIN chunks = Area
    /\ \A a \in Area : AreaTypes(a)

Saves(c) == client[c].op = "save"

ClientTypes(c) ==
    /\ client[c] \in ClientType
    /\ client[c].pc # "idle" => client[c].area \in Area /\ client[c].profile \in Profile
    /\ client[c].pc = "idle" => client[c] = Idle
    /\ client[c].pc \in {"stage", "publish", "provision"} => Saves(c)
    /\ client[c].pc = "publish" => client[c].staged # 0
    /\ Saves(c) => client[c].mid \in used

MigrTypes(x) ==
    /\ migr[x] \in MigrType
    /\ migr[x].pc = "publish" => migr[x].staged # 0

TypesOK ==
    /\ StoreTypes
    /\ client \in [Client -> ClientType] /\ \A c \in Client : ClientTypes(c)
    /\ migr \in [Migrator -> MigrType] /\ \A x \in Migrator : MigrTypes(x)
    /\ lock \in Nat /\ runs \in Nat
    /\ manifest # None => manifest \in DataType

(***************************************************************************)
(* Ids and generations that are no longer being made: what is stored,      *)
(* remembered or recorded is settled, and settled it stays.                *)
(***************************************************************************)
Settled(m) == m \in used /\ \A c \in Client : Saves(c) => client[c].mid # m

SettledGen(g) ==
    /\ g \in 0..gens
    /\ \A c \in Client : client[c].staged # 0 => client[c].gen # g
    /\ \A x \in Migrator : migr[x].staged # 0 => migr[x].gen # g

LiveIds == \A a \in Area : \A m \in DOMAIN parents[a] : Settled(m)

LiveGens == \A a \in Area : \A m \in DOMAIN parents[a] : \A p \in AnyProfile :
               SettledGen(Generation(a, p, m))

IdsInv ==
    /\ \A c, d \in Client : Saves(c) /\ Saves(d) /\ c # d => client[c].mid # client[d].mid
    /\ \A c \in Client : \A hit \in client[c].before : Settled(hit[1])
    /\ \A x \in Migrator : migr[x].pc \in {"stage", "publish", "drop"} => Settled(migr[x].mid)

GensInv ==
    /\ \A c \in Client : client[c].staged # 0 => client[c].gen \in 1..gens
    /\ \A x \in Migrator : migr[x].staged # 0 => migr[x].gen \in 1..gens
    /\ \A c, d \in Client : client[c].staged # 0 /\ client[d].staged # 0 /\ c # d
          => client[c].gen # client[d].gen
    /\ \A x, y \in Migrator : migr[x].staged # 0 /\ migr[y].staged # 0 /\ x # y
          => migr[x].gen # migr[y].gen
    /\ \A c \in Client, x \in Migrator : client[c].staged # 0 /\ migr[x].staged # 0
          => client[c].gen # migr[x].gen
    /\ \A c \in Client : \A hit \in client[c].before : SettledGen(hit[2]) /\ hit[2] # 0
    /\ \A x \in Migrator : SettledGen(migr[x].old)

(***************************************************************************)
(* Areas.                                                                  *)
(***************************************************************************)
Targeted(a) == SameRun(state[a]) \/ Serves(a, Target)

\* The area can be cut over: every record has its vectors for the target.
Ready(a) == Targeted(a) /\ \A m \in DOMAIN parents[a] : Whole(a, Target, m)

\* While the area waits for the cutover, what was recorded of it is embedded.
Covered(a, recorded) ==
    /\ Targeted(a)
    /\ SameRun(state[a]) => \A m \in DOMAIN recorded : Complete(a, m, recorded[m])

Cleaned(a, m, old) ==
    /\ \A k \in Present(a) : k.mid = m => k.profile # old
    /\ Live(a, m) => Generation(a, old, m) = 0

OldInv(st) ==
    /\ st.status \in {"none", "active"} /\ ~(st.status = "active" /\ st.profile = Target)
    /\ st.profile # Target

Full(d) == DOMAIN d.old = Area /\ DOMAIN d.records = Area

DataInv(d) ==
    /\ \A a \in DOMAIN d.old : OldInv(d.old[a])
    /\ \A a \in DOMAIN d.records : \A m \in DOMAIN d.records[a] : Settled(m)
    /\ d.phase # "building" => Full(d)
    /\ d.phase = "verified" => \A a \in Area : Covered(a, d.records[a])
    /\ d.phase \in {"cutover", "cleaned"} => \A a \in Area : Serves(a, Target)
    /\ d.phase = "cleaned" => \A a \in Area : \A m \in DOMAIN d.records[a] :
          Cleaned(a, m, d.old[a].profile)

(***************************************************************************)
(* A migrator, by where it is.                                             *)
(***************************************************************************)
Place(me) == Order[me.ai]
Before(me) == {Order[i] : i \in 1..me.ai - 1}

Reads(me) ==
    /\ me.pc \in {"source", "records"} =>
          /\ me.data.phase = "building"
          /\ DOMAIN me.data.records = Before(me)
          /\ DOMAIN me.data.old = Before(me) \cup IF me.pc = "records" THEN {Place(me)} ELSE {}
    /\ me.pc \notin {"off", "lock", "load", "source", "records"} => Full(me.data)
    /\ me.pc = "lock" /\ me.cmd # "build" => Full(me.data)
    /\ me.pc = "load" => me.data = NoData
    /\ me.cmd = "build" /\ me.pc = "lock" => me.data = NoData
    /\ me.pc \in {"off", "lock", "load"} => me.ai = 1
    /\ me.pc = "persist" /\ me.next \in {"mark", "verify"} => me.ai = 1
    /\ me.pc = "persist" => me.next # "none"
    /\ me.pc = "mark" => me.ai = 1
    /\ me.pc \in {"keys", "fields"} => me.todo \subseteq DOMAIN me.data.records[Place(me)]
    /\ me.pc = "fields" => me.mid \in DOMAIN me.data.records[Place(me)]

Embeds(me) ==
    me.pc = "drop" /\ Live(Place(me), me.mid) => Generation(Place(me), Target, me.mid) # me.old

VerifiedSoFar(me, a) == Ready(a) /\ Covered(a, me.data.records[a])

Verifies(me) ==
    /\ me.pc = "verify" => \A a \in Before(me) : VerifiedSoFar(me, a)
    /\ me.pc = "verified" => \A a \in Area : VerifiedSoFar(me, a)
    /\ me.pc = "cut" =>
          /\ \A a \in Area : Ready(a)
          /\ \A a \in Before(me) : Serves(a, Target)

OldIn(me, a) == me.data.old[a].profile

CleanedIn(me, a, ids) ==
    /\ Serves(a, Target)
    /\ \A m \in ids : Cleaned(a, m, OldIn(me, a))

Cleans(me) ==
    /\ me.pc \in {"clean", "keys", "fields"} =>
          \A a \in Before(me) : CleanedIn(me, a, DOMAIN me.data.records[a])
    /\ me.pc = "keys" => CleanedIn(me, Place(me), DOMAIN me.data.records[Place(me)] \ me.todo)
    /\ me.pc = "fields" =>
          /\ CleanedIn(me, Place(me), DOMAIN me.data.records[Place(me)] \ (me.todo \cup {me.mid}))
          /\ \A k \in Present(Place(me)) : k.mid = me.mid => k.profile # OldIn(me, Place(me))

MigrOf(me) ==
    DataInv(me.data) /\ Reads(me) /\ Embeds(me) /\ Verifies(me) /\ Cleans(me)

MigrInv(x) == MigrOf(migr[x])

(***************************************************************************)
(* A client, by where it is.                                               *)
(***************************************************************************)
Provisions(c) ==
    client[c].pc = "provision" /\ state[client[c].area].status = "none"
        => DOMAIN parents[client[c].area] = {}

Searching(me) == me.pc \in {"query", "touch", "found"}

Hits(me, hit) == Current(me.area, me.profile, hit[1], hit[2])

\* The last query gave every row there is (Exhausted, of a record).
Spent(me) == Cardinality(me.rows) < me.limit \/ me.limit = me.total

SearchOf(me) ==
    /\ Searching(me) =>
          /\ state[me.area].status # "none"
          /\ Serves(me.area, me.profile) \/ me.profile # Target
          /\ IsFiniteSet(me.known) /\ me.total = Cardinality(me.known)
    /\ me.pc = "touch" /\ state[me.area].profile = me.profile /\ ~me.crowded /\ Spent(me)
          => \A hit \in me.before : Hits(me, hit) => hit \in me.todo \/ hit[1] \in me.found
    /\ (/\ me.pc = "found" /\ state[me.area].profile = me.profile
        /\ ~me.crowded /\ Cardinality(me.found) < TopK)
          => \A hit \in me.before : Hits(me, hit) => hit[1] \in me.found

SearchInv(c) == SearchOf(client[c])

IInv ==
    /\ TypesOK /\ LiveIds /\ LiveGens /\ IdsInv /\ GensInv
    /\ EveryRecordIsServed
    /\ manifest # None => DataInv(manifest) /\ Full(manifest)
    /\ \A x \in Migrator : MigrInv(x)
    /\ \A c \in Client : Provisions(c) /\ SearchInv(c)

(***************************************************************************)
(* What the scripts and the calls of Redis do.                             *)
(***************************************************************************)

\* Every key that was there and is not written keeps its value, in every area.
OtherAreas(a) ==
    /\ DOMAIN parents' = DOMAIN parents /\ DOMAIN chunks' = DOMAIN chunks
    /\ \A b \in DOMAIN parents \ {a} : parents'[b] = parents[b]
    /\ \A b \in DOMAIN chunks \ {a} : chunks'[b] = chunks[b]

LEMMA PublishedEffect ==
  ASSUME NEW a \in Area, NEW p, NEW m, NEW g, NEW record,
         DOMAIN parents = Area, DOMAIN chunks = Area,
         PublishedIn(a, p, m, g, record)
  PROVE  /\ OtherAreas(a)
         /\ DOMAIN parents'[a] = {m} \cup DOMAIN parents[a]
         /\ parents'[a][m] = [record EXCEPT !.gen[p] = g]
         /\ \A n \in DOMAIN parents[a] \ {m} : parents'[a][n] = parents[a][n]
         /\ parents'[a] = [n \in DOMAIN parents'[a] |-> parents'[a][n]]
         /\ DOMAIN chunks'[a] = Keys(p, m, g) \cup DOMAIN chunks[a]
         /\ \A k \in Keys(p, m, g) : chunks'[a][k] = record.expiry
         /\ \A k \in DOMAIN chunks[a] \ Keys(p, m, g) : chunks'[a][k] = chunks[a][k]
         /\ chunks'[a] = [k \in DOMAIN chunks'[a] |-> chunks'[a][k]]
BY DEF PublishedIn, OtherAreas, Put

LEMMA TouchedEffect ==
  ASSUME NEW a \in Area, NEW p, NEW m, NEW g, m \in DOMAIN parents[a],
         DOMAIN parents = Area, DOMAIN chunks = Area,
         TouchedIn(a, p, m, g),
         NEW expiry, expiry = ExpiryFor(parents[a][m].days)
  PROVE  /\ OtherAreas(a)
         /\ DOMAIN parents'[a] = DOMAIN parents[a]
         /\ parents'[a][m] = [parents[a][m] EXCEPT !.expiry = expiry]
         /\ \A n \in DOMAIN parents[a] \ {m} : parents'[a][n] = parents[a][n]
         /\ parents'[a] = [n \in DOMAIN parents'[a] |-> parents'[a][n]]
         /\ DOMAIN chunks'[a] = DOMAIN chunks[a]
         /\ \A k \in Keys(p, m, g) \cap DOMAIN chunks[a] : chunks'[a][k] = expiry
         /\ \A k \in DOMAIN chunks[a] \ Keys(p, m, g) : chunks'[a][k] = chunks[a][k]
         /\ chunks'[a] = [k \in DOMAIN chunks'[a] |-> chunks'[a][k]]
BY DEF TouchedIn, OtherAreas, Put, Present

LEMMA DeletedEffect ==
  ASSUME NEW a \in Area, NEW p, NEW m,
         DOMAIN parents = Area, DOMAIN chunks = Area,
         DeletedIn(a, p, m)
  PROVE  /\ OtherAreas(a)
         /\ parents'[a] = [n \in DOMAIN parents[a] \ {m} |-> parents[a][n]]
         /\ chunks'[a] = [k \in DOMAIN chunks[a] \ Keys(p, m, Generation(a, p, m)) |-> chunks[a][k]]
BY DEF DeletedIn, OtherAreas

LEMMA TickEffect ==
  ASSUME Tick
  PROVE  /\ now' = now + 1
         /\ DOMAIN parents' = Area /\ DOMAIN chunks' = Area
         /\ \A a \in Area :
               /\ parents'[a] = [m \in {n \in DOMAIN parents[a] :
                     parents[a][n].expiry = Forever \/ parents[a][n].expiry > now + 1} |-> parents[a][m]]
               /\ chunks'[a] = [k \in {n \in DOMAIN chunks[a] :
                     chunks[a][n] = Forever \/ chunks[a][n] > now + 1} |-> chunks[a][k]]
BY DEF Tick, Remaining

(***************************************************************************)
(* Who moves, and what he may begin: a new id, or the next generation.     *)
(***************************************************************************)
SettledStays ==
    /\ \A m : Settled(m) => Settled(m)'
    /\ \A g : SettledGen(g) => SettledGen(g)'

ClientMoves(c, n) ==
    /\ client' = [client EXCEPT ![c] = n] /\ n \in ClientType
    /\ used \subseteq used' /\ gens' \in {gens, gens + 1} /\ UNCHANGED migr
    /\ n.op = "save" => (Saves(c) /\ n.mid = client[c].mid) \/ n.mid \notin used
    /\ n.staged # 0 => \/ client[c].staged # 0 /\ n.gen = client[c].gen /\ gens' = gens
                       \/ n.gen = gens + 1 /\ gens' = gens + 1
    /\ \A hit \in n.before : Settled(hit[1]) /\ SettledGen(hit[2]) /\ hit[2] # 0

MigrMoves(x, n) ==
    /\ migr' = [migr EXCEPT ![x] = n] /\ n \in MigrType
    /\ gens' \in {gens, gens + 1} /\ UNCHANGED <<client, used>>
    /\ n.staged # 0 => \/ migr[x].staged # 0 /\ n.gen = migr[x].gen /\ gens' = gens
                       \/ n.gen = gens + 1 /\ gens' = gens + 1
    /\ n.pc \in {"stage", "publish", "drop"} => Settled(n.mid)
    /\ SettledGen(n.old)

\* A step of a client leaves settled what is settled; the one id and the one
\* generation it may begin are nobody else's.
LEMMA ClientSettles ==
  ASSUME TypesOK, IdsInv, GensInv, NEW c \in Client, NEW n, ClientMoves(c, n)
  PROVE  SettledStays /\ IdsInv' /\ GensInv'
<1> USE DEF ClientMoves, TypesOK, StoreTypes, ClientTypes, MigrTypes, Saves
<1>1. /\ client'[c] = n /\ \A d \in Client \ {c} : client'[d] = client[d]
      /\ migr' = migr /\ gens \in Nat /\ gens' \in Nat /\ gens <= gens'
      /\ client' \in [Client -> ClientType]
  OBVIOUS
<1>2. \A m : Settled(m) => Settled(m)'
  BY <1>1 DEF Settled
<1>3. ASSUME NEW g, SettledGen(g) PROVE SettledGen(g)'
  <2>1. g \in 0..gens'
    BY <1>1, <1>3 DEF SettledGen
  <2>2. ASSUME NEW d \in Client, client'[d].staged # 0 PROVE client'[d].gen # g
    BY <1>1, <1>3, <2>2 DEF SettledGen
  <2>3. ASSUME NEW x \in Migrator, migr'[x].staged # 0 PROVE migr'[x].gen # g
    BY <1>1, <1>3, <2>3 DEF SettledGen
  <2> QED
    BY <2>1, <2>2, <2>3 DEF SettledGen
<1>4. SettledStays
  BY <1>2, <1>3 DEF SettledStays
<1>5. IdsInv'
  <2>1. ASSUME NEW d \in Client, NEW e \in Client, Saves(d)', Saves(e)', d # e
        PROVE  client'[d].mid # client'[e].mid
    <3>1. \A k \in Client \ {c} : Saves(k)' => Saves(k) /\ client'[k].mid \in used
      BY <1>1
    <3> QED
      BY <1>1, <2>1, <3>1 DEF IdsInv
  <2>2. ASSUME NEW d \in Client, NEW hit \in client'[d].before PROVE Settled(hit[1])'
    BY <1>1, <1>2, <2>2 DEF IdsInv
  <2>3. ASSUME NEW x \in Migrator, migr'[x].pc \in {"stage", "publish", "drop"}
        PROVE  Settled(migr[x].mid)'
    BY <1>1, <1>2, <2>3 DEF IdsInv
  <2> QED
    BY <1>1, <2>1, <2>2, <2>3 DEF IdsInv
<1>6. GensInv'
  <2>0. \A d \in Client : client'[d].gen \in Nat
    BY <1>1 DEF ClientType
  <2>1. ASSUME NEW d \in Client, client'[d].staged # 0 PROVE client'[d].gen \in 1..gens'
    BY <1>1, <2>1 DEF GensInv
  <2>2. ASSUME NEW x \in Migrator, migr'[x].staged # 0 PROVE migr'[x].gen \in 1..gens'
    BY <1>1, <2>2 DEF GensInv
  <2>3. ASSUME NEW d \in Client, NEW e \in Client,
               client'[d].staged # 0, client'[e].staged # 0, d # e
        PROVE  client'[d].gen # client'[e].gen
    <3>1. \A k \in Client \ {c} : client'[k].staged # 0 =>
             client[k].staged # 0 /\ client'[k].gen = client[k].gen /\ client[k].gen \in 1..gens
      BY <1>1 DEF GensInv
    <3> QED
      BY <1>1, <2>3, <3>1 DEF GensInv
  <2>4. ASSUME NEW d \in Client, NEW x \in Migrator,
               client'[d].staged # 0, migr'[x].staged # 0
        PROVE  client'[d].gen # migr'[x].gen
    <3>1. migr[x].staged # 0 /\ migr'[x].gen = migr[x].gen /\ migr[x].gen \in 1..gens
      BY <1>1, <2>4 DEF GensInv
    <3> QED
      BY <1>1, <2>4, <3>1 DEF GensInv
  <2>5. ASSUME NEW d \in Client, NEW hit \in client'[d].before
        PROVE  SettledGen(hit[2])' /\ hit[2] # 0
    BY <1>1, <1>3, <2>5 DEF GensInv
  <2>6. ASSUME NEW x \in Migrator PROVE SettledGen(migr[x].old)'
    BY <1>1, <1>3 DEF GensInv
  <2>7. ASSUME NEW x \in Migrator, NEW y \in Migrator,
               migr'[x].staged # 0, migr'[y].staged # 0, x # y
        PROVE  migr'[x].gen # migr'[y].gen
    BY <1>1, <2>7 DEF GensInv
  <2> QED
    BY <1>1, <2>1, <2>2, <2>3, <2>4, <2>5, <2>6, <2>7 DEF GensInv
<1> QED
  BY <1>4, <1>5, <1>6

\* The same for a step of a migrator.
LEMMA MigrSettles ==
  ASSUME TypesOK, IdsInv, GensInv, NEW x \in Migrator, NEW n, MigrMoves(x, n)
  PROVE  SettledStays /\ IdsInv' /\ GensInv'
<1> USE DEF MigrMoves, TypesOK, StoreTypes, ClientTypes, MigrTypes, Saves
<1>1. /\ migr'[x] = n /\ \A y \in Migrator \ {x} : migr'[y] = migr[y]
      /\ client' = client /\ used' = used /\ gens \in Nat /\ gens' \in Nat /\ gens <= gens'
      /\ migr' \in [Migrator -> MigrType]
  OBVIOUS
<1>2. \A m : Settled(m) => Settled(m)'
  BY <1>1 DEF Settled
<1>3. ASSUME NEW g, SettledGen(g) PROVE SettledGen(g)'
  <2>1. g \in 0..gens'
    BY <1>1, <1>3 DEF SettledGen
  <2>2. ASSUME NEW d \in Client, client'[d].staged # 0 PROVE client'[d].gen # g
    BY <1>1, <1>3, <2>2 DEF SettledGen
  <2>3. ASSUME NEW y \in Migrator, migr'[y].staged # 0 PROVE migr'[y].gen # g
    BY <1>1, <1>3, <2>3 DEF SettledGen
  <2> QED
    BY <2>1, <2>2, <2>3 DEF SettledGen
<1>4. SettledStays
  BY <1>2, <1>3 DEF SettledStays
<1>5. IdsInv'
  <2>1. ASSUME NEW y \in Migrator, migr'[y].pc \in {"stage", "publish", "drop"}
        PROVE  Settled(migr[y].mid)'
    <3>1. Settled(migr'[y].mid)
      BY <1>1, <2>1 DEF IdsInv
    <3> QED
      BY <1>2, <3>1
  <2> QED
    BY <1>1, <1>2, <2>1 DEF IdsInv
<1>6. GensInv'
  <2>0. \A y \in Migrator : migr'[y].gen \in Nat
    BY <1>1 DEF MigrType
  <2>1. ASSUME NEW y \in Migrator, migr'[y].staged # 0 PROVE migr'[y].gen \in 1..gens'
    BY <1>1, <2>1 DEF GensInv
  <2>2. ASSUME NEW d \in Client, client'[d].staged # 0 PROVE client'[d].gen \in 1..gens'
    BY <1>1, <2>2 DEF GensInv
  <2>3. ASSUME NEW y \in Migrator, NEW z \in Migrator,
               migr'[y].staged # 0, migr'[z].staged # 0, y # z
        PROVE  migr'[y].gen # migr'[z].gen
    <3>1. \A k \in Migrator \ {x} : migr'[k].staged # 0 =>
             migr[k].staged # 0 /\ migr'[k].gen = migr[k].gen /\ migr[k].gen \in 1..gens
      BY <1>1 DEF GensInv
    <3> QED
      BY <1>1, <2>3, <3>1 DEF GensInv
  <2>4. ASSUME NEW d \in Client, NEW y \in Migrator,
               client'[d].staged # 0, migr'[y].staged # 0
        PROVE  client'[d].gen # migr'[y].gen
    <3>1. client[d].staged # 0 /\ client'[d].gen = client[d].gen /\ client[d].gen \in 1..gens
      BY <1>1, <2>4 DEF GensInv
    <3> QED
      BY <1>1, <2>4, <3>1 DEF GensInv
  <2>5. ASSUME NEW d \in Client, NEW hit \in client'[d].before
        PROVE  SettledGen(hit[2])' /\ hit[2] # 0
    BY <1>1, <1>3, <2>5 DEF GensInv
  <2>6. ASSUME NEW y \in Migrator PROVE SettledGen(migr[y].old)'
    <3>1. SettledGen(migr'[y].old)
      BY <1>1 DEF GensInv
    <3> QED
      BY <1>3, <3>1
  <2>7. ASSUME NEW d \in Client, NEW e \in Client,
               client'[d].staged # 0, client'[e].staged # 0, d # e
        PROVE  client'[d].gen # client'[e].gen
    BY <1>1, <2>7 DEF GensInv
  <2> QED
    BY <1>1, <2>1, <2>2, <2>3, <2>4, <2>5, <2>6, <2>7 DEF GensInv
<1> QED
  BY <1>4, <1>5, <1>6

\* The same for a step nobody takes.
LEMMA NobodySettles ==
  ASSUME IdsInv, GensInv, UNCHANGED <<used, gens, client, migr>>
  PROVE  SettledStays /\ IdsInv' /\ GensInv'
<1>1. (\A m : Settled(m) => Settled(m)') /\ (\A g : SettledGen(g) => SettledGen(g)')
  BY DEF Settled, SettledGen, Saves
<1> QED
  BY <1>1 DEF SettledStays, IdsInv, GensInv, Saves

(***************************************************************************)
(* The steps of a client.                                                  *)
(***************************************************************************)
LEMMA IdleIsTyped == Idle \in ClientType
<1>1. {} \in HitSet /\ {} \in KeySet /\ {} \in SUBSET Mid
  BY DEF HitSet, KeySet
<1>2. "idle" \in ClientPc /\ 0 \in Expiry /\ Legacy \in AnyProfile
  BY DEF ClientPc, Expiry, AnyProfile
<1> QED
  BY <1>1, <1>2 DEF Idle, ClientType

CanMove(c) ==
    /\ client[c] \in ClientType /\ ClientTypes(c)
    /\ client \in [Client -> ClientType] /\ gens \in Nat
    /\ \A hit \in client[c].before : Settled(hit[1]) /\ SettledGen(hit[2]) /\ hit[2] # 0

LEMMA EveryClientCanMove ==
  ASSUME TypesOK, IdsInv, GensInv, NEW c \in Client
  PROVE  CanMove(c)
BY DEF TypesOK, StoreTypes, ClientTypes, IdsInv, GensInv, CanMove

LEMMA GoesMoves ==
  ASSUME NEW c \in Client, CanMove(c), NEW pc \in ClientPc \ {"idle"},
         client[c].pc # "idle", Goes(c, pc), UNCHANGED <<used, gens, mvars>>,
         pc \in {"stage", "publish", "provision"} => Saves(c), pc # "publish"
  PROVE  ClientMoves(c, client'[c]) /\ ClientTypes(c)'
<1> DEFINE n == client'[c]
<1>1. n = [client[c] EXCEPT !.pc = pc] /\ client' = [client EXCEPT ![c] = n]
  BY DEF Goes, CanMove
<1>2. n \in ClientType
  BY <1>1 DEF ClientType, CanMove
<1>3. /\ n.pc = pc /\ n.op = client[c].op /\ n.mid = client[c].mid /\ n.staged = client[c].staged
      /\ n.gen = client[c].gen /\ n.before = client[c].before
      /\ n.area = client[c].area /\ n.profile = client[c].profile
  BY <1>1 DEF CanMove, ClientType
<1> HIDE DEF n
<1>4. UNCHANGED migr
  BY DEF mvars
<1>5. ClientMoves(c, n)
  BY <1>1, <1>2, <1>3, <1>4 DEF ClientMoves, CanMove, Saves
<1>6. ClientTypes(c)'
  BY <1>2, <1>3 DEF n, ClientTypes, CanMove, Saves
<1> QED
  BY <1>5, <1>6 DEF n

LEMMA StopsMoves ==
  ASSUME NEW c \in Client, CanMove(c), Stops(c), UNCHANGED <<used, gens, mvars>>
  PROVE  ClientMoves(c, client'[c]) /\ ClientTypes(c)'
<1> DEFINE n == client'[c]
<1>1. n = Idle /\ client' = [client EXCEPT ![c] = n]
  BY DEF Stops, CanMove
<1>2. n.pc = "idle" /\ n.op = "none" /\ n.staged = 0 /\ n.before = {}
  BY <1>1 DEF Idle
<1> HIDE DEF n
<1>3. UNCHANGED migr
  BY DEF mvars
<1>4. ClientMoves(c, n)
  BY <1>1, <1>2, <1>3, IdleIsTyped DEF ClientMoves, CanMove
<1>5. ClientTypes(c)'
  BY <1>1, <1>2, IdleIsTyped DEF n, ClientTypes, Saves
<1> QED
  BY <1>4, <1>5 DEF n

LEMMA ClientStepMoves ==
  ASSUME TypesOK, LiveIds, LiveGens, IdsInv, GensInv, EveryRecordIsServed,
         NEW c \in Client, ClientStep(c), UNCHANGED mvars
  PROVE  ClientMoves(c, client'[c]) /\ ClientTypes(c)'
<1> USE MemoryAssumption, IdleIsTyped
<1> DEFINE me == client[c]
           n == client'[c]
<1>0. /\ CanMove(c) /\ me \in ClientType /\ ClientTypes(c) /\ me.area \in Area \cup {"none"}
      /\ client \in [Client -> ClientType] /\ now \in Nat /\ gens \in Nat
      /\ used \subseteq Mid /\ Target \in Profile
      /\ \A hit \in me.before : Settled(hit[1]) /\ SettledGen(hit[2]) /\ hit[2] # 0
  BY MigrationAssumption, EveryClientCanMove
     DEF TypesOK, StoreTypes, ClientTypes, IdsInv, GensInv, ClientType
<1>00. UNCHANGED migr
  BY DEF mvars
<1> HIDE DEF me, n
<1>1. ASSUME NEW a \in Area, NEW p \in Profile, NEW m \in Mid, NEW days \in Days,
             Save(c, p, a, m, days)
      PROVE  ClientMoves(c, n) /\ ClientTypes(c)'
  <2>1. /\ n = [Idle EXCEPT !.op = "save", !.profile = p, !.area = a, !.mid = m, !.days = days,
                            !.pc = "ensure"]
        /\ client' = [client EXCEPT ![c] = n]
        /\ m \notin used /\ used' = used \cup {m} /\ UNCHANGED <<gens, migr>>
    BY <1>0, <1>00, <1>1 DEF Save, Calls, Idle, n
  <2>2. n.before = {} /\ n.staged = 0 /\ n.mid = m /\ n.pc = "ensure"
        /\ n.area = a /\ n.profile = p
    BY <2>1 DEF Idle
  <2>3. n \in ClientType
    <3> p \in AnyProfile /\ "ensure" \in ClientPc /\ days \in Nat
      BY DEF AnyProfile, ClientPc
    <3> QED
      BY <2>1 DEF ClientType
  <2> QED
    BY <1>0, <2>1, <2>2, <2>3 DEF ClientMoves, ClientTypes, n, Saves
<1>2. ASSUME NEW a \in Area, NEW p \in Profile, Search(c, p, a)
      PROVE  ClientMoves(c, n) /\ ClientTypes(c)'
  <2>1. /\ n = [Idle EXCEPT !.op = "search", !.profile = p, !.area = a, !.pc = "ensure"]
        /\ client' = [client EXCEPT ![c] = n]
        /\ used' = used /\ UNCHANGED <<gens, migr>>
    BY <1>0, <1>00, <1>2 DEF Search, Calls, Idle, n
  <2>2. n.before = {} /\ n.staged = 0 /\ n.op = "search" /\ n.pc = "ensure"
        /\ n.area = a /\ n.profile = p
    BY <2>1 DEF Idle
  <2>3. n \in ClientType
    <3> p \in AnyProfile /\ "ensure" \in ClientPc
      BY DEF AnyProfile, ClientPc
    <3> QED
      BY <2>1 DEF ClientType
  <2> QED
    BY <1>0, <2>1, <2>2, <2>3 DEF ClientMoves, ClientTypes, n, Saves
<1>12. ASSUME NEW a \in Area, NEW p \in Profile, NEW m \in Mid, Delete(c, p, a, m)
      PROVE  ClientMoves(c, n) /\ ClientTypes(c)'
  <2>1. /\ n = [Idle EXCEPT !.op = "delete", !.profile = p, !.area = a, !.mid = m, !.pc = "ensure"]
        /\ client' = [client EXCEPT ![c] = n]
        /\ used' = used /\ UNCHANGED <<gens, migr>>
    BY <1>0, <1>00, <1>12 DEF Delete, Calls, Idle, n
  <2>2. n.before = {} /\ n.staged = 0 /\ n.op = "delete" /\ n.pc = "ensure"
        /\ n.area = a /\ n.profile = p
    BY <2>1 DEF Idle
  <2>3. n \in ClientType
    <3> p \in AnyProfile /\ "ensure" \in ClientPc
      BY DEF AnyProfile, ClientPc
    <3> QED
      BY <2>1 DEF ClientType
  <2> QED
    BY <1>0, <2>1, <2>2, <2>3 DEF ClientMoves, ClientTypes, n, Saves
<1>3. ASSUME Ensure(c) PROVE ClientMoves(c, n) /\ ClientTypes(c)'
  <2>1. me.pc # "idle" /\ UNCHANGED <<used, gens>>
    BY <1>3 DEF Ensure, At, memory, me
  <2>2. First(me.op) \in ClientPc \ {"idle", "publish", "provision"}
        /\ (First(me.op) = "stage" => Saves(c))
    BY DEF First, ClientPc, Saves, me
  <2>3. CASE Goes(c, "scan")
    BY <1>0, <2>1, <2>3, GoesMoves DEF n, me, ClientPc
  <2>4. CASE Goes(c, First(me.op))
    BY <1>0, <2>1, <2>2, <2>4, GoesMoves DEF n, me
  <2>5. CASE Stops(c)
    BY <1>0, <2>1, <2>5, StopsMoves DEF n
  <2> QED
    BY <1>3, <2>3, <2>4, <2>5 DEF Ensure, me
<1>4. ASSUME Scan(c) PROVE ClientMoves(c, n) /\ ClientTypes(c)'
  <2>1. me.pc # "idle" /\ UNCHANGED <<used, gens>>
    BY <1>4 DEF Scan, At, memory, me
  <2>2. CASE Goes(c, "provision") /\ Saves(c)
    BY <1>0, <2>1, <2>2, GoesMoves DEF n, me, ClientPc
  <2>3. CASE Stops(c)
    BY <1>0, <2>1, <2>3, StopsMoves DEF n
  <2> QED
    BY <1>4, <2>2, <2>3 DEF Scan, Saves, me
<1>5. ASSUME Provision(c) PROVE ClientMoves(c, n) /\ ClientTypes(c)'
  <2>1. me.pc # "idle" /\ UNCHANGED <<used, gens>> /\ Goes(c, "ensure")
    BY <1>5 DEF Provision, At, me
  <2> QED
    BY <1>0, <2>1, GoesMoves DEF n, me, ClientPc
<1>6. ASSUME StageChunk(c) PROVE ClientMoves(c, n) /\ ClientTypes(c)'
  <2> DEFINE fresh == me.staged = 0
             g == IF fresh THEN gens + 1 ELSE me.gen
             expiry == IF fresh THEN ExpiryFor(me.days) ELSE me.expiry
             i == me.staged + 1
             pc == IF i = Chunks THEN "publish" ELSE "stage"
  <2>1. /\ n = [me EXCEPT !.gen = g, !.expiry = expiry, !.staged = i, !.pc = pc]
        /\ client' = [client EXCEPT ![c] = n] /\ me.pc = "stage"
        /\ gens' = (IF fresh THEN gens + 1 ELSE gens) /\ UNCHANGED <<used, migr>>
    BY <1>0, <1>00, <1>6 DEF StageChunk, At, me, n
  <2>2. /\ g \in Nat /\ expiry \in Expiry /\ i \in Nat /\ i # 0 /\ pc \in ClientPc
        /\ me.staged \in Nat /\ pc # "idle"
    BY <1>0 DEF ClientType, ExpiryFor, Expiry, Forever, ClientPc
  <2> HIDE DEF expiry, i, pc
  <2>3. n \in ClientType
    BY <1>0, <2>1, <2>2 DEF ClientType
  <2>4. /\ n.pc = pc /\ n.op = me.op /\ n.mid = me.mid /\ n.staged = i
        /\ n.gen = g /\ n.before = me.before
        /\ n.area = me.area /\ n.profile = me.profile
    BY <1>0, <2>1 DEF ClientType
  <2>5. ClientMoves(c, n)
    BY <1>0, <2>1, <2>2, <2>3, <2>4 DEF ClientMoves, Saves, me
  <2>6. ClientTypes(c)'
    BY <1>0, <2>1, <2>2, <2>3, <2>4 DEF ClientTypes, Saves, me, n
  <2> QED
    BY <2>5, <2>6
<1>7. ASSUME Publish(c) \/ DeleteScript(c) \/ Return(c) \/ Die(c)
      PROVE  ClientMoves(c, n) /\ ClientTypes(c)'
  <2>1. Stops(c) /\ UNCHANGED <<used, gens>>
    BY <1>7 DEF Publish, DeleteScript, Return, Die, memory
  <2> QED
    BY <1>0, <2>1, StopsMoves DEF n
<1>8. ASSUME Count(c) PROVE ClientMoves(c, n) /\ ClientTypes(c)'
  <2>1. UNCHANGED <<used, gens>> /\ me.pc = "count"
    BY <1>8 DEF Count, memory, At, me
  <2>2. CASE Stops(c)
    BY <1>0, <2>1, <2>2, StopsMoves DEF n
  <2>3. CASE ~Stops(c)
    <3> DEFINE a == me.area
               before == {<<m, Generation(a, me.profile, m)>> : m \in DOMAIN parents[a]}
               total == Cardinality(Indexed(c))
    <3>1. /\ n = [me EXCEPT !.pc = "query", !.total = total,
                   !.limit = Lesser(total, FirstLimit), !.known = Indexed(c),
                   !.before = before]
          /\ client' = [client EXCEPT ![c] = n]
          /\ Serves(a, me.profile)
      BY <1>0, <1>8, <2>3 DEF Count, me, n
    <3>2. /\ a \in Area /\ me.profile \in Profile /\ AreaTypes(a)
          /\ state[a].profile = me.profile
      BY <1>0, <2>1, <3>1 DEF ClientTypes, me, TypesOK, StoreTypes, Serves
    <3>3. Indexed(c) \in KeySet /\ IsFiniteSet(Indexed(c))
      <4> Indexed(c) \subseteq Present(a)
        BY DEF Indexed, me
      <4> QED
        BY <3>2, FS_Subset DEF AreaTypes, KeySet
    <3>4. total \in Nat /\ Lesser(total, FirstLimit) \in Nat
      BY <3>3, FS_CardinalityType DEF Lesser
    <3>5. ASSUME NEW m \in DOMAIN parents[a]
          PROVE  /\ <<m, Generation(a, me.profile, m)>> \in Mid \X Nat
                 /\ Settled(m) /\ SettledGen(Generation(a, me.profile, m))
                 /\ Generation(a, me.profile, m) # 0
      <4>1. m \in Mid /\ parents[a][m] \in RecordType /\ me.profile \in AnyProfile
        BY <1>0, <3>2 DEF AreaTypes, AnyProfile
      <4>2. Generation(a, me.profile, m) \in Nat
        BY <4>1 DEF Generation, RecordType, AnyProfile
      <4>3. Whole(a, me.profile, m)
        BY <3>2 DEF EveryRecordIsServed
      <4> QED
        BY <3>2, <4>1, <4>2, <4>3 DEF LiveIds, LiveGens, Whole
    <3>6. /\ before \in HitSet
          /\ \A hit \in before : Settled(hit[1]) /\ SettledGen(hit[2]) /\ hit[2] # 0
      BY <3>5 DEF HitSet
    <3> HIDE DEF before, total
    <3>7. n \in ClientType
      <4> "query" \in ClientPc
        BY DEF ClientPc
      <4> QED
        BY <1>0, <3>1, <3>3, <3>4, <3>6 DEF ClientType
    <3>8. /\ n.pc = "query" /\ n.op = me.op /\ n.mid = me.mid /\ n.staged = me.staged
          /\ n.gen = me.gen /\ n.before = before
          /\ n.area = me.area /\ n.profile = me.profile
      BY <1>0, <3>1 DEF ClientType
    <3>9. ClientMoves(c, n)
      BY <1>0, <1>00, <2>1, <3>1, <3>6, <3>7, <3>8 DEF ClientMoves, Saves, me
    <3>10. ClientTypes(c)'
      BY <1>0, <2>1, <3>2, <3>7, <3>8 DEF ClientTypes, Saves, me, n
    <3> QED
      BY <3>9, <3>10
  <2> QED
    BY <2>2, <2>3
<1>9. ASSUME Query(c) PROVE ClientMoves(c, n) /\ ClientTypes(c)'
  <2>1. UNCHANGED <<used, gens>> /\ me.pc = "query"
    BY <1>9 DEF Query, memory, At, me
  <2>2. PICK rows \in SUBSET Indexed(c) :
          client' = [client EXCEPT ![c].pc = "touch", ![c].rows = rows,
                 ![c].todo = {<<k.mid, k.gen>> : k \in rows},
                 ![c].crowded = me.crowded \/ ~(Indexed(c) \subseteq me.known)]
    BY <1>9 DEF Query, kSubset, me
  <2> DEFINE todo == {<<k.mid, k.gen>> : k \in rows}
             crowded == me.crowded \/ ~(Indexed(c) \subseteq me.known)
  <2>3. /\ n = [me EXCEPT !.pc = "touch", !.rows = rows, !.todo = todo, !.crowded = crowded]
        /\ client' = [client EXCEPT ![c] = n]
    BY <1>0, <2>2 DEF me, n
  <2>4. me.area \in Area /\ AreaTypes(me.area)
    BY <1>0, <2>1 DEF ClientTypes, me, TypesOK, StoreTypes
  <2>5. rows \in KeySet /\ todo \in HitSet /\ crowded \in BOOLEAN
    <3>1. rows \subseteq ChunkKey
      BY <2>4 DEF Indexed, AreaTypes, me
    <3>2. \A k \in rows : k.mid \in Mid /\ k.gen \in Nat
      BY <3>1 DEF ChunkKey
    <3> QED
      BY <3>1, <3>2 DEF KeySet, HitSet
  <2> HIDE DEF todo, crowded
  <2>6. n \in ClientType
    <3> "touch" \in ClientPc
      BY DEF ClientPc
    <3> QED
      BY <1>0, <2>3, <2>5 DEF ClientType
  <2>7. /\ n.pc = "touch" /\ n.op = me.op /\ n.mid = me.mid /\ n.staged = me.staged
        /\ n.gen = me.gen /\ n.before = me.before
        /\ n.area = me.area /\ n.profile = me.profile
    BY <1>0, <2>3 DEF ClientType
  <2>8. ClientMoves(c, n)
    BY <1>0, <1>00, <2>1, <2>3, <2>6, <2>7 DEF ClientMoves, Saves, me
  <2>9. ClientTypes(c)'
    BY <1>0, <2>1, <2>6, <2>7 DEF ClientTypes, Saves, me, n
  <2> QED
    BY <2>8, <2>9
<1>10. ASSUME Touch(c) PROVE ClientMoves(c, n) /\ ClientTypes(c)'
  <2>1. UNCHANGED <<used, gens>> /\ me.pc = "touch"
    BY <1>10 DEF Touch, At, me
  <2>2. CASE Stops(c)
    BY <1>0, <2>1, <2>2, StopsMoves DEF n
  <2>3. CASE ~Stops(c)
    <3>1. PICK hit \in me.todo, new \in BOOLEAN :
            client' = [client EXCEPT ![c].todo = me.todo \ {hit},
                             ![c].found = me.found \cup IF new THEN {hit[1]} ELSE {}]
      BY <1>10, <2>3 DEF Touch, me
    <3> DEFINE todo == me.todo \ {hit}
               found == me.found \cup IF new THEN {hit[1]} ELSE {}
    <3>2. /\ n = [me EXCEPT !.todo = todo, !.found = found]
          /\ client' = [client EXCEPT ![c] = n]
      BY <1>0, <3>1 DEF me, n
    <3>3. todo \in HitSet /\ found \in SUBSET Mid
      <4> me.todo \in HitSet /\ me.found \in SUBSET Mid
        BY <1>0 DEF ClientType
      <4> QED
        BY DEF HitSet
    <3> HIDE DEF todo, found
    <3>4. n \in ClientType
      BY <1>0, <3>2, <3>3 DEF ClientType
    <3>5. /\ n.pc = "touch" /\ n.op = me.op /\ n.mid = me.mid /\ n.staged = me.staged
          /\ n.gen = me.gen /\ n.before = me.before
          /\ n.area = me.area /\ n.profile = me.profile
      BY <1>0, <2>1, <3>2 DEF ClientType
    <3>6. ClientMoves(c, n)
      BY <1>0, <1>00, <2>1, <3>2, <3>4, <3>5 DEF ClientMoves, Saves, me
    <3>7. ClientTypes(c)'
      BY <1>0, <2>1, <3>4, <3>5 DEF ClientTypes, Saves, me, n
    <3> QED
      BY <3>6, <3>7
  <2> QED
    BY <2>2, <2>3
<1>11. ASSUME Widen(c) PROVE ClientMoves(c, n) /\ ClientTypes(c)'
  <2>1. UNCHANGED <<used, gens>> /\ me.pc = "touch"
    BY <1>11 DEF Widen, At, memory, me
  <2>2. CASE Goes(c, "found")
    BY <1>0, <2>1, <2>2, GoesMoves DEF n, me, ClientPc
  <2>3. CASE ~Goes(c, "found")
    <3>1. /\ n = [me EXCEPT !.pc = "query", !.limit = Lesser(me.total, 2 * me.limit)]
          /\ client' = [client EXCEPT ![c] = n]
      BY <1>0, <1>11, <2>3 DEF Widen, me, n
    <3>2. Lesser(me.total, 2 * me.limit) \in Nat
      BY <1>0 DEF ClientType, Lesser
    <3>4. n \in ClientType
      <4> "query" \in ClientPc
        BY DEF ClientPc
      <4> QED
        BY <1>0, <3>1, <3>2 DEF ClientType
    <3>5. /\ n.pc = "query" /\ n.op = me.op /\ n.mid = me.mid /\ n.staged = me.staged
          /\ n.gen = me.gen /\ n.before = me.before
          /\ n.area = me.area /\ n.profile = me.profile
      BY <1>0, <2>1, <3>1 DEF ClientType
    <3>6. ClientMoves(c, n)
      BY <1>0, <1>00, <2>1, <3>1, <3>4, <3>5 DEF ClientMoves, Saves, me
    <3>7. ClientTypes(c)'
      BY <1>0, <2>1, <3>4, <3>5 DEF ClientTypes, Saves, me, n
    <3> QED
      BY <3>6, <3>7
  <2> QED
    BY <2>2, <2>3
<1> QED
  BY <1>1, <1>2, <1>12, <1>3, <1>4, <1>5, <1>6, <1>7, <1>8, <1>9, <1>10, <1>11
     DEF ClientStep, n

(***************************************************************************)
(* What any step may do to an area.                                        *)
(***************************************************************************)
StateStep(a) ==
    \/ state'[a] = state[a]
    \/ /\ parents'[a] = parents[a] /\ chunks'[a] = chunks[a]
       /\ \/ /\ state[a].status = "none" /\ DOMAIN parents[a] = {}
             /\ state'[a].status = "active"
          \/ SameRun(state'[a]) /\ state'[a].profile = state[a].profile /\ ~Serves(a, Target)
          \/ state'[a] = Active(Target) /\ Ready(a)

\* The profile whose vectors count: the one that is served or returned to, and
\* the one a migration builds.
Guarded(a, p) == p = state[a].profile \/ (p = Target /\ SameRun(state[a]))

Survives(a, m) ==
    /\ \A p \in AnyProfile :
          \/ parents'[a][m].gen[p] = parents[a][m].gen[p]
          \/ p = Target /\ ~SettledGen(parents'[a][m].gen[p])
          \/ p # Target /\ parents'[a][m].gen[p] = 0 /\ Serves(a, Target)
    /\ parents'[a][m].expiry = parents[a][m].expiry \/ state[a].status = "active"
    /\ \A p \in AnyProfile : Guarded(a, p) /\ Whole(a, p, m) => Whole(a, p, m)'

Leaves(a, m) ==
    \/ state[a].status = "active"
    \/ parents[a][m].expiry # Forever /\ parents[a][m].expiry <= now'

Appears(a, m) ==
    /\ ~Settled(m) /\ state'[a] = state[a]
    /\ \E p \in Profile : Serves(a, p) /\ Whole(a, p, m)'

AreaStep(a) ==
    /\ StateStep(a)
    /\ \A m \in DOMAIN parents[a] \cap DOMAIN parents'[a] : Survives(a, m)
    /\ \A m \in DOMAIN parents[a] \ DOMAIN parents'[a] : Leaves(a, m)
    /\ \A m \in DOMAIN parents'[a] \ DOMAIN parents[a] : Appears(a, m)
    /\ \A k \in DOMAIN chunks'[a] \ DOMAIN chunks[a] : k.profile = Target \/ ~Settled(k.mid)

StoreStep ==
    /\ now \in Nat /\ now' \in Nat /\ now <= now'
    /\ \A a \in Area : AreaStep(a)

StoreInv == TypesOK /\ LiveIds /\ LiveGens /\ IdsInv /\ GensInv /\ EveryRecordIsServed

AreaStays(a) ==
    state'[a] = state[a] /\ parents'[a] = parents[a] /\ chunks'[a] = chunks[a]

LEMMA StayingArea ==
  ASSUME NEW a, AreaStays(a), AreaTypes(a), used \subseteq used'
  PROVE  AreaStep(a) /\ AreaTypes(a)'
BY DEF AreaStays, AreaTypes, AreaStep, StateStep, Survives, Whole, Generation, Present

\* A key says whose it is.
LEMMA KeySays ==
  ASSUME NEW p, NEW m, NEW g, NEW k \in Keys(p, m, g)
  PROVE  k.profile = p /\ k.mid = m /\ k.gen = g
BY DEF Keys, Key

LEMMA KeysAreKeys ==
  ASSUME NEW p \in Profile, NEW m \in Mid, NEW g \in Nat
  PROVE  Keys(p, m, g) \subseteq ChunkKey
BY DEF Keys, Key, ChunkKey

LEMMA UnchangedStore ==
  ASSUME StoreInv, UNCHANGED <<now, state, parents, chunks>>, SettledStays,
         used \subseteq used', used' \subseteq Mid, gens' \in Nat, calls' \in Nat
  PROVE  StoreStep /\ StoreTypes' /\ LiveIds' /\ LiveGens'
<1>1. \A a \in Area : AreaStays(a) /\ AreaTypes(a)
  BY DEF AreaStays, StoreInv, TypesOK, StoreTypes
<1>2. \A a \in Area : AreaStep(a) /\ AreaTypes(a)'
  BY <1>1, StayingArea
<1>3. StoreStep /\ StoreTypes'
  BY <1>2 DEF StoreStep, StoreTypes, StoreInv, TypesOK
<1>4. LiveIds' /\ LiveGens'
  BY DEF LiveIds, LiveGens, SettledStays, StoreInv, Generation
<1> QED
  BY <1>3, <1>4

\* What stays of the records is settled.
LEMMA TickStore ==
  ASSUME StoreInv, Tick, SettledStays
  PROVE  StoreStep /\ StoreTypes' /\ LiveIds' /\ LiveGens'
<1>1. /\ now \in Nat /\ now' = now + 1 /\ UNCHANGED <<state, used, gens, calls>>
      /\ DOMAIN parents' = Area /\ DOMAIN chunks' = Area
  BY TickEffect DEF Tick, StoreInv, TypesOK, StoreTypes
<1>2. ASSUME NEW a \in Area
      PROVE  /\ AreaStep(a) /\ AreaTypes(a)'
             /\ DOMAIN parents'[a] \subseteq DOMAIN parents[a]
             /\ \A m \in DOMAIN parents'[a] : parents'[a][m] = parents[a][m]
  <2>1. /\ parents'[a] = [m \in {n \in DOMAIN parents[a] :
                     parents[a][n].expiry = Forever \/ parents[a][n].expiry > now + 1} |-> parents[a][m]]
        /\ chunks'[a] = [k \in {n \in DOMAIN chunks[a] :
                     chunks[a][n] = Forever \/ chunks[a][n] > now + 1} |-> chunks[a][k]]
        /\ AreaTypes(a)
    BY <1>2, TickEffect DEF StoreInv, TypesOK, StoreTypes
  <2>2. AreaTypes(a)'
    <3>1. IsFiniteSet(Present(a))'
      BY <2>1, FS_Subset DEF AreaTypes, Present
    <3> QED
      BY <1>1, <2>1, <3>1 DEF AreaTypes, Present
  <2>3. ASSUME NEW m \in DOMAIN parents[a] \cap DOMAIN parents'[a] PROVE Survives(a, m)
    <3>1. parents'[a][m] = parents[a][m]
          /\ (parents[a][m].expiry = Forever \/ parents[a][m].expiry > now + 1)
      BY <2>1, <2>3
    <3>2. ASSUME NEW p \in AnyProfile, Whole(a, p, m) PROVE Whole(a, p, m)'
      BY <2>1, <3>1, <3>2 DEF Whole, Generation, Present
    <3> QED
      BY <3>1, <3>2 DEF Survives
  <2>4. ASSUME NEW m \in DOMAIN parents[a] \ DOMAIN parents'[a] PROVE Leaves(a, m)
    <3>1. parents[a][m] \in RecordType
      BY <2>1, <2>4 DEF AreaTypes
    <3> QED
      BY <1>1, <2>1, <2>4, <3>1 DEF Leaves, RecordType, Expiry, Forever
  <2>5. AreaStep(a)
    BY <1>1, <2>1, <2>3, <2>4 DEF AreaStep, StateStep
  <2> QED
    BY <2>1, <2>2, <2>5
<1>3. StoreStep /\ StoreTypes'
  BY <1>1, <1>2 DEF StoreStep, StoreTypes, StoreInv, TypesOK
<1>4. LiveIds' /\ LiveGens'
  BY <1>2 DEF LiveIds, LiveGens, SettledStays, StoreInv, Generation
<1> QED
  BY <1>3, <1>4

LEMMA ProvisionStore ==
  ASSUME StoreInv, NEW c \in Client, Provision(c), Provisions(c), SettledStays
  PROVE  StoreStep /\ StoreTypes' /\ LiveIds' /\ LiveGens'
<1> DEFINE a == client[c].area
           p == client[c].profile
<1>1. /\ a \in Area /\ p \in Profile /\ client[c].pc = "provision"
      /\ UNCHANGED <<now, parents, chunks, used, gens, calls>>
  BY DEF Provision, At, StoreInv, TypesOK, ClientTypes
<1>2. CASE state[a].status # "none"
  BY <1>1, <1>2, UnchangedStore DEF Provision, StoreInv, TypesOK, StoreTypes
<1>3. CASE state[a].status = "none"
  <2>1. /\ state' = [state EXCEPT ![a] = Active(p)] /\ state \in [Area -> StateType]
        /\ DOMAIN parents[a] = {}
    BY <1>1, <1>3 DEF Provision, Provisions, StoreInv, TypesOK, StoreTypes
  <2>2. Active(p) \in StateType /\ Active(p).status = "active"
    BY <1>1 DEF Active, Blank, StateType, AnyProfile
  <2>3. \A b \in Area : AreaTypes(b)
    BY DEF StoreInv, TypesOK, StoreTypes
  <2>4. ASSUME NEW b \in Area PROVE AreaStep(b) /\ AreaTypes(b)'
    <3>1. CASE b # a
      <4> AreaStays(b)
        BY <1>1, <2>1, <3>1 DEF AreaStays
      <4> QED
        BY <1>1, <2>3, StayingArea
    <3>2. CASE b = a
      <4>1. /\ state'[b] = Active(p) /\ state[b].status = "none" /\ DOMAIN parents[b] = {}
            /\ parents'[b] = parents[b] /\ chunks'[b] = chunks[b] /\ used' = used
        BY <1>1, <1>3, <2>1, <3>2
      <4>2. AreaStep(b)
        BY <2>2, <4>1 DEF AreaStep, StateStep
      <4>3. AreaTypes(b)'
        BY <2>2, <2>3, <4>1 DEF AreaTypes, Present
      <4> QED
        BY <4>2, <4>3
    <3> QED
      BY <3>1, <3>2
  <2>5. StoreStep /\ StoreTypes'
    BY <1>1, <2>1, <2>2, <2>4 DEF StoreStep, StoreTypes, StoreInv, TypesOK
  <2>6. LiveIds' /\ LiveGens'
    BY <1>1 DEF LiveIds, LiveGens, SettledStays, StoreInv, Generation
  <2> QED
    BY <2>5, <2>6
<1> QED
  BY <1>2, <1>3

\* One area changes, the others and the clock do not.
LEMMA OneAreaStore ==
  ASSUME StoreInv, NEW a \in Area, AreaStep(a), AreaTypes(a)', now' = now,
         used \subseteq used', used' \subseteq Mid, gens' \in Nat, calls' \in Nat,
         state' \in [Area -> StateType], DOMAIN parents' = Area, DOMAIN chunks' = Area,
         \A b \in Area \ {a} : AreaStays(b)
  PROVE  StoreStep /\ StoreTypes'
<1>1. \A b \in Area : AreaTypes(b)
  BY DEF StoreInv, TypesOK, StoreTypes
<1>2. \A b \in Area : AreaStep(b) /\ AreaTypes(b)'
  BY <1>1, StayingArea
<1> QED
  BY <1>2 DEF StoreStep, StoreTypes, StoreInv, TypesOK

\* The records are as they were: a chunk is written that no record points at.
LEMMA StagedStore ==
  ASSUME StoreInv, NEW a \in Area, NEW k \in ChunkKey, NEW e \in Expiry,
         chunks' = [chunks EXCEPT ![a] = Put(@, [x \in {k} |-> e])],
         UNCHANGED <<now, state, parents, used, calls>>, gens' \in Nat, SettledStays,
         k.profile = Target \/ ~Settled(k.mid),
         ~SettledGen(k.gen) \/ ~Settled(k.mid)
  PROVE  StoreStep /\ StoreTypes' /\ LiveIds' /\ LiveGens'
<1>1. /\ AreaTypes(a) /\ DOMAIN parents' = Area /\ DOMAIN chunks' = Area
      /\ DOMAIN chunks = Area /\ used \subseteq Mid
      /\ state' \in [Area -> StateType] /\ calls \in Nat
  BY DEF StoreInv, TypesOK, StoreTypes
<1>2. /\ DOMAIN chunks'[a] = DOMAIN chunks[a] \cup {k}
      /\ \A x \in DOMAIN chunks[a] \ {k} : chunks'[a][x] = chunks[a][x]
      /\ chunks'[a] = [x \in DOMAIN chunks'[a] |-> chunks'[a][x]]
      /\ chunks'[a][k] = e
      /\ \A b \in Area \ {a} : chunks'[b] = chunks[b]
  BY <1>1 DEF Put
<1>3. ASSUME NEW m \in DOMAIN parents[a], NEW p \in AnyProfile, Whole(a, p, m)
      PROVE  Whole(a, p, m)'
  <2>1. Settled(m) /\ SettledGen(Generation(a, p, m))
    BY DEF StoreInv, LiveIds, LiveGens
  <2>2. k \notin Keys(p, m, Generation(a, p, m))
    BY <2>1, KeySays
  <2>3. parents' = parents /\ Generation(a, p, m)' = Generation(a, p, m)
    BY DEF Generation
  <2>4. \A x \in Keys(p, m, Generation(a, p, m)) :
           x \in DOMAIN chunks[a] => x \in DOMAIN chunks'[a] /\ chunks'[a][x] = chunks[a][x]
    BY <1>2, <2>2
  <2> QED
    BY <1>3, <2>3, <2>4 DEF Whole, Present
<1>4. AreaStep(a)
  BY <1>2, <1>3 DEF AreaStep, StateStep, Survives
<1>5. AreaTypes(a)'
  <2>1. IsFiniteSet(Present(a))'
    BY <1>1, <1>2, FS_AddElement DEF AreaTypes, Present
  <2>2. (chunks[a] \in [Present(a) -> Expiry])'
    BY <1>1, <1>2 DEF AreaTypes, Present
  <2>3. Present(a)' \subseteq ChunkKey
    BY <1>1, <1>2 DEF AreaTypes, Present
  <2> QED
    BY <1>1, <2>1, <2>2, <2>3 DEF AreaTypes
<1>6. \A b \in Area \ {a} : AreaStays(b)
  BY <1>2 DEF AreaStays
<1>7. StoreStep /\ StoreTypes'
  BY <1>1, <1>4, <1>5, <1>6, OneAreaStore
<1>8. LiveIds' /\ LiveGens'
  BY DEF LiveIds, LiveGens, SettledStays, StoreInv, Generation
<1> QED
  BY <1>7, <1>8

LEMMA SoonerExpiry ==
  ASSUME NEW s \in Expiry, NEW t \in Nat
  PROVE  Sooner(s, t) \in Expiry
BY DEF Sooner, Expiry, Forever

LEMMA ExpiryForDays ==
  ASSUME now \in Nat, NEW days \in Nat
  PROVE  ExpiryFor(days) \in Expiry
BY MemoryAssumption DEF ExpiryFor, Expiry, Forever

LEMMA StageChunkStore ==
  ASSUME StoreInv, NEW c \in Client, StageChunk(c), SettledStays
  PROVE  StoreStep /\ StoreTypes' /\ LiveIds' /\ LiveGens'
<1> DEFINE me == client[c]
           fresh == me.staged = 0
           g == IF fresh THEN gens + 1 ELSE me.gen
           expiry == IF fresh THEN ExpiryFor(me.days) ELSE me.expiry
           key == Key(me.profile, me.mid, g, me.staged + 1)
<1>1. /\ me \in ClientType /\ me.pc = "stage" /\ me.area \in Area /\ me.profile \in Profile
      /\ Saves(c) /\ me.mid \in used /\ used \subseteq Mid /\ gens \in Nat /\ now \in Nat
  BY DEF StoreInv, TypesOK, ClientTypes, StageChunk, At, StoreTypes
<1>2. /\ me.staged \in Nat /\ me.gen \in Nat /\ me.expiry \in Expiry /\ me.days \in Nat
  BY <1>1 DEF ClientType
<1>3. expiry \in Expiry /\ g \in Nat /\ Sooner(expiry, now + Staging) \in Expiry
  BY <1>1, <1>2, ExpiryForDays, SoonerExpiry, MemoryAssumption
<1>4. key \in ChunkKey /\ key.mid = me.mid /\ ~Settled(me.mid)
  BY <1>1, <1>2, <1>3 DEF Key, ChunkKey, Settled
<1>5. /\ chunks' = [chunks EXCEPT ![me.area] = Put(@, [k \in {key} |-> Sooner(expiry, now + Staging)])]
      /\ UNCHANGED <<now, state, parents, used, calls>> /\ gens' \in Nat
  BY <1>1 DEF StageChunk
<1> HIDE DEF key, expiry, g, fresh
<1>6. PICK a \in Area, k \in ChunkKey, e \in Expiry :
         /\ chunks' = [chunks EXCEPT ![a] = Put(@, [x \in {k} |-> e])]
         /\ ~Settled(k.mid)
  BY <1>1, <1>3, <1>4, <1>5
<1> QED
  BY <1>5, <1>6, StagedStore

LEMMA PublishStore ==
  ASSUME StoreInv, NEW c \in Client, Publish(c), UNCHANGED mvars, SettledStays,
         ClientTypes(c)'
  PROVE  StoreStep /\ StoreTypes' /\ LiveIds' /\ LiveGens'
<1> DEFINE me == client[c]
<1>1. /\ me \in ClientType /\ me.pc = "publish" /\ me.area \in Area /\ me.profile \in Profile
      /\ Saves(c) /\ me.mid \in used /\ used \subseteq Mid /\ gens \in Nat /\ now \in Nat
      /\ me.staged # 0 /\ me.gen \in 1..gens /\ me.days \in Nat /\ me.expiry \in Expiry
      /\ UNCHANGED <<now, state, used, gens, calls, migr>>
      /\ client' = [client EXCEPT ![c] = Idle] /\ client \in [Client -> ClientType]
      /\ state \in [Area -> StateType] /\ DOMAIN parents = Area /\ DOMAIN chunks = Area
      /\ calls \in Nat
  BY DEF StoreInv, TypesOK, ClientTypes, Publish, At, StoreTypes, Stops, GensInv, ClientType, mvars
<1>2. CASE ~Publishable(c)
  BY <1>1, <1>2, UnchangedStore DEF Publish
<1>3. CASE Publishable(c)
  <2>0. Parent(me.days, me.expiry) \in RecordType
    BY <1>1 DEF Parent, RecordType
  <2>1. PICK a \in Area, p \in Profile, m \in Mid, g \in 1..gens, r \in RecordType :
           /\ a = me.area /\ p = me.profile /\ m = me.mid /\ g = me.gen
           /\ r = Parent(me.days, me.expiry)
    BY <1>1, <2>0
  <2>2. /\ PublishedIn(a, p, m, g, r) /\ Serves(a, p) /\ m \notin DOMAIN parents[a]
        /\ Keys(p, m, g) \subseteq DOMAIN chunks[a]
    BY <1>3, <2>1 DEF Publish, Publishable, Live, StagedWhole, Present
  <2> DEFINE s == [r EXCEPT !.gen[p] = g]
  <2>3. /\ s \in RecordType /\ r.expiry \in Expiry /\ s.expiry = r.expiry
        /\ s.gen = [q \in AnyProfile |-> IF q = p THEN g ELSE 0]
    <3>1. r.gen = [q \in AnyProfile |-> 0] /\ p \in AnyProfile /\ g \in Nat
      BY <1>1, <2>1 DEF Parent, AnyProfile
    <3> QED
      BY <3>1 DEF RecordType, AnyProfile
  <2>4. /\ OtherAreas(a)
        /\ DOMAIN parents'[a] = {m} \cup DOMAIN parents[a]
        /\ parents'[a][m] = s
        /\ \A n \in DOMAIN parents[a] \ {m} : parents'[a][n] = parents[a][n]
        /\ parents'[a] = [n \in DOMAIN parents'[a] |-> parents'[a][n]]
        /\ DOMAIN chunks'[a] = Keys(p, m, g) \cup DOMAIN chunks[a]
        /\ \A k \in Keys(p, m, g) : chunks'[a][k] = r.expiry
        /\ \A k \in DOMAIN chunks[a] \ Keys(p, m, g) : chunks'[a][k] = chunks[a][k]
        /\ chunks'[a] = [k \in DOMAIN chunks'[a] |-> chunks'[a][k]]
    BY <1>1, <2>2, PublishedEffect
  <2> HIDE DEF s
  <2>5. DOMAIN chunks'[a] = DOMAIN chunks[a] /\ AreaTypes(a)
    BY <2>2, <2>4 DEF StoreInv, TypesOK, StoreTypes
  <2>6. ~Settled(m) /\ Settled(m)'
    <3>1. ~Settled(m)
      BY <1>1, <2>1 DEF Settled
    <3>2. ASSUME NEW d \in Client, Saves(d)' PROVE client'[d].mid # m
      <4>1. d # c /\ client'[d] = client[d]
        BY <1>1, <3>2 DEF Saves, Idle
      <4> QED
        BY <1>1, <2>1, <3>2, <4>1 DEF Saves, StoreInv, IdsInv
    <3> QED
      BY <1>1, <2>1, <3>1, <3>2 DEF Settled
  <2>7. SettledGen(g)' /\ SettledGen(0)'
    <3>1. ASSUME NEW d \in Client, client'[d].staged # 0
          PROVE  client'[d].gen # g /\ client'[d].gen # 0
      <4>1. d # c /\ client'[d] = client[d]
        BY <1>1, <3>1 DEF Idle
      <4> QED
        BY <1>1, <2>1, <3>1, <4>1 DEF StoreInv, GensInv
    <3>2. ASSUME NEW x \in Migrator, migr'[x].staged # 0
          PROVE  migr'[x].gen # g /\ migr'[x].gen # 0
      BY <1>1, <2>1, <3>2 DEF StoreInv, GensInv
    <3> QED
      BY <1>1, <3>1, <3>2 DEF SettledGen
  <2>8. AreaStep(a)
    <3>1. ASSUME NEW n \in DOMAIN parents[a] PROVE Survives(a, n)
      <4>1. n # m /\ parents'[a][n] = parents[a][n]
        BY <2>2, <2>4
      <4>2. \A q, h : \A k \in Keys(q, n, h) : k \notin Keys(p, m, g)
        BY <4>1, KeySays
      <4>3. \A q \in AnyProfile : Whole(a, q, n) => Whole(a, q, n)'
        BY <2>4, <2>5, <4>1, <4>2 DEF Whole, Generation, Present
      <4> QED
        BY <4>1, <4>3 DEF Survives
    <3>2. Whole(a, p, m)'
      BY <2>3, <2>4 DEF Whole, Generation, Present, AnyProfile
    <3>3. Appears(a, m)
      BY <1>1, <2>2, <2>6, <3>2 DEF Appears
    <3> QED
      BY <1>1, <2>4, <2>5, <3>1, <3>3 DEF AreaStep, StateStep
  <2>9. AreaTypes(a)'
    <3>1. \A k \in DOMAIN chunks'[a] : chunks'[a][k] \in Expiry
      BY <2>3, <2>4, <2>5 DEF AreaTypes, Present
    <3>2. \A n \in DOMAIN parents'[a] : parents'[a][n] \in RecordType
      BY <2>3, <2>4, <2>5 DEF AreaTypes
    <3> QED
      BY <1>1, <2>1, <2>4, <2>5, <3>1, <3>2 DEF AreaTypes, Present
  <2>10. /\ DOMAIN parents' = Area /\ DOMAIN chunks' = Area
         /\ \A b \in Area \ {a} : AreaStays(b)
    BY <1>1, <2>4 DEF OtherAreas, AreaStays
  <2>11. StoreStep /\ StoreTypes'
    BY <1>1, <2>8, <2>9, <2>10, OneAreaStore
  <2>12. LiveIds'
    <3> SUFFICES ASSUME NEW b \in Area, NEW n \in DOMAIN parents'[b] PROVE Settled(n)'
      BY DEF LiveIds
    <3> QED
      BY <2>4, <2>6, <2>10 DEF StoreInv, LiveIds, SettledStays, AreaStays
  <2>13. LiveGens'
    <3> SUFFICES ASSUME NEW b \in Area, NEW n \in DOMAIN parents'[b], NEW q \in AnyProfile,
                        NEW v, v = parents'[b][n].gen[q]
                 PROVE  SettledGen(v)'
      BY DEF LiveGens, Generation
    <3>1. CASE b = a /\ n = m
      <4>1. v = g \/ v = 0
        BY <2>3, <2>4, <3>1
      <4>2. CASE v = g
        BY <2>7, <4>2
      <4>3. CASE v = 0
        BY <2>7, <4>3
      <4> QED
        BY <4>1, <4>2, <4>3
    <3>2. CASE ~(b = a /\ n = m)
      <4> n \in DOMAIN parents[b] /\ parents'[b][n] = parents[b][n]
        BY <2>4, <2>10, <3>2 DEF AreaStays
      <4> QED
        BY DEF StoreInv, LiveGens, SettledStays, Generation
    <3> QED
      BY <3>1, <3>2
  <2> QED
    BY <2>11, <2>12, <2>13
<1> QED
  BY <1>2, <1>3

LEMMA DeleteStore ==
  ASSUME StoreInv, NEW c \in Client, DeleteScript(c), SettledStays
  PROVE  StoreStep /\ StoreTypes' /\ LiveIds' /\ LiveGens'
<1> DEFINE me == client[c]
<1>1. /\ me.area \in Area /\ me.profile \in Profile
      /\ UNCHANGED <<now, state, used, gens, calls>>
      /\ used \subseteq Mid /\ gens \in Nat /\ calls \in Nat
      /\ state \in [Area -> StateType] /\ DOMAIN parents = Area /\ DOMAIN chunks = Area
  BY DEF StoreInv, TypesOK, ClientTypes, DeleteScript, At, StoreTypes
<1>2. CASE ~(Serves(me.area, me.profile) /\ Live(me.area, me.mid))
  BY <1>1, <1>2, UnchangedStore DEF DeleteScript
<1>3. CASE Serves(me.area, me.profile) /\ Live(me.area, me.mid)
  <2>1. PICK a \in Area, p \in Profile, m \in used :
           m \in DOMAIN parents[a] /\ DeletedIn(a, p, m) /\ Serves(a, p)
    BY <1>1, <1>3 DEF DeleteScript, Live, StoreInv, LiveIds, Settled
  <2> DEFINE keys == Keys(p, m, Generation(a, p, m))
  <2>2. /\ OtherAreas(a) /\ AreaTypes(a)
        /\ parents'[a] = [n \in DOMAIN parents[a] \ {m} |-> parents[a][n]]
        /\ chunks'[a] = [k \in DOMAIN chunks[a] \ keys |-> chunks[a][k]]
    BY <1>1, <2>1, DeletedEffect DEF StoreInv, TypesOK, StoreTypes
  <2>3. \A q, h, n : n # m => \A k \in Keys(q, n, h) : k \notin keys
    BY KeySays
  <2> HIDE DEF keys
  <2>4. AreaStep(a)
    <3>1. ASSUME NEW n \in DOMAIN parents'[a] PROVE Survives(a, n)
      <4>1. n # m /\ parents'[a][n] = parents[a][n]
        BY <2>2, <3>1
      <4>2. \A q \in AnyProfile : Whole(a, q, n) => Whole(a, q, n)'
        BY <2>2, <2>3, <4>1 DEF Whole, Generation, Present
      <4> QED
        BY <4>1, <4>2 DEF Survives
    <3>2. \A n \in DOMAIN parents[a] : Leaves(a, n)
      BY <2>1 DEF Leaves, Serves
    <3> QED
      BY <1>1, <2>2, <3>1, <3>2 DEF AreaStep, StateStep
  <2>5. AreaTypes(a)'
    <3>1. IsFiniteSet(Present(a))'
      BY <2>2, FS_Subset DEF AreaTypes, Present
    <3> QED
      BY <1>1, <2>2, <3>1 DEF AreaTypes, Present
  <2>6. /\ DOMAIN parents' = Area /\ DOMAIN chunks' = Area
        /\ \A b \in Area \ {a} : AreaStays(b)
    BY <1>1, <2>2 DEF OtherAreas, AreaStays
  <2>7. StoreStep /\ StoreTypes'
    BY <1>1, <2>4, <2>5, <2>6, OneAreaStore
  <2>8. \A b \in Area : \A n \in DOMAIN parents'[b] :
           n \in DOMAIN parents[b] /\ parents'[b][n] = parents[b][n]
    BY <2>2, <2>6 DEF AreaStays
  <2>9. LiveIds' /\ LiveGens'
    BY <2>8 DEF LiveIds, LiveGens, SettledStays, StoreInv, Generation
  <2> QED
    BY <2>7, <2>9
<1> QED
  BY <1>2, <1>3

LEMMA TouchStore ==
  ASSUME StoreInv, NEW c \in Client, Touch(c), SettledStays
  PROVE  StoreStep /\ StoreTypes' /\ LiveIds' /\ LiveGens'
<1> DEFINE me == client[c]
<1>1. /\ me.area \in Area /\ me.profile \in Profile
      /\ UNCHANGED <<now, state, used, gens, calls>> /\ now \in Nat
      /\ used \subseteq Mid /\ gens \in Nat /\ calls \in Nat
      /\ state \in [Area -> StateType] /\ DOMAIN parents = Area /\ DOMAIN chunks = Area
  BY DEF StoreInv, TypesOK, ClientTypes, Touch, At, StoreTypes
<1>2. CASE UNCHANGED <<parents, chunks>>
  BY <1>1, <1>2, UnchangedStore
<1>3. CASE ~UNCHANGED <<parents, chunks>>
  <2>1. PICK a \in Area, p \in Profile, m \in used, g \in 0..gens :
           /\ m \in DOMAIN parents[a] /\ TouchedIn(a, p, m, g) /\ Serves(a, p)
           /\ g = Generation(a, p, m)
    <3>1. PICK hit \in me.todo :
             TouchedIn(me.area, me.profile, hit[1], hit[2]) /\ Serves(me.area, me.profile)
             /\ Current(me.area, me.profile, hit[1], hit[2])
      BY <1>3 DEF Touch
    <3> QED
      BY <1>1, <3>1 DEF Current, Live, StoreInv, LiveIds, Settled, LiveGens, SettledGen,
                        AnyProfile
  <2>0. PICK expiry \in Expiry : expiry = ExpiryFor(parents[a][m].days)
    <3>1. parents[a][m] \in RecordType
      BY <2>1 DEF AreaTypes, StoreInv, TypesOK, StoreTypes
    <3> QED
      BY <1>1, <3>1, ExpiryForDays DEF RecordType
  <2> DEFINE keys == Keys(p, m, g)
             record == [parents[a][m] EXCEPT !.expiry = expiry]
  <2>2. /\ OtherAreas(a) /\ AreaTypes(a)
        /\ DOMAIN parents'[a] = DOMAIN parents[a] /\ parents'[a][m] = record
        /\ \A n \in DOMAIN parents[a] \ {m} : parents'[a][n] = parents[a][n]
        /\ parents'[a] = [n \in DOMAIN parents'[a] |-> parents'[a][n]]
        /\ DOMAIN chunks'[a] = DOMAIN chunks[a]
        /\ \A k \in keys \cap DOMAIN chunks[a] : chunks'[a][k] = expiry
        /\ \A k \in DOMAIN chunks[a] \ keys : chunks'[a][k] = chunks[a][k]
        /\ chunks'[a] = [k \in DOMAIN chunks'[a] |-> chunks'[a][k]]
    BY <1>1, <2>0, <2>1, TouchedEffect DEF StoreInv, TypesOK, StoreTypes
  <2>3. \A q, h, n : n # m => \A k \in Keys(q, n, h) : k \notin keys
    BY KeySays
  <2>4. /\ expiry \in Expiry /\ record \in RecordType /\ record.expiry = expiry
        /\ record.gen = parents[a][m].gen
    <3>1. parents[a][m] \in RecordType
      BY <2>1, <2>2 DEF AreaTypes
    <3> QED
      BY <2>0, <3>1 DEF RecordType
  <2>5. (p \in AnyProfile /\ state[a].profile = p /\ ~SameRun(state[a])) /\ state[a].status = "active"
    BY <2>1 DEF Serves, SameRun, AnyProfile
  <2> HIDE DEF record, keys
  <2>6. AreaStep(a)
    <3>1. ASSUME NEW n \in DOMAIN parents[a] PROVE Survives(a, n)
      <4>1. CASE n = m
        <5>1. Whole(a, p, m) => Whole(a, p, m)'
          BY <2>1, <2>2, <2>4 DEF Whole, Generation, Present, keys
        <5> QED
          BY <2>2, <2>4, <2>5, <4>1, <5>1 DEF Survives, Guarded
      <4>2. CASE n # m
        <5>1. parents'[a][n] = parents[a][n]
          BY <2>2, <4>2
        <5>2. \A q \in AnyProfile : Whole(a, q, n) => Whole(a, q, n)'
          BY <2>2, <2>3, <4>2, <5>1 DEF Whole, Generation, Present
        <5> QED
          BY <5>1, <5>2 DEF Survives
      <4> QED
        BY <4>1, <4>2
    <3> QED
      BY <1>1, <2>2, <3>1 DEF AreaStep, StateStep
  <2>7. AreaTypes(a)'
    <3>1. \A k \in DOMAIN chunks'[a] : chunks'[a][k] \in Expiry
      BY <2>2, <2>4 DEF AreaTypes, Present
    <3>2. \A n \in DOMAIN parents'[a] : parents'[a][n] \in RecordType
      BY <2>2, <2>4 DEF AreaTypes
    <3> QED
      BY <1>1, <2>2, <3>1, <3>2 DEF AreaTypes, Present
  <2>8. /\ DOMAIN parents' = Area /\ DOMAIN chunks' = Area
        /\ \A b \in Area \ {a} : AreaStays(b)
    BY <1>1, <2>2 DEF OtherAreas, AreaStays
  <2>9. StoreStep /\ StoreTypes'
    BY <1>1, <2>6, <2>7, <2>8, OneAreaStore
  <2>10. \A b \in Area : \A n \in DOMAIN parents'[b] :
           n \in DOMAIN parents[b] /\ parents'[b][n].gen = parents[b][n].gen
    BY <2>2, <2>4, <2>8 DEF AreaStays
  <2>11. LiveIds' /\ LiveGens'
    BY <2>10 DEF LiveIds, LiveGens, SettledStays, StoreInv, Generation
  <2> QED
    BY <2>9, <2>11
<1> QED
  BY <1>2, <1>3

LEMMA ClientStepStore ==
  ASSUME StoreInv, NEW c \in Client, ClientStep(c), UNCHANGED mvars, Provisions(c),
         SettledStays, ClientTypes(c)'
  PROVE  StoreStep /\ StoreTypes' /\ LiveIds' /\ LiveGens'
<1>0. used \subseteq Mid /\ gens \in Nat /\ calls \in Nat
  BY DEF StoreInv, TypesOK, StoreTypes
<1>1. ASSUME NEW a \in Area, NEW p \in Profile, NEW m \in Mid, NEW days \in Days,
             Save(c, p, a, m, days)
      PROVE  StoreStep /\ StoreTypes' /\ LiveIds' /\ LiveGens'
  BY <1>0, <1>1, UnchangedStore DEF Save, Calls
<1>2. ASSUME NEW a \in Area, NEW p \in Profile, Search(c, p, a)
      PROVE  StoreStep /\ StoreTypes' /\ LiveIds' /\ LiveGens'
  BY <1>0, <1>2, UnchangedStore DEF Search, Calls
<1>3. ASSUME NEW a \in Area, NEW p \in Profile, NEW m \in Mid, Delete(c, p, a, m)
      PROVE  StoreStep /\ StoreTypes' /\ LiveIds' /\ LiveGens'
  BY <1>0, <1>3, UnchangedStore DEF Delete, Calls
<1>4. CASE UNCHANGED memory
  BY <1>0, <1>4, UnchangedStore DEF memory
<1>5. CASE Provision(c)
  BY <1>5, ProvisionStore
<1>6. CASE StageChunk(c)
  BY <1>6, StageChunkStore
<1>7. CASE Publish(c)
  BY <1>7, PublishStore
<1>8. CASE DeleteScript(c)
  BY <1>8, DeleteStore
<1>9. CASE Touch(c)
  BY <1>9, TouchStore
<1> QED
  BY <1>1, <1>2, <1>3, <1>4, <1>5, <1>6, <1>7, <1>8, <1>9
     DEF ClientStep, Ensure, Scan, Count, Query, Widen, Return, Die

(***************************************************************************)
(* The steps of a migrator.                                                *)
(***************************************************************************)
LEMMA EmptyPartial ==
  ASSUME NEW S, NEW T
  PROVE  <<>> \in Partial(S, T) /\ DOMAIN <<>> = {}
BY DEF Partial

LEMMA PutPartial ==
  ASSUME NEW S, NEW T, NEW f \in Partial(S, T), NEW k \in S, NEW w \in [{k} -> T]
  PROVE  /\ Put(f, w) \in Partial(S, T) /\ DOMAIN Put(f, w) = DOMAIN f \cup {k}
         /\ Put(f, w)[k] = w[k]
         /\ \A y \in DOMAIN f \ {k} : Put(f, w)[y] = f[y]
<1> DEFINE g == Put(f, w)
<1>1. PICK D \in SUBSET S : f \in [D -> T]
  BY DEF Partial
<1>2. g \in [D \cup {k} -> T]
  BY <1>1 DEF Put
<1>3. g \in Partial(S, T)
  BY <1>2 DEF Partial
<1> QED
  BY <1>1, <1>3 DEF Put

LEMMA NoDataIsTyped == NoData \in DataType /\ DOMAIN NoData.old = {} /\ DOMAIN NoData.records = {}
BY EmptyPartial DEF NoData, DataType, Phases

LEMMA OrderHasAreas ==
  /\ Len(Order) \in Nat /\ 1 \in 1..Len(Order)
  /\ \A i \in 1..Len(Order) : Order[i] \in Area
  /\ \A a \in Area : \E i \in 1..Len(Order) : Order[i] = a
BY MigrationAssumption

LEMMA OffIsTyped == Off \in MigrType
BY NoDataIsTyped, OrderHasAreas DEF Off, MigrType, MigrPc, Expiry

CanAct(x) ==
    /\ migr[x] \in MigrType /\ migr[x].data \in DataType
    /\ migr \in [Migrator -> MigrType] /\ SettledGen(migr[x].old)
    /\ gens \in Nat /\ lock \in Nat /\ runs \in Nat

LEMMA EveryMigratorCanAct ==
  ASSUME TypesOK, GensInv, NEW x \in Migrator
  PROVE  CanAct(x)
BY DEF TypesOK, StoreTypes, MigrTypes, GensInv, CanAct, MigrType

Acted(x) == MigrMoves(x, migr'[x]) /\ MigrTypes(x)' /\ lock' \in Nat

LEMMA ReleasedMoves ==
  ASSUME NEW x \in Migrator, CanAct(x), SettledGen(0),
         migr' = [migr EXCEPT ![x] = Off], lock' \in Nat, UNCHANGED <<client, used, gens>>
  PROVE  Acted(x) /\ migr'[x] = Off
<1> DEFINE n == migr'[x]
<1>1. n = Off /\ migr' = [migr EXCEPT ![x] = n]
  BY DEF CanAct
<1>2. n.pc = "off" /\ n.staged = 0 /\ n.old = 0
  BY <1>1 DEF Off
<1> HIDE DEF n
<1>3. MigrMoves(x, n)
  BY <1>1, <1>2, OffIsTyped DEF MigrMoves, CanAct
<1>4. MigrTypes(x)'
  BY <1>1, <1>2, OffIsTyped DEF n, MigrTypes
<1> QED
  BY <1>1, <1>3, <1>4 DEF n, Acted

LEMMA BecomesMoves ==
  ASSUME NEW x \in Migrator, CanAct(x), NEW n \in MigrType,
         migr' = [migr EXCEPT ![x] = n], lock' \in Nat, UNCHANGED <<client, used>>,
         gens' \in {gens, gens + 1},
         n.staged # 0 => \/ migr[x].staged # 0 /\ n.gen = migr[x].gen /\ gens' = gens
                         \/ n.gen = gens + 1 /\ gens' = gens + 1,
         n.pc \in {"stage", "publish", "drop"} => Settled(n.mid),
         SettledGen(n.old), n.pc = "publish" => n.staged # 0
  PROVE  Acted(x) /\ migr'[x] = n
<1>1. migr'[x] = n
  BY DEF CanAct
<1>2. MigrMoves(x, n)
  BY DEF MigrMoves, CanAct
<1>3. MigrTypes(x)'
  BY <1>1 DEF MigrTypes
<1> QED
  BY <1>1, <1>2, <1>3 DEF Acted

LEMMA PcsAreTyped ==
  /\ "off" \in MigrPc /\ "lock" \in MigrPc /\ "load" \in MigrPc /\ "source" \in MigrPc
  /\ "records" \in MigrPc /\ "persist" \in MigrPc /\ "mark" \in MigrPc /\ "claim" \in MigrPc
  /\ "record" \in MigrPc /\ "stage" \in MigrPc /\ "publish" \in MigrPc /\ "drop" \in MigrPc
  /\ "verify" \in MigrPc /\ "verified" \in MigrPc /\ "cut" \in MigrPc /\ "clean" \in MigrPc
  /\ "keys" \in MigrPc /\ "fields" \in MigrPc
BY DEF MigrPc

\* A step that keeps the generation, the staged chunks and what is replaced.
Same(x, n) ==
    /\ n \in MigrType /\ n.gen = migr[x].gen /\ n.old = migr[x].old
    /\ n.staged = migr[x].staged \/ n.staged = 0
    /\ n.pc \notin {"stage", "publish", "drop"}

LEMMA SameMoves ==
  ASSUME NEW x \in Migrator, CanAct(x), NEW n, Same(x, n),
         migr' = [migr EXCEPT ![x] = n], lock' \in Nat, UNCHANGED <<client, used, gens>>
  PROVE  Acted(x) /\ migr'[x] = n
BY BecomesMoves DEF Same, CanAct

LEMMA MigratorStepMoves ==
  ASSUME StoreInv, NEW x \in Migrator, MigratorStep(x), Reads(migr[x]),
         manifest # None => Full(manifest)
  PROVE  /\ Acted(x) /\ runs' \in Nat
         /\ manifest' # None => manifest' \in DataType
<1> DEFINE me == migr[x]
<1>0. /\ CanAct(x) /\ me \in MigrType /\ me.data \in DataType /\ gens \in Nat
      /\ manifest # None => manifest \in DataType
      /\ now \in Nat /\ lock \in Nat /\ runs \in Nat /\ me.owner \in Nat
      /\ MigrTypes(x) /\ me.ai \in 1..Len(Order) /\ me.staged \in Nat /\ me.gen \in Nat
      /\ me.pc \in {"stage", "publish", "drop"} => Settled(me.mid)
      /\ SettledGen(me.old) /\ AreaOf(x) \in Area /\ me.todo \in SUBSET Mid
      /\ used \subseteq Mid
  BY EveryMigratorCanAct, OrderHasAreas
     DEF StoreInv, TypesOK, MigrType, StoreTypes, MigrTypes, IdsInv, GensInv,
                             AreaOf
<1>1. SettledGen(0)
  BY <1>0 DEF StoreInv, GensInv, SettledGen
<1>00. /\ Len(Order) \in Nat /\ 1 \in 1..Len(Order)
       /\ me.ai < Len(Order) => me.ai + 1 \in 1..Len(Order)
  BY <1>0, OrderHasAreas
<1>2. CASE Released(x) /\ UNCHANGED <<client, used, gens, runs, manifest>>
  <2>1. lock' \in Nat
    BY <1>0, <1>2 DEF Released
  <2> QED
    BY <1>0, <1>1, <1>2, <2>1, ReleasedMoves DEF Released
<1>3. ASSUME NEW n, Same(x, n), Becomes(x, n), UNCHANGED <<client, used, gens, runs, manifest>>
      PROVE  Acted(x) /\ runs' \in Nat /\ (manifest' # None => manifest' \in DataType)
  BY <1>0, <1>3, SameMoves DEF Becomes
<1>4. ASSUME NEW cmd \in {"build", "verify", "cutover", "cleanup"}, Begin(x, cmd)
      PROVE  Acted(x) /\ runs' \in Nat /\ (manifest' # None => manifest' \in DataType)
  <2> DEFINE data == IF cmd = "build" THEN NoData ELSE manifest
             n == [Off EXCEPT !.pc = "lock", !.cmd = cmd, !.data = data]
  <2>1. data \in DataType
    BY <1>0, <1>4, NoDataIsTyped DEF Begin, Allowed
  <2> HIDE DEF data
  <2>2. n \in MigrType /\ n.staged = 0 /\ n.old = 0 /\ n.pc = "lock"
    BY <2>1, OffIsTyped DEF MigrType, MigrPc, Off
  <2>3. /\ migr' = [migr EXCEPT ![x] = n] /\ lock' = lock
        /\ UNCHANGED <<client, used, gens, runs, manifest>>
    BY <1>4 DEF Begin, Becomes, memory, data
  <2> HIDE DEF n
  <2> QED
    BY <1>0, <1>1, <2>2, <2>3, BecomesMoves
<1>5. CASE TakeLock(x)
  <2> DEFINE pc == CASE me.cmd = "build" -> "load" [] me.cmd = "cleanup" -> "clean" [] OTHER -> "verify"
             n == [me EXCEPT !.pc = pc, !.owner = runs + 1]
  <2>1. UNCHANGED <<client, used, gens, manifest>>
    BY <1>5 DEF TakeLock, memory
  <2>2. CASE migr' = [migr EXCEPT ![x] = Off] /\ UNCHANGED <<lock, runs>>
    BY <1>0, <1>1, <2>1, <2>2, ReleasedMoves
  <2>3. CASE ~(migr' = [migr EXCEPT ![x] = Off] /\ UNCHANGED <<lock, runs>>)
    <3>1. runs' = runs + 1 /\ lock' = runs + 1 /\ migr' = [migr EXCEPT ![x] = n]
      BY <1>0, <1>5, <2>3 DEF TakeLock, CanAct
    <3>2. pc \in MigrPc \ {"stage", "publish", "drop"} /\ runs + 1 \in Nat
      BY <1>0 DEF MigrPc
    <3> HIDE DEF pc
    <3>3. /\ n.pc = pc /\ n.gen = me.gen /\ n.old = me.old /\ n.staged = me.staged
          /\ n \in MigrType
      BY <1>0, <3>2 DEF MigrType
    <3>4. Same(x, n)
      BY <3>2, <3>3 DEF Same
    <3>5. lock' \in Nat /\ runs' \in Nat
      BY <1>0, <3>1
    <3> HIDE DEF n
    <3>6. Acted(x)
      BY <1>0, <2>1, <3>1, <3>4, <3>5, SameMoves
    <3> QED
      BY <1>0, <2>1, <3>5, <3>6
  <2> QED
    BY <2>2, <2>3
<1>6. CASE Load(x)
  <2>1. UNCHANGED <<client, used, gens, runs, manifest>>
    BY <1>6 DEF Load, memory
  <2>2. Same(x, [me EXCEPT !.pc = "source"])
    BY <1>0, PcsAreTyped DEF MigrType, Same
  <2>3. manifest # None => Same(x, [me EXCEPT !.pc = "mark", !.data = manifest])
    BY <1>0, PcsAreTyped DEF MigrType, Same
  <2> QED
    BY <1>2, <1>3, <1>6, <2>1, <2>2, <2>3 DEF Load
<1>7. CASE Source(x)
  <2> DEFINE w == [a \in {AreaOf(x)} |-> state[AreaOf(x)]]
             data == [me.data EXCEPT !.old = Put(me.data.old, w)]
  <2>1. UNCHANGED <<client, used, gens, runs, manifest>>
    BY <1>7 DEF Source, memory
  <2>2. data \in DataType
    <3>1. me.data.old \in Partial(Area, StateType) /\ state[AreaOf(x)] \in StateType
      BY <1>0 DEF DataType, StoreInv, TypesOK, StoreTypes
    <3>2. w \in [{AreaOf(x)} -> StateType]
      BY <3>1
    <3> HIDE DEF w
    <3>3. Put(me.data.old, w) \in Partial(Area, StateType)
      BY <1>0, <3>1, <3>2, PutPartial
    <3> QED
      BY <1>0, <3>3 DEF DataType
  <2>3. CASE Released(x)
    BY <1>2, <2>1, <2>3
  <2>4. CASE Becomes(x, [me EXCEPT !.pc = "records", !.data = data])
    <3> HIDE DEF data
    <3> Same(x, [me EXCEPT !.pc = "records", !.data = data])
      BY <1>0, <2>2, PcsAreTyped DEF MigrType, Same
    <3> QED
      BY <1>3, <2>1, <2>4
  <2> QED
    BY <1>7, <2>3, <2>4 DEF Source
<1>8. CASE Records(x)
  <2> DEFINE a == AreaOf(x)
             found == [m \in DOMAIN parents[a] |-> parents[a][m].expiry]
             w == [b \in {a} |-> found]
             data == [me.data EXCEPT !.records = Put(me.data.records, w)]
  <2>1. UNCHANGED <<client, used, gens, runs, manifest>>
    BY <1>8 DEF Records, memory
  <2>2. data \in DataType
    <3>1. AreaTypes(a) /\ me.data.records \in Partial(Area, Partial(Mid, Expiry))
      BY <1>0 DEF DataType, StoreInv, TypesOK, StoreTypes
    <3>2. found \in [DOMAIN parents[a] -> Expiry] /\ DOMAIN parents[a] \in SUBSET Mid
      BY <1>0, <3>1 DEF AreaTypes, RecordType
    <3>3. found \in Partial(Mid, Expiry)
      BY <3>2 DEF Partial
    <3>4. w \in [{a} -> Partial(Mid, Expiry)]
      BY <3>3
    <3> HIDE DEF w
    <3>5. Put(me.data.records, w) \in Partial(Area, Partial(Mid, Expiry))
      BY <1>0, <3>1, <3>4, PutPartial
    <3> QED
      BY <1>0, <3>5 DEF DataType
  <2> DEFINE read == [me EXCEPT !.data = data]
  <2>3. Becomes(x, IF me.ai < Len(Order)
                      THEN [read EXCEPT !.ai = me.ai + 1, !.pc = "source"]
                      ELSE [read EXCEPT !.ai = 1, !.pc = "persist", !.next = "mark"])
    BY <1>8 DEF Records
  <2> HIDE DEF data
  <2>4. /\ read \in MigrType /\ read.gen = me.gen /\ read.old = me.old
        /\ read.staged = me.staged
    BY <1>0, <2>2 DEF MigrType
  <2> HIDE DEF read
  <2>5. me.ai < Len(Order) => Same(x, [read EXCEPT !.ai = me.ai + 1, !.pc = "source"])
    BY <1>00, <2>4, PcsAreTyped DEF MigrType, Same
  <2>6. Same(x, [read EXCEPT !.ai = 1, !.pc = "persist", !.next = "mark"])
    BY <1>00, <2>4, PcsAreTyped DEF MigrType, Same
  <2> QED
    BY <1>3, <2>1, <2>3, <2>5, <2>6
<1>9. CASE Persist(x)
  <2>1. UNCHANGED <<client, used, gens, runs>> /\ manifest' = me.data
    BY <1>9 DEF Persist, memory
  <2>2. CASE Released(x)
    <3> lock' \in Nat
      BY <1>0, <2>2 DEF Released
    <3> QED
      BY <1>0, <1>1, <2>1, <2>2, ReleasedMoves DEF Released
  <2>3. CASE Becomes(x, [me EXCEPT !.pc = me.next]) /\ me.next # "end"
    <3>1. me.next \in MigrPc \ {"stage", "publish", "drop"}
      BY <1>0, <1>9, <2>3, PcsAreTyped DEF MigrType, Persist, MAt, Reads, Place
    <3>2. Same(x, [me EXCEPT !.pc = me.next])
      BY <1>0, <3>1 DEF MigrType, Same
    <3> QED
      BY <1>0, <2>1, <2>3, <3>2, SameMoves DEF Becomes
  <2> QED
    BY <1>9, <2>2, <2>3 DEF Persist
<1>10. CASE Mark(x)
  <2> DEFINE data == [me.data EXCEPT !.phase = "building"]
             n == [me EXCEPT !.data = data, !.pc = "persist", !.next = "claim"]
  <2>1. UNCHANGED <<client, used, gens, runs, manifest>>
    BY <1>10 DEF Mark, memory
  <2>2. data \in DataType
    BY <1>0 DEF DataType, Phases
  <2>3. Released(x) \/ Becomes(x, n)
    BY <1>10 DEF Mark, Fenced
  <2> HIDE DEF data
  <2>4. Same(x, n)
    BY <1>0, <2>2, PcsAreTyped DEF MigrType, Same
  <2> HIDE DEF n
  <2> QED
    BY <1>2, <1>3, <2>1, <2>3, <2>4
<1>11. CASE Claim(x)
  <2>1. UNCHANGED <<client, used, gens, runs, manifest>>
    BY <1>11 DEF Claim
  <2>2. CASE Becomes(x, [me EXCEPT !.pc = "record", !.todo = DOMAIN Recorded(x)])
    <3>1. DOMAIN Recorded(x) \in SUBSET Mid
      <4>1. me.data.records \in Partial(Area, Partial(Mid, Expiry)) /\ DOMAIN me.data.records = Area
        BY <1>0, <1>11 DEF DataType, Reads, Place, Full, Claim, MAt
      <4>2. me.data.records[AreaOf(x)] \in Partial(Mid, Expiry)
        BY <1>0, <4>1 DEF Partial
      <4> QED
        BY <4>2 DEF Recorded, Partial
    <3>2. Same(x, [me EXCEPT !.pc = "record", !.todo = DOMAIN Recorded(x)])
      BY <1>0, <3>1, PcsAreTyped DEF MigrType, Same
    <3> QED
      BY <1>3, <2>1, <2>2, <3>2
  <2> QED
    BY <1>2, <1>11, <2>1, <2>2 DEF Claim
<1>12. CASE Record(x)
  <2>1. UNCHANGED <<client, used, gens, runs, manifest>>
    BY <1>12 DEF Record, memory
  <2>2. PICK m \in me.todo :
          \/ Released(x)
          \/ Becomes(x, [me EXCEPT !.todo = me.todo \ {m}])
          \/ /\ Live(AreaOf(x), m) /\ parents[AreaOf(x)][m].expiry = Recorded(x)[m]
             /\ Becomes(x, [me EXCEPT !.pc = "stage", !.todo = me.todo \ {m}, !.mid = m,
                    !.snap = Recorded(x)[m], !.old = Generation(AreaOf(x), Target, m)])
    BY <1>12 DEF Record, Fenced
  <2>3. Same(x, [me EXCEPT !.todo = me.todo \ {m}])
    BY <1>0, <1>12 DEF MigrType, Same, Record, MAt
  <2>4. CASE Live(AreaOf(x), m) /\ parents[AreaOf(x)][m].expiry = Recorded(x)[m]
             /\ Becomes(x, [me EXCEPT !.pc = "stage", !.todo = me.todo \ {m}, !.mid = m,
                    !.snap = Recorded(x)[m], !.old = Generation(AreaOf(x), Target, m)])
    <3> DEFINE snap == Recorded(x)[m]
               old == Generation(AreaOf(x), Target, m)
               n == [me EXCEPT !.pc = "stage", !.todo = me.todo \ {m}, !.mid = m,
                        !.snap = snap, !.old = old]
    <3>1. m \in DOMAIN parents[AreaOf(x)] /\ AreaTypes(AreaOf(x)) /\ Target \in AnyProfile
      BY <1>0, <2>4, MigrationAssumption DEF Live, StoreInv, TypesOK, StoreTypes, AnyProfile
    <3>2. Settled(m) /\ SettledGen(old)
      BY <1>0, <3>1 DEF StoreInv, LiveIds, LiveGens
    <3>3. old \in Nat
      BY <1>0, <3>2 DEF SettledGen
    <3>4. snap \in Expiry /\ me.todo \ {m} \in SUBSET Mid /\ m \in Mid
      BY <1>0, <2>4, <3>1 DEF AreaTypes, RecordType
    <3>5. Becomes(x, n)
      BY <2>4
    <3> HIDE DEF snap, old
    <3>6. n \in MigrType /\ n.staged = me.staged /\ n.gen = me.gen /\ n.pc = "stage"
          /\ n.mid = m /\ n.old = old
      BY <1>0, <3>3, <3>4, PcsAreTyped DEF MigrType
    <3> HIDE DEF n
    <3>7. lock' \in Nat /\ migr' = [migr EXCEPT ![x] = n]
      BY <1>0, <3>5 DEF Becomes
    <3> QED
      BY <1>0, <2>1, <3>2, <3>6, <3>7, BecomesMoves
  <2> QED
    BY <1>2, <1>3, <2>1, <2>2, <2>3, <2>4
<1>13. CASE Stage(x)
  <2> DEFINE fresh == me.staged = 0
             g == IF fresh THEN gens + 1 ELSE me.gen
             i == me.staged + 1
             pc == IF i = Chunks THEN "publish" ELSE "stage"
             n == [me EXCEPT !.gen = g, !.staged = i, !.pc = pc]
  <2>1. UNCHANGED <<client, used, runs, manifest>>
    BY <1>13 DEF Stage
  <2>2. CASE Released(x) /\ UNCHANGED gens
    BY <1>2, <2>1, <2>2
  <2>3. CASE ~(Released(x) /\ UNCHANGED gens)
    <3>1. Becomes(x, n) /\ gens' = (IF fresh THEN gens + 1 ELSE gens) /\ me.pc = "stage"
      BY <1>13, <2>3 DEF Stage, MAt
    <3>2. g \in Nat /\ i \in Nat /\ i # 0 /\ pc \in MigrPc
      BY <1>0, PcsAreTyped
    <3>3. \/ me.staged # 0 /\ g = me.gen /\ gens' = gens
          \/ g = gens + 1 /\ gens' = gens + 1
      BY <3>1
    <3> HIDE DEF g, i, pc
    <3>4. n \in MigrType /\ n.staged = i /\ n.gen = g /\ n.mid = me.mid /\ n.old = me.old
      BY <1>0, <3>2 DEF MigrType
    <3> HIDE DEF n
    <3>5. lock' \in Nat /\ migr' = [migr EXCEPT ![x] = n] /\ gens' \in {gens, gens + 1}
      BY <1>0, <3>1 DEF Becomes
    <3> QED
      BY <1>0, <2>1, <3>1, <3>2, <3>3, <3>4, <3>5, BecomesMoves
  <2> QED
    BY <2>2, <2>3
<1>14. CASE Republish(x)
  <2> DEFINE done == [me EXCEPT !.pc = "record", !.staged = 0]
             drop == [me EXCEPT !.pc = "drop", !.staged = 0]
  <2>1. UNCHANGED <<client, used, gens, runs, manifest>> /\ me.pc = "publish"
    BY <1>14 DEF Republish, MAt
  <2>2. Same(x, done)
    BY <1>0, PcsAreTyped DEF MigrType, Same
  <2>3. drop \in MigrType /\ drop.staged = 0 /\ drop.old = me.old /\ drop.mid = me.mid
        /\ drop.pc = "drop" /\ [done EXCEPT !.pc = "drop"] = drop
    BY <1>0, PcsAreTyped DEF MigrType
  <2>4. Released(x) \/ Becomes(x, done) \/ Becomes(x, [done EXCEPT !.pc = "drop"])
    BY <1>14 DEF Republish
  <2> HIDE DEF done, drop
  <2>5. CASE Becomes(x, drop)
    <3>1. lock' \in Nat /\ migr' = [migr EXCEPT ![x] = drop] /\ gens' = gens
      BY <1>0, <2>1, <2>5 DEF Becomes
    <3>2. Acted(x)
      BY <1>0, <2>1, <2>3, <3>1, BecomesMoves
    <3> QED
      BY <1>0, <2>1, <3>2
  <2> QED
    BY <1>2, <1>3, <2>1, <2>2, <2>3, <2>4, <2>5
<1>15. CASE DropOld(x)
  <2>1. UNCHANGED <<client, used, gens, runs, manifest>>
    BY <1>15 DEF DropOld
  <2>2. Same(x, [me EXCEPT !.pc = "record"])
    BY <1>0, PcsAreTyped DEF MigrType, Same
  <2> QED
    BY <1>3, <1>15, <2>1, <2>2 DEF DropOld
<1>16. CASE NextArea(x)
  <2>1. UNCHANGED <<client, used, gens, runs, manifest>>
    BY <1>16 DEF NextArea, memory
  <2>2. me.ai < Len(Order) => Same(x, [me EXCEPT !.ai = me.ai + 1, !.pc = "persist", !.next = "claim"])
    BY <1>0, <1>00, PcsAreTyped DEF MigrType, Same
  <2>3. Same(x, [me EXCEPT !.ai = 1, !.pc = "persist", !.next = "verify"])
    BY <1>0, <1>00, PcsAreTyped DEF MigrType, Same
  <2> QED
    BY <1>2, <1>3, <1>16, <2>1, <2>2, <2>3 DEF NextArea
<1>17. CASE Verify(x)
  <2>1. UNCHANGED <<client, used, gens, runs, manifest>>
    BY <1>17 DEF Verify, memory
  <2>2. me.ai < Len(Order) => Same(x, [me EXCEPT !.ai = me.ai + 1])
    BY <1>0, <1>00, <1>17 DEF MigrType, Same, Verify, MAt
  <2>3. Same(x, [me EXCEPT !.pc = "verified"])
    BY <1>0, <1>00, PcsAreTyped DEF MigrType, Same
  <2> QED
    BY <1>2, <1>3, <1>17, <2>1, <2>2, <2>3 DEF Verify
<1>18. CASE EndVerify(x)
  <2> DEFINE data == [me.data EXCEPT !.phase = "verified"]
  <2>1. UNCHANGED <<client, used, gens, runs, manifest>>
    BY <1>18 DEF EndVerify, memory
  <2>2. data \in DataType
    BY <1>0 DEF DataType, Phases
  <2>3. \/ Released(x) \/ Becomes(x, [me EXCEPT !.ai = 1, !.pc = "cut"])
        \/ Becomes(x, [[me EXCEPT !.data = data] EXCEPT !.pc = "persist", !.next = "end"])
    BY <1>18 DEF EndVerify, Fenced, AfterVerify
  <2>4. Same(x, [me EXCEPT !.ai = 1, !.pc = "cut"])
    BY <1>0, <1>00, PcsAreTyped DEF MigrType, Same
  <2> HIDE DEF data
  <2>5. Same(x, [[me EXCEPT !.data = data] EXCEPT !.pc = "persist", !.next = "end"])
    BY <1>0, <2>2, PcsAreTyped DEF MigrType, Same
  <2> QED
    BY <1>2, <1>3, <2>1, <2>3, <2>4, <2>5
<1>19. CASE Cut(x) \/ NextClean(x)
  <2>1. UNCHANGED <<client, used, gens, runs, manifest>> /\ me.pc \in {"cut", "keys"}
    BY <1>19 DEF Cut, NextClean, memory, MAt
  <2>2. PICK phase \in {"cutover", "cleaned"}, pc \in {"cut", "clean"} :
          \/ Released(x)
          \/ me.ai < Len(Order) /\ Becomes(x, [me EXCEPT !.ai = me.ai + 1, !.pc = pc])
          \/ Becomes(x, [me EXCEPT !.data.phase = phase, !.pc = "persist", !.next = "end"])
    <3>1. CASE Cut(x)
      <4> [me EXCEPT !.ai = me.ai + 1] = [me EXCEPT !.ai = me.ai + 1, !.pc = "cut"]
        BY <1>0, <3>1 DEF Cut, MAt, MigrType
      <4> QED
        BY <3>1 DEF Cut
    <3>2. CASE NextClean(x)
      BY <3>2 DEF NextClean
    <3> QED
      BY <1>19, <3>1, <3>2
  <2> DEFINE data == [me.data EXCEPT !.phase = phase]
  <2>3. data \in DataType
    BY <1>0 DEF DataType, Phases
  <2>4. [me EXCEPT !.data.phase = phase, !.pc = "persist", !.next = "end"]
          = [me EXCEPT !.data = data, !.pc = "persist", !.next = "end"]
    BY <1>0 DEF MigrType
  <2> HIDE DEF data
  <2>5. Same(x, [me EXCEPT !.data = data, !.pc = "persist", !.next = "end"])
    BY <1>0, <2>3, PcsAreTyped DEF MigrType, Same
  <2>6. me.ai < Len(Order) => Same(x, [me EXCEPT !.ai = me.ai + 1, !.pc = pc])
    BY <1>0, <1>00, PcsAreTyped DEF MigrType, Same
  <2> QED
    BY <1>2, <1>3, <2>1, <2>2, <2>4, <2>5, <2>6
<1>20. CASE Clean(x)
  <2>1. UNCHANGED <<client, used, gens, runs, manifest>>
    BY <1>20 DEF Clean, memory
  <2>2. CASE Becomes(x, [me EXCEPT !.pc = "keys", !.todo = DOMAIN Recorded(x)])
    <3>1. DOMAIN Recorded(x) \in SUBSET Mid
      <4>1. me.data.records \in Partial(Area, Partial(Mid, Expiry)) /\ DOMAIN me.data.records = Area
        BY <1>0, <1>20 DEF DataType, Reads, Place, Full, Clean, MAt
      <4>2. me.data.records[AreaOf(x)] \in Partial(Mid, Expiry)
        BY <1>0, <4>1 DEF Partial
      <4> QED
        BY <4>2 DEF Recorded, Partial
    <3>2. Same(x, [me EXCEPT !.pc = "keys", !.todo = DOMAIN Recorded(x)])
      BY <1>0, <3>1, PcsAreTyped DEF MigrType, Same
    <3> QED
      BY <1>3, <2>1, <2>2, <3>2
  <2> QED
    BY <1>2, <1>20, <2>1, <2>2 DEF Clean
<1>21. CASE CleanKeys(x)
  <2>1. UNCHANGED <<client, used, gens, runs, manifest>>
    BY <1>21 DEF CleanKeys
  <2>2. PICK m \in me.todo :
          Released(x) \/ Becomes(x, [me EXCEPT !.todo = me.todo \ {m}, !.mid = m, !.pc = "fields"])
    BY <1>21 DEF CleanKeys
  <2>3. Same(x, [me EXCEPT !.todo = me.todo \ {m}, !.mid = m, !.pc = "fields"])
    <3> m \in Mid
      BY <1>0
    <3> QED
      BY <1>0, PcsAreTyped DEF MigrType, Same
  <2> QED
    BY <1>2, <1>3, <2>1, <2>2, <2>3
<1>22. CASE CleanFields(x)
  <2>1. UNCHANGED <<client, used, gens, runs, manifest>>
    BY <1>22 DEF CleanFields
  <2>2. Same(x, [me EXCEPT !.pc = "keys"])
    BY <1>0, PcsAreTyped DEF MigrType, Same
  <2>3. Released(x) \/ Becomes(x, [me EXCEPT !.pc = "keys"])
    BY <1>22 DEF CleanFields
  <2> QED
    BY <1>2, <1>3, <2>1, <2>2, <2>3
<1>23. CASE Fail(x)
  BY <1>2, <1>23 DEF Fail, memory
<1>24. CASE Crash(x)
  <2>1. UNCHANGED <<client, used, gens, runs, manifest, lock>> /\ migr' = [migr EXCEPT ![x] = Off]
    BY <1>24 DEF Crash, memory
  <2> QED
    BY <1>0, <1>1, <2>1, ReleasedMoves
<1> QED
  BY <1>4, <1>5, <1>6, <1>7, <1>8, <1>9, <1>10, <1>11, <1>12, <1>13, <1>14, <1>15, <1>16, <1>17,
     <1>18, <1>19, <1>20, <1>21, <1>22, <1>23, <1>24 DEF MigratorStep

\* Only what an area says of its profile changes.
LEMMA StateStore ==
  ASSUME StoreInv, NEW a \in Area, NEW st \in StateType, state' = [state EXCEPT ![a] = st],
         UNCHANGED <<now, parents, chunks, used, gens, calls>>, SettledStays,
         StateStep(a), st.status # "none"
  PROVE  StoreStep /\ StoreTypes' /\ LiveIds' /\ LiveGens'
<1>1. /\ AreaTypes(a) /\ DOMAIN parents' = Area /\ DOMAIN chunks' = Area /\ used \subseteq Mid
      /\ state \in [Area -> StateType] /\ calls \in Nat /\ gens \in Nat
  BY DEF StoreInv, TypesOK, StoreTypes
<1>2. state'[a] = st /\ state' \in [Area -> StateType]
  BY <1>1
<1>3. AreaStep(a)
  BY DEF AreaStep, Survives, Whole, Generation, Present
<1>4. AreaTypes(a)'
  BY <1>1, <1>2 DEF AreaTypes, Present
<1>5. \A b \in Area \ {a} : AreaStays(b)
  BY <1>1 DEF AreaStays
<1>6. StoreStep /\ StoreTypes'
  BY <1>1, <1>2, <1>3, <1>4, <1>5, OneAreaStore
<1>7. LiveIds' /\ LiveGens'
  BY DEF LiveIds, LiveGens, SettledStays, StoreInv, Generation
<1> QED
  BY <1>6, <1>7

\* Chunks go that no record needs: none of what the guarded profiles point at.
LEMMA WithoutStore ==
  ASSUME StoreInv, NEW a \in Area, NEW keys, chunks' = Without(a, keys),
         UNCHANGED <<now, state, parents, used, gens, calls>>, SettledStays,
         \A m \in DOMAIN parents[a] : \A p \in AnyProfile :
            Guarded(a, p) => \A k \in Keys(p, m, Generation(a, p, m)) : k \notin keys
  PROVE  StoreStep /\ StoreTypes' /\ LiveIds' /\ LiveGens'
<1>1. /\ AreaTypes(a) /\ DOMAIN parents' = Area /\ DOMAIN chunks = Area /\ used \subseteq Mid
      /\ state \in [Area -> StateType] /\ calls \in Nat /\ gens \in Nat
  BY DEF StoreInv, TypesOK, StoreTypes
<1>2. /\ chunks'[a] = [k \in DOMAIN chunks[a] \ keys |-> chunks[a][k]] /\ DOMAIN chunks' = Area
      /\ \A b \in Area \ {a} : chunks'[b] = chunks[b]
  BY <1>1 DEF Without
<1>3. ASSUME NEW m \in DOMAIN parents[a], NEW p \in AnyProfile, Guarded(a, p), Whole(a, p, m)
      PROVE  Whole(a, p, m)'
  BY <1>2, <1>3 DEF Whole, Present, Generation
<1>4. AreaStep(a)
  BY <1>2, <1>3 DEF AreaStep, StateStep, Survives
<1>5. AreaTypes(a)'
  <2>1. IsFiniteSet(Present(a))'
    BY <1>1, <1>2, FS_Subset DEF AreaTypes, Present
  <2> QED
    BY <1>1, <1>2, <2>1 DEF AreaTypes, Present
<1>6. \A b \in Area \ {a} : AreaStays(b)
  BY <1>2 DEF AreaStays
<1>7. StoreStep /\ StoreTypes'
  BY <1>1, <1>2, <1>4, <1>5, <1>6, OneAreaStore
<1>8. LiveIds' /\ LiveGens'
  BY DEF LiveIds, LiveGens, SettledStays, StoreInv, Generation
<1> QED
  BY <1>7, <1>8

LEMMA ClaimStore ==
  ASSUME StoreInv, NEW x \in Migrator, Claim(x), DataInv(migr[x].data), Reads(migr[x]), SettledStays
  PROVE  StoreStep /\ StoreTypes' /\ LiveIds' /\ LiveGens'
<1>1. /\ AreaOf(x) \in Area /\ used \subseteq Mid /\ gens \in Nat /\ calls \in Nat
      /\ state \in [Area -> StateType] /\ migr[x].owner \in Nat
      /\ DOMAIN migr[x].data.old = Area /\ MAt(x, "claim")
      /\ UNCHANGED <<now, parents, chunks, used, gens, calls>>
  BY OrderHasAreas DEF StoreInv, TypesOK, StoreTypes, MigrTypes, MigrType, AreaOf, Claim, MAt,
                       Reads, Full
<1>2. CASE UNCHANGED state
  BY <1>1, <1>2, UnchangedStore
<1>3. CASE ~UNCHANGED state
  <2>1. PICK a \in Area, owner \in Nat :
          /\ state' = [state EXCEPT ![a].status = "building", ![a].owner = owner,
                                    ![a].target = Target]
          /\ SameRun(state[a]) \/ OldInv(state[a])
    BY <1>1, <1>3 DEF Claim, DataInv
  <2> DEFINE st == [state[a] EXCEPT !.status = "building", !.owner = owner, !.target = Target]
  <2>2. state[a] \in StateType /\ state' = [state EXCEPT ![a] = st]
    BY <1>1, <2>1
  <2>3. st \in StateType /\ st.status = "building" /\ st.target = Target
        /\ st.profile = state[a].profile
    BY <2>1, <2>2 DEF StateType
  <2>4. ~Serves(a, Target)
    BY <2>1 DEF SameRun, OldInv, Serves
  <2> HIDE DEF st
  <2>5. StateStep(a)
    BY <1>1, <2>2, <2>3, <2>4 DEF StateStep, SameRun
  <2> QED
    BY <1>1, <2>2, <2>3, <2>5, StateStore
<1> QED
  BY <1>2, <1>3

LEMMA CutStore ==
  ASSUME StoreInv, NEW x \in Migrator, Cut(x), Verifies(migr[x]), SettledStays
  PROVE  StoreStep /\ StoreTypes' /\ LiveIds' /\ LiveGens'
<1>1. /\ AreaOf(x) \in Area /\ used \subseteq Mid /\ gens \in Nat /\ calls \in Nat
      /\ state \in [Area -> StateType] /\ MAt(x, "cut")
      /\ UNCHANGED <<now, parents, chunks, used, gens, calls>>
  BY OrderHasAreas DEF StoreInv, TypesOK, StoreTypes, MigrTypes, MigrType, AreaOf, Cut, MAt
<1>2. CASE UNCHANGED state
  BY <1>1, <1>2, UnchangedStore
<1>3. CASE ~UNCHANGED state
  <2>1. PICK a \in Area : state' = [state EXCEPT ![a] = Active(Target)] /\ Ready(a)
    BY <1>1, <1>3 DEF Cut, Verifies, Place, MAt
  <2>2. Active(Target) \in StateType /\ Active(Target).status # "none"
    BY MigrationAssumption DEF Active, Blank, StateType, AnyProfile
  <2>3. StateStep(a)
    BY <1>1, <2>1 DEF StateStep
  <2> QED
    BY <1>1, <2>1, <2>2, <2>3, StateStore
<1> QED
  BY <1>2, <1>3

LEMMA StageStore ==
  ASSUME StoreInv, NEW x \in Migrator, Stage(x), SettledStays
  PROVE  StoreStep /\ StoreTypes' /\ LiveIds' /\ LiveGens'
<1> DEFINE me == migr[x]
           fresh == me.staged = 0
           g == IF fresh THEN gens + 1 ELSE me.gen
           key == Key(Target, me.mid, g, me.staged + 1)
           e == Sooner(me.snap, now + Staging)
<1>1. /\ AreaOf(x) \in Area /\ used \subseteq Mid /\ gens \in Nat /\ calls \in Nat /\ now \in Nat
      /\ me \in MigrType /\ me.pc = "stage" /\ Settled(me.mid)
      /\ UNCHANGED <<now, state, parents, used, calls>> /\ gens' \in Nat
  BY OrderHasAreas DEF StoreInv, TypesOK, StoreTypes, MigrTypes, MigrType, AreaOf, Stage, MAt,
                       IdsInv
<1>2. CASE UNCHANGED <<gens, chunks>>
  BY <1>1, <1>2, UnchangedStore
<1>3. CASE ~UNCHANGED <<gens, chunks>>
  <2>1. chunks' = [chunks EXCEPT ![AreaOf(x)] = Put(@, [k \in {key} |-> e])]
    BY <1>3 DEF Stage
  <2>2. /\ me.staged \in Nat /\ me.gen \in Nat /\ me.snap \in Expiry /\ me.mid \in Mid
    BY <1>1 DEF MigrType, Settled
  <2>3. e \in Expiry
    BY <1>1, <2>2, SoonerExpiry, MemoryAssumption
  <2>4. key \in ChunkKey /\ key.profile = Target /\ key.gen = g
    <3>1. g \in Nat /\ me.staged + 1 \in Nat /\ me.mid \in Mid /\ Target \in Profile
      BY <1>1, <2>2, MigrationAssumption
    <3> HIDE DEF g
    <3> QED
      BY <3>1 DEF Key, ChunkKey
  <2>5. ~SettledGen(g)
    BY <1>1, <2>2 DEF SettledGen
  <2> HIDE DEF key, e
  <2>6. PICK a \in Area, k \in ChunkKey, t \in Expiry :
          /\ chunks' = [chunks EXCEPT ![a] = Put(@, [y \in {k} |-> t])]
          /\ k.profile = Target /\ ~SettledGen(k.gen)
    BY <1>1, <2>1, <2>3, <2>4, <2>5
  <2> QED
    BY <1>1, <2>6, StagedStore
<1> QED
  BY <1>2, <1>3

LEMMA DropOldStore ==
  ASSUME StoreInv, NEW x \in Migrator, DropOld(x), Embeds(migr[x]), SettledStays
  PROVE  StoreStep /\ StoreTypes' /\ LiveIds' /\ LiveGens'
<1>1. /\ AreaOf(x) \in Area /\ migr[x].pc = "drop"
      /\ UNCHANGED <<now, state, parents, used, gens, calls>>
      /\ chunks' = Without(AreaOf(x), Keys(Target, migr[x].mid, migr[x].old))
  BY OrderHasAreas DEF StoreInv, TypesOK, MigrTypes, MigrType, AreaOf, DropOld, MAt
<1>2. PICK a \in {AreaOf(x)}, keys \in {Keys(Target, migr[x].mid, migr[x].old)} : TRUE
  BY <1>1
<1>3. ASSUME NEW m \in DOMAIN parents[a], NEW p \in AnyProfile,
             NEW k \in Keys(p, m, Generation(a, p, m))
      PROVE  k \notin keys
  <2>1. k.profile = p /\ k.mid = m /\ k.gen = Generation(a, p, m)
    BY KeySays
  <2>2. k \in keys => k.profile = Target /\ k.mid = migr[x].mid /\ k.gen = migr[x].old
    BY <1>2, KeySays
  <2> QED
    BY <1>1, <1>2, <2>1, <2>2 DEF Embeds, Place, Live, AreaOf
<1> QED
  BY <1>1, <1>2, <1>3, WithoutStore

LEMMA CleanKeysStore ==
  ASSUME StoreInv, NEW x \in Migrator, CleanKeys(x), DataInv(migr[x].data), Reads(migr[x]),
         SettledStays
  PROVE  StoreStep /\ StoreTypes' /\ LiveIds' /\ LiveGens'
<1>1. /\ AreaOf(x) \in Area /\ used \subseteq Mid /\ gens \in Nat /\ calls \in Nat
      /\ UNCHANGED <<now, state, parents, used, gens, calls>> /\ MAt(x, "keys")
      /\ DOMAIN migr[x].data.old = Area
  BY OrderHasAreas DEF StoreInv, TypesOK, StoreTypes, MigrTypes, MigrType, AreaOf, CleanKeys, MAt,
                       Reads, Full
<1>2. CASE UNCHANGED chunks
  BY <1>1, <1>2, UnchangedStore
<1>3. CASE ~UNCHANGED chunks
  <2>1. PICK id \in migr[x].todo :
           chunks' = Without(AreaOf(x), OldKeys(x, id)) /\ Serves(AreaOf(x), Target)
    BY <1>3 DEF CleanKeys
  <2>2. OldOf(x) # Target
    BY <1>1 DEF DataInv, OldInv, OldOf
  <2>3. PICK a \in {AreaOf(x)}, keys \in {OldKeys(x, id)} : TRUE
    BY <1>1
  <2>4. ASSUME NEW m \in DOMAIN parents[a], NEW p \in AnyProfile, Guarded(a, p),
               NEW k \in Keys(p, m, Generation(a, p, m))
        PROVE  k \notin keys
    <3>1. k.profile = p /\ p = Target
      BY <2>1, <2>3, <2>4, KeySays DEF Guarded, Serves, SameRun
    <3> QED
      BY <2>2, <2>3, <3>1 DEF OldKeys
  <2> QED
    BY <1>1, <2>1, <2>3, <2>4, WithoutStore
<1> QED
  BY <1>2, <1>3

LEMMA LiveMids ==
  ASSUME StoreInv
  PROVE  \A a \in Area : DOMAIN parents[a] \subseteq Mid
BY DEF StoreInv, TypesOK, StoreTypes, AreaTypes

\* A staged generation replaces the one the record had for the target.
LEMMA RepublishStore ==
  ASSUME StoreInv, NEW x \in Migrator, Republish(x), SettledStays, MigrTypes(x)'
  PROVE  StoreStep /\ StoreTypes' /\ LiveIds' /\ LiveGens'
<1> DEFINE me == migr[x]
<1>1. /\ me \in MigrType /\ me.pc = "publish" /\ AreaOf(x) \in Area
      /\ gens \in Nat /\ now \in Nat /\ used \subseteq Mid
      /\ me.staged # 0 /\ me.gen \in 1..gens
      /\ UNCHANGED <<now, state, used, gens, calls, client>>
      /\ migr \in [Migrator -> MigrType]
      /\ state \in [Area -> StateType] /\ DOMAIN parents = Area /\ DOMAIN chunks = Area
      /\ calls \in Nat
  BY OrderHasAreas DEF StoreInv, TypesOK, MigrTypes, Republish, MAt, StoreTypes, GensInv,
                       MigrType, AreaOf
<1>2. CASE UNCHANGED <<parents, chunks>>
  BY <1>1, <1>2, UnchangedStore
<1>3. CASE ~UNCHANGED <<parents, chunks>>
  <2>0. /\ PublishedIn(AreaOf(x), Target, me.mid, me.gen, parents[AreaOf(x)][me.mid])
        /\ ~Gone(x) /\ StagedWhole(AreaOf(x), Target, me.mid, me.gen)
        /\ \E n : migr' = [migr EXCEPT ![x] = n] /\ n.staged = 0
    <3> DEFINE done == [me EXCEPT !.pc = "record", !.staged = 0]
               drop == [done EXCEPT !.pc = "drop"]
    <3>1. done.staged = 0 /\ drop.staged = 0
      BY <1>1 DEF MigrType
    <3>2. /\ PublishedIn(AreaOf(x), Target, me.mid, me.gen, parents[AreaOf(x)][me.mid])
          /\ ~Gone(x) /\ StagedWhole(AreaOf(x), Target, me.mid, me.gen)
          /\ Becomes(x, IF me.old = 0 THEN done ELSE drop)
      BY <1>3 DEF Republish
    <3> QED
      BY <3>1, <3>2 DEF Becomes
  <2>1. PICK a \in Area, m \in Mid, g \in 1..gens, r \in RecordType :
           /\ m \in DOMAIN parents[a] /\ a = AreaOf(x) /\ m = me.mid /\ g = me.gen /\ r = parents[a][m]
    <3>1. me.mid \in DOMAIN parents[AreaOf(x)] /\ AreaTypes(AreaOf(x))
      BY <1>1, <2>0 DEF Gone, Live, StoreInv, TypesOK, StoreTypes
    <3>2. parents[AreaOf(x)][me.mid] \in RecordType
      BY <3>1 DEF AreaTypes
    <3> QED
      BY <1>1, <3>1, <3>2, LiveMids
  <2>2. /\ PublishedIn(a, Target, m, g, r) /\ Keys(Target, m, g) \subseteq DOMAIN chunks[a]
        /\ Target \in Profile /\ Target \in AnyProfile
    BY <2>0, <2>1, MigrationAssumption DEF StagedWhole, Present, AnyProfile
  <2> DEFINE s == [r EXCEPT !.gen[Target] = g]
  <2>3. /\ s \in RecordType /\ r.expiry \in Expiry /\ s.expiry = r.expiry
        /\ s.gen[Target] = g /\ \A q \in AnyProfile \ {Target} : s.gen[q] = r.gen[q]
    BY <1>1, <2>2 DEF RecordType, AnyProfile
  <2>4. /\ OtherAreas(a)
        /\ DOMAIN parents'[a] = DOMAIN parents[a]
        /\ parents'[a][m] = s
        /\ \A n \in DOMAIN parents[a] \ {m} : parents'[a][n] = parents[a][n]
        /\ parents'[a] = [n \in DOMAIN parents'[a] |-> parents'[a][n]]
        /\ DOMAIN chunks'[a] = DOMAIN chunks[a]
        /\ \A k \in Keys(Target, m, g) : chunks'[a][k] = r.expiry
        /\ \A k \in DOMAIN chunks[a] \ Keys(Target, m, g) : chunks'[a][k] = chunks[a][k]
        /\ chunks'[a] = [k \in DOMAIN chunks'[a] |-> chunks'[a][k]]
    <3>1. /\ OtherAreas(a)
          /\ DOMAIN parents'[a] = {m} \cup DOMAIN parents[a]
          /\ parents'[a][m] = s
          /\ \A n \in DOMAIN parents[a] \ {m} : parents'[a][n] = parents[a][n]
          /\ parents'[a] = [n \in DOMAIN parents'[a] |-> parents'[a][n]]
          /\ DOMAIN chunks'[a] = Keys(Target, m, g) \cup DOMAIN chunks[a]
          /\ \A k \in Keys(Target, m, g) : chunks'[a][k] = r.expiry
          /\ \A k \in DOMAIN chunks[a] \ Keys(Target, m, g) : chunks'[a][k] = chunks[a][k]
          /\ chunks'[a] = [k \in DOMAIN chunks'[a] |-> chunks'[a][k]]
      BY <1>1, <2>2, PublishedEffect
    <3> QED
      BY <2>1, <2>2, <3>1
  <2> HIDE DEF s
  <2>5. AreaTypes(a)
    BY DEF StoreInv, TypesOK, StoreTypes
  <2>6. ~SettledGen(g) /\ SettledGen(g)' /\ g # 0
    <3>1. ~SettledGen(g)
      BY <1>1, <2>1 DEF SettledGen
    <3>2. ASSUME NEW d \in Client, client'[d].staged # 0 PROVE client'[d].gen # g
      BY <1>1, <2>1, <3>2 DEF StoreInv, GensInv
    <3>3. ASSUME NEW y \in Migrator, migr'[y].staged # 0 PROVE migr'[y].gen # g
      <4>1. y # x /\ migr'[y] = migr[y]
        BY <1>1, <2>0, <3>3
      <4> QED
        BY <1>1, <2>1, <3>3, <4>1 DEF StoreInv, GensInv
    <3> QED
      BY <1>1, <3>1, <3>2, <3>3 DEF SettledGen
  <2>7. Whole(a, Target, m)'
    BY <2>2, <2>3, <2>4, <2>6 DEF Whole, Generation, Present
  <2>8. AreaStep(a)
    <3>1. ASSUME NEW n \in DOMAIN parents[a] \ {m} PROVE Survives(a, n)
      <4>1. parents'[a][n] = parents[a][n]
        BY <2>4, <3>1
      <4>2. \A q, h : \A k \in Keys(q, n, h) : k \notin Keys(Target, m, g)
        BY <3>1, KeySays
      <4>3. \A q \in AnyProfile : Whole(a, q, n) => Whole(a, q, n)'
        BY <2>4, <4>1, <4>2 DEF Whole, Generation, Present
      <4> QED
        BY <4>1, <4>3 DEF Survives
    <3>2. Survives(a, m)
      <4>1. ASSUME NEW q \in AnyProfile \ {Target}, Whole(a, q, m) PROVE Whole(a, q, m)'
        <5>1. \A h : \A k \in Keys(q, m, h) : k \notin Keys(Target, m, g)
          BY KeySays
        <5>2. Generation(a, q, m)' = Generation(a, q, m) /\ parents'[a][m].expiry = parents[a][m].expiry
          BY <2>1, <2>3, <2>4 DEF Generation
        <5> QED
          BY <2>4, <4>1, <5>1, <5>2 DEF Whole, Present
      <4>2. \A q \in AnyProfile : Whole(a, q, m) => Whole(a, q, m)'
        BY <2>7, <4>1
      <4>3. \A q \in AnyProfile : \/ parents'[a][m].gen[q] = parents[a][m].gen[q]
                                  \/ q = Target /\ ~SettledGen(parents'[a][m].gen[q])
        BY <2>1, <2>3, <2>4, <2>6
      <4> QED
        BY <2>1, <2>3, <2>4, <4>2, <4>3 DEF Survives
    <3> QED
      BY <1>1, <2>4, <3>1, <3>2 DEF AreaStep, StateStep
  <2>9. AreaTypes(a)'
    <3>1. \A k \in DOMAIN chunks'[a] : chunks'[a][k] \in Expiry
      BY <2>3, <2>4, <2>5 DEF AreaTypes, Present
    <3>2. \A n \in DOMAIN parents'[a] : parents'[a][n] \in RecordType
      BY <2>3, <2>4, <2>5 DEF AreaTypes
    <3> QED
      BY <1>1, <2>1, <2>4, <2>5, <3>1, <3>2 DEF AreaTypes, Present
  <2>10. /\ DOMAIN parents' = Area /\ DOMAIN chunks' = Area
         /\ \A b \in Area \ {a} : AreaStays(b)
    BY <1>1, <2>4 DEF OtherAreas, AreaStays
  <2>11. StoreStep /\ StoreTypes'
    BY <1>1, <2>8, <2>9, <2>10, OneAreaStore
  <2>12. LiveIds'
    <3> SUFFICES ASSUME NEW b \in Area, NEW n \in DOMAIN parents'[b] PROVE Settled(n)'
      BY DEF LiveIds
    <3> QED
      BY <2>4, <2>10 DEF StoreInv, LiveIds, SettledStays, AreaStays
  <2>13. LiveGens'
    <3> SUFFICES ASSUME NEW b \in Area, NEW n \in DOMAIN parents'[b], NEW q \in AnyProfile,
                        NEW v, v = parents'[b][n].gen[q]
                 PROVE  SettledGen(v)'
      BY DEF LiveGens, Generation
    <3>1. CASE b = a /\ n = m /\ q = Target
      <4> v = g
        BY <2>3, <2>4, <3>1
      <4> QED
        BY <2>6
    <3>2. CASE ~(b = a /\ n = m /\ q = Target)
      <4> n \in DOMAIN parents[b] /\ v = parents[b][n].gen[q]
        BY <2>1, <2>3, <2>4, <2>10, <3>2 DEF AreaStays
      <4> QED
        BY DEF StoreInv, LiveGens, SettledStays, Generation
    <3> QED
      BY <3>1, <3>2
  <2> QED
    BY <2>11, <2>12, <2>13
<1> QED
  BY <1>2, <1>3

\* The field of the profile that is no longer served is cleared.
LEMMA CleanFieldsStore ==
  ASSUME StoreInv, NEW x \in Migrator, CleanFields(x), DataInv(migr[x].data), Reads(migr[x]),
         SettledStays
  PROVE  StoreStep /\ StoreTypes' /\ LiveIds' /\ LiveGens'
<1>1. /\ AreaOf(x) \in Area /\ used \subseteq Mid /\ gens \in Nat /\ calls \in Nat /\ now \in Nat
      /\ UNCHANGED <<now, state, chunks, used, gens, calls, client>> /\ migr[x].pc = "fields"
      /\ DOMAIN migr[x].data.old = Area /\ migr[x].data.old \in Partial(Area, StateType)
      /\ state \in [Area -> StateType] /\ DOMAIN parents = Area /\ DOMAIN chunks = Area
      /\ migr[x] \in MigrType
  BY OrderHasAreas DEF StoreInv, TypesOK, StoreTypes, MigrTypes, MigrType, AreaOf, CleanFields,
                       MAt, Reads, Full, DataType
<1>2. CASE UNCHANGED parents
  BY <1>1, <1>2, UnchangedStore
<1>3. CASE ~UNCHANGED parents
  <2>0. OldOf(x) \in AnyProfile \ {Target}
    <3>1. migr[x].data.old[AreaOf(x)] \in StateType
      BY <1>1 DEF Partial
    <3> QED
      BY <1>1, <3>1 DEF DataInv, OldInv, OldOf, StateType
  <2>1. PICK a \in Area, m \in Mid, q \in AnyProfile \ {Target} :
          /\ m \in DOMAIN parents[a]
          /\ parents' = [parents EXCEPT ![a][m].gen[q] = 0] /\ Serves(a, Target)
    BY <1>1, <1>3, <2>0, LiveMids DEF CleanFields, Live
  <2>2. /\ DOMAIN parents' = Area /\ DOMAIN parents'[a] = DOMAIN parents[a]
        /\ parents'[a][m] = [parents[a][m] EXCEPT !.gen[q] = 0]
        /\ \A n \in DOMAIN parents[a] \ {m} : parents'[a][n] = parents[a][n]
        /\ parents'[a] = [n \in DOMAIN parents'[a] |-> parents'[a][n]]
        /\ \A b \in Area \ {a} : parents'[b] = parents[b]
    <3>1. parents'[a] = [parents[a] EXCEPT ![m].gen[q] = 0]
      BY <1>1, <2>1
    <3>2. AreaTypes(a)
      BY DEF StoreInv, TypesOK, StoreTypes
    <3> QED
      BY <1>1, <2>1, <3>1, <3>2 DEF AreaTypes
  <2>3. AreaTypes(a) /\ parents[a][m] \in RecordType
    <3>1. AreaTypes(a)
      BY DEF StoreInv, TypesOK, StoreTypes
    <3> QED
      BY <2>1, <3>1 DEF AreaTypes
  <2>4. /\ parents'[a][m] \in RecordType /\ parents'[a][m].expiry = parents[a][m].expiry
        /\ parents'[a][m].gen[q] = 0
        /\ \A p \in AnyProfile \ {q} : parents'[a][m].gen[p] = parents[a][m].gen[p]
    BY <2>1, <2>2, <2>3 DEF RecordType, AnyProfile
  <2>5. AreaStep(a)
    <3>1. ASSUME NEW n \in DOMAIN parents[a] PROVE Survives(a, n)
      <4>1. CASE n # m
        BY <1>1, <2>2, <4>1 DEF Survives, Whole, Generation, Present
      <4>2. CASE n = m
        <5>1. ASSUME NEW p \in AnyProfile, Guarded(a, p), Whole(a, p, m) PROVE Whole(a, p, m)'
          <6>1. p # q
            BY <2>1, <5>1 DEF Guarded, Serves, SameRun
          <6>2. Generation(a, p, m)' = Generation(a, p, m)
            BY <2>4, <6>1 DEF Generation
          <6> QED
            BY <1>1, <2>4, <5>1, <6>2 DEF Whole, Present
        <5>2. ASSUME NEW p \in AnyProfile
              PROVE \/ parents'[a][m].gen[p] = parents[a][m].gen[p]
                    \/ p # Target /\ parents'[a][m].gen[p] = 0 /\ Serves(a, Target)
          BY <2>1, <2>4
        <5> QED
          BY <2>4, <4>2, <5>1, <5>2 DEF Survives
      <4> QED
        BY <4>1, <4>2
    <3> QED
      BY <1>1, <2>2, <3>1 DEF AreaStep, StateStep
  <2>6. AreaTypes(a)'
    <3>1. \A n \in DOMAIN parents'[a] : parents'[a][n] \in RecordType
      BY <2>2, <2>3, <2>4 DEF AreaTypes
    <3> QED
      BY <1>1, <2>2, <2>3, <3>1 DEF AreaTypes, Present
  <2>7. \A b \in Area \ {a} : AreaStays(b)
    BY <1>1, <2>2 DEF AreaStays
  <2>8. StoreStep /\ StoreTypes'
    BY <1>1, <2>2, <2>5, <2>6, <2>7, OneAreaStore
  <2>9. SettledGen(0)'
    BY <1>1 DEF SettledGen, StoreInv, GensInv, SettledStays
  <2>10. LiveIds' /\ LiveGens'
    <3>1. LiveIds'
      BY <2>2, <2>7 DEF StoreInv, LiveIds, SettledStays, AreaStays
    <3>2. SUFFICES ASSUME NEW b \in Area, NEW n \in DOMAIN parents'[b], NEW p \in AnyProfile,
                          NEW v, v = parents'[b][n].gen[p]
                   PROVE  SettledGen(v)'
      BY <3>1 DEF LiveGens, Generation
    <3>3. CASE b = a /\ n = m /\ p = q
      BY <2>4, <2>9, <3>2, <3>3
    <3>4. CASE ~(b = a /\ n = m /\ p = q)
      <4> n \in DOMAIN parents[b] /\ v = parents[b][n].gen[p]
        BY <2>2, <2>4, <3>2, <3>4
      <4> QED
        BY DEF StoreInv, LiveGens, SettledStays, Generation
    <3> QED
      BY <3>3, <3>4
  <2> QED
    BY <2>8, <2>10
<1> QED
  BY <1>2, <1>3

LEMMA MigratorStepStore ==
  ASSUME StoreInv, NEW x \in Migrator, MigratorStep(x), MigrInv(x), SettledStays,
         MigrTypes(x)'
  PROVE  StoreStep /\ StoreTypes' /\ LiveIds' /\ LiveGens'
<1>0. /\ used \subseteq Mid /\ gens \in Nat /\ calls \in Nat
      /\ DataInv(migr[x].data) /\ Reads(migr[x]) /\ Embeds(migr[x]) /\ Verifies(migr[x])
  BY DEF StoreInv, TypesOK, StoreTypes, MigrInv, MigrOf
<1>1. CASE UNCHANGED memory
  BY <1>0, <1>1, UnchangedStore DEF memory
<1>2. CASE Claim(x)
  BY <1>0, <1>2, ClaimStore
<1>3. CASE Stage(x)
  BY <1>3, StageStore
<1>4. CASE Republish(x)
  BY <1>4, RepublishStore
<1>5. CASE DropOld(x)
  BY <1>0, <1>5, DropOldStore
<1>6. CASE Cut(x)
  BY <1>0, <1>6, CutStore
<1>7. CASE CleanKeys(x)
  BY <1>0, <1>7, CleanKeysStore
<1>8. CASE CleanFields(x)
  BY <1>0, <1>8, CleanFieldsStore
<1> QED
  BY <1>1, <1>2, <1>3, <1>4, <1>5, <1>6, <1>7, <1>8
     DEF MigratorStep, Begin, TakeLock, Load, Source, Records, Persist, Mark, Record, NextArea,
         Verify, EndVerify, Clean, NextClean, Fail, Crash

(***************************************************************************)
(* What stays true of an area, whoever steps.                              *)
(***************************************************************************)
AnyStep == StoreInv /\ StoreStep /\ SettledStays

LEMMA AreasAreTyped ==
  ASSUME StoreInv, NEW a \in Area
  PROVE  AreaTypes(a) /\ state[a] \in StateType /\ state[a].profile \in AnyProfile
BY DEF StoreInv, TypesOK, StoreTypes, StateType

LEMMA ServedStays ==
  ASSUME AnyStep
  PROVE  EveryRecordIsServed'
<1> SUFFICES ASSUME NEW a \in Area, NEW m \in DOMAIN parents'[a]
             PROVE  Whole(a, state[a].profile, m)'
  BY DEF EveryRecordIsServed
<1>1. AreaStep(a) /\ StateStep(a) /\ state[a].profile \in AnyProfile
  BY AreasAreTyped DEF AnyStep, StoreStep, AreaStep
<1>2. CASE m \notin DOMAIN parents[a]
  BY <1>1, <1>2 DEF AreaStep, Appears, Serves
<1>3. CASE m \in DOMAIN parents[a]
  <2>1. Whole(a, state[a].profile, m) /\ Survives(a, m)
    BY <1>1, <1>3 DEF AnyStep, StoreInv, EveryRecordIsServed, AreaStep
  <2>2. PICK p \in AnyProfile : p = state[a].profile
    BY <1>1
  <2>3. Whole(a, p, m)'
    BY <2>1, <2>2 DEF Survives, Guarded
  <2>4. CASE state'[a].profile = p
    BY <2>3, <2>4
  <2>5. CASE state'[a].profile # p
    <3>1. /\ parents'[a] = parents[a] /\ chunks'[a] = chunks[a]
          /\ state'[a] = Active(Target) /\ Ready(a)
      BY <1>1, <1>3, <2>2, <2>5 DEF StateStep
    <3>2. state'[a].profile = Target
      BY <3>1 DEF Active, Blank
    <3>3. Whole(a, Target, m)
      BY <1>3, <3>1 DEF Ready
    <3>4. Whole(a, Target, m)'
      BY <3>1, <3>3 DEF Whole, Generation, Present
    <3> QED
      BY <3>2, <3>4
  <2> QED
    BY <2>4, <2>5
<1> QED
  BY <1>2, <1>3

LEMMA ServesStays ==
  ASSUME AnyStep, NEW a \in Area
  PROVE  /\ Serves(a, Target) => Serves(a, Target)'
         /\ Targeted(a) => Targeted(a)'
         /\ Targeted(a) /\ SameRun(state'[a]) => SameRun(state[a])
         /\ state[a].status # "none" => state'[a].status # "none"
<1>1. StateStep(a)
  BY DEF AnyStep, StoreStep, AreaStep
<1>2. Active(Target).status = "active" /\ Active(Target).profile = Target
  BY DEF Active, Blank
<1> QED
  BY <1>1, <1>2 DEF StateStep, Serves, Targeted, SameRun

\* In an area that waits or has been cut over, a new record is embedded for the target.
LEMMA ReadyStays ==
  ASSUME AnyStep, NEW a \in Area, Ready(a)
  PROVE  Ready(a)'
<1>1. Targeted(a)' /\ Targeted(a) /\ AreaStep(a)
  BY ServesStays DEF Ready, AnyStep, StoreStep
<1>2. ASSUME NEW m \in DOMAIN parents'[a] PROVE Whole(a, Target, m)'
  <2>1. CASE m \in DOMAIN parents[a]
    <3>1. Whole(a, Target, m) /\ Survives(a, m)
      BY <1>1, <1>2, <2>1 DEF Ready, AreaStep
    <3>2. Target \in AnyProfile /\ Guarded(a, Target)
      BY <1>1, MigrationAssumption DEF Guarded, Targeted, Serves, AnyProfile
    <3> QED
      BY <3>1, <3>2 DEF Survives
  <2>2. CASE m \notin DOMAIN parents[a]
    <3>1. PICK p \in Profile : Serves(a, p) /\ Whole(a, p, m)'
      BY <1>1, <1>2, <2>2 DEF AreaStep, Appears
    <3>2. p = Target
      BY <1>1, <3>1 DEF Targeted, Serves, SameRun
    <3> QED
      BY <3>1, <3>2
  <2> QED
    BY <2>1, <2>2
<1> QED
  BY <1>1, <1>2 DEF Ready

\* What was recorded of an area is settled, so no record of it appears again.
LEMMA SettledRecord ==
  ASSUME AnyStep, NEW a \in Area, NEW m, Settled(m), m \in DOMAIN parents'[a]
  PROVE  m \in DOMAIN parents[a] /\ Survives(a, m)
BY DEF AnyStep, StoreStep, AreaStep, Appears

LEMMA CompleteStays ==
  ASSUME AnyStep, NEW a \in Area, NEW m, Settled(m), NEW expiry \in Expiry,
         SameRun(state[a]), Complete(a, m, expiry)
  PROVE  Complete(a, m, expiry)'
<1>1. /\ now \in Nat /\ now' \in Nat /\ now <= now' /\ AreaStep(a)
      /\ state[a].status = "building"
  BY DEF AnyStep, StoreStep, SameRun
<1>2. CASE m \in DOMAIN parents'[a]
  <2>1. m \in DOMAIN parents[a] /\ Survives(a, m)
    BY <1>2, SettledRecord
  <2>2. parents[a][m].expiry = expiry /\ Whole(a, Target, m)
    BY <2>1 DEF Complete, Live
  <2>3. Target \in AnyProfile /\ Guarded(a, Target)
    BY MigrationAssumption DEF Guarded, AnyProfile
  <2>4. parents'[a][m].expiry = expiry /\ Whole(a, Target, m)'
    BY <1>1, <2>1, <2>2, <2>3 DEF Survives
  <2> QED
    BY <1>2, <2>4 DEF Complete, Live
<1>3. CASE m \notin DOMAIN parents'[a]
  <2>1. CASE m \in DOMAIN parents[a]
    <3>1. parents[a][m].expiry = expiry /\ Leaves(a, m)
      BY <1>1, <1>3, <2>1 DEF Complete, Live, AreaStep
    <3>2. Expired(expiry)'
      BY <1>1, <3>1 DEF Leaves, Expired, Expiry, Forever
    <3> QED
      BY <1>3, <3>2 DEF Complete, Live
  <2>2. CASE m \notin DOMAIN parents[a]
    <3>1. Expired(expiry)
      BY <2>2 DEF Complete, Live
    <3>2. Expired(expiry)'
      BY <1>1, <3>1 DEF Expired, Expiry, Forever
    <3> QED
      BY <1>3, <3>2 DEF Complete, Live
  <2> QED
    BY <2>1, <2>2
<1> QED
  BY <1>2, <1>3

LEMMA CoveredStays ==
  ASSUME AnyStep, NEW a \in Area, NEW recorded \in Partial(Mid, Expiry),
         \A m \in DOMAIN recorded : Settled(m), Covered(a, recorded)
  PROVE  Covered(a, recorded)'
<1>1. Targeted(a)'
  BY ServesStays DEF Covered
<1>2. ASSUME SameRun(state'[a]), NEW m \in DOMAIN recorded
      PROVE  Complete(a, m, recorded[m])'
  <2>1. SameRun(state[a])
    BY <1>2, ServesStays DEF Covered
  <2>2. PICK expiry \in Expiry : expiry = recorded[m]
    BY <1>2 DEF Partial
  <2>3. Complete(a, m, expiry)
    BY <1>2, <2>1, <2>2 DEF Covered
  <2>4. Complete(a, m, expiry)'
    BY <1>2, <2>1, <2>3, CompleteStays
  <2> QED
    BY <2>2, <2>4
<1> QED
  BY <1>1, <1>2 DEF Covered

LEMMA CleanedStays ==
  ASSUME AnyStep, NEW a \in Area, NEW m, Settled(m), Serves(a, Target),
         NEW old \in AnyProfile \ {Target}
  PROVE  /\ Cleaned(a, m, old) => Cleaned(a, m, old)'
         /\ (\A k \in Present(a) : k.mid = m => k.profile # old)
               => (\A k \in Present(a) : k.mid = m => k.profile # old)'
<1>1. AreaStep(a)
  BY DEF AnyStep, StoreStep
<1>2. (\A k \in Present(a) : k.mid = m => k.profile # old)
         => (\A k \in Present(a) : k.mid = m => k.profile # old)'
  BY <1>1 DEF AreaStep, Present
<1>3. ASSUME Cleaned(a, m, old), m \in DOMAIN parents'[a]
      PROVE  parents'[a][m].gen[old] = 0
  <2>1. m \in DOMAIN parents[a] /\ Survives(a, m)
    BY <1>3, SettledRecord
  <2>2. parents[a][m].gen[old] = 0
    BY <1>3, <2>1 DEF Cleaned, Live, Generation
  <2> QED
    BY <2>1, <2>2 DEF Survives
<1> QED
  BY <1>2, <1>3 DEF Cleaned, Live, Generation

\* A settled generation is never pointed at again, once the record has another.
LEMMA CurrentStays ==
  ASSUME AnyStep, NEW a \in Area, NEW m, Settled(m), NEW g, SettledGen(g),
         NEW p \in AnyProfile
  PROVE  /\ Current(a, p, m, g)' /\ g # 0 => Current(a, p, m, g)
         /\ Current(a, Target, m, g)' => Current(a, Target, m, g)
<1>0. Target \in AnyProfile
  BY MigrationAssumption DEF AnyProfile
<1>1. ASSUME m \in DOMAIN parents'[a]
      PROVE  m \in DOMAIN parents[a] /\ Survives(a, m)
  BY <1>1, SettledRecord
<1> QED
  BY <1>0, <1>1 DEF Current, Live, Generation, Survives

LEMMA EmptyStays ==
  ASSUME AnyStep, NEW a \in Area, state[a].status = "none" => DOMAIN parents[a] = {},
         state'[a].status = "none"
  PROVE  DOMAIN parents'[a] = {}
<1>1. AreaStep(a) /\ state[a].status = "none" /\ DOMAIN parents[a] = {}
  BY ServesStays DEF AnyStep, StoreStep
<1> QED
  BY <1>1 DEF AreaStep, Appears, Serves

LEMMA DataStays ==
  ASSUME AnyStep, NEW d \in DataType, DataInv(d)
  PROVE  DataInv(d)'
<1>1. /\ d.records \in Partial(Area, Partial(Mid, Expiry)) /\ d.old \in Partial(Area, StateType)
      /\ \A a \in DOMAIN d.records : d.records[a] \in Partial(Mid, Expiry)
      /\ \A a \in DOMAIN d.old : d.old[a] \in StateType
  BY DEF DataType, Partial
<1>2. \A a \in DOMAIN d.records : \A m \in DOMAIN d.records[a] : Settled(m) /\ Settled(m)'
  BY DEF DataInv, AnyStep, SettledStays
<1>3. ASSUME d.phase = "verified", NEW a \in Area PROVE Covered(a, d.records[a])'
  <2>1. PICK recorded \in Partial(Mid, Expiry) : recorded = d.records[a]
    BY <1>1, <1>3 DEF DataInv, Full
  <2>2. Covered(a, recorded) /\ \A m \in DOMAIN recorded : Settled(m)
    BY <1>2, <1>3, <2>1 DEF DataInv, Full
  <2>3. Covered(a, recorded)'
    BY <2>2, CoveredStays
  <2> QED
    BY <2>1, <2>3
<1>4. ASSUME d.phase \in {"cutover", "cleaned"}, NEW a \in Area
      PROVE  Serves(a, Target) /\ Serves(a, Target)'
  BY <1>4, ServesStays DEF DataInv
<1>5. ASSUME d.phase = "cleaned", NEW a \in Area, NEW m \in DOMAIN d.records[a]
      PROVE  Cleaned(a, m, d.old[a].profile)'
  <2>1. PICK old \in AnyProfile \ {Target} : old = d.old[a].profile
    BY <1>1, <1>5 DEF DataInv, Full, OldInv, StateType
  <2>2. Settled(m) /\ Serves(a, Target) /\ Cleaned(a, m, old)
    BY <1>2, <1>4, <1>5, <2>1 DEF DataInv, Full
  <2>3. Cleaned(a, m, old)'
    BY <2>2, CleanedStays
  <2> QED
    BY <2>1, <2>3
<1> QED
  BY <1>2, <1>3, <1>4, <1>5 DEF DataInv, OldInv

\* What a migrator knows stays true while others step.
LEMMA MigrStays ==
  ASSUME AnyStep, NEW me \in MigrType, MigrOf(me), SettledGen(me.old),
         me.pc = "drop" => Settled(me.mid)
  PROVE  MigrOf(me)'
<1>0. me.data \in DataType /\ me.ai \in 1..Len(Order)
  BY DEF MigrType
<1>1. /\ me.data.records \in Partial(Area, Partial(Mid, Expiry))
      /\ me.data.old \in Partial(Area, StateType)
      /\ \A a \in DOMAIN me.data.records : me.data.records[a] \in Partial(Mid, Expiry)
      /\ \A a \in DOMAIN me.data.old : me.data.old[a] \in StateType
  BY <1>0 DEF DataType, Partial
<1>2. Place(me) \in Area /\ Before(me) \subseteq Area
  BY <1>0, OrderHasAreas DEF Place, Before
<1>3. DataInv(me.data) /\ DataInv(me.data)'
  BY <1>0, DataStays DEF MigrOf
<1>4. Reads(me) /\ Reads(me)'
  BY DEF MigrOf, Reads, Before, Place, Full
<1>5. Embeds(me)'
  <2>1. Embeds(me)
    BY DEF MigrOf
  <2>2. CASE me.pc = "drop"
    <3>1. PICK a \in Area : a = Place(me)
      BY <1>2
    <3>2. Target \in AnyProfile /\ Settled(me.mid)
      BY <2>2, MigrationAssumption DEF AnyProfile
    <3>3. Current(a, Target, me.mid, me.old)' => Current(a, Target, me.mid, me.old)
      BY <3>2, CurrentStays
    <3> QED
      BY <2>1, <2>2, <3>1, <3>3 DEF Embeds, Current, Live, Generation, Place
  <2> QED
    BY <2>2 DEF Embeds
<1>6. ASSUME NEW a \in Area, VerifiedSoFar(me, a), Full(me.data) PROVE VerifiedSoFar(me, a)'
  <2>1. PICK recorded \in Partial(Mid, Expiry) : recorded = me.data.records[a]
    BY <1>1, <1>6 DEF Full
  <2>2. Covered(a, recorded) /\ \A m \in DOMAIN recorded : Settled(m)
    BY <1>3, <1>6, <2>1 DEF DataInv, Full, VerifiedSoFar
  <2>3. Covered(a, recorded)' /\ Ready(a)'
    BY <1>6, <2>2, CoveredStays, ReadyStays DEF VerifiedSoFar
  <2> QED
    BY <2>1, <2>3 DEF VerifiedSoFar
<1>7. Verifies(me)'
  <2>1. Verifies(me)
    BY DEF MigrOf
  <2>2. me.pc \in {"verify", "verified"} => Full(me.data)
    BY <1>4 DEF Reads
  <2>3. me.pc = "verify" => \A a \in Before(me) : VerifiedSoFar(me, a)'
    BY <1>2, <1>6, <2>1, <2>2 DEF Verifies
  <2>4. me.pc = "verified" => \A a \in Area : VerifiedSoFar(me, a)'
    BY <1>6, <2>1, <2>2 DEF Verifies
  <2>5. me.pc = "cut" => (\A a \in Area : Ready(a)') /\ \A a \in Before(me) : Serves(a, Target)'
    BY <1>2, <2>1, ReadyStays, ServesStays DEF Verifies
  <2> QED
    BY <2>3, <2>4, <2>5 DEF Verifies, Before
<1>8. ASSUME NEW a \in Area, Full(me.data), Serves(a, Target)
      PROVE  /\ \A ids \in SUBSET DOMAIN me.data.records[a] :
                   CleanedIn(me, a, ids) => CleanedIn(me, a, ids)'
             /\ \A m : Settled(m) => ((\A k \in Present(a) : k.mid = m => k.profile # OldIn(me, a))
                  => (\A k \in Present(a) : k.mid = m => k.profile # OldIn(me, a))')
  <2>1. PICK old \in AnyProfile \ {Target} : old = OldIn(me, a)
    BY <1>1, <1>3, <1>8 DEF DataInv, Full, OldInv, StateType, OldIn
  <2>2. OldIn(me, a)' = old
    BY <2>1 DEF OldIn
  <2>3. Serves(a, Target)'
    BY <1>8, ServesStays
  <2>4. \A m \in DOMAIN me.data.records[a] : Settled(m)
    BY <1>3, <1>8 DEF DataInv, Full
  <2>5. ASSUME NEW ids \in SUBSET DOMAIN me.data.records[a], CleanedIn(me, a, ids)
        PROVE  CleanedIn(me, a, ids)'
    <3>1. \A m \in ids : Settled(m) /\ Cleaned(a, m, old)
      BY <2>1, <2>4, <2>5 DEF CleanedIn
    <3>2. \A m \in ids : Cleaned(a, m, old)'
      BY <1>8, <3>1, CleanedStays
    <3> QED
      BY <2>2, <2>3, <3>2 DEF CleanedIn
  <2>6. ASSUME NEW m, Settled(m), \A k \in Present(a) : k.mid = m => k.profile # OldIn(me, a)
        PROVE  (\A k \in Present(a) : k.mid = m => k.profile # OldIn(me, a))'
    <3>1. (\A k \in Present(a) : k.mid = m => k.profile # old)'
      BY <1>8, <2>1, <2>6, CleanedStays
    <3> QED
      BY <2>2, <3>1
  <2> QED
    BY <2>5, <2>6
<1>9. ASSUME me.pc \in {"clean", "keys", "fields"}, NEW a \in Before(me)
      PROVE  CleanedIn(me, a, DOMAIN me.data.records[a])'
  <2>1. PICK b \in Area : b = a
    BY <1>2, <1>9
  <2>2. PICK ids \in SUBSET DOMAIN me.data.records[b] : ids = DOMAIN me.data.records[b]
    OBVIOUS
  <2>3. CleanedIn(me, b, ids) /\ Full(me.data)
    BY <1>4, <1>9, <2>1, <2>2 DEF MigrOf, Cleans, Reads
  <2>4. CleanedIn(me, b, ids)'
    BY <1>8, <2>3 DEF CleanedIn
  <2> QED
    BY <2>1, <2>2, <2>4
<1>10. ASSUME me.pc \in {"keys", "fields"}, NEW ids \in SUBSET DOMAIN me.data.records[Place(me)],
              CleanedIn(me, Place(me), ids)
       PROVE  CleanedIn(me, Place(me), ids)'
  <2>1. PICK b \in Area : b = Place(me)
    BY <1>2
  <2>2. CleanedIn(me, b, ids)'
    BY <1>4, <1>8, <1>10, <2>1 DEF CleanedIn, Reads
  <2> QED
    BY <2>1, <2>2 DEF Place
<1>11. ASSUME me.pc = "fields" PROVE (\A k \in Present(Place(me)) : k.mid = me.mid => k.profile # OldIn(me, Place(me)))'
  <2>1. PICK b \in Area : b = Place(me)
    BY <1>2
  <2>2. /\ Full(me.data) /\ Serves(b, Target) /\ Settled(me.mid)
        /\ \A k \in Present(b) : k.mid = me.mid => k.profile # OldIn(me, b)
    BY <1>3, <1>4, <1>11, <2>1 DEF MigrOf, Cleans, CleanedIn, Reads, DataInv, Full
  <2>3. (\A k \in Present(b) : k.mid = me.mid => k.profile # OldIn(me, b))'
    BY <1>8, <2>2
  <2> QED
    BY <2>1, <2>3 DEF Place
<1>12. Cleans(me)'
  <2>1. CASE me.pc = "keys"
    <3>1. PICK ids \in SUBSET DOMAIN me.data.records[Place(me)] :
             ids = DOMAIN me.data.records[Place(me)] \ me.todo
      OBVIOUS
    <3>2. CleanedIn(me, Place(me), ids)'
      BY <1>10, <2>1, <3>1 DEF MigrOf, Cleans
    <3> QED
      BY <1>9, <2>1, <3>1, <3>2 DEF Cleans, Before, Place
  <2>2. CASE me.pc = "fields"
    <3>1. PICK ids \in SUBSET DOMAIN me.data.records[Place(me)] :
             ids = DOMAIN me.data.records[Place(me)] \ (me.todo \cup {me.mid})
      OBVIOUS
    <3>2. CleanedIn(me, Place(me), ids)'
      BY <1>10, <2>2, <3>1 DEF MigrOf, Cleans
    <3> QED
      BY <1>9, <1>11, <2>2, <3>1, <3>2 DEF Cleans, Before, Place
  <2>3. CASE me.pc \notin {"keys", "fields"}
    BY <1>9, <2>3 DEF Cleans, Before
  <2> QED
    BY <2>1, <2>2, <2>3
<1> QED
  BY <1>3, <1>4, <1>5, <1>7, <1>12 DEF MigrOf

(***************************************************************************)
(* Searches.                                                               *)
(***************************************************************************)
Remembers(me) ==
    /\ me \in ClientType
    /\ me.pc # "idle" => me.area \in Area /\ me.profile \in Profile
    /\ \A hit \in me.before : Settled(hit[1]) /\ SettledGen(hit[2]) /\ hit[2] # 0

LEMMA EveryClientRemembers ==
  ASSUME StoreInv, NEW c \in Client
  PROVE  Remembers(client[c])
BY DEF StoreInv, TypesOK, ClientTypes, IdsInv, GensInv, Remembers

\* A hit that is current was so before, and the area goes back to no profile
\* that a search under way was meant for.
LEMMA HitsStay ==
  ASSUME AnyStep, NEW me, Remembers(me), Searching(me), SearchOf(me)
  PROVE  /\ \A hit \in me.before : Hits(me, hit)' => Hits(me, hit)
         /\ state'[me.area].status # "none"
         /\ Serves(me.area, me.profile)' \/ me.profile # Target
         /\ state'[me.area].profile = me.profile => state[me.area].profile = me.profile
<1>1. PICK a \in Area, p \in Profile : a = me.area /\ p = me.profile
  BY DEF Remembers, Searching
<1>2. p \in AnyProfile /\ StateStep(a)
  BY DEF AnyProfile, AnyStep, StoreStep, AreaStep
<1>3. /\ state[a].status # "none" /\ (Serves(a, p) \/ p # Target)
  BY <1>1 DEF SearchOf
<1>4. state'[a].status # "none" /\ (Serves(a, p)' \/ p # Target)
  BY <1>3, ServesStays
<1>5. state'[a].profile = p => state[a].profile = p
  BY <1>2, <1>3 DEF StateStep, Serves, Active, Blank
<1>6. ASSUME NEW hit \in me.before, Current(a, p, hit[1], hit[2])'
      PROVE  Current(a, p, hit[1], hit[2])
  <2>1. PICK m \in {hit[1]}, g \in {hit[2]} : TRUE
    OBVIOUS
  <2>2. Settled(m) /\ SettledGen(g) /\ g # 0
    BY <2>1 DEF Remembers
  <2>3. Current(a, p, m, g)' => Current(a, p, m, g)
    BY <1>2, <2>2, CurrentStays
  <2> QED
    BY <1>6, <2>1, <2>3
<1> QED
  BY <1>1, <1>4, <1>5, <1>6 DEF Hits, Serves

LEMMA SearchStays ==
  ASSUME AnyStep, NEW me, Remembers(me), SearchOf(me)
  PROVE  SearchOf(me)'
<1>1. CASE Searching(me)
  <2>1. /\ \A hit \in me.before : Hits(me, hit)' => Hits(me, hit)
        /\ state'[me.area].status # "none"
        /\ Serves(me.area, me.profile)' \/ me.profile # Target
        /\ state'[me.area].profile = me.profile => state[me.area].profile = me.profile
    BY <1>1, HitsStay
  <2> QED
    BY <1>1, <2>1 DEF SearchOf, Searching, Spent
<1>2. CASE ~Searching(me)
  BY <1>2 DEF SearchOf, Searching
<1> QED
  BY <1>1, <1>2

\* Every record that is served has its first vector in the index.
LEMMA RowOfHit ==
  ASSUME StoreInv, NEW c \in Client, NEW hit \in Mid \X Nat, client[c].profile \in Profile,
         client[c].area \in Area, state[client[c].area].profile = client[c].profile,
         Hits(client[c], hit)
  PROVE  \E k \in Indexed(c) : hit = <<k.mid, k.gen>>
<1>1. PICK a \in Area, p \in Profile, m \in Mid, g \in Nat :
         a = client[c].area /\ p = client[c].profile /\ hit = <<m, g>>
  OBVIOUS
<1>2. m \in DOMAIN parents[a] /\ Generation(a, p, m) = g /\ state[a].profile = p
  BY <1>1 DEF Hits, Current, Live
<1>3. Whole(a, p, m) /\ p # Legacy
  BY <1>2, MemoryAssumption DEF StoreInv, EveryRecordIsServed
<1>4. Key(p, m, g, 1) \in Keys(p, m, g)
  BY MemoryAssumption DEF Keys
<1>5. Key(p, m, g, 1) \in Present(a)
  BY <1>2, <1>3, <1>4 DEF Whole
<1>6. Key(p, m, g, 1) \in Indexed(c)
  BY <1>1, <1>5 DEF Indexed, Key
<1> QED
  BY <1>1, <1>6 DEF Key

\* A query whose limit reaches the rows there are returns all of them.
LEMMA AllRows ==
  ASSUME NEW indexed, NEW known, IsFiniteSet(indexed), IsFiniteSet(known), indexed \subseteq known,
         NEW limit \in Nat, NEW rows \in kSubset(Lesser(limit, Cardinality(indexed)), indexed),
         Cardinality(rows) < limit \/ limit = Cardinality(known)
  PROVE  rows = indexed
<1>1. /\ Cardinality(indexed) \in Nat /\ Cardinality(indexed) <= Cardinality(known)
      /\ Cardinality(known) \in Nat
  BY FS_Subset, FS_CardinalityType
<1>2. rows \in SUBSET indexed /\ Cardinality(rows) = Lesser(limit, Cardinality(indexed))
  BY DEF kSubset
<1>3. Cardinality(rows) = Cardinality(indexed)
  BY <1>1, <1>2 DEF Lesser
<1> QED
  BY <1>2, <1>3, FS_Subset

LEMMA CountSearches ==
  ASSUME StoreInv, NEW c \in Client, Count(c)
  PROVE  SearchOf(client[c])'
<1> DEFINE me == client[c]
           a == me.area
           before == {<<m, Generation(a, me.profile, m)>> : m \in DOMAIN parents[a]}
           total == Cardinality(Indexed(c))
<1>1. /\ me \in ClientType /\ a \in Area /\ me.pc = "count" /\ UNCHANGED memory
      /\ client \in [Client -> ClientType]
  BY DEF Count, At, StoreInv, TypesOK, ClientTypes
<1>2. CASE Stops(c)
  <2>1. client'[c].pc = "idle"
    BY <1>1, <1>2 DEF Stops, Idle
  <2> QED
    BY <2>1 DEF SearchOf, Searching
<1>3. CASE ~Stops(c)
  <2>1. /\ client'[c] = [me EXCEPT !.pc = "query", !.total = total,
                   !.limit = Lesser(total, FirstLimit), !.known = Indexed(c), !.before = before]
        /\ Serves(a, me.profile)
    BY <1>1, <1>3 DEF Count
  <2>2. PICK n \in {client'[c]} : n.pc = "query" /\ n.known = Indexed(c) /\ n.total = total
                 /\ n.area = a /\ n.profile = me.profile
    BY <1>1, <2>1 DEF ClientType
  <2>3. IsFiniteSet(Indexed(c))
    <3>1. Indexed(c) \subseteq Present(a) /\ IsFiniteSet(Present(a))
      BY <1>1, AreasAreTyped DEF Indexed, AreaTypes
    <3> QED
      BY <3>1, FS_Subset
  <2>4. state'[n.area].status # "none" /\ Serves(n.area, n.profile)'
    BY <1>1, <2>1, <2>2 DEF memory, Serves
  <2>5. SearchOf(n)'
    BY <2>2, <2>3, <2>4 DEF SearchOf, Searching
  <2> QED
    BY <2>2, <2>5
<1> QED
  BY <1>2, <1>3

LEMMA QuerySearches ==
  ASSUME AnyStep, NEW c \in Client, Query(c), SearchOf(client[c])
  PROVE  SearchOf(client[c])'
<1> DEFINE me == client[c]
<1>1. /\ me \in ClientType /\ me.area \in Area /\ me.profile \in Profile /\ me.pc = "query"
      /\ UNCHANGED memory /\ client \in [Client -> ClientType] /\ Remembers(me)
      /\ me.before \in HitSet /\ me.limit \in Nat
  BY EveryClientRemembers DEF Query, At, AnyStep, StoreInv, TypesOK, ClientTypes, ClientType
<1>2. PICK rows \in kSubset(Lesser(me.limit, Cardinality(Indexed(c))), Indexed(c)) :
         client' = [client EXCEPT ![c].pc = "touch", ![c].rows = rows,
                 ![c].todo = {<<k.mid, k.gen>> : k \in rows},
                 ![c].crowded = me.crowded \/ ~(Indexed(c) \subseteq me.known)]
  BY <1>1 DEF Query
<1> DEFINE todo == {<<k.mid, k.gen>> : k \in rows}
           crowded == me.crowded \/ ~(Indexed(c) \subseteq me.known)
<1>3. client'[c] = [me EXCEPT !.pc = "touch", !.rows = rows, !.todo = todo, !.crowded = crowded]
  BY <1>1, <1>2
<1>4. PICK n \in {client'[c]} :
         /\ n.pc = "touch" /\ n.rows = rows /\ n.todo = todo /\ n.crowded = crowded
         /\ n.area = me.area /\ n.profile = me.profile /\ n.known = me.known
         /\ n.total = me.total /\ n.limit = me.limit /\ n.before = me.before
  BY <1>1, <1>3 DEF ClientType
<1>5. IsFiniteSet(Indexed(c))
  <2>1. Indexed(c) \subseteq Present(me.area) /\ IsFiniteSet(Present(me.area))
    BY <1>1, AreasAreTyped DEF Indexed, AreaTypes, AnyStep
  <2> QED
    BY <2>1, FS_Subset
<1>6. /\ state[me.area].status # "none"
      /\ Serves(me.area, me.profile) \/ me.profile # Target
      /\ IsFiniteSet(me.known) /\ me.total = Cardinality(me.known)
  BY <1>1 DEF SearchOf, Searching
<1>7. ASSUME state[me.area].profile = me.profile, ~n.crowded, Spent(n),
             NEW hit \in me.before, Hits(me, hit)
      PROVE  hit \in n.todo
  <2>1. Indexed(c) \subseteq me.known
    BY <1>4, <1>7
  <2>2. rows = Indexed(c)
    BY <1>1, <1>4, <1>5, <1>6, <1>7, <2>1, AllRows DEF Spent
  <2>3. hit \in Mid \X Nat
    BY <1>1 DEF HitSet
  <2>4. \E k \in Indexed(c) : hit = <<k.mid, k.gen>>
    BY <1>1, <1>7, <2>3, RowOfHit DEF AnyStep
  <2> QED
    BY <1>4, <2>2, <2>4
<1> HIDE DEF todo, crowded
<1>8. /\ state' = state
      /\ \A hit : Hits(n, hit)' => Hits(me, hit)
      /\ Serves(n.area, n.profile)' <=> Serves(me.area, me.profile)
  BY <1>1, <1>4 DEF memory, Hits, Current, Live, Generation, Serves
<1>9. SearchOf(n)'
  BY <1>4, <1>6, <1>7, <1>8 DEF SearchOf, Searching, Spent
<1> QED
  BY <1>4, <1>9

LEMMA TouchSearches ==
  ASSUME AnyStep, NEW c \in Client, Touch(c), SearchOf(client[c])
  PROVE  SearchOf(client[c])'
<1>1. PICK me \in ClientType : me = client[c]
  BY DEF AnyStep, StoreInv, TypesOK, ClientTypes
<1>2. /\ me.pc = "touch" /\ client \in [Client -> ClientType] /\ Remembers(me) /\ state' = state
      /\ SearchOf(me)
  BY <1>1, EveryClientRemembers DEF Touch, At, AnyStep, StoreInv, TypesOK, ClientTypes
<1>3. CASE Stops(c)
  <2>1. client'[c].pc = "idle"
    BY <1>2, <1>3 DEF Stops, Idle
  <2> QED
    BY <2>1 DEF SearchOf, Searching
<1>4. CASE ~Stops(c)
  <2>1. PICK h \in me.todo :
          LET new == h[1] \notin me.found /\ Current(me.area, me.profile, h[1], h[2])
          IN  client' = [client EXCEPT ![c].todo = me.todo \ {h},
                             ![c].found = me.found \cup IF new THEN {h[1]} ELSE {}]
    BY <1>1, <1>4 DEF Touch
  <2> DEFINE new == h[1] \notin me.found /\ Current(me.area, me.profile, h[1], h[2])
             found == me.found \cup IF new THEN {h[1]} ELSE {}
  <2>2. client'[c] = [me EXCEPT !.todo = me.todo \ {h}, !.found = found]
    BY <1>1, <1>2, <2>1
  <2>3. PICK n \in {client'[c]} :
         /\ n.pc = "touch" /\ n.rows = me.rows /\ n.todo = me.todo \ {h} /\ n.found = found
         /\ n.area = me.area /\ n.profile = me.profile /\ n.known = me.known
         /\ n.total = me.total /\ n.limit = me.limit /\ n.before = me.before
         /\ n.crowded = me.crowded
    BY <1>2, <2>2
  <2>4. /\ \A hit \in me.before : Hits(me, hit)' => Hits(me, hit)
        /\ state'[me.area].status # "none"
        /\ Serves(me.area, me.profile)' \/ me.profile # Target
        /\ state'[me.area].profile = me.profile => state[me.area].profile = me.profile
    BY <1>2, HitsStay DEF Searching
  <2>5. IsFiniteSet(me.known) /\ me.total = Cardinality(me.known)
    BY <1>2 DEF SearchOf, Searching
  <2>6. ASSUME state'[me.area].profile = me.profile, ~me.crowded, Spent(me),
               NEW hit \in me.before, Hits(me, hit)'
        PROVE  hit \in n.todo \/ hit[1] \in n.found
    <3>1. Hits(me, hit) /\ (hit \in me.todo \/ hit[1] \in me.found)
      BY <1>2, <2>4, <2>6 DEF SearchOf
    <3>2. CASE hit = h /\ hit[1] \notin me.found
      <4> new
        BY <3>1, <3>2 DEF Hits
      <4> QED
        BY <2>3, <3>2
    <3>3. CASE ~(hit = h /\ hit[1] \notin me.found)
      BY <2>3, <3>1, <3>3
    <3> QED
      BY <3>2, <3>3
  <2> HIDE DEF found
  <2>7. SearchOf(n)'
    BY <2>3, <2>4, <2>5, <2>6 DEF SearchOf, Searching, Spent, Hits
  <2> QED
    BY <2>3, <2>7
<1> QED
  BY <1>3, <1>4

LEMMA WidenSearches ==
  ASSUME AnyStep, NEW c \in Client, Widen(c), SearchOf(client[c])
  PROVE  SearchOf(client[c])'
<1>1. PICK me \in ClientType : me = client[c]
  BY DEF AnyStep, StoreInv, TypesOK, ClientTypes
<1>2. /\ me.pc = "touch" /\ client \in [Client -> ClientType] /\ Remembers(me) /\ SearchOf(me)
  BY <1>1, EveryClientRemembers DEF Widen, At, AnyStep, StoreInv, TypesOK, ClientTypes
<1>3. /\ \A hit \in me.before : Hits(me, hit)' => Hits(me, hit)
      /\ state'[me.area].status # "none"
      /\ Serves(me.area, me.profile)' \/ me.profile # Target
      /\ state'[me.area].profile = me.profile => state[me.area].profile = me.profile
  BY <1>2, HitsStay DEF Searching
<1>4. IsFiniteSet(me.known) /\ me.total = Cardinality(me.known)
  BY <1>2 DEF SearchOf, Searching
<1>5. CASE Goes(c, "found")
  <2>1. Cardinality(me.found) = TopK \/ (me.todo = {} /\ Spent(me))
    <3>1. \/ Cardinality(me.found) = TopK \/ Exhausted(c)
          \/ client' = [client EXCEPT ![c].pc = "query", ![c].limit = Lesser(me.total, 2 * me.limit)]
      BY <1>1 DEF Widen
    <3>2. Exhausted(c) = Spent(me)
      BY <1>1 DEF Exhausted, Spent
    <3>3. client'[c].pc = "found"
      BY <1>1, <1>2, <1>5 DEF Goes, ClientType
    <3>4. Cardinality(me.found) = TopK \/ Exhausted(c)
      BY <1>1, <1>2, <3>1, <3>3 DEF ClientType
    <3> QED
      BY <1>1, <3>2, <3>4 DEF Widen
  <2>2. client'[c] = [me EXCEPT !.pc = "found"]
    BY <1>1, <1>2, <1>5 DEF Goes
  <2>3. PICK n \in {client'[c]} :
         /\ n.pc = "found" /\ n.found = me.found
         /\ n.area = me.area /\ n.profile = me.profile /\ n.known = me.known
         /\ n.total = me.total /\ n.before = me.before /\ n.crowded = me.crowded
    BY <1>2, <2>2 DEF ClientType
  <2>4. ASSUME state'[me.area].profile = me.profile, ~me.crowded, Cardinality(me.found) < TopK,
               NEW hit \in me.before, Hits(me, hit)'
        PROVE  hit[1] \in me.found
    <3>1. me.todo = {} /\ Spent(me)
      BY <2>1, <2>4, MemoryAssumption
    <3> QED
      BY <1>2, <1>3, <2>4, <3>1 DEF SearchOf
  <2>5. SearchOf(n)'
    BY <1>3, <1>4, <2>3, <2>4 DEF SearchOf, Searching, Hits
  <2> QED
    BY <2>3, <2>5
<1>6. CASE ~Goes(c, "found")
  <2>1. client'[c] = [me EXCEPT !.pc = "query", !.limit = Lesser(me.total, 2 * me.limit)]
    BY <1>1, <1>2, <1>6 DEF Widen
  <2>2. PICK n \in {client'[c]} :
         /\ n.pc = "query" /\ n.area = me.area /\ n.profile = me.profile /\ n.known = me.known
         /\ n.total = me.total
    BY <1>2, <2>1 DEF ClientType
  <2>3. SearchOf(n)'
    BY <1>3, <1>4, <2>2 DEF SearchOf, Searching
  <2> QED
    BY <2>2, <2>3
<1> QED
  BY <1>5, <1>6

LEMMA ClientSearches ==
  ASSUME AnyStep, NEW c \in Client, ClientStep(c), SearchOf(client[c])
  PROVE  SearchOf(client[c])'
<1>1. client \in [Client -> ClientType]
  BY DEF AnyStep, StoreInv, TypesOK
<1>2. CASE ~Searching(client'[c])
  BY <1>2 DEF SearchOf, Searching
<1>3. CASE \E pc \in ClientPc : Goes(c, pc) /\ pc \notin {"query", "touch", "found"}
  BY <1>1, <1>2, <1>3 DEF Goes, ClientType, Searching
<1>4. CASE Stops(c)
  BY <1>1, <1>2, <1>4 DEF Stops, Idle, Searching
<1>5. CASE Count(c)
  BY <1>5, CountSearches DEF AnyStep
<1>6. CASE Query(c)
  BY <1>6, QuerySearches
<1>7. CASE Touch(c)
  BY <1>7, TouchSearches
<1>8. CASE Widen(c)
  BY <1>8, WidenSearches
<1>9. CASE StageChunk(c)
  BY <1>1, <1>2, <1>9 DEF StageChunk, Searching, ClientType
<1>10. ASSUME NEW call \in ClientType, Calls(c, call) PROVE SearchOf(client[c])'
  BY <1>1, <1>2, <1>10 DEF Calls, Searching, ClientType
<1>11. ASSUME NEW a \in Area, NEW p \in Profile PROVE
         /\ \A m \in Mid, days \in Days : Save(c, p, a, m, days) => \E call \in ClientType : Calls(c, call)
         /\ Search(c, p, a) => \E call \in ClientType : Calls(c, call)
         /\ \A m \in Mid : Delete(c, p, a, m) => \E call \in ClientType : Calls(c, call)
  <2> p \in AnyProfile /\ Idle \in ClientType /\ Days \subseteq Nat
    BY IdleIsTyped, MemoryAssumption DEF AnyProfile
  <2>1. \A m \in Mid, days \in Days :
          [Idle EXCEPT !.op = "save", !.profile = p, !.area = a, !.mid = m, !.days = days] \in ClientType
    BY DEF ClientType
  <2>2. [Idle EXCEPT !.op = "search", !.profile = p, !.area = a] \in ClientType
    BY DEF ClientType
  <2>3. \A m \in Mid : [Idle EXCEPT !.op = "delete", !.profile = p, !.area = a, !.mid = m] \in ClientType
    BY DEF ClientType
  <2> QED
    BY <2>1, <2>2, <2>3 DEF Save, Search, Delete
<1>12. First(client[c].op) \in ClientPc \ {"query", "touch", "found"}
  BY DEF First, ClientPc
<1>13. {"scan", "provision", "ensure"} \subseteq ClientPc
  BY DEF ClientPc
<1> QED
  BY <1>3, <1>4, <1>5, <1>6, <1>7, <1>8, <1>9, <1>10, <1>11, <1>12, <1>13
     DEF ClientStep, Ensure, Scan, Provision, Publish, DeleteScript, Return, Die

LEMMA ClientProvisions ==
  ASSUME AnyStep, NEW c \in Client, ClientStep(c)
  PROVE  Provisions(c)'
<1>1. client \in [Client -> ClientType] /\ client[c] \in ClientType
  BY DEF AnyStep, StoreInv, TypesOK
<1>2. CASE client'[c].pc # "provision"
  BY <1>2 DEF Provisions
<1>3. CASE Scan(c)
  <2>1. UNCHANGED memory
    BY <1>3 DEF Scan
  <2>2. CASE Goes(c, "provision") /\ DOMAIN parents[client[c].area] = {}
    <3>1. client'[c].area = client[c].area
      BY <1>1, <2>2 DEF Goes, ClientType
    <3> QED
      BY <2>1, <2>2, <3>1 DEF Provisions, memory
  <2>3. CASE Stops(c)
    BY <1>1, <1>2, <2>3 DEF Stops, Idle
  <2> QED
    BY <1>3, <2>2, <2>3 DEF Scan
<1>4. CASE ~Scan(c)
  <2>1. ASSUME NEW pc \in ClientPc \ {"provision"}, Goes(c, pc) PROVE client'[c].pc # "provision"
    BY <1>1, <2>1 DEF Goes, ClientType
  <2>2. Stops(c) => client'[c].pc # "provision"
    BY <1>1 DEF Stops, Idle
  <2>3. StageChunk(c) => client'[c].pc # "provision"
    BY <1>1 DEF StageChunk, ClientType
  <2>4. Count(c) => client'[c].pc # "provision"
    BY <1>1, <2>2 DEF Count, ClientType
  <2>5. ASSUME Query(c) PROVE client'[c].pc # "provision"
    <3>1. \E rows, todo, crowded : client' = [client EXCEPT ![c].pc = "touch", ![c].rows = rows,
             ![c].todo = todo, ![c].crowded = crowded]
      BY <2>5 DEF Query
    <3> QED
      BY <1>1, <3>1 DEF ClientType
  <2>6. Touch(c) => client'[c].pc # "provision"
    BY <1>1, <2>2 DEF Touch, ClientType, At
  <2>7. Widen(c) => client'[c].pc # "provision"
    BY <1>1, <2>1 DEF Widen, ClientType, ClientPc
  <2>8. First(client[c].op) \in ClientPc \ {"provision"} /\ {"scan", "ensure"} \subseteq ClientPc
    BY DEF First, ClientPc
  <2>9. client'[c].pc # "provision"
    <3>1. ASSUME NEW a \in Area, NEW p \in Profile PROVE
         /\ \A m \in Mid, days \in Days : Save(c, p, a, m, days) => client'[c].pc # "provision"
         /\ Search(c, p, a) => client'[c].pc # "provision"
         /\ \A m \in Mid : Delete(c, p, a, m) => client'[c].pc # "provision"
      BY <1>1 DEF Save, Search, Delete, Calls, Idle
    <3> QED
      BY <1>4, <2>1, <2>2, <2>3, <2>4, <2>5, <2>6, <2>7, <2>8, <3>1
         DEF ClientStep, Ensure, Provision, Publish, DeleteScript, Return, Die
  <2> QED
    BY <1>2, <2>9
<1> QED
  BY <1>3, <1>4

(***************************************************************************)
(* What the migrator that steps knows afterwards.                          *)
(***************************************************************************)
LEMMA BeforeAreas ==
  ASSUME NEW me \in MigrType
  PROVE  /\ me.ai \in 1..Len(Order) /\ me.data \in DataType
         /\ Place(me) \in Area /\ Before(me) \subseteq Area
         /\ me.ai = 1 => Before(me) = {}
         /\ \A n : n.ai = me.ai + 1 => Before(n) = Before(me) \cup {Place(me)}
         /\ ~(me.ai < Len(Order)) => Before(me) \cup {Place(me)} = Area
<1>1. me.ai \in 1..Len(Order) /\ me.data \in DataType
  BY DEF MigrType
<1>2. Place(me) \in Area /\ Before(me) \subseteq Area
  BY <1>1, OrderHasAreas DEF Place, Before
<1>3. me.ai = 1 => Before(me) = {}
  BY DEF Before
<1>4. ASSUME NEW n, n.ai = me.ai + 1 PROVE Before(n) = Before(me) \cup {Place(me)}
  <2>1. 1..n.ai - 1 = (1..me.ai - 1) \cup {me.ai}
    BY <1>1, <1>4, OrderHasAreas
  <2> QED
    BY <2>1 DEF Before, Place
<1>5. ASSUME ~(me.ai < Len(Order)) PROVE Before(me) \cup {Place(me)} = Area
  <2>1. 1..Len(Order) = (1..me.ai - 1) \cup {me.ai}
    BY <1>1, <1>5, OrderHasAreas
  <2> QED
    BY <2>1, OrderHasAreas, MigrationAssumption DEF Before, Place
<1> QED
  BY <1>1, <1>2, <1>3, <1>4, <1>5

Watchful == {"drop", "verify", "verified", "cut", "clean", "keys", "fields"}

LEMMA QuietMigr ==
  ASSUME NEW n, DataInv(n.data)', Reads(n), n.pc \notin Watchful
  PROVE  MigrOf(n)'
BY DEF MigrOf, Reads, Before, Place, Full, Embeds, Verifies, Cleans, Watchful

LEMMA NothingKnown == DataInv(NoData) /\ DataInv(NoData)'
BY NoDataIsTyped DEF DataInv, NoData

LEMMA OffKnows == MigrOf(Off)'
<1>1. Off.pc = "off" /\ Off.data = NoData /\ Off.ai = 1 /\ Off.cmd = "none"
  BY DEF Off
<1>2. Reads(Off)
  BY <1>1 DEF Reads
<1> QED
  BY <1>1, <1>2, NothingKnown, QuietMigr DEF Watchful

LEMMA ReleasedKnows ==
  ASSUME AnyStep, NEW x \in Migrator, migr' = [migr EXCEPT ![x] = Off]
  PROVE  MigrOf(migr[x])'
<1>1. Off = migr'[x]
  BY DEF AnyStep, StoreInv, TypesOK
<1> QED
  BY <1>1, OffKnows

Turn(x, me) == me = migr[x] /\ MigrOf(me) /\ AnyStep

LEMMA TurnKnows ==
  ASSUME NEW x \in Migrator, NEW me \in MigrType, Turn(x, me)
  PROVE  /\ MigrOf(me)' /\ DataInv(me.data)' /\ DataInv(me.data) /\ Reads(me)
         /\ me.data \in DataType /\ migr \in [Migrator -> MigrType]
<1>1. AnyStep /\ SettledGen(me.old) /\ (me.pc = "drop" => Settled(me.mid))
  BY DEF Turn, AnyStep, StoreInv, IdsInv, GensInv
<1>2. MigrOf(me)'
  BY <1>1, MigrStays DEF Turn
<1> QED
  BY <1>1, <1>2, BeforeAreas DEF Turn, MigrOf, AnyStep, StoreInv, TypesOK

\* What the data says of Redis does not change when it says no more than before.
LEMMA BuildingData ==
  ASSUME NEW d \in DataType, DataInv(d)'
  PROVE  DataInv([d EXCEPT !.phase = "building"])'
<1>1. PICK e \in {[d EXCEPT !.phase = "building"]} :
         e.phase = "building" /\ e.old = d.old /\ e.records = d.records
  BY DEF DataType
<1>2. DataInv(e)'
  BY <1>1 DEF DataInv
<1> QED
  BY <1>1, <1>2

LEMMA BeginKnows ==
  ASSUME NEW x \in Migrator, NEW me \in MigrType, Turn(x, me),
         manifest # None => manifest \in DataType /\ DataInv(manifest) /\ Full(manifest),
         NEW cmd \in {"build", "verify", "cutover", "cleanup"}, Begin(x, cmd)
  PROVE  MigrOf(migr[x])'
<1>1. PICK d \in {IF cmd = "build" THEN NoData ELSE manifest} : TRUE
  OBVIOUS
<1>2. DataInv(d)' /\ (cmd = "build" => d = NoData) /\ (cmd # "build" => Full(d))
  <2>1. CASE cmd = "build"
    BY <1>1, <2>1, NothingKnown
  <2>2. CASE cmd # "build"
    <3>1. d \in DataType /\ DataInv(d) /\ Full(d)
      BY <1>1, <2>2 DEF Begin, Allowed
    <3>2. DataInv(d)'
      BY <3>1, DataStays DEF Turn
    <3> QED
      BY <2>2, <3>1, <3>2
  <2> QED
    BY <2>1, <2>2
<1>3. migr'[x] = [Off EXCEPT !.pc = "lock", !.cmd = cmd, !.data = d]
  BY <1>1, TurnKnows DEF Begin, Becomes
<1>4. PICK n \in {migr'[x]} : n.pc = "lock" /\ n.cmd = cmd /\ n.data = d /\ n.ai = 1
  BY <1>3 DEF Off
<1>5. Reads(n)
  BY <1>2, <1>4 DEF Reads
<1>6. MigrOf(n)'
  BY <1>2, <1>4, <1>5, QuietMigr DEF Watchful
<1> QED
  BY <1>4, <1>6

LEMMA TakeLockKnows ==
  ASSUME NEW x \in Migrator, NEW me \in MigrType, Turn(x, me), TakeLock(x)
  PROVE  MigrOf(migr[x])'
<1>0. /\ MigrOf(me)' /\ DataInv(me.data)' /\ Reads(me) /\ migr \in [Migrator -> MigrType]
      /\ me = migr[x] /\ AnyStep
  BY TurnKnows DEF Turn
<1>1. CASE migr' = [migr EXCEPT ![x] = Off]
  BY <1>0, <1>1, ReleasedKnows
<1>2. CASE migr' # [migr EXCEPT ![x] = Off]
  <2>1. PICK pc \in {"load", "clean", "verify"} :
           /\ migr'[x] = [me EXCEPT !.pc = pc, !.owner = runs + 1]
           /\ pc = "load" <=> me.cmd = "build"
    BY <1>0, <1>2 DEF TakeLock
  <2>2. PICK n \in {migr'[x]} : n.pc = pc /\ n.cmd = me.cmd /\ n.data = me.data /\ n.ai = me.ai
    BY <1>0, <2>1 DEF MigrType
  <2>3. me.pc = "lock" /\ n.ai = 1
    BY <1>0, <1>2, <2>2 DEF TakeLock, MAt, Reads
  <2>4. Reads(n)
    BY <1>0, <2>1, <2>2, <2>3 DEF Reads
  <2>5. Before(n) = {}
    BY <2>3 DEF Before
  <2>6. MigrOf(n)'
    <3>1. Verifies(n)' /\ Cleans(n)' /\ Embeds(n)'
      BY <2>2, <2>5 DEF Verifies, Cleans, Embeds, Before
    <3>2. Reads(n)'
      BY <2>4 DEF Reads, Before, Place, Full
    <3> QED
      BY <1>0, <2>2, <3>1, <3>2 DEF MigrOf
  <2> QED
    BY <2>2, <2>6
<1> QED
  BY <1>1, <1>2

LEMMA LoadKnows ==
  ASSUME NEW x \in Migrator, NEW me \in MigrType, Turn(x, me), Load(x),
         manifest # None => manifest \in DataType /\ DataInv(manifest) /\ Full(manifest)
  PROVE  MigrOf(migr[x])'
<1>0. /\ MigrOf(me)' /\ DataInv(me.data)' /\ Reads(me) /\ migr \in [Migrator -> MigrType]
      /\ me = migr[x] /\ AnyStep
  BY TurnKnows DEF Turn
<1>1. CASE Released(x)
  BY <1>0, <1>1, ReleasedKnows DEF Released
<1>2. me.pc = "load" /\ me.data = NoData /\ me.ai = 1 /\ Before(me) = {}
  BY <1>0, BeforeAreas DEF Load, MAt, Reads
<1>3. CASE Becomes(x, [me EXCEPT !.pc = "source"])
  <2>1. PICK n \in {migr'[x]} : n.pc = "source" /\ n.cmd = me.cmd /\ n.data = NoData /\ n.ai = 1
    BY <1>0, <1>2, <1>3 DEF MigrType, Becomes
  <2>2. Reads(n)
    <3> Before(n) = {} /\ NoData.phase = "building"
      BY <2>1 DEF Before, NoData
    <3> QED
      BY <2>1, NoDataIsTyped DEF Reads
  <2>3. MigrOf(n)'
    BY <2>1, <2>2, NothingKnown, QuietMigr DEF Watchful
  <2> QED
    BY <2>1, <2>3
<1>4. CASE manifest # None /\ Becomes(x, [me EXCEPT !.pc = "mark", !.data = manifest])
  <2>1. PICK d \in DataType : d = manifest /\ DataInv(d) /\ Full(d)
    BY <1>4
  <2>2. DataInv(d)'
    BY <1>0, <2>1, DataStays
  <2>3. PICK n \in {migr'[x]} : n.pc = "mark" /\ n.cmd = me.cmd /\ n.data = d /\ n.ai = 1
    BY <1>0, <1>2, <1>4, <2>1 DEF MigrType, Becomes
  <2>4. Reads(n)
    BY <2>1, <2>3 DEF Reads
  <2>5. MigrOf(n)'
    BY <2>2, <2>3, <2>4, QuietMigr DEF Watchful
  <2> QED
    BY <2>3, <2>5
<1> QED
  BY <1>0, <1>1, <1>3, <1>4 DEF Load

LEMMA SourceKnows ==
  ASSUME NEW x \in Migrator, NEW me \in MigrType, Turn(x, me), Source(x)
  PROVE  MigrOf(migr[x])'
<1>0. /\ MigrOf(me)' /\ DataInv(me.data)' /\ Reads(me) /\ migr \in [Migrator -> MigrType]
      /\ me = migr[x] /\ AnyStep /\ Place(me) \in Area /\ AreaOf(x) = Place(me)
      /\ me.data \in DataType
  BY TurnKnows, BeforeAreas DEF Turn, Place, AreaOf
<1>1. CASE Released(x)
  BY <1>0, <1>1, ReleasedKnows DEF Released
<1>2. CASE ~Released(x)
  <2>1. PICK a \in Area, st \in StateType, w \in [{Place(me)} -> StateType] :
           /\ a = Place(me) /\ st = state[a] /\ w = [b \in {a} |-> st]
    BY <1>0, AreasAreTyped DEF AnyStep
  <2>2. /\ migr'[x] = [me EXCEPT !.pc = "records", !.data.old = Put(me.data.old, w)]
        /\ st.status # "building" /\ ~Serves(a, Target) /\ me.pc = "source"
    BY <1>0, <1>2, <2>1 DEF Source, Becomes, MAt
  <2>3. OldInv(st)
    <3>1. st.status = "none" => st.profile = Legacy
      BY <1>0, <2>1, AreasAreTyped DEF AnyStep, AreaTypes
    <3> QED
      BY <2>1, <2>2, <3>1, MigrationAssumption, MemoryAssumption DEF OldInv, Serves, StateType
  <2>4. PICK old \in {Put(me.data.old, w)} :
          /\ DOMAIN old = DOMAIN me.data.old \cup {a}
          /\ old[a] = st /\ \A b \in DOMAIN me.data.old \ {a} : old[b] = me.data.old[b]
    <3> me.data.old \in Partial(Area, StateType) /\ w \in [{a} -> StateType]
      BY <1>0, <2>1 DEF DataType
    <3>1. w[a] = st
      BY <2>1
    <3>2. /\ DOMAIN Put(me.data.old, w) = DOMAIN me.data.old \cup {a}
          /\ Put(me.data.old, w)[a] = w[a]
          /\ \A b \in DOMAIN me.data.old \ {a} : Put(me.data.old, w)[b] = me.data.old[b]
      BY PutPartial
    <3> QED
      BY <3>1, <3>2
  <2>5. PICK n \in {migr'[x]} :
          /\ n.pc = "records" /\ n.cmd = me.cmd /\ n.ai = me.ai
          /\ n.data.phase = me.data.phase /\ n.data.records = me.data.records /\ n.data.old = old
    BY <1>0, <2>2, <2>4 DEF MigrType, DataType
  <2>6. /\ me.data.phase = "building" /\ DOMAIN me.data.records = Before(me)
        /\ DOMAIN me.data.old = Before(me)
    BY <1>0, <2>2 DEF Reads
  <2>7. Before(n) = Before(me) /\ Place(n) = a
    BY <2>1, <2>5 DEF Before, Place
  <2>8. Reads(n)
    BY <2>4, <2>5, <2>6, <2>7 DEF Reads
  <2>9. \A b \in DOMAIN n.data.old : OldInv(n.data.old[b])
    BY <1>0, <2>3, <2>4, <2>5 DEF DataInv
  <2>10. DataInv(n.data)'
    BY <1>0, <2>5, <2>6, <2>9 DEF DataInv, OldInv
  <2>11. MigrOf(n)'
    BY <2>5, <2>8, <2>10, QuietMigr DEF Watchful
  <2> QED
    BY <2>5, <2>11
<1> QED
  BY <1>1, <1>2

LEMMA RecordsKnows ==
  ASSUME NEW x \in Migrator, NEW me \in MigrType, Turn(x, me), Records(x)
  PROVE  MigrOf(migr[x])'
<1>0. /\ MigrOf(me)' /\ DataInv(me.data)' /\ Reads(me) /\ migr \in [Migrator -> MigrType]
      /\ me = migr[x] /\ AnyStep /\ Place(me) \in Area /\ AreaOf(x) = Place(me)
      /\ me.data \in DataType /\ me.pc = "records"
  BY TurnKnows, BeforeAreas DEF Turn, Place, AreaOf, Records, MAt
<1>1. PICK a \in Area, found \in Partial(Mid, Expiry), w \in [{Place(me)} -> Partial(Mid, Expiry)] :
         /\ a = Place(me) /\ found = [m \in DOMAIN parents[a] |-> parents[a][m].expiry]
         /\ w = [b \in {a} |-> found]
  <2>1. PICK a \in Area : a = Place(me)
    BY <1>0
  <2>2. /\ DOMAIN parents[a] \subseteq Mid
        /\ \A m \in DOMAIN parents[a] : parents[a][m].expiry \in Expiry
    BY <1>0, AreasAreTyped, LiveMids DEF AnyStep, AreaTypes, RecordType
  <2>3. [m \in DOMAIN parents[a] |-> parents[a][m].expiry] \in Partial(Mid, Expiry)
    BY <2>2 DEF Partial
  <2> QED
    BY <2>1, <2>3
<1>2. PICK records \in {Put(me.data.records, w)} :
          /\ DOMAIN records = DOMAIN me.data.records \cup {a}
          /\ records[a] = found
          /\ \A b \in DOMAIN me.data.records \ {a} : records[b] = me.data.records[b]
  <2> me.data.records \in Partial(Area, Partial(Mid, Expiry)) /\ w \in [{a} -> Partial(Mid, Expiry)]
    BY <1>0, <1>1 DEF DataType
  <2>1. w[a] = found
    BY <1>1
  <2>2. /\ DOMAIN Put(me.data.records, w) = DOMAIN me.data.records \cup {a}
        /\ Put(me.data.records, w)[a] = w[a]
        /\ \A b \in DOMAIN me.data.records \ {a} : Put(me.data.records, w)[b] = me.data.records[b]
    BY PutPartial
  <2> QED
    BY <2>1, <2>2
<1>3. PICK d \in {[me.data EXCEPT !.records = records]} :
          d.phase = me.data.phase /\ d.records = records /\ d.old = me.data.old
  BY <1>0 DEF DataType
<1>4. migr'[x] = IF me.ai < Len(Order)
                 THEN [me EXCEPT !.data = d, !.ai = me.ai + 1, !.pc = "source"]
                 ELSE [me EXCEPT !.data = d, !.ai = 1, !.pc = "persist", !.next = "mark"]
  <2> DEFINE read == [me EXCEPT !.data.records = records]
  <2>1. [b \in {AreaOf(x)} |-> [m \in DOMAIN parents[AreaOf(x)] |-> parents[AreaOf(x)][m].expiry]] = w
    BY <1>0, <1>1
  <2>2. migr' = [migr EXCEPT ![x] =
                   IF me.ai < Len(Order)
                   THEN [read EXCEPT !.ai = me.ai + 1, !.pc = "source"]
                   ELSE [read EXCEPT !.ai = 1, !.pc = "persist", !.next = "mark"]]
    BY <1>0, <1>2, <2>1 DEF Records, Becomes
  <2>3. read = [me EXCEPT !.data = d]
    BY <1>3
  <2> HIDE DEF read
  <2>4. migr'[x] = IF me.ai < Len(Order)
                   THEN [read EXCEPT !.ai = me.ai + 1, !.pc = "source"]
                   ELSE [read EXCEPT !.ai = 1, !.pc = "persist", !.next = "mark"]
    BY <1>0, <2>2
  <2> QED
    BY <2>3, <2>4
<1>5. /\ me.data.phase = "building" /\ DOMAIN me.data.records = Before(me)
      /\ DOMAIN me.data.old = Before(me) \cup {a}
  BY <1>0, <1>1 DEF Reads
<1>6. DataInv(d)'
  <2>1. \A m \in DOMAIN found : Settled(m)'
    BY <1>0, <1>1 DEF AnyStep, StoreInv, LiveIds, SettledStays
  <2>2. \A b \in DOMAIN d.records : \A m \in DOMAIN d.records[b] : Settled(m)'
    BY <1>0, <1>2, <1>3, <2>1 DEF DataInv
  <2> QED
    BY <1>0, <1>3, <1>5, <2>2 DEF DataInv
<1>7. PICK n \in {migr'[x]} :
         /\ n.data = d
         /\ \/ me.ai < Len(Order) /\ n.pc = "source" /\ n.ai = me.ai + 1
            \/ ~(me.ai < Len(Order)) /\ n.pc = "persist" /\ n.ai = 1 /\ n.next = "mark"
  BY <1>0, <1>4 DEF MigrType
<1>8. Reads(n)
  <2>1. CASE n.pc = "source"
    <3> Before(n) = Before(me) \cup {a}
      BY <1>1, <1>7, <2>1, BeforeAreas
    <3> QED
      BY <1>2, <1>3, <1>5, <1>7, <2>1 DEF Reads
  <2>2. CASE n.pc = "persist"
    <3> Before(me) \cup {a} = Area
      BY <1>1, <1>7, <2>2, BeforeAreas
    <3> QED
      BY <1>2, <1>3, <1>5, <1>7, <2>2 DEF Reads, Full
  <2> QED
    BY <1>7, <2>1, <2>2
<1>9. MigrOf(n)'
  BY <1>6, <1>7, <1>8, QuietMigr DEF Watchful
<1> QED
  BY <1>7, <1>9

\* Steps that keep the data, and look at nothing.
LEMMA SameDataKnows ==
  ASSUME NEW x \in Migrator, NEW me \in MigrType, Turn(x, me), Full(me.data),
         NEW n, n.data = me.data, n.pc \in {"record", "stage", "publish", "claim", "persist"},
         n.pc = "persist" => n.next # "none" /\ (n.next \in {"mark", "verify"} => n.ai = 1)
  PROVE  MigrOf(n)'
<1>1. Reads(n)
  BY DEF Reads
<1> QED
  BY <1>1, TurnKnows, QuietMigr DEF Watchful

LEMMA PersistKnows ==
  ASSUME NEW x \in Migrator, NEW me \in MigrType, Turn(x, me), Persist(x)
  PROVE  MigrOf(migr[x])'
<1>0. /\ MigrOf(me)' /\ DataInv(me.data)' /\ Reads(me) /\ migr \in [Migrator -> MigrType]
      /\ me = migr[x] /\ AnyStep /\ me.pc = "persist" /\ Full(me.data)
  BY TurnKnows DEF Turn, Persist, MAt, Reads
<1>1. CASE Released(x)
  BY <1>0, <1>1, ReleasedKnows DEF Released
<1>2. CASE ~Released(x)
  <2>1. me.next \in {"mark", "claim", "verify"}
    BY <1>0, <1>2 DEF Persist, Reads, MigrType
  <2>2. PICK n \in {migr'[x]} : n.pc = me.next /\ n.ai = me.ai /\ n.data = me.data /\ n.cmd = me.cmd
    BY <1>0, <1>2 DEF Persist, Becomes, MigrType
  <2>3. n.pc \in {"mark", "verify"} => n.ai = 1
    BY <1>0, <2>1, <2>2 DEF Reads
  <2>4. Reads(n)
    BY <1>0, <2>1, <2>2, <2>3 DEF Reads
  <2>5. n.pc = "verify" => Before(n) = {}
    BY <2>3 DEF Before
  <2>6. Verifies(n)' /\ Cleans(n)' /\ Embeds(n)' /\ Reads(n)'
    BY <2>1, <2>2, <2>4, <2>5 DEF Verifies, Cleans, Embeds, Before, Reads, Place, Full
  <2>7. MigrOf(n)'
    BY <1>0, <2>2, <2>6 DEF MigrOf
  <2> QED
    BY <2>2, <2>7
<1> QED
  BY <1>1, <1>2

LEMMA MarkKnows ==
  ASSUME NEW x \in Migrator, NEW me \in MigrType, Turn(x, me), Mark(x)
  PROVE  MigrOf(migr[x])'
<1>0. /\ MigrOf(me)' /\ DataInv(me.data)' /\ Reads(me) /\ migr \in [Migrator -> MigrType]
      /\ me = migr[x] /\ AnyStep /\ me.pc = "mark" /\ Full(me.data) /\ me.data \in DataType
  BY TurnKnows DEF Turn, Mark, MAt, Reads
<1>1. CASE Released(x)
  BY <1>0, <1>1, ReleasedKnows DEF Released
<1>2. CASE ~Released(x)
  <2>1. PICK d \in {[me.data EXCEPT !.phase = "building"]} : Full(d) /\ DataInv(d)'
    BY <1>0, BuildingData DEF DataType, Full
  <2>2. migr'[x] = [me EXCEPT !.data = d, !.pc = "persist", !.next = "claim"]
    <3>1. migr'[x] = [me EXCEPT !.data.phase = "building", !.pc = "persist", !.next = "claim"]
      BY <1>0, <1>2 DEF Mark, Fenced, Becomes
    <3> QED
      BY <3>1, <2>1
  <2>3. PICK n \in {migr'[x]} : n.pc = "persist" /\ n.data = d /\ n.next = "claim"
    BY <1>0, <2>2 DEF MigrType
  <2>4. Reads(n)
    BY <2>1, <2>3 DEF Reads
  <2>5. MigrOf(n)'
    BY <2>1, <2>3, <2>4, QuietMigr DEF Watchful
  <2> QED
    BY <2>3, <2>5
<1> QED
  BY <1>1, <1>2

LEMMA EmbeddingKnows ==
  ASSUME NEW x \in Migrator, NEW me \in MigrType, Turn(x, me),
         Claim(x) \/ Record(x) \/ Stage(x) \/ DropOld(x) \/ NextArea(x)
  PROVE  MigrOf(migr[x])'
<1>0. /\ Reads(me) /\ migr \in [Migrator -> MigrType] /\ me = migr[x] /\ AnyStep /\ Full(me.data)
  BY TurnKnows DEF Turn, Claim, Record, Stage, DropOld, NextArea, MAt, Reads
<1>1. CASE Released(x)
  BY <1>0, <1>1, ReleasedKnows DEF Released
<1>2. CASE ~Released(x)
  <2>1. \E n \in {migr'[x]} :
          /\ n.data = me.data /\ n.pc \in {"record", "stage", "publish", "claim", "persist"}
          /\ n.pc = "persist" => n.next # "none" /\ (n.next \in {"mark", "verify"} => n.ai = 1)
    <3>1. CASE Claim(x)
      <4>1. \E todo : migr'[x] = [me EXCEPT !.pc = "record", !.todo = todo]
        BY <1>0, <1>2, <3>1 DEF Claim, Becomes
      <4> QED
        BY <4>1 DEF MigrType
    <3>2. CASE Record(x)
      <4>1. PICK m \in me.todo :
              \/ Becomes(x, [me EXCEPT !.todo = me.todo \ {m}])
              \/ Becomes(x, [me EXCEPT !.pc = "stage", !.todo = me.todo \ {m}, !.mid = m,
                               !.snap = Recorded(x)[m], !.old = Generation(AreaOf(x), Target, m)])
        BY <1>0, <1>2, <3>2 DEF Record, Fenced
      <4>2. me.pc = "record"
        BY <1>0, <3>2 DEF Record, MAt
      <4>3. CASE Becomes(x, [me EXCEPT !.todo = me.todo \ {m}])
        BY <1>0, <4>2, <4>3 DEF Becomes, MigrType
      <4>4. CASE Becomes(x, [me EXCEPT !.pc = "stage", !.todo = me.todo \ {m}, !.mid = m,
                               !.snap = Recorded(x)[m], !.old = Generation(AreaOf(x), Target, m)])
        BY <1>0, <4>4 DEF Becomes, MigrType
      <4> QED
        BY <4>1, <4>3, <4>4
    <3>3. CASE Stage(x)
      <4> DEFINE g == IF me.staged = 0 THEN gens + 1 ELSE me.gen
                 i == me.staged + 1
                 pc == IF i = Chunks THEN "publish" ELSE "stage"
      <4>1. Becomes(x, [me EXCEPT !.gen = g, !.staged = i, !.pc = pc])
        BY <1>0, <1>2, <3>3 DEF Stage
      <4>2. pc \in {"stage", "publish"}
        OBVIOUS
      <4> HIDE DEF g, i, pc
      <4> QED
        BY <1>0, <4>1, <4>2 DEF Becomes, MigrType
    <3>4. CASE DropOld(x)
      <4>1. migr'[x] = [me EXCEPT !.pc = "record"]
        BY <1>0, <3>4 DEF DropOld, Becomes
      <4> QED
        BY <4>1 DEF MigrType
    <3>5. CASE NextArea(x)
      <4>1. \/ migr'[x] = [me EXCEPT !.ai = me.ai + 1, !.pc = "persist", !.next = "claim"]
            \/ migr'[x] = [me EXCEPT !.ai = 1, !.pc = "persist", !.next = "verify"]
        BY <1>0, <3>5 DEF NextArea, Becomes
      <4> QED
        BY <4>1 DEF MigrType
    <3> QED
      BY <3>1, <3>2, <3>3, <3>4, <3>5
  <2> QED
    BY <1>0, <2>1, SameDataKnows
<1> QED
  BY <1>1, <1>2

LEMMA RepublishKnows ==
  ASSUME NEW x \in Migrator, NEW me \in MigrType, Turn(x, me), Republish(x)
  PROVE  MigrOf(migr[x])'
<1>0. /\ Reads(me) /\ migr \in [Migrator -> MigrType] /\ me = migr[x] /\ AnyStep /\ Full(me.data)
      /\ me.pc = "publish" /\ Place(me) \in Area /\ AreaOf(x) = Place(me) /\ DataInv(me.data)'
  BY TurnKnows, BeforeAreas DEF Turn, Republish, MAt, Reads, AreaOf, Place
<1>1. CASE Released(x)
  BY <1>0, <1>1, ReleasedKnows DEF Released
<1> DEFINE done == [me EXCEPT !.pc = "record", !.staged = 0]
<1>2. CASE Becomes(x, done)
  <2>1. \E n \in {migr'[x]} : n.data = me.data /\ n.pc = "record"
    BY <1>0, <1>2 DEF Becomes, MigrType
  <2> QED
    BY <1>0, <2>1, SameDataKnows
<1>3. CASE ~Released(x) /\ ~Becomes(x, done)
  <2>1. /\ PublishedIn(Place(me), Target, me.mid, me.gen, parents[Place(me)][me.mid])
        /\ ~Gone(x) /\ Becomes(x, [done EXCEPT !.pc = "drop"])
    BY <1>0, <1>3 DEF Republish
  <2>2. PICK n \in {migr'[x]} :
          n.pc = "drop" /\ n.data = me.data /\ n.ai = me.ai /\ n.mid = me.mid /\ n.old = me.old
    BY <1>0, <2>1 DEF Becomes, MigrType
  <2>3. me.gen # me.old
    <3>1. me.staged # 0 /\ SettledGen(me.old)
      BY <1>0 DEF AnyStep, StoreInv, TypesOK, MigrTypes, GensInv
    <3> QED
      BY <1>0, <3>1 DEF SettledGen
  <2>4. PICK a \in Area, m \in {me.mid} : a = Place(me)
    BY <1>0
  <2>5. m \in DOMAIN parents[a] /\ parents[a][m] \in RecordType
    <3>1. m \in DOMAIN parents[a]
      BY <1>0, <2>1, <2>4 DEF Gone, Live
    <3> QED
      BY <1>0, <3>1, AreasAreTyped DEF AnyStep, AreaTypes
  <2>6. parents'[a][m].gen[Target] = me.gen
    <3>1. parents'[a][m] = [parents[a][m] EXCEPT !.gen[Target] = me.gen]
      <4>1. DOMAIN parents = Area /\ DOMAIN chunks = Area
        BY <1>0 DEF AnyStep, StoreInv, TypesOK, StoreTypes
      <4>2. PICK r \in RecordType, g \in {me.gen} : r = parents[a][m]
        BY <2>5
      <4>3. PublishedIn(a, Target, m, g, r)
        BY <2>1, <2>4, <4>2
      <4>4. parents' = [parents EXCEPT ![a] = Put(@, [k \in {m} |-> [r EXCEPT !.gen[Target] = g]])]
        BY <4>3 DEF PublishedIn
      <4>5. parents'[a] = Put(parents[a], [k \in {m} |-> [r EXCEPT !.gen[Target] = g]])
        BY <4>1, <4>4
      <4>6. parents'[a][m] = [r EXCEPT !.gen[Target] = g]
        BY <4>5 DEF Put
      <4> QED
        BY <4>2, <4>6
    <3> QED
      BY <2>5, <3>1, MigrationAssumption DEF RecordType
  <2>7. Embeds(n)'
    <3> Place(n) = a /\ n.mid = m /\ Place(n)' = Place(n)
      BY <2>2, <2>4 DEF Place
    <3> QED
      BY <2>2, <2>3, <2>6 DEF Embeds, Generation
  <2>8. Reads(n)
    BY <1>0, <2>2 DEF Reads
  <2>9. Reads(n)' /\ Verifies(n)' /\ Cleans(n)'
    BY <2>2, <2>8 DEF Verifies, Cleans, Reads, Before, Place, Full
  <2>10. MigrOf(n)'
    BY <1>0, <2>2, <2>7, <2>9 DEF MigrOf
  <2> QED
    BY <2>2, <2>10
<1> QED
  BY <1>1, <1>2, <1>3

\* An area that passes the comparison can be cut over.
LEMMA VerifiedAreas ==
  ASSUME NEW a \in Area, NEW data, Verified(a, data)
  PROVE  Ready(a) /\ Covered(a, data.records[a])
BY DEF Verified, Ready, Covered, Targeted, Complete, Live

LEMMA VerifyKnows ==
  ASSUME NEW x \in Migrator, NEW me \in MigrType, Turn(x, me), Verify(x)
  PROVE  MigrOf(migr[x])'
<1>0. /\ Reads(me) /\ migr \in [Migrator -> MigrType] /\ me = migr[x] /\ AnyStep /\ Full(me.data)
      /\ me.pc = "verify" /\ Place(me) \in Area /\ AreaOf(x) = Place(me) /\ DataInv(me.data)'
      /\ Verifies(me) /\ UNCHANGED memory
  BY TurnKnows, BeforeAreas DEF Turn, Verify, MAt, Reads, AreaOf, Place, MigrOf
<1>1. CASE Released(x)
  BY <1>0, <1>1, ReleasedKnows DEF Released
<1>2. CASE ~Released(x)
  <2>1. /\ Verified(Place(me), me.data)
        /\ migr'[x] = IF me.ai < Len(Order) THEN [me EXCEPT !.ai = me.ai + 1]
                      ELSE [me EXCEPT !.pc = "verified"]
    BY <1>0, <1>2 DEF Verify, Becomes
  <2>2. PICK n \in {migr'[x]} :
          /\ n.data = me.data
          /\ \/ n.pc = "verify" /\ n.ai = me.ai + 1 /\ me.ai < Len(Order)
             \/ n.pc = "verified" /\ ~(me.ai < Len(Order))
    BY <1>0, <2>1 DEF MigrType
  <2>3. \A a \in Before(me) \cup {Place(me)} : VerifiedSoFar(n, a)
    BY <1>0, <2>1, <2>2, VerifiedAreas DEF Verifies, VerifiedSoFar
  <2>4. /\ n.pc = "verify" => Before(n) = Before(me) \cup {Place(me)}
        /\ n.pc = "verified" => Area = Before(me) \cup {Place(me)}
    BY <2>2, BeforeAreas
  <2>5. Verifies(n)
    BY <2>2, <2>3, <2>4 DEF Verifies
  <2>6. Verifies(n)'
    BY <1>0, <2>5 DEF Verifies, VerifiedSoFar, Ready, Covered, Targeted, SameRun, Serves, Whole,
                      Generation, Present, Complete, Live, Expired, memory, Before
  <2>7. Reads(n)
    BY <1>0, <2>2 DEF Reads
  <2>8. Reads(n)' /\ Embeds(n)' /\ Cleans(n)'
    BY <2>2, <2>7 DEF Embeds, Cleans, Reads, Before, Place, Full
  <2>9. MigrOf(n)'
    BY <1>0, <2>2, <2>6, <2>8 DEF MigrOf
  <2> QED
    BY <2>2, <2>9
<1> QED
  BY <1>1, <1>2

LEMMA EndVerifyKnows ==
  ASSUME NEW x \in Migrator, NEW me \in MigrType, Turn(x, me), EndVerify(x)
  PROVE  MigrOf(migr[x])'
<1>0. /\ Reads(me) /\ migr \in [Migrator -> MigrType] /\ me = migr[x] /\ AnyStep /\ Full(me.data)
      /\ me.pc = "verified" /\ DataInv(me.data)' /\ me.data \in DataType
      /\ Verifies(me)' /\ MigrOf(me)'
  BY TurnKnows DEF Turn, EndVerify, MAt, Reads, MigrOf
<1>1. CASE Released(x)
  BY <1>0, <1>1, ReleasedKnows DEF Released
<1>2. \A a \in Area : VerifiedSoFar(me, a)'
  BY <1>0 DEF Verifies
<1>3. CASE Becomes(x, [me EXCEPT !.ai = 1, !.pc = "cut"])
  <2>1. PICK n \in {migr'[x]} : n.pc = "cut" /\ n.ai = 1 /\ n.data = me.data
    BY <1>0, <1>3 DEF MigrType, Becomes
  <2>2. Before(n) = {}
    BY <2>1 DEF Before
  <2>3. Verifies(n)'
    BY <1>2, <2>1, <2>2 DEF Verifies, Before, VerifiedSoFar
  <2>4. Reads(n)
    BY <1>0, <2>1 DEF Reads
  <2>5. Reads(n)' /\ Embeds(n)' /\ Cleans(n)'
    BY <2>1, <2>4 DEF Embeds, Cleans, Reads, Before, Place, Full
  <2>6. MigrOf(n)'
    BY <1>0, <2>1, <2>3, <2>5 DEF MigrOf
  <2> QED
    BY <2>1, <2>6
<1>4. CASE Becomes(x, [me EXCEPT !.data.phase = "verified", !.pc = "persist", !.next = "end"])
  <2>1. PICK d \in {[me.data EXCEPT !.phase = "verified"]} :
          /\ d.phase = "verified" /\ d.old = me.data.old /\ d.records = me.data.records
    BY <1>0 DEF DataType
  <2>2. \A a \in Area : Covered(a, d.records[a])'
    BY <1>2, <2>1 DEF VerifiedSoFar
  <2>3. DataInv(d)'
    BY <1>0, <2>1, <2>2 DEF DataInv, Full
  <2>4. migr'[x] = [me EXCEPT !.data = d, !.pc = "persist", !.next = "end"]
    BY <1>0, <1>4, <2>1 DEF Becomes
  <2>5. PICK n \in {migr'[x]} : n.pc = "persist" /\ n.next = "end" /\ n.data = d
    BY <1>0, <2>4 DEF MigrType
  <2>6. Reads(n)
    BY <1>0, <2>1, <2>5 DEF Reads, Full
  <2>7. MigrOf(n)'
    BY <2>3, <2>5, <2>6, QuietMigr DEF Watchful
  <2> QED
    BY <2>5, <2>7
<1>5. \/ Released(x) \/ Becomes(x, [me EXCEPT !.ai = 1, !.pc = "cut"])
      \/ Becomes(x, [me EXCEPT !.data.phase = "verified", !.pc = "persist", !.next = "end"])
  <2>1. CASE me.data.phase \in {"building", "verified"}
    <3>1. [[me EXCEPT !.data.phase = "verified"] EXCEPT !.pc = "persist", !.next = "end"] =
          [me EXCEPT !.data.phase = "verified", !.pc = "persist", !.next = "end"]
      OBVIOUS
    <3> QED
      BY <1>0, <2>1, <3>1 DEF EndVerify, Fenced, AfterVerify
  <2>2. CASE me.data.phase \notin {"building", "verified"}
    BY <1>0, <2>2 DEF EndVerify, Fenced, AfterVerify
  <2> QED
    BY <2>1, <2>2
<1> QED
  BY <1>1, <1>3, <1>4, <1>5

LEMMA CutKnows ==
  ASSUME NEW x \in Migrator, NEW me \in MigrType, Turn(x, me), Cut(x)
  PROVE  MigrOf(migr[x])'
<1>0. /\ Reads(me) /\ migr \in [Migrator -> MigrType] /\ me = migr[x] /\ AnyStep /\ Full(me.data)
      /\ me.pc = "cut" /\ DataInv(me.data)' /\ me.data \in DataType
      /\ Verifies(me)' /\ AreaOf(x) = Place(me) /\ Place(me) \in Area
      /\ state \in [Area -> StateType]
  BY TurnKnows, BeforeAreas
     DEF Turn, Cut, MAt, Reads, MigrOf, AreaOf, Place, AnyStep, StoreInv, TypesOK, StoreTypes
<1>1. CASE Released(x)
  BY <1>0, <1>1, ReleasedKnows DEF Released
<1>2. CASE ~Released(x)
  <2>1. /\ state' = [state EXCEPT ![Place(me)] = Active(Target)]
        /\ Becomes(x, IF me.ai < Len(Order) THEN [me EXCEPT !.ai = me.ai + 1]
                      ELSE [me EXCEPT !.data.phase = "cutover", !.pc = "persist", !.next = "end"])
    BY <1>0, <1>2 DEF Cut
  <2>2. /\ \A a \in Area : Ready(a)'
        /\ \A b \in Before(me) : Serves(b, Target)'
        /\ Serves(Place(me), Target)'
    <3>1. /\ \A a \in Area : Ready(a)'
          /\ \A b \in Before(me) : Serves(b, Target)'
      BY <1>0 DEF Verifies, Before
    <3>2. PICK a \in Area : a = Place(me)
      BY <1>0
    <3>3. Serves(a, Target)'
      BY <1>0, <2>1, <3>2 DEF Serves, Active, Blank
    <3>4. Place(me)' = Place(me)
      BY DEF Place
    <3> QED
      BY <3>1, <3>2, <3>3, <3>4
  <2>3. CASE me.ai < Len(Order)
    <3>1. PICK n \in {migr'[x]} : n.pc = "cut" /\ n.ai = me.ai + 1 /\ n.data = me.data
      BY <1>0, <2>1, <2>3 DEF Becomes, MigrType
    <3>2. Before(n) = Before(me) \cup {Place(me)}
      BY <3>1, BeforeAreas
    <3>3. \A a \in Before(n) : Serves(a, Target)'
      <4>1. PICK p \in {Place(me)} : TRUE
        OBVIOUS
      <4>2. Serves(p, Target)'
        BY <2>2, <4>1 DEF Place
      <4> QED
        BY <2>2, <3>2, <4>1, <4>2
    <3>4. Verifies(n)'
      BY <2>2, <3>1, <3>3 DEF Verifies, Before
    <3>5. Reads(n)
      BY <1>0, <3>1 DEF Reads
    <3>6. Reads(n)' /\ Embeds(n)' /\ Cleans(n)'
      BY <3>1, <3>5 DEF Embeds, Cleans, Reads, Before, Place, Full
    <3>7. MigrOf(n)'
      BY <1>0, <3>1, <3>4, <3>6 DEF MigrOf
    <3> QED
      BY <3>1, <3>7
  <2>4. CASE ~(me.ai < Len(Order))
    <3>1. PICK d \in {[me.data EXCEPT !.phase = "cutover"]} :
            /\ d.phase = "cutover" /\ d.old = me.data.old /\ d.records = me.data.records
      BY <1>0 DEF DataType
    <3>2. \A a \in Area : Serves(a, Target)'
      <4>1. PICK p \in {Place(me)} : TRUE
        OBVIOUS
      <4>2. Serves(p, Target)'
        BY <2>2, <4>1 DEF Place
      <4>3. Area = Before(me) \cup {p}
        BY <2>4, <4>1, BeforeAreas
      <4> QED
        BY <2>2, <4>2, <4>3
    <3>3. DataInv(d)'
      BY <1>0, <3>1, <3>2 DEF DataInv, Full
    <3>4. migr'[x] = [me EXCEPT !.data = d, !.pc = "persist", !.next = "end"]
      <4>1. migr'[x] = [me EXCEPT !.data.phase = "cutover", !.pc = "persist", !.next = "end"]
        BY <1>0, <2>1, <2>4 DEF Becomes
      <4> QED
        BY <3>1, <4>1
    <3>5. PICK n \in {migr'[x]} : n.pc = "persist" /\ n.next = "end" /\ n.data = d
      BY <1>0, <3>4 DEF MigrType
    <3>6. Reads(n)
      BY <1>0, <3>1, <3>5 DEF Reads, Full
    <3>7. MigrOf(n)'
      BY <3>3, <3>5, <3>6, QuietMigr DEF Watchful
    <3> QED
      BY <3>5, <3>7
  <2> QED
    BY <2>3, <2>4
<1> QED
  BY <1>1, <1>2

LEMMA CleanKnows ==
  ASSUME NEW x \in Migrator, NEW me \in MigrType, Turn(x, me), Clean(x)
  PROVE  MigrOf(migr[x])'
<1>0. /\ Reads(me) /\ migr \in [Migrator -> MigrType] /\ me = migr[x] /\ AnyStep /\ Full(me.data)
      /\ me.pc = "clean" /\ DataInv(me.data)' /\ Cleans(me)'
      /\ AreaOf(x) = Place(me) /\ Place(me) \in Area /\ UNCHANGED memory
  BY TurnKnows, BeforeAreas
     DEF Turn, Clean, MAt, Reads, MigrOf, AreaOf, Place
<1>1. CASE Released(x)
  BY <1>0, <1>1, ReleasedKnows DEF Released
<1>2. CASE ~Released(x)
  <2>1. /\ Serves(Place(me), Target)
        /\ Becomes(x, [me EXCEPT !.pc = "keys", !.todo = DOMAIN me.data.records[Place(me)]])
    BY <1>0, <1>2 DEF Clean, Recorded
  <2>2. PICK n \in {migr'[x]} : /\ n.pc = "keys" /\ n.ai = me.ai /\ n.data = me.data
                                /\ n.todo = DOMAIN me.data.records[Place(me)]
    BY <1>0, <2>1 DEF Becomes, MigrType
  <2>3. Place(n) = Place(me) /\ Before(n) = Before(me)
    BY <2>2 DEF Place, Before
  <2>4. Reads(n)
    BY <1>0, <2>2, <2>3 DEF Reads
  <2>5. \A a \in Before(n) : CleanedIn(n, a, DOMAIN n.data.records[a])'
    BY <1>0, <2>2, <2>3 DEF Cleans, CleanedIn, OldIn, Before
  <2>6. CleanedIn(n, Place(n), {})'
    BY <1>0, <2>1, <2>3 DEF CleanedIn, Serves, memory, Place
  <2>7. Cleans(n)'
    <3> DOMAIN n.data.records[Place(n)] \ n.todo = {}
      BY <2>2, <2>3
    <3> QED
      BY <2>2, <2>5, <2>6 DEF Cleans, Before, Place
  <2>8. Reads(n)' /\ Embeds(n)' /\ Verifies(n)'
    BY <2>2, <2>4 DEF Embeds, Verifies, Reads, Before, Place, Full
  <2>9. MigrOf(n)'
    BY <1>0, <2>2, <2>7, <2>8 DEF MigrOf
  <2> QED
    BY <2>2, <2>9
<1> QED
  BY <1>1, <1>2

\* The shape of what is known while an area is cleaned, for a record with the same place.
SamePlace(n, me) == n.ai = me.ai /\ n.data = me.data

LEMMA SamePlaceCleans ==
  ASSUME NEW me, NEW n, SamePlace(n, me)
  PROVE  /\ Place(n) = Place(me) /\ Before(n) = Before(me)
         /\ \A a, ids : CleanedIn(n, a, ids)' <=> CleanedIn(me, a, ids)'
         /\ \A a : OldIn(n, a) = OldIn(me, a)
BY DEF SamePlace, Place, Before, CleanedIn, OldIn

LEMMA CleanKeysKnows ==
  ASSUME NEW x \in Migrator, NEW me \in MigrType, Turn(x, me), CleanKeys(x)
  PROVE  MigrOf(migr[x])'
<1>0. /\ Reads(me) /\ migr \in [Migrator -> MigrType] /\ me = migr[x] /\ AnyStep /\ Full(me.data)
      /\ me.pc = "keys" /\ DataInv(me.data)' /\ Cleans(me)'
      /\ AreaOf(x) = Place(me) /\ Place(me) \in Area /\ DOMAIN chunks = Area
  BY TurnKnows, BeforeAreas
     DEF Turn, CleanKeys, MAt, Reads, MigrOf, AreaOf, Place, AnyStep, StoreInv, TypesOK, StoreTypes
<1>1. CASE Released(x)
  BY <1>0, <1>1, ReleasedKnows DEF Released
<1>2. CASE ~Released(x)
  <2>1. PICK m \in me.todo :
          /\ chunks' = Without(Place(me), OldKeys(x, m))
          /\ Becomes(x, [me EXCEPT !.todo = me.todo \ {m}, !.mid = m, !.pc = "fields"])
    BY <1>0, <1>2 DEF CleanKeys
  <2>2. PICK n \in {migr'[x]} : /\ n.pc = "fields" /\ n.ai = me.ai /\ n.data = me.data
                                /\ n.todo = me.todo \ {m} /\ n.mid = m
    BY <1>0, <2>1 DEF Becomes, MigrType
  <2>3. /\ Place(n) = Place(me) /\ Before(n) = Before(me)
        /\ \A a, ids : CleanedIn(n, a, ids)' <=> CleanedIn(me, a, ids)'
        /\ \A a : OldIn(n, a) = OldIn(me, a)
    BY <2>2, SamePlaceCleans DEF SamePlace
  <2>4. Reads(n)
    BY <1>0, <2>2, <2>3 DEF Reads
  <2>5. \A a \in Before(n) : CleanedIn(n, a, DOMAIN n.data.records[a])'
    BY <1>0, <2>2, <2>3 DEF Cleans, Before
  <2>6. CleanedIn(n, Place(n), DOMAIN n.data.records[Place(n)] \ (n.todo \cup {n.mid}))'
    <3>1. PICK a \in {Place(me)}, ids \in {DOMAIN me.data.records[Place(me)] \ me.todo} : TRUE
      OBVIOUS
    <3>2. CleanedIn(me, a, ids)'
      BY <1>0, <3>1 DEF Cleans, Place
    <3>3. ids = DOMAIN n.data.records[Place(n)] \ (n.todo \cup {n.mid}) /\ a = Place(n)
      BY <2>2, <2>3, <3>1
    <3>4. CleanedIn(n, a, ids)'
      BY <2>3, <3>2
    <3> QED
      BY <3>3, <3>4 DEF Place
  <2>7. (\A k \in Present(Place(n)) : k.mid = n.mid => k.profile # OldIn(n, Place(n)))'
    <3>1. PICK a \in Area : a = Place(me)
      BY <1>0
    <3>2. chunks'[a] = [k \in DOMAIN chunks[a] \ OldKeys(x, m) |-> chunks[a][k]]
      BY <1>0, <2>1, <3>1 DEF Without
    <3>3. \A k \in DOMAIN chunks'[a] : k.mid = m => k.profile # OldIn(me, a)
      BY <1>0, <3>1, <3>2 DEF OldKeys, OldOf, OldIn, Present
    <3>4. a = Place(n) /\ n.mid = m /\ OldIn(n, a) = OldIn(me, a)
      BY <2>2, <2>3, <3>1
    <3> QED
      BY <3>3, <3>4 DEF Present, OldIn, Place
  <2>8. Cleans(n)'
    BY <2>2, <2>5, <2>6, <2>7 DEF Cleans, Before
  <2>9. Reads(n)' /\ Embeds(n)' /\ Verifies(n)'
    BY <2>2, <2>4 DEF Embeds, Verifies, Reads, Before, Place, Full
  <2>10. MigrOf(n)'
    BY <1>0, <2>2, <2>8, <2>9 DEF MigrOf
  <2> QED
    BY <2>2, <2>10
<1> QED
  BY <1>1, <1>2

LEMMA CleanFieldsKnows ==
  ASSUME NEW x \in Migrator, NEW me \in MigrType, Turn(x, me), CleanFields(x)
  PROVE  MigrOf(migr[x])'
<1>0. /\ Reads(me) /\ migr \in [Migrator -> MigrType] /\ me = migr[x] /\ AnyStep /\ Full(me.data)
      /\ me.pc = "fields" /\ DataInv(me.data)' /\ Cleans(me)' /\ me.data \in DataType
      /\ AreaOf(x) = Place(me) /\ Place(me) \in Area /\ DOMAIN parents = Area
      /\ DataInv(me.data)
  BY TurnKnows, BeforeAreas
     DEF Turn, CleanFields, MAt, Reads, MigrOf, AreaOf, Place, AnyStep, StoreInv, TypesOK, StoreTypes
<1>1. CASE Released(x)
  BY <1>0, <1>1, ReleasedKnows DEF Released
<1>2. CASE ~Released(x)
  <2>1. /\ Becomes(x, [me EXCEPT !.pc = "keys"])
        /\ \/ ~Live(Place(me), me.mid) /\ UNCHANGED parents
           \/ parents' = [parents EXCEPT ![Place(me)][me.mid].gen[OldOf(x)] = 0]
    BY <1>0, <1>2 DEF CleanFields
  <2>2. PICK n \in {migr'[x]} : /\ n.pc = "keys" /\ n.ai = me.ai /\ n.data = me.data
                                /\ n.todo = me.todo
    BY <1>0, <2>1 DEF Becomes, MigrType
  <2>3. /\ Place(n) = Place(me) /\ Before(n) = Before(me)
        /\ \A a, ids : CleanedIn(n, a, ids)' <=> CleanedIn(me, a, ids)'
        /\ \A a : OldIn(n, a) = OldIn(me, a)
    BY <2>2, SamePlaceCleans DEF SamePlace
  <2>4. Reads(n)
    BY <1>0, <2>2, <2>3 DEF Reads
  <2>5. \A a \in Before(n) : CleanedIn(n, a, DOMAIN n.data.records[a])'
    BY <1>0, <2>2, <2>3 DEF Cleans, Before
  <2>6. PICK a \in Area, m \in {me.mid}, old \in AnyProfile : a = Place(me) /\ old = OldIn(me, a)
    <3>1. me.data.old[Place(me)] \in StateType
      BY <1>0 DEF DataType, Partial, Full
    <3> QED
      BY <1>0, <3>1 DEF StateType, OldIn
  <2>7. m \in DOMAIN parents'[a] => parents'[a][m].gen[old] = 0
    <3>1. CASE UNCHANGED parents /\ ~Live(Place(me), me.mid)
      BY <2>6, <3>1 DEF Live
    <3>2. CASE parents' = [parents EXCEPT ![Place(me)][me.mid].gen[OldOf(x)] = 0]
      <4>1. OldOf(x) = old
        BY <1>0, <2>6 DEF OldOf, OldIn
      <4>2. parents' = [parents EXCEPT ![a][m].gen[old] = 0]
        BY <2>6, <3>2, <4>1
      <4>3. DOMAIN parents'[a] = DOMAIN parents[a]
        BY <1>0, <4>2
      <4>4. ASSUME m \in DOMAIN parents[a] PROVE parents'[a][m].gen[old] = 0
        <5>1. parents[a][m] \in RecordType
          BY <1>0, <4>4, AreasAreTyped DEF AnyStep, AreaTypes
        <5>2. parents'[a][m] = [parents[a][m] EXCEPT !.gen[old] = 0]
          BY <1>0, <4>2, <4>4
        <5> QED
          BY <2>6, <5>1, <5>2 DEF RecordType, AnyProfile
      <4> QED
        BY <4>3, <4>4
    <3> QED
      BY <2>1, <3>1, <3>2
  <2>8. Cleaned(a, m, old)'
    <3>1. \A k \in DOMAIN chunks'[a] : k.mid = m => k.profile # old
      BY <1>0, <2>6 DEF Cleans, Present, OldIn, Place
    <3> QED
      BY <2>7, <3>1 DEF Cleaned, Live, Generation, Present
  <2>9. CleanedIn(n, Place(n), DOMAIN n.data.records[Place(n)] \ n.todo)'
    <3>1. PICK most \in {DOMAIN me.data.records[Place(me)] \ (me.todo \cup {me.mid})},
               ids \in {DOMAIN me.data.records[Place(me)] \ me.todo} : TRUE
      OBVIOUS
    <3>2. CleanedIn(me, a, most)'
      BY <1>0, <2>6, <3>1 DEF Cleans, Place
    <3>3. CleanedIn(me, a, ids)'
      <4>1. \A i \in ids : i \in most \/ i = m
        BY <2>6, <3>1
      <4>2. Serves(a, Target)' /\ \A i \in most : Cleaned(a, i, old)'
        BY <2>6, <3>2 DEF CleanedIn, OldIn
      <4>3. \A i \in ids : Cleaned(a, i, old)'
        BY <2>8, <4>1, <4>2
      <4> QED
        BY <2>6, <4>2, <4>3 DEF CleanedIn, OldIn
    <3>4. ids = DOMAIN n.data.records[Place(n)] \ n.todo /\ a = Place(n)
      BY <2>2, <2>3, <2>6, <3>1
    <3>5. CleanedIn(n, a, ids)'
      BY <2>3, <3>3
    <3> QED
      BY <3>4, <3>5 DEF Place
  <2>10. Cleans(n)'
    BY <2>2, <2>5, <2>9 DEF Cleans, Before
  <2>11. Reads(n)' /\ Embeds(n)' /\ Verifies(n)'
    BY <2>2, <2>4 DEF Embeds, Verifies, Reads, Before, Place, Full
  <2>12. MigrOf(n)'
    BY <1>0, <2>2, <2>10, <2>11 DEF MigrOf
  <2> QED
    BY <2>2, <2>12
<1> QED
  BY <1>1, <1>2

LEMMA NextCleanKnows ==
  ASSUME NEW x \in Migrator, NEW me \in MigrType, Turn(x, me), NextClean(x)
  PROVE  MigrOf(migr[x])'
<1>0. /\ Reads(me) /\ migr \in [Migrator -> MigrType] /\ me = migr[x] /\ Full(me.data)
      /\ me.pc = "keys" /\ me.todo = {} /\ DataInv(me.data)' /\ Cleans(me)'
      /\ me.data \in DataType
      /\ Place(me) \in Area
      /\ Becomes(x, IF me.ai < Len(Order) THEN [me EXCEPT !.ai = me.ai + 1, !.pc = "clean"]
                    ELSE [me EXCEPT !.data.phase = "cleaned", !.pc = "persist", !.next = "end"])
  BY TurnKnows, BeforeAreas DEF Turn, NextClean, MAt, Reads, MigrOf
<1>1. \A a \in Before(me) \cup {Place(me)} : CleanedIn(me, a, DOMAIN me.data.records[a])'
  <2>1. PICK p \in {Place(me)} : TRUE
    OBVIOUS
  <2>2. \A a \in Before(me) : CleanedIn(me, a, DOMAIN me.data.records[a])'
    BY <1>0 DEF Cleans, Before
  <2>3. PICK ids \in {DOMAIN me.data.records[p] \ me.todo} : TRUE
    OBVIOUS
  <2>4. CleanedIn(me, p, ids)'
    BY <1>0, <2>1, <2>3 DEF Cleans, Place
  <2>5. ids = DOMAIN me.data.records[p]
    BY <1>0, <2>3
  <2>6. CleanedIn(me, p, DOMAIN me.data.records[p])'
    BY <2>4, <2>5
  <2> QED
    BY <2>1, <2>2, <2>6
<1>2. CASE me.ai < Len(Order)
  <2>1. PICK n \in {migr'[x]} : n.pc = "clean" /\ n.ai = me.ai + 1 /\ n.data = me.data
    BY <1>0, <1>2 DEF Becomes, MigrType
  <2>2. Before(n) = Before(me) \cup {Place(me)}
    BY <2>1, BeforeAreas
  <2>3. \A a \in Before(n) : CleanedIn(n, a, DOMAIN n.data.records[a])'
    BY <1>1, <2>1, <2>2 DEF CleanedIn, OldIn
  <2>4. Cleans(n)'
    BY <2>1, <2>3 DEF Cleans, Before
  <2>5. Reads(n)
    BY <1>0, <2>1 DEF Reads
  <2>6. Reads(n)' /\ Embeds(n)' /\ Verifies(n)'
    BY <2>1, <2>5 DEF Embeds, Verifies, Reads, Before, Place, Full
  <2>7. MigrOf(n)'
    BY <1>0, <2>1, <2>4, <2>6 DEF MigrOf
  <2> QED
    BY <2>1, <2>7
<1>3. CASE ~(me.ai < Len(Order))
  <2>1. PICK d \in {[me.data EXCEPT !.phase = "cleaned"]} :
          d.phase = "cleaned" /\ d.old = me.data.old /\ d.records = me.data.records
    BY <1>0 DEF DataType
  <2>2. Area = Before(me) \cup {Place(me)}
    BY <1>3, BeforeAreas
  <2>3. \A a \in Area : CleanedIn(me, a, DOMAIN me.data.records[a])'
    BY <1>1, <2>2
  <2>4. /\ \A a \in Area : Serves(a, Target)'
        /\ \A a \in Area : \A m \in DOMAIN d.records[a] : Cleaned(a, m, d.old[a].profile)'
    BY <2>1, <2>3 DEF CleanedIn, OldIn
  <2>5. DataInv(d)'
    BY <1>0, <2>1, <2>4 DEF DataInv, Full
  <2>6. migr'[x] = [me EXCEPT !.data = d, !.pc = "persist", !.next = "end"]
    BY <1>0, <1>3, <2>1 DEF Becomes
  <2>7. PICK n \in {migr'[x]} : n.pc = "persist" /\ n.next = "end" /\ n.data = d
    BY <1>0, <2>6 DEF MigrType
  <2>8. Reads(n)
    BY <1>0, <2>1, <2>7 DEF Reads, Full
  <2>9. MigrOf(n)'
    BY <2>5, <2>7, <2>8, QuietMigr DEF Watchful
  <2> QED
    BY <2>7, <2>9
<1> QED
  BY <1>2, <1>3

LEMMA MigratorKnows ==
  ASSUME NEW x \in Migrator, AnyStep, MigrInv(x), MigratorStep(x),
         manifest # None => manifest \in DataType /\ DataInv(manifest) /\ Full(manifest)
  PROVE  MigrInv(x)'
<1>1. PICK me \in MigrType : Turn(x, me)
  BY DEF AnyStep, StoreInv, TypesOK, MigrTypes, Turn, MigrInv
<1>2. CASE \E cmd \in {"build", "verify", "cutover", "cleanup"} : Begin(x, cmd)
  BY <1>1, <1>2, BeginKnows DEF MigrInv
<1>3. CASE TakeLock(x) \/ Load(x) \/ Source(x) \/ Records(x) \/ Persist(x) \/ Mark(x)
  BY <1>1, <1>3, TakeLockKnows, LoadKnows, SourceKnows, RecordsKnows, PersistKnows, MarkKnows
     DEF MigrInv
<1>4. CASE Claim(x) \/ Record(x) \/ Stage(x) \/ Republish(x) \/ DropOld(x) \/ NextArea(x)
  BY <1>1, <1>4, EmbeddingKnows, RepublishKnows DEF MigrInv
<1>5. CASE Verify(x) \/ EndVerify(x) \/ Cut(x)
  BY <1>1, <1>5, VerifyKnows, EndVerifyKnows, CutKnows DEF MigrInv
<1>6. CASE Clean(x) \/ CleanKeys(x) \/ CleanFields(x) \/ NextClean(x)
  BY <1>1, <1>6, CleanKnows, CleanKeysKnows, CleanFieldsKnows, NextCleanKnows DEF MigrInv
<1>7. CASE Fail(x) \/ Crash(x)
  BY <1>7, ReleasedKnows DEF MigrInv, Fail, Crash, Released
<1> QED
  BY <1>2, <1>3, <1>4, <1>5, <1>6, <1>7 DEF MigratorStep

(***************************************************************************)
(* The invariant.                                                          *)
(***************************************************************************)
LEMMA InitStore ==
  ASSUME MigrationInit
  PROVE  StoreTypes /\ LiveIds /\ LiveGens /\ EveryRecordIsServed
<1>1. /\ \A c \in Client : client[c].op = "none" /\ client[c].staged = 0
      /\ \A x \in Migrator : migr[x].staged = 0
  BY DEF MigrationInit, Idle, Off
<1>2. /\ \A m \in used : Settled(m)
      /\ \A g \in 0..gens : SettledGen(g)
  BY <1>1 DEF Settled, Saves, SettledGen
<1>3. \A a \in Area : /\ state[a] \in StateType
                      /\ state[a].status = "none" => state[a].profile = Legacy
  <2>1. Blank \in StateType /\ Blank.profile = Legacy
    BY DEF Blank, StateType, AnyProfile
  <2>2. ASSUME NEW p \in Profile PROVE Active(p) \in StateType /\ Active(p).status = "active"
    BY DEF Active, Blank, StateType, AnyProfile
  <2>3. ASSUME NEW a \in Area PROVE (\E p \in Profile : state[a] = Active(p)) \/ state[a] = Blank
    BY DEF MigrationInit, StoreInOrder
  <2> QED
    BY <2>1, <2>2, <2>3
<1>4. StoreTypes
  BY <1>3 DEF MigrationInit, StoreInOrder, StoreTypes, AreaTypes
<1>5. LiveIds
  BY <1>2 DEF LiveIds, MigrationInit, StoreInOrder
<1>6. LiveGens
  <2>1. ASSUME NEW a \in Area, NEW m \in DOMAIN parents[a], NEW p \in AnyProfile
        PROVE  Generation(a, p, m) \in 0..gens
    <3>1. parents[a][m] \in RecordType /\ gens \in Nat /\ Generation(a, p, m) <= gens
      BY DEF MigrationInit, StoreInOrder, AnyProfile
    <3>2. Generation(a, p, m) \in Nat
      BY <3>1 DEF Generation, RecordType, AnyProfile
    <3> QED
      BY <3>1, <3>2
  <2> QED
    BY <1>2, <2>1 DEF LiveGens
<1> QED
  BY <1>4, <1>5, <1>6 DEF EveryRecordIsServed, MigrationInit, StoreInOrder

LEMMA InitIInv ==
  ASSUME MigrationInit
  PROVE  IInv
<1>1. /\ \A c \in Client : client[c] = Idle
      /\ \A x \in Migrator : migr[x] = Off
      /\ client \in [Client -> ClientType] /\ migr \in [Migrator -> MigrType]
      /\ lock \in Nat /\ runs \in Nat /\ manifest = None /\ gens \in Nat
  BY IdleIsTyped, OffIsTyped DEF MigrationInit, StoreInOrder
<1>2. /\ Idle.pc = "idle" /\ Idle.op = "none" /\ Idle.staged = 0 /\ Idle.before = {}
      /\ Off.pc = "off" /\ Off.staged = 0 /\ Off.old = 0 /\ Off.data = NoData
      /\ Off.ai = 1 /\ Off.cmd = "none"
  BY DEF Idle, Off
<1>3. TypesOK
  <2>1. \A c \in Client : ClientTypes(c)
    BY <1>1, <1>2, IdleIsTyped DEF ClientTypes, Saves
  <2>2. \A x \in Migrator : MigrTypes(x)
    BY <1>1, <1>2, OffIsTyped DEF MigrTypes
  <2> QED
    BY <1>1, <2>1, <2>2, InitStore DEF TypesOK
<1>4. IdsInv
  BY <1>1, <1>2 DEF IdsInv, Saves
<1>5. GensInv
  <2>1. SettledGen(0)
    BY <1>1, <1>2 DEF SettledGen
  <2> QED
    BY <1>1, <1>2, <2>1 DEF GensInv
<1>6. MigrOf(Off)
  <2>1. Reads(Off) /\ Embeds(Off) /\ Verifies(Off) /\ Cleans(Off)
    BY <1>2 DEF Reads, Embeds, Verifies, Cleans
  <2> QED
    BY <1>2, <2>1, NothingKnown DEF MigrOf
<1>7. \A c \in Client : Provisions(c) /\ SearchInv(c)
  BY <1>1, <1>2 DEF Provisions, SearchInv, SearchOf, Searching
<1> QED
  BY <1>1, <1>3, <1>4, <1>5, <1>6, <1>7, InitStore DEF IInv, MigrInv

LEMMA OthersStay ==
  ASSUME IInv, AnyStep
  PROVE  /\ \A c \in Client : client'[c] = client[c] => Provisions(c)' /\ SearchInv(c)'
         /\ \A x \in Migrator : migr'[x] = migr[x] => MigrInv(x)'
         /\ manifest' = manifest => (manifest # None => DataInv(manifest) /\ Full(manifest))'
<1>1. ASSUME NEW c \in Client, client'[c] = client[c] PROVE Provisions(c)' /\ SearchInv(c)'
  <2>1. PICK me \in ClientType : me = client[c] /\ me = client'[c]
    BY <1>1 DEF IInv, TypesOK
  <2>2. SearchOf(me)'
    BY <2>1, EveryClientRemembers, SearchStays DEF IInv, AnyStep, SearchInv
  <2>3. Provisions(c)'
    <3>1. SUFFICES ASSUME me.pc = "provision", state'[me.area].status = "none"
                   PROVE  DOMAIN parents'[me.area] = {}
      BY <2>1 DEF Provisions
    <3>2. me.area \in Area
      BY <2>1, <3>1, EveryClientRemembers DEF AnyStep, Remembers
    <3>3. state[me.area].status = "none" => DOMAIN parents[me.area] = {}
      BY <2>1, <3>1 DEF IInv, Provisions
    <3> QED
      BY <3>1, <3>2, <3>3, EmptyStays
  <2> QED
    BY <2>1, <2>2, <2>3 DEF SearchInv
<1>2. ASSUME NEW x \in Migrator, migr'[x] = migr[x] PROVE MigrInv(x)'
  <2>1. PICK me \in MigrType : me = migr[x] /\ me = migr'[x]
    BY <1>2 DEF IInv, TypesOK
  <2>2. MigrOf(me) /\ SettledGen(me.old) /\ (me.pc = "drop" => Settled(me.mid))
    BY <2>1 DEF IInv, MigrInv, IdsInv, GensInv
  <2>3. MigrOf(me)'
    BY <2>2, MigrStays
  <2> QED
    BY <2>1, <2>3 DEF MigrInv
<1>3. ASSUME manifest' = manifest, manifest' # None PROVE DataInv(manifest)' /\ Full(manifest')
  <2>1. PICK d \in DataType : d = manifest /\ d = manifest'
    BY <1>3 DEF IInv, TypesOK
  <2>2. DataInv(d) /\ Full(d)
    BY <1>3, <2>1 DEF IInv
  <2>3. DataInv(d)'
    BY <2>2, DataStays
  <2> QED
    BY <2>1, <2>2, <2>3
<1> QED
  BY <1>1, <1>2, <1>3 DEF Full

LEMMA StayingTypes ==
  ASSUME TypesOK, used \subseteq used'
  PROVE  /\ \A c \in Client : client'[c] = client[c] => ClientTypes(c)'
         /\ \A x \in Migrator : migr'[x] = migr[x] => MigrTypes(x)'
<1>1. ASSUME NEW c \in Client, client'[c] = client[c] PROVE ClientTypes(c)'
  <2>1. PICK me \in ClientType : me = client[c] /\ me = client'[c]
    BY <1>1 DEF TypesOK
  <2> QED
    BY <2>1 DEF TypesOK, ClientTypes, Saves
<1>2. ASSUME NEW x \in Migrator, migr'[x] = migr[x] PROVE MigrTypes(x)'
  BY <1>2 DEF TypesOK, MigrTypes
<1> QED
  BY <1>1, <1>2

LEMMA QuietStep ==
  ASSUME IInv, UNCHANGED <<used, gens, client, migr>>, UNCHANGED <<runs, manifest>>,
         lock' \in Nat, calls' \in Nat,
         Tick \/ UNCHANGED memory
  PROVE  IInv'
<1>1. StoreInv /\ TypesOK /\ IdsInv /\ GensInv /\ used \subseteq Mid /\ gens \in Nat
  BY DEF IInv, StoreInv, TypesOK, StoreTypes
<1>2. SettledStays /\ IdsInv' /\ GensInv'
  BY <1>1, NobodySettles
<1>3. StoreStep /\ StoreTypes' /\ LiveIds' /\ LiveGens'
  BY <1>1, <1>2, TickStore, UnchangedStore DEF memory
<1>4. AnyStep
  BY <1>1, <1>2, <1>3 DEF AnyStep
<1>5. TypesOK'
  BY <1>1, <1>3, StayingTypes DEF TypesOK
<1> QED
  BY <1>2, <1>3, <1>4, <1>5, ServedStays, OthersStay DEF IInv

LEMMA ClientKeepsIInv ==
  ASSUME IInv, NEW c \in Client, ClientStep(c), UNCHANGED mvars
  PROVE  IInv'
<1>1. StoreInv /\ TypesOK /\ LiveIds /\ LiveGens /\ IdsInv /\ GensInv /\ EveryRecordIsServed
      /\ Provisions(c) /\ SearchOf(client[c]) /\ UNCHANGED <<lock, runs, manifest, migr>>
  BY DEF IInv, StoreInv, SearchInv, mvars
<1>2. ClientMoves(c, client'[c]) /\ ClientTypes(c)'
  BY <1>1, ClientStepMoves
<1>3. SettledStays /\ IdsInv' /\ GensInv'
  BY <1>1, <1>2, ClientSettles
<1>4. StoreStep /\ StoreTypes' /\ LiveIds' /\ LiveGens'
  BY <1>1, <1>2, <1>3, ClientStepStore
<1>5. AnyStep
  BY <1>1, <1>3, <1>4 DEF AnyStep
<1>6. /\ client' \in [Client -> ClientType] /\ used \subseteq used'
      /\ \A d \in Client \ {c} : client'[d] = client[d]
  BY <1>1, <1>2 DEF ClientMoves, TypesOK
<1>7. TypesOK'
  <2>1. \A d \in Client : ClientTypes(d)'
    BY <1>1, <1>2, <1>6, StayingTypes
  <2>2. \A x \in Migrator : MigrTypes(x)'
    BY <1>1, <1>6, StayingTypes
  <2> QED
    BY <1>1, <1>4, <1>6, <2>1, <2>2 DEF TypesOK
<1>8. \A d \in Client : Provisions(d)' /\ SearchInv(d)'
  <2>1. Provisions(c)' /\ SearchInv(c)'
    BY <1>1, <1>5, ClientSearches, ClientProvisions DEF SearchInv
  <2> QED
    BY <1>5, <1>6, <2>1, OthersStay
<1>9. /\ \A x \in Migrator : MigrInv(x)'
      /\ (manifest # None => DataInv(manifest) /\ Full(manifest))'
  BY <1>1, <1>5, OthersStay
<1> QED
  BY <1>3, <1>4, <1>5, <1>7, <1>8, <1>9, ServedStays DEF IInv

LEMMA ManifestKept ==
  ASSUME IInv, AnyStep, NEW x \in Migrator, MigratorStep(x)
  PROVE  (manifest # None => DataInv(manifest) /\ Full(manifest))'
<1>1. CASE Persist(x)
  <2>1. PICK me \in MigrType : Turn(x, me)
    BY DEF IInv, TypesOK, Turn, MigrInv
  <2>2. manifest' = me.data /\ DataInv(me.data)' /\ Full(me.data)
    BY <1>1, <2>1, TurnKnows DEF Persist, Turn, MAt, Reads
  <2> QED
    BY <2>2 DEF Full
<1>2. CASE ~Persist(x)
  <2>1. UNCHANGED manifest
    BY <1>2 DEF MigratorStep, Begin, TakeLock, Load, Source, Records, Mark, Claim, Record, Stage,
                Republish, DropOld, NextArea, Verify, EndVerify, Cut, Clean, CleanKeys,
                CleanFields, NextClean, Fail, Crash
  <2> QED
    BY <2>1, OthersStay
<1> QED
  BY <1>1, <1>2

LEMMA MigratorKeepsIInv ==
  ASSUME IInv, NEW x \in Migrator, MigratorStep(x)
  PROVE  IInv'
<1>1. StoreInv /\ TypesOK /\ IdsInv /\ GensInv /\ MigrInv(x) /\ Reads(migr[x])
      /\ (manifest # None => manifest \in DataType /\ DataInv(manifest) /\ Full(manifest))
  BY DEF IInv, StoreInv, TypesOK, MigrInv, MigrOf
<1>2. Acted(x) /\ runs' \in Nat /\ (manifest' # None => manifest' \in DataType)
  BY <1>1, MigratorStepMoves
<1>3. MigrMoves(x, migr'[x]) /\ MigrTypes(x)' /\ lock' \in Nat
  BY <1>2 DEF Acted
<1>4. SettledStays /\ IdsInv' /\ GensInv'
  BY <1>1, <1>3, MigrSettles
<1>5. StoreStep /\ StoreTypes' /\ LiveIds' /\ LiveGens'
  BY <1>1, <1>3, <1>4, MigratorStepStore
<1>6. AnyStep
  BY <1>1, <1>4, <1>5 DEF AnyStep
<1>7. /\ migr' \in [Migrator -> MigrType] /\ UNCHANGED <<client, used>>
      /\ \A y \in Migrator \ {x} : migr'[y] = migr[y]
  BY <1>1, <1>3 DEF MigrMoves, TypesOK
<1>8. TypesOK'
  <2>1. \A y \in Migrator : MigrTypes(y)'
    BY <1>1, <1>3, <1>7, StayingTypes
  <2>2. \A c \in Client : ClientTypes(c)'
    BY <1>1, <1>7, StayingTypes
  <2> QED
    BY <1>1, <1>2, <1>3, <1>5, <1>7, <2>1, <2>2 DEF TypesOK
<1>9. \A y \in Migrator : MigrInv(y)'
  BY <1>1, <1>6, <1>7, MigratorKnows, OthersStay
<1>10. \A c \in Client : Provisions(c)' /\ SearchInv(c)'
  BY <1>6, <1>7, OthersStay
<1>11. (manifest # None => DataInv(manifest) /\ Full(manifest))'
  BY <1>6, ManifestKept
<1> QED
  BY <1>4, <1>5, <1>6, <1>8, <1>9, <1>10, <1>11, ServedStays DEF IInv

LEMMA StepIInv ==
  ASSUME IInv, [MigrationNext]_Everything
  PROVE  IInv'
<1>1. now \in Nat /\ calls \in Nat /\ lock \in Nat
  BY DEF IInv, TypesOK, StoreTypes
<1>2. CASE Tick /\ UNCHANGED mvars
  BY <1>1, <1>2, QuietStep DEF Tick, mvars
<1>3. ASSUME NEW c \in Client, ClientStep(c), UNCHANGED mvars PROVE IInv'
  BY <1>3, ClientKeepsIInv
<1>4. ASSUME NEW x \in Migrator, MigratorStep(x) PROVE IInv'
  BY <1>4, MigratorKeepsIInv
<1>5. CASE LockExpires
  BY <1>1, <1>5, QuietStep DEF LockExpires, memory
<1>6. CASE UNCHANGED Everything
  BY <1>1, <1>6, QuietStep DEF Everything, mvars, memory
<1> QED
  BY <1>2, <1>3, <1>4, <1>5, <1>6 DEF MigrationNext

\* Types, ids and generations, what is stored, and what every client and every
\* migrator knows of it stay as IInv says, in every behaviour of the whole.
THEOREM MemoryInvariant == MigrationSpec => []IInv
<1>1. MigrationInit => IInv
  BY InitIInv
<1>2. IInv /\ [MigrationNext]_Everything => IInv'
  BY StepIInv
<1> QED
  BY <1>1, <1>2, PTL DEF MigrationSpec, Everything

\* Publication, touch, deletion, expiry and every step of a migration keep a
\* record and the vectors its area serves together, for any number of clients,
\* migrators, areas and records (memory_index.py's scripts, migrate.py).
THEOREM RecordsAreServed == MigrationSpec => []EveryRecordIsServed
<1>1. IInv => EveryRecordIsServed
  BY DEF IInv
<1> QED
  BY <1>1, MemoryInvariant, PTL

\* A search that gives up widening has found every record that was published
\* when it counted and still is (MemoryIndex.search).
THEOREM SearchesFind == MigrationSpec => []SearchFinds
<1>1. IInv => SearchFinds
  <2> SUFFICES ASSUME IInv, NEW c \in Client PROVE
          At(c, "found") /\ ~client[c].crowded /\ Cardinality(client[c].found) < TopK
          /\ Serves(client[c].area, client[c].profile)
          => \A hit \in client[c].before :
                Current(client[c].area, client[c].profile, hit[1], hit[2])
                   => hit[1] \in client[c].found
    BY DEF SearchFinds
  <2> QED
    BY DEF IInv, SearchInv, SearchOf, Serves, At, Hits
<1> QED
  BY <1>1, MemoryInvariant, PTL

\* What the manifest says of its phase is true of Redis, whoever wrote it and
\* whether or not the writer still held the lock (migrate.py's _save_manifest).
THEOREM ManifestStaysTrue == MigrationSpec => []ManifestIsTrue
<1>1. IInv => ManifestIsTrue
  BY DEF IInv, ManifestIsTrue, DataInv, Covered, Cleaned
<1> QED
  BY <1>1, MemoryInvariant, PTL

SameSources ==
    \A a \in Area : /\ DOMAIN parents'[a] = DOMAIN parents[a]
                    /\ \A m \in DOMAIN parents[a] : parents'[a][m].expiry = parents[a][m].expiry

\* A client that ends a call, or drops a hit from its list, is not the client it was.
LEMMA ClientsShow ==
  ASSUME TypesOK, NEW c \in Client, ClientStep(c), client' = client
  PROVE  UNCHANGED parents
<1>1. PICK me \in ClientType : me = client[c]
  BY DEF TypesOK
<1>2. Stops(c) => me.pc = "idle"
  BY <1>1 DEF Stops, TypesOK, Idle
<1>3. ASSUME NEW a \in Area, NEW p \in Profile PROVE
         /\ \A m \in Mid, days \in Days : Save(c, p, a, m, days) => UNCHANGED parents
         /\ Search(c, p, a) => UNCHANGED parents
         /\ \A m \in Mid : Delete(c, p, a, m) => UNCHANGED parents
  BY DEF Save, Search, Delete
<1>4. ~Publish(c) /\ ~DeleteScript(c)
  BY <1>1, <1>2 DEF Publish, DeleteScript, At
<1>5. Touch(c) => UNCHANGED parents
  <2>1. ASSUME NEW hit \in me.todo, NEW found,
               client' = [client EXCEPT ![c].todo = me.todo \ {hit}, ![c].found = found]
        PROVE  FALSE
    <3>1. client'[c] = [me EXCEPT !.todo = me.todo \ {hit}, !.found = found]
      BY <1>1, <2>1 DEF TypesOK
    <3>2. client'[c].todo = me.todo \ {hit}
      BY <1>1, <3>1 DEF ClientType
    <3> QED
      BY <1>1, <2>1, <3>2
  <2> QED
    BY <1>1, <1>2, <2>1 DEF Touch, At
<1> QED
  BY <1>3, <1>4, <1>5 DEF ClientStep, Ensure, Scan, Provision, StageChunk, Count, Query, Widen,
                          Return, Die, memory

LEMMA RepublishedSources ==
  ASSUME IInv, NEW x \in Migrator, Republish(x)
  PROVE  SameSources
<1>1. CASE UNCHANGED parents
  BY <1>1 DEF SameSources
<1>2. CASE ~UNCHANGED parents
  <2>1. /\ PublishedIn(AreaOf(x), Target, migr[x].mid, migr[x].gen,
                       parents[AreaOf(x)][migr[x].mid])
        /\ migr[x].mid \in DOMAIN parents[AreaOf(x)]
    BY <1>2 DEF Republish, Gone, Live
  <2>2. PICK a \in Area, m \in {migr[x].mid}, g \in {migr[x].gen} : a = AreaOf(x)
    BY BeforeAreas DEF IInv, TypesOK, AreaOf, Place
  <2>3. m \in DOMAIN parents[a] /\ parents[a][m] \in RecordType
    BY <2>1, <2>2 DEF IInv, TypesOK, StoreTypes, AreaTypes
  <2>4. PICK r \in RecordType : r = parents[a][m]
    BY <2>3
  <2>5. PublishedIn(a, Target, m, g, r)
    BY <2>1, <2>2, <2>4
  <2>6. DOMAIN parents = Area /\ DOMAIN chunks = Area
    BY DEF IInv, TypesOK, StoreTypes
  <2>7. PICK s \in {[r EXCEPT !.gen[Target] = g]} : s.expiry = r.expiry
    BY DEF RecordType
  <2>8. /\ \A b \in Area \ {a} : parents'[b] = parents[b]
        /\ DOMAIN parents'[a] = DOMAIN parents[a]
        /\ parents'[a][m] = s
        /\ \A n \in DOMAIN parents[a] \ {m} : parents'[a][n] = parents[a][n]
    BY <2>3, <2>5, <2>6, <2>7 DEF PublishedIn, Put
  <2>9. \A b \in Area : \A n \in DOMAIN parents[b] : parents'[b][n].expiry = parents[b][n].expiry
    BY <2>4, <2>7, <2>8
  <2> QED
    BY <2>8, <2>9 DEF SameSources
<1> QED
  BY <1>1, <1>2

LEMMA CleanedSources ==
  ASSUME IInv, NEW x \in Migrator, CleanFields(x)
  PROVE  SameSources
<1>1. CASE UNCHANGED parents
  BY <1>1 DEF SameSources
<1>2. CASE ~UNCHANGED parents
  <2>1. PICK a \in Area, m \in {migr[x].mid}, old \in {OldOf(x)} : a = AreaOf(x)
    BY BeforeAreas DEF IInv, TypesOK, AreaOf, Place
  <2>2. /\ parents' = [parents EXCEPT ![a][m].gen[old] = 0]
        /\ m \in DOMAIN parents[a]
    BY <1>2, <2>1 DEF CleanFields, Live
  <2>3. parents[a][m] \in RecordType /\ DOMAIN parents = Area
    BY <2>2 DEF IInv, TypesOK, StoreTypes, AreaTypes
  <2>4. PICK s \in {[parents[a][m] EXCEPT !.gen[old] = 0]} : s.expiry = parents[a][m].expiry
    BY <2>3 DEF RecordType
  <2>5. /\ \A b \in Area \ {a} : parents'[b] = parents[b]
        /\ DOMAIN parents'[a] = DOMAIN parents[a]
        /\ parents'[a][m] = s
        /\ \A n \in DOMAIN parents[a] \ {m} : parents'[a][n] = parents[a][n]
    BY <2>2, <2>3, <2>4
  <2>6. \A b \in Area : \A n \in DOMAIN parents[b] : parents'[b][n].expiry = parents[b][n].expiry
    BY <2>4, <2>5
  <2> QED
    BY <2>5, <2>6 DEF SameSources
<1> QED
  BY <1>1, <1>2

\* No step that is not a client's and not time's makes, removes or extends a
\* record ("Canonical records are never recreated or deleted", migrate.py:1).
THEOREM SourcesStay == MigrationSpec => SourcesArePreserved
<1>1. ASSUME IInv, [MigrationNext]_Everything, now' = now, client' = client
      PROVE  SameSources
  <2>1. CASE UNCHANGED parents
    BY <2>1 DEF SameSources
  <2>2. CASE Tick
    BY <1>1, <2>2 DEF Tick, IInv, TypesOK, StoreTypes
  <2>3. ASSUME NEW c \in Client, ClientStep(c) PROVE SameSources
    BY <1>1, <2>1, <2>3, ClientsShow DEF IInv
  <2>4. ASSUME NEW x \in Migrator, MigratorStep(x), ~UNCHANGED parents PROVE SameSources
    <3>1. Republish(x) \/ CleanFields(x)
      BY <2>4 DEF MigratorStep, Begin, TakeLock, Load, Source, Records, Persist, Mark, Claim,
                  Record, Stage, DropOld, NextArea, Verify, EndVerify, Cut, Clean, CleanKeys,
                  NextClean, Fail, Crash, memory
    <3> QED
      BY <1>1, <3>1, RepublishedSources, CleanedSources
  <2>5. LockExpires \/ UNCHANGED Everything => UNCHANGED parents
    BY DEF LockExpires, Everything, memory
  <2> QED
    BY <1>1, <2>1, <2>2, <2>3, <2>4, <2>5 DEF MigrationNext
<1>2. IInv /\ [MigrationNext]_Everything
        => [now' = now /\ client' = client => SameSources]_Everything
  BY <1>1
<1>3. MigrationSpec => [][now' = now /\ client' = client => SameSources]_Everything
  <2>1. MigrationSpec => [][MigrationNext]_Everything
    BY DEF MigrationSpec, Everything
  <2> QED
    BY <1>2, <2>1, MemoryInvariant, PTL
<1> QED
  BY <1>3 DEF SourcesArePreserved, SameSources, Everything
=============================================================================
