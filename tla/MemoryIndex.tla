----------------------------- MODULE MemoryIndex -----------------------------
(***************************************************************************)
(* Semantic memory of the redis-memory plugin: canonical records (parents) *)
(* in Redis, and the vector chunks derived from them for one embedding     *)
(* profile. A record points at one generation of its chunks per profile;   *)
(* chunks no record points at are staged. Clients run mem_save, mem_search *)
(* and mem_delete, each a sequence of Redis calls; a script is one step.   *)
(*                                                                         *)
(* Keys are gone the moment they expire. Every record has Chunks chunks,   *)
(* and its text never changes (no call edits a record). The search index   *)
(* is what it indexes: the chunks of a profile, in an order the vectors    *)
(* decide, which is left open. Tags and key eviction are not modelled.     *)
(***************************************************************************)
EXTENDS Integers, FiniteSets, FiniteSetsExt

CONSTANTS
  Area,             \* key prefixes, each with its own state
  Mid,              \* memory ids: uuids, never used twice
  Client,           \* calls in flight, each of a server set up for one profile
  Profile,          \* embedding profiles
  Chunks,           \* chunks of a record
  Day, Staging,     \* life of a record with an expiry, and of a staged chunk
  Days,             \* the values of ttl_days in use: 0 is permanent
  TopK, FirstLimit, \* hits asked for, and rows of the first query
  MaxNow, MaxGens,  \* BOUND: the clock, and the generations
  MaxCalls          \* BOUND: the calls

Legacy == "legacy"  \* the vector field of a record older than the profiles

ASSUME MemoryAssumption ==
    /\ Legacy \notin Profile
    /\ Chunks \in Nat \ {0} /\ FirstLimit \in Nat \ {0} /\ TopK \in Nat
    /\ Day \in Nat /\ Staging \in Nat /\ Days \subseteq Nat

VARIABLES
  now,              \* the clock
  state,            \* area -> what the area says of its profile
  parents,          \* area -> id -> record
  chunks,           \* area -> the chunk keys that exist
  used,             \* ids handed out
  gens,             \* generations handed out
  calls,            \* calls begun
  client

memory == <<now, state, parents, chunks, used, gens, calls>>

Forever == -1

Blank == [status |-> "none", profile |-> Legacy, owner |-> 0, target |-> "none"]
Active(p) == [Blank EXCEPT !.status = "active", !.profile = p]
Serves(a, p) == state[a].status = "active" /\ state[a].profile = p

Parent(days, expiry) ==
    [days |-> days, expiry |-> expiry, gen |-> [p \in Profile \cup {Legacy} |-> 0]]

Live(a, m) == m \in DOMAIN parents[a]

Key(p, m, g, i) == [profile |-> p, mid |-> m, gen |-> g, i |-> i]
Keys(p, m, g) == {Key(p, m, g, i) : i \in 1..Chunks}

Sooner(s, t) == IF s = Forever THEN t ELSE IF s <= t THEN s ELSE t

ExpiryFor(days) == IF days = 0 THEN Forever ELSE now + days * Day

\* A chunk key of an area with its expiry.
Present(a) == DOMAIN chunks[a]

Generation(a, p, m) == parents[a][m].gen[p]

Whole(a, p, m) ==
    /\ Generation(a, p, m) # 0
    /\ p # Legacy => \A k \in Keys(p, m, Generation(a, p, m)) :
          k \in Present(a) /\ chunks[a][k] = parents[a][m].expiry

\* A function, with entries written over it.
Put(f, written) ==
    [k \in DOMAIN f \cup DOMAIN written |->
        IF k \in DOMAIN written THEN written[k] ELSE f[k]]

(***************************************************************************)
(* Redis: time passes and keys expire.                                     *)
(***************************************************************************)
Remaining(f, Expiry(_), t) ==
    LET kept == {k \in DOMAIN f : Expiry(f[k]) = Forever \/ Expiry(f[k]) > t}
    IN  [k \in kept |-> f[k]]

Tick ==
    /\ now < MaxNow
    /\ now' = now + 1
    /\ parents' = [a \in Area |-> Remaining(parents[a], LAMBDA r : r.expiry, now + 1)]
    /\ chunks' = [a \in Area |-> Remaining(chunks[a], LAMBDA t : t, now + 1)]
    /\ UNCHANGED <<state, used, gens, calls, client>>

(***************************************************************************)
(* The scripts. Publish switches a record to a staged generation and gives *)
(* record and chunks one expiry; a save makes the record, a migration must *)
(* find it as it was when it was embedded.                                 *)
(***************************************************************************)
(* Mutant: the life of the record is counted again from its publication.   *)
PublishedAnew(a, p, m, g, record) ==
    LET expiry == ExpiryFor(record.days)
    IN  /\ parents' = [parents EXCEPT ![a] =
              Put(@, [n \in {m} |-> [record EXCEPT !.gen[p] = g, !.expiry = expiry]])]
        /\ chunks' = [chunks EXCEPT ![a] = Put(@, [k \in Keys(p, m, g) |-> expiry])]

PublishedIn(a, p, m, g, record) ==
    /\ parents' = [parents EXCEPT ![a] = Put(@, [n \in {m} |-> [record EXCEPT !.gen[p] = g]])]
    /\ chunks' = [chunks EXCEPT ![a] = Put(@, [k \in Keys(p, m, g) |-> record.expiry])]

StagedWhole(a, p, m, g) == Keys(p, m, g) \subseteq Present(a)

\* Touch: record and chunks get a new expiry, if the hit is the current generation.
Current(a, p, m, g) == Live(a, m) /\ Generation(a, p, m) = g

(* Mutant: a hit extends the record and leaves its chunks to expire.       *)
TouchedAlone(a, p, m, g) ==
    parents' = [parents EXCEPT ![a][m].expiry = ExpiryFor(parents[a][m].days)]
    /\ UNCHANGED chunks

TouchedIn(a, p, m, g) ==
    LET expiry == ExpiryFor(parents[a][m].days)
    IN  /\ parents' = [parents EXCEPT ![a][m].expiry = expiry]
        /\ chunks' = [chunks EXCEPT ![a] =
              Put(@, [k \in Keys(p, m, g) \cap Present(a) |-> expiry])]

DeletedIn(a, p, m) ==
    /\ parents' = [parents EXCEPT ![a] = [n \in DOMAIN @ \ {m} |-> @[n]]]
    /\ chunks' = [chunks EXCEPT ![a] =
          [k \in DOMAIN @ \ Keys(p, m, Generation(a, p, m)) |-> @[k]]]

(***************************************************************************)
(* Clients.                                                                *)
(***************************************************************************)
Idle == [pc |-> "idle", op |-> "none", profile |-> Legacy, area |-> "none", mid |-> 0, days |-> 0,
         expiry |-> 0, gen |-> 0, staged |-> 0, total |-> 0, limit |-> 0, rows |-> {},
         todo |-> {}, found |-> {}, before |-> {}, known |-> {}, crowded |-> FALSE]

At(c, pc) == client[c].pc = pc
Goes(c, pc) == client' = [client EXCEPT ![c].pc = pc]
Stops(c) == client' = [client EXCEPT ![c] = Idle]

Calls(c, call) ==
    /\ At(c, "idle") /\ calls < MaxCalls
    /\ calls' = calls + 1
    /\ client' = [client EXCEPT ![c] = [call EXCEPT !.pc = "ensure"]]

Save(c, p, a, m, days) ==
    /\ Calls(c, [Idle EXCEPT !.op = "save", !.profile = p, !.area = a, !.mid = m, !.days = days])
    /\ m \notin used /\ used' = used \cup {m}
    /\ UNCHANGED <<now, state, parents, chunks, gens>>

Search(c, p, a) ==
    /\ Calls(c, [Idle EXCEPT !.op = "search", !.profile = p, !.area = a])
    /\ UNCHANGED <<now, state, parents, chunks, used, gens>>

Delete(c, p, a, m) ==
    /\ m \in used
    /\ Calls(c, [Idle EXCEPT !.op = "delete", !.profile = p, !.area = a, !.mid = m])
    /\ UNCHANGED <<now, state, parents, chunks, used, gens>>

(***************************************************************************)
(* Ensure: the area must serve the client's profile. An area without a     *)
(* state is given one by the first save, if it has no record yet.          *)
(***************************************************************************)
First(op) == CASE op = "save" -> "stage" [] op = "search" -> "count" [] OTHER -> "delete"

Ensure(c) ==
    LET a == client[c].area
    IN  /\ At(c, "ensure")
        /\ IF state[a].status = "none" THEN Goes(c, "scan")
           ELSE IF Serves(a, client[c].profile) THEN Goes(c, First(client[c].op))
           ELSE Stops(c)
        /\ UNCHANGED memory

Scan(c) ==
    /\ At(c, "scan")
    /\ IF DOMAIN parents[client[c].area] = {} /\ client[c].op = "save"
       THEN Goes(c, "provision") ELSE Stops(c)
    /\ UNCHANGED memory

Provision(c) ==
    LET a == client[c].area
    IN  /\ At(c, "provision")
        /\ state' = IF state[a].status # "none" THEN state
                    ELSE [state EXCEPT ![a] = Active(client[c].profile)]
        /\ Goes(c, "ensure")
        /\ UNCHANGED <<now, parents, chunks, used, gens, calls>>

(***************************************************************************)
(* Save: stage the chunks one by one, with a short life, then publish.     *)
(***************************************************************************)
StageChunk(c) ==
    LET me == client[c]
        fresh == me.staged = 0
        g == IF fresh THEN gens + 1 ELSE me.gen
        expiry == IF fresh THEN ExpiryFor(me.days) ELSE me.expiry
        i == me.staged + 1
    IN  /\ At(c, "stage")
        /\ fresh => gens < MaxGens
        /\ gens' = IF fresh THEN g ELSE gens
        /\ chunks' = [chunks EXCEPT ![me.area] =
              Put(@, [k \in {Key(client[c].profile, me.mid, g, i)} |->
                         Sooner(expiry, now + Staging)])]
        /\ client' = [client EXCEPT ![c].gen = g, ![c].expiry = expiry, ![c].staged = i,
                                    ![c].pc = IF i = Chunks THEN "publish" ELSE "stage"]
        /\ UNCHANGED <<now, state, parents, used, calls>>

Publishable(c) ==
    LET me == client[c] IN
    /\ Serves(me.area, client[c].profile)
    /\ ~Live(me.area, me.mid)
    /\ me.expiry = Forever \/ me.expiry > now
    /\ StagedWhole(me.area, client[c].profile, me.mid, me.gen)

Publish(c) ==
    LET me == client[c]
    IN  /\ At(c, "publish")
        /\ IF Publishable(c)
           THEN PublishedIn(me.area, client[c].profile, me.mid, me.gen,
                            Parent(me.days, me.expiry))
           ELSE UNCHANGED <<parents, chunks>>
        /\ Stops(c)
        /\ UNCHANGED <<now, state, used, gens, calls>>

DeleteScript(c) ==
    LET me == client[c]
    IN  /\ At(c, "delete")
        /\ IF Serves(me.area, client[c].profile) /\ Live(me.area, me.mid)
           THEN DeletedIn(me.area, client[c].profile, me.mid)
           ELSE UNCHANGED <<parents, chunks>>
        /\ Stops(c)
        /\ UNCHANGED <<now, state, used, gens, calls>>

(***************************************************************************)
(* Search: the documents are counted once; a query returns as many rows as *)
(* its limit, each is touched, and the limit doubles up to the count.      *)
(***************************************************************************)
Indexed(c) == {k \in Present(client[c].area) : k.profile = client[c].profile}

Lesser(x, y) == IF x <= y THEN x ELSE y

Count(c) ==
    LET a == client[c].area
        total == Cardinality(Indexed(c))
    IN  /\ At(c, "count")
        /\ IF ~Serves(a, client[c].profile) \/ total = 0 THEN Stops(c)
           ELSE client' = [client EXCEPT ![c].pc = "query", ![c].total = total,
                   ![c].limit = Lesser(total, FirstLimit), ![c].known = Indexed(c),
                   ![c].before = {<<m, Generation(a, client[c].profile, m)>> :
                                     m \in DOMAIN parents[a]}]
        /\ UNCHANGED memory

Query(c) ==
    LET me == client[c]
        size == Lesser(me.limit, Cardinality(Indexed(c)))
    IN  /\ At(c, "query")
        /\ \E rows \in kSubset(size, Indexed(c)) :
              client' = [client EXCEPT ![c].pc = "touch", ![c].rows = rows,
                 ![c].todo = {<<k.mid, k.gen>> : k \in rows},
                 ![c].crowded = me.crowded \/ ~(Indexed(c) \subseteq me.known)]
        /\ UNCHANGED memory

Touch(c) ==
    LET me == client[c]
        p == me.profile
    IN  /\ At(c, "touch") /\ Cardinality(me.found) < TopK
        /\ \E hit \in me.todo :
              LET served == Serves(me.area, p)
                  new == hit[1] \notin me.found /\ Current(me.area, p, hit[1], hit[2])
              IN  /\ IF served /\ new THEN TouchedIn(me.area, p, hit[1], hit[2])
                     ELSE UNCHANGED <<parents, chunks>>
                  /\ IF ~served /\ hit[1] \notin me.found THEN Stops(c)
                     ELSE client' = [client EXCEPT ![c].todo = me.todo \ {hit},
                             ![c].found = me.found \cup IF new THEN {hit[1]} ELSE {}]
        /\ UNCHANGED <<now, state, used, gens, calls>>

(* Mutant: a full page counts as the last one.                             *)
ExhaustedSoon(c) == Cardinality(client[c].rows) <= client[c].limit

\* The search ends with enough hits, or when the index has no further row to give.
Exhausted(c) ==
    LET me == client[c]
    IN  Cardinality(me.rows) < me.limit \/ me.limit = me.total

Widen(c) ==
    LET me == client[c]
    IN  /\ At(c, "touch")
        /\ me.todo = {} \/ Cardinality(me.found) = TopK
        /\ IF Cardinality(me.found) = TopK \/ Exhausted(c) THEN Goes(c, "found")
           ELSE client' = [client EXCEPT ![c].pc = "query",
                              ![c].limit = Lesser(me.total, 2 * me.limit)]
        /\ UNCHANGED memory

Return(c) == At(c, "found") /\ Stops(c) /\ UNCHANGED memory

\* A client dies, or a call of it raises; what it staged stays until it expires.
Die(c) == ~At(c, "idle") /\ Stops(c) /\ UNCHANGED memory

ClientStep(c) ==
    \/ \E a \in Area, p \in Profile :
                       \/ \E m \in Mid, days \in Days : Save(c, p, a, m, days)
                       \/ Search(c, p, a)
                       \/ \E m \in Mid : Delete(c, p, a, m)
    \/ Ensure(c) \/ Scan(c) \/ Provision(c)
    \/ StageChunk(c) \/ Publish(c) \/ DeleteScript(c)
    \/ Count(c) \/ Query(c) \/ Touch(c) \/ Widen(c) \/ Return(c)
    \/ Die(c)

(***************************************************************************)
(* Properties.                                                             *)
(***************************************************************************)

\* Every record has its vectors, all of them and as long as it lives itself,
\* for the profile its area serves or will return to: publication, touch,
\* deletion and migration (_PUBLISH, _TOUCH, _DELETE) keep the two together.
EveryRecordIsServed ==
    \A a \in Area : \A m \in DOMAIN parents[a] : Whole(a, state[a].profile, m)

\* A search that found less than it was asked for found every record that was
\* published when it counted and still is (MemoryIndex.search), unless chunks were
\* staged meanwhile or a migration took the area to another profile.
SearchFinds ==
    \A c \in Client : LET me == client[c] IN
        /\ At(c, "found") /\ ~me.crowded /\ Cardinality(me.found) < TopK
        /\ Serves(me.area, me.profile)
        => \A hit \in me.before :
              Current(me.area, me.profile, hit[1], hit[2]) => hit[1] \in me.found
=============================================================================
