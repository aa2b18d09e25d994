------------------------------ MODULE L1Cache ------------------------------
(***************************************************************************)
(* The native page cache, crates/brust-server/src/cache/l1.rs: a read      *)
(* front (sharded hash maps), moka as the policy that owns every entry's   *)
(* lifetime, a tag index, and the invalidation slots that keep out a page  *)
(* whose render began before an invalidation covering it.                  *)
(*                                                                         *)
(* Threads run `insert`, `invalidate_path`, `invalidate_prefix`,           *)
(* `invalidate_tags` and `clear`; each is split at its lock acquisitions   *)
(* and at its writes to a shared structure, in the order of the code.      *)
(* A map is the set of its entries, at most one for each key.  Expiry is   *)
(* one of the reasons for which moka may drop an entry (Evict); a page's   *)
(* body is the version of the application data its render read.            *)
(***************************************************************************)
EXTENDS Integers, FiniteSets

CONSTANTS
    Threads,            \* request threads
    Keys,               \* cache keys: [prefix, method, path, query]
    Tags,
    SHARDS,             \* number of shards of the front
    INVAL_SLOTS,        \* number of slots of each invalidation table
    shard_of(_),        \* key -> shard
    tag_slot(_),        \* tag -> slot of tag_inval
    path_slot(_, _),    \* method, path -> slot of path_inval
    prefix_slot(_),     \* prefix -> slot of prefix_inval
    TagSets,            \* the tag lists routes declare
    Calls,              \* the invalidations callers make
    Maintenance,        \* the thread driving moka's maintenance
    MaxClock,           \* bound: invalidations
    MaxGeneration,      \* bound: inserts that land
    MaxData             \* bound: writes of application data

Wild == "*"              \* `None` in an Option<&str> selector

Shards == 0 .. SHARDS - 1
Slots == 0 .. INVAL_SLOTS - 1

(* An invalidation: what it selects.  `tags` matters to kind "tags" only.  *)
Call == [kind : {"tags", "path", "prefix", "clear"}, tags : SUBSET Tags,
         method : STRING, path : STRING, prefix : STRING]

WellFormed(c) ==
    /\ c.kind = "path" => c.method # Wild /\ c.path # Wild
    /\ c.kind = "prefix" => c.prefix # Wild

ASSUME L1Assumption ==
    /\ SHARDS \in Nat \ {0}
    /\ INVAL_SLOTS \in Nat \ {0}
    /\ Keys # {}
    /\ Calls # {}
    /\ Maintenance \notin Threads
    /\ TagSets \subseteq SUBSET Tags
    /\ Calls \subseteq {c \in Call : WellFormed(c)}
    /\ \A k \in Keys : /\ shard_of(k) \in Shards
                       /\ path_slot(k.method, k.path) \in Slots
                       /\ prefix_slot(k.prefix) \in Slots
    /\ \A t \in Tags : tag_slot(t) \in Slots
    /\ \A c \in Calls : /\ c.kind = "path" => path_slot(c.method, c.path) \in Slots
                        /\ c.kind = "prefix" => prefix_slot(c.prefix) \in Slots

VARIABLES
    data,               \* version of the application's data
    clock,              \* InvalClock, shared with the job cache
    gate,               \* RwLock: [shared, exclusive] holders
    stripes,            \* per shard: the holder of its writer mutex
    front,              \* read front
    inner,              \* moka
    tag_index,          \* tag -> key -> generation, as triples
    next_generation,
    tag_inval, path_inval, prefix_inval, cleared_at,
    notices,            \* listener calls under way
    pc, ins, inv,       \* per thread: step, insert in hand, invalidation in hand
    done                \* invalidations that have returned

tables == <<tag_inval, path_inval, prefix_inval, cleared_at>>
locks == <<gate, stripes>>
stores == <<front, inner, tag_index, notices>>
vars == <<data, clock, locks, stores, next_generation, tables, pc, ins, inv, done>>

FrontEntry == [key : Keys, tags : SUBSET Tags, generation : Nat,
               since : Nat, data : Nat]
Slot == [key : Keys, tags : SUBSET Tags, generation : Nat]
Indexed == [tag : Tags, key : Keys, generation : Nat]
Notice == [slot : Slot, step : {"prune", "front"}, by : Threads \cup {Maintenance}]

Insert == FrontEntry
Invalidation == [call : Calls, seq : Nat, data : Nat, keys : SUBSET Keys,
                 batch : SUBSET Keys, key : Keys, shard : 0 .. SHARDS]

AKey == CHOOSE k \in Keys : TRUE
NoInsert == [key |-> AKey, tags |-> {}, generation |-> 0, since |-> 0, data |-> 0]
NoInvalidation == [call |-> CHOOSE c \in Calls : TRUE, seq |-> 0, data |-> 0,
                   keys |-> {}, batch |-> {}, key |-> AKey, shard |-> 0]

(* The locals of a render, and of a call, that has just begun. *)
NewInsert(k, T) == [NoInsert EXCEPT !.key = k, !.tags = T, !.since = clock]
NewCall(c) == [NoInvalidation EXCEPT !.call = c, !.data = data]

InsertSteps == {"render", "insert", "gated", "check", "index", "front", "inner", "land"}
InvalSteps == {"gate", "seq", "publish", "take", "remove", "wipe", "wipe_inner",
               "wipe_front", "scan", "drop", "drop_front", "pending"}

(* Types: every variable holds a value of its kind, and a scan or a wipe   *)
(* never leaves the table of shards.                                       *)
TypeOK ==
    /\ data \in Nat /\ clock \in Nat /\ next_generation \in Nat
    /\ gate \in [shared : SUBSET Threads, exclusive : SUBSET Threads]
    /\ stripes \in [Shards -> SUBSET Threads]
    /\ front \subseteq FrontEntry
    /\ inner \subseteq Slot
    /\ tag_index \subseteq Indexed
    /\ tag_inval \in [Slots -> Nat]
    /\ path_inval \in [Slots -> Nat]
    /\ prefix_inval \in [Slots -> Nat]
    /\ cleared_at \in Nat
    /\ notices \subseteq Notice
    /\ pc \in [Threads -> {"idle"} \cup InsertSteps \cup InvalSteps]
    /\ ins \in [Threads -> Insert]
    /\ inv \in [Threads -> Invalidation]
    /\ \A t \in Threads : pc[t] \in {"drop", "drop_front"} => inv[t].shard \in Shards
    /\ done \subseteq [call : Calls, seq : Nat, data : Nat]

(* with_clock: everything empty, every counter at zero. *)
Init ==
    /\ data = 0 /\ clock = 0 /\ next_generation = 0
    /\ gate = [shared |-> {}, exclusive |-> {}]
    /\ stripes = [s \in Shards |-> {}]
    /\ front = {} /\ inner = {} /\ tag_index = {} /\ notices = {}
    /\ tag_inval = [s \in Slots |-> 0]
    /\ path_inval = [s \in Slots |-> 0]
    /\ prefix_inval = [s \in Slots |-> 0]
    /\ cleared_at = 0
    /\ pc = [t \in Threads |-> "idle"]
    /\ ins = [t \in Threads |-> NoInsert]
    /\ inv = [t \in Threads |-> NoInvalidation]
    /\ done = {}

-----------------------------------------------------------------------------
(* Selection *)

(* The closures `invalidate_path`, `invalidate_prefix` and a scoped        *)
(* `invalidate_tags` select keys with.                                     *)
Selects(c, k) ==
    /\ c.method \in {Wild, k.method}
    /\ c.path \in {Wild, k.path}
    /\ c.prefix \in {Wild, k.prefix}

(* `c` is a covering invalidation of a page under key `k` with `tags`. *)
Covers(c, k, tags) == Selects(c, k) /\ (c.kind = "tags" => c.tags \cap tags # {})

Max2(a, b) == IF a >= b THEN a ELSE b

(* Mutant of invalidated_since: the path's slot is not consulted. *)
invalidated_since_no_path(k, tags, since) ==
    \/ cleared_at > since
    \/ prefix_inval[prefix_slot(k.prefix)] > since
    \/ \E t \in tags : tag_inval[tag_slot(t)] > since

(* Whether a covering invalidation, by slot, took a number after `since`. *)
invalidated_since(k, tags, since) ==
    \/ cleared_at > since
    \/ path_inval[path_slot(k.method, k.path)] > since
    \/ prefix_inval[prefix_slot(k.prefix)] > since
    \/ \E t \in tags : tag_inval[tag_slot(t)] > since

Goto(t, step) == pc' = [pc EXCEPT ![t] = step]

(* moka runs the eviction listener for `slots` on thread `by`. *)
Notify(slots, by) == notices \cup [slot : slots, step : {"prune"}, by : {by}]

Notified(by) == \A n \in notices : n.by # by

-----------------------------------------------------------------------------
(* The application and moka's own work: external.                          *)

(* The application commits a write of its data; it invalidates afterwards. *)
WriteData ==
    /\ data < MaxData
    /\ data' = data + 1
    /\ UNCHANGED <<clock, locks, stores, next_generation, tables, pc, ins, inv, done>>

(* moka drops an entry: capacity, admission or ttl. *)
Evict ==
    \E s \in inner :
        /\ inner' = inner \ {s}
        /\ notices' = Notify({s}, Maintenance)
        /\ UNCHANGED <<data, clock, locks, front, tag_index, next_generation, tables,
                       pc, ins, inv, done>>

-----------------------------------------------------------------------------
(* The eviction listener. *)

(* Mutants of PruneFrom: by key alone (0.1.x), and only older generations. *)
PruneFrom_any_generation(index, s) == {x \in index : ~(x.key = s.key /\ x.tag \in s.tags)}

PruneFrom_older(index, s) ==
    {x \in index : ~(x.key = s.key /\ x.tag \in s.tags /\ x.generation < s.generation)}

PruneFrom(index, s) ==
    {x \in index : ~(x.key = s.key /\ x.tag \in s.tags /\ x.generation = s.generation)}

(* Mutant of prune_tags: the listener ends with the index (no read front). *)
prune_tags_only(n) ==
    /\ n \in notices /\ n.step = "prune"
    /\ tag_index' = PruneFrom(tag_index, n.slot)
    /\ notices' = notices \ {n}
    /\ UNCHANGED <<data, clock, locks, front, inner, next_generation, tables,
                   pc, ins, inv, done>>

(* Listener, first half: prune_tags, only slots of the dropped generation. *)
prune_tags(n) ==
    /\ n \in notices /\ n.step = "prune"
    /\ tag_index' = PruneFrom(tag_index, n.slot)
    /\ notices' = (notices \ {n}) \cup {[n EXCEPT !.step = "front"]}
    /\ UNCHANGED <<data, clock, locks, front, inner, next_generation, tables,
                   pc, ins, inv, done>>

(* Listener, second half: remove_front, only the dropped generation. *)
remove_front(n) ==
    /\ n \in notices /\ n.step = "front"
    /\ front' = {e \in front : ~(e.key = n.slot.key /\ e.generation = n.slot.generation)}
    /\ notices' = notices \ {n}
    /\ UNCHANGED <<data, clock, locks, inner, tag_index, next_generation, tables,
                   pc, ins, inv, done>>

-----------------------------------------------------------------------------
(* insert *)

Inserting == {t \in Threads : pc[t] \in InsertSteps}

(* The page's render takes its stamp before it reads any data. *)
read_stamp(t) ==
    /\ pc[t] = "idle"
    /\ next_generation + Cardinality(Inserting) < MaxGeneration
    /\ \E k \in Keys, T \in TagSets : ins' = [ins EXCEPT ![t] = NewInsert(k, T)]
    /\ Goto(t, "render")
    /\ UNCHANGED <<data, clock, locks, stores, next_generation, tables, inv, done>>

(* The render reads the application's data. *)
Render(t) ==
    /\ pc[t] = "render"
    /\ ins' = [ins EXCEPT ![t].data = data]
    /\ Goto(t, "insert")
    /\ UNCHANGED <<data, clock, locks, stores, next_generation, tables, inv, done>>

InsertGate(t) ==
    /\ pc[t] = "insert"
    /\ gate.exclusive = {}
    /\ gate' = [gate EXCEPT !.shared = @ \cup {t}]
    /\ Goto(t, "gated")
    /\ UNCHANGED <<data, clock, stripes, stores, next_generation, tables, ins, inv, done>>

InsertStripe(t) ==
    /\ pc[t] = "gated"
    /\ stripes[shard_of(ins[t].key)] = {}
    /\ stripes' = [stripes EXCEPT ![shard_of(ins[t].key)] = {t}]
    /\ Goto(t, "check")
    /\ UNCHANGED <<data, clock, gate, stores, next_generation, tables, ins, inv, done>>

(* Leave `insert`: both guards drop. *)
InsertReturn(t) ==
    /\ gate' = [gate EXCEPT !.shared = @ \ {t}]
    /\ stripes' = [stripes EXCEPT ![shard_of(ins[t].key)] = {}]
    /\ ins' = [ins EXCEPT ![t] = NoInsert]
    /\ Goto(t, "idle")

(* The F86 check: reject, writing nothing, or take a generation. *)
InsertCheck(t) ==
    /\ pc[t] = "check"
    /\ \/ /\ invalidated_since(ins[t].key, ins[t].tags, ins[t].since)
          /\ InsertReturn(t)
          /\ UNCHANGED next_generation
       \/ /\ ~invalidated_since(ins[t].key, ins[t].tags, ins[t].since)
          /\ ins' = [ins EXCEPT ![t].generation = next_generation]
          /\ next_generation' = next_generation + 1
          /\ Goto(t, "index")
          /\ UNCHANGED locks
    /\ UNCHANGED <<data, clock, stores, tables, inv, done>>

(* index_tags: overwrites the key's slot in each tag. *)
index_tags(t) ==
    /\ pc[t] = "index"
    /\ tag_index' = {x \in tag_index : ~(x.key = ins[t].key /\ x.tag \in ins[t].tags)}
                    \cup [tag : ins[t].tags, key : {ins[t].key},
                          generation : {ins[t].generation}]
    /\ Goto(t, "front")
    /\ UNCHANGED <<data, clock, locks, front, inner, notices, next_generation, tables,
                   ins, inv, done>>

InsertFront(t) ==
    /\ pc[t] = "front"
    /\ front' = {e \in front : e.key # ins[t].key} \cup {ins[t]}
    /\ Goto(t, "inner")
    /\ UNCHANGED <<data, clock, locks, inner, tag_index, notices, next_generation, tables,
                   ins, inv, done>>

(* moka's insert; it reports the value it replaces to the listener inline. *)
InsertInner(t) ==
    LET k == ins[t].key
        old == {s \in inner : s.key = k}
    IN  /\ pc[t] = "inner"
        /\ inner' = (inner \ old) \cup
               {[key |-> k, tags |-> ins[t].tags, generation |-> ins[t].generation]}
        /\ notices' = Notify(old, t)
        /\ Goto(t, "land")
        /\ UNCHANGED <<data, clock, locks, front, tag_index, next_generation, tables,
                       ins, inv, done>>

InsertLand(t) ==
    /\ pc[t] = "land"
    /\ Notified(t)
    /\ InsertReturn(t)
    /\ UNCHANGED <<data, clock, stores, next_generation, tables, inv, done>>

-----------------------------------------------------------------------------
(* invalidate_tags, invalidate_path, invalidate_prefix, clear *)

Exclusive(c) == c.kind \in {"tags", "clear"}

Unnumbered == {t \in Threads : pc[t] \in {"gate", "seq"}}

Invalidate(t) ==
    /\ pc[t] = "idle"
    /\ clock + Cardinality(Unnumbered) < MaxClock
    /\ \E c \in Calls :
           /\ inv' = [inv EXCEPT ![t] = NewCall(c)]
           /\ Goto(t, IF Exclusive(c) THEN "gate" ELSE "seq")
    /\ UNCHANGED <<data, clock, locks, stores, next_generation, tables, ins, done>>

InvalGate(t) ==
    /\ pc[t] = "gate"
    /\ gate.shared = {} /\ gate.exclusive = {}
    /\ gate' = [gate EXCEPT !.exclusive = {t}]
    /\ Goto(t, "seq")
    /\ UNCHANGED <<data, clock, stripes, stores, next_generation, tables, ins, inv, done>>

next_inval(t) ==
    /\ pc[t] = "seq"
    /\ clock' = clock + 1
    /\ inv' = [inv EXCEPT ![t].seq = clock + 1]
    /\ Goto(t, "publish")
    /\ UNCHANGED <<data, locks, stores, next_generation, tables, ins, done>>

(* fetch_max of the sequence number into the slots the call covers. *)
Publish(t) ==
    LET c == inv[t].call
        seq == inv[t].seq
        raised(table, covered) ==
            [s \in Slots |-> IF s \in covered THEN Max2(table[s], seq) ELSE table[s]]
    IN  /\ pc[t] = "publish"
        /\ \/ /\ c.kind = "tags"
              /\ tag_inval' = raised(tag_inval, {tag_slot(g) : g \in c.tags})
              /\ Goto(t, "take")
              /\ UNCHANGED <<path_inval, prefix_inval, cleared_at>>
           \/ /\ c.kind = "path"
              /\ path_inval' = raised(path_inval, {path_slot(c.method, c.path)})
              /\ Goto(t, "scan")
              /\ UNCHANGED <<tag_inval, prefix_inval, cleared_at>>
           \/ /\ c.kind = "prefix"
              /\ prefix_inval' = raised(prefix_inval, {prefix_slot(c.prefix)})
              /\ Goto(t, "scan")
              /\ UNCHANGED <<tag_inval, path_inval, cleared_at>>
           \/ /\ c.kind = "clear"
              /\ cleared_at' = Max2(cleared_at, seq)
              /\ Goto(t, "wipe")
              /\ UNCHANGED <<tag_inval, path_inval, prefix_inval>>
        /\ UNCHANGED <<data, clock, locks, stores, next_generation, ins, inv, done>>

(* take_tagged, and take_tagged_where for a prefix: the selected keys of   *)
(* the call's tags leave the index and are returned.                       *)
take_tagged(t) ==
    LET c == inv[t].call
        taken == {x \in tag_index : x.tag \in c.tags /\ Selects(c, x.key)}
    IN  /\ pc[t] = "take"
        /\ tag_index' = tag_index \ taken
        /\ inv' = [inv EXCEPT ![t].keys = {x.key : x \in taken}]
        /\ Goto(t, "remove")
        /\ UNCHANGED <<data, clock, locks, front, inner, notices, next_generation, tables,
                       ins, done>>

(* remove: one taken key, under its stripe. *)
RemoveStripe(t) ==
    /\ pc[t] = "remove"
    /\ \E k \in inv[t].keys :
           /\ stripes[shard_of(k)] = {}
           /\ stripes' = [stripes EXCEPT ![shard_of(k)] = {t}]
           /\ inv' = [inv EXCEPT ![t] = [inv[t] EXCEPT !.keys = inv[t].keys \ {k},
                                                      !.batch = {k}, !.shard = shard_of(k)]]
    /\ Goto(t, "drop")
    /\ UNCHANGED <<data, clock, gate, stores, next_generation, tables, ins, done>>

(* scan_remove: lock the next shard's stripe, list its selected keys. *)
ScanStripe(t) ==
    LET s == inv[t].shard
    IN  /\ pc[t] = "scan" /\ s < SHARDS
        /\ stripes[s] = {}
        /\ stripes' = [stripes EXCEPT ![s] = {t}]
        /\ inv' = [inv EXCEPT ![t].batch =
                      {e.key : e \in {f \in front : /\ shard_of(f.key) = s
                                                    /\ Selects(inv[t].call, f.key)}}]
        /\ Goto(t, "drop")
        /\ UNCHANGED <<data, clock, gate, stores, next_generation, tables, ins, done>>

(* Drop one listed key from moka; the listener hears of it inline. *)
DropInner(t) ==
    /\ pc[t] = "drop"
    /\ \E k \in inv[t].batch :
           LET old == {s \in inner : s.key = k}
           IN  /\ inner' = inner \ old
               /\ notices' = Notify(old, t)
               /\ inv' = [inv EXCEPT ![t] = [inv[t] EXCEPT !.batch = inv[t].batch \ {k},
                                                      !.key = k]]
    /\ Goto(t, "drop_front")
    /\ UNCHANGED <<data, clock, locks, front, tag_index, next_generation, tables, ins, done>>

(* Then from the front, whatever its generation. *)
DropFront(t) ==
    /\ pc[t] = "drop_front"
    /\ Notified(t)
    /\ front' = {e \in front : e.key # inv[t].key}
    /\ Goto(t, "drop")
    /\ UNCHANGED <<data, clock, locks, inner, tag_index, notices, next_generation, tables,
                   ins, inv, done>>

(* Mutant of DropDone: a scan never leaves its shard. *)
DropDone_same_shard(t) ==
    /\ pc[t] = "drop" /\ inv[t].batch = {}
    /\ stripes' = [stripes EXCEPT ![inv[t].shard] = {}]
    /\ Goto(t, IF Exclusive(inv[t].call) THEN "remove" ELSE "scan")
    /\ UNCHANGED <<data, clock, gate, stores, next_generation, tables, ins, inv, done>>

(* The stripe drops: on to the next taken key, or the next shard. *)
DropDone(t) ==
    /\ pc[t] = "drop" /\ inv[t].batch = {}
    /\ stripes' = [stripes EXCEPT ![inv[t].shard] = {}]
    /\ \/ /\ Exclusive(inv[t].call)
          /\ Goto(t, "remove")
          /\ UNCHANGED inv
       \/ /\ ~Exclusive(inv[t].call)
          /\ inv' = [inv EXCEPT ![t].shard = @ + 1]
          /\ Goto(t, "scan")
    /\ UNCHANGED <<data, clock, gate, stores, next_generation, tables, ins, done>>

WipeIndex(t) ==
    /\ pc[t] = "wipe"
    /\ tag_index' = {}
    /\ Goto(t, "wipe_inner")
    /\ UNCHANGED <<data, clock, locks, front, inner, notices, next_generation, tables,
                   ins, inv, done>>

(* invalidate_all: moka's maintenance reports the entries later. *)
WipeInner(t) ==
    /\ pc[t] = "wipe_inner"
    /\ inner' = {}
    /\ notices' = Notify(inner, Maintenance)
    /\ Goto(t, "wipe_front")
    /\ UNCHANGED <<data, clock, locks, front, tag_index, next_generation, tables,
                   ins, inv, done>>

(* Mutant of WipeFront: one shard too many. *)
WipeFront_past_end(t) ==
    /\ pc[t] = "wipe_front" /\ inv[t].shard <= SHARDS
    /\ front' = {e \in front : shard_of(e.key) # inv[t].shard}
    /\ inv' = [inv EXCEPT ![t].shard = @ + 1]
    /\ UNCHANGED <<data, clock, locks, inner, tag_index, notices, next_generation, tables,
                   pc, ins, done>>

WipeFront(t) ==
    /\ pc[t] = "wipe_front" /\ inv[t].shard < SHARDS
    /\ front' = {e \in front : shard_of(e.key) # inv[t].shard}
    /\ inv' = [inv EXCEPT ![t].shard = @ + 1]
    /\ UNCHANGED <<data, clock, locks, inner, tag_index, notices, next_generation, tables,
                   pc, ins, done>>

(* The work is over: the gate, if held, drops. *)
Removed(t) ==
    \/ pc[t] = "remove" /\ inv[t].keys = {}
    \/ pc[t] \in {"scan", "wipe_front"} /\ inv[t].shard = SHARDS

InvalUngate(t) ==
    /\ Removed(t)
    /\ gate' = [gate EXCEPT !.exclusive = @ \ {t}]
    /\ Goto(t, "pending")
    /\ UNCHANGED <<data, clock, stripes, stores, next_generation, tables, ins, inv, done>>

(* run_pending_tasks waits for the maintenance under way; then return. *)
InvalReturn(t) ==
    /\ pc[t] = "pending"
    /\ Notified(Maintenance)
    /\ done' = done \cup {[call |-> inv[t].call, seq |-> inv[t].seq, data |-> inv[t].data]}
    /\ inv' = [inv EXCEPT ![t] = NoInvalidation]
    /\ Goto(t, "idle")
    /\ UNCHANGED <<data, clock, locks, stores, next_generation, tables, ins>>

-----------------------------------------------------------------------------
InsertNext(t) ==
    \/ Render(t) \/ InsertGate(t) \/ InsertStripe(t) \/ InsertCheck(t)
    \/ index_tags(t) \/ InsertFront(t) \/ InsertInner(t) \/ InsertLand(t)

InvalNext(t) ==
    \/ InvalGate(t) \/ next_inval(t) \/ Publish(t) \/ take_tagged(t) \/ RemoveStripe(t)
    \/ ScanStripe(t) \/ DropInner(t) \/ DropFront(t) \/ DropDone(t)
    \/ WipeIndex(t) \/ WipeInner(t) \/ WipeFront(t) \/ InvalUngate(t) \/ InvalReturn(t)

Listener == \E n \in notices : prune_tags(n) \/ remove_front(n)

(* Every bound is used up and no call is under way. *)
Quiescent ==
    /\ \A t \in Threads : pc[t] = "idle"
    /\ notices = {}
    /\ UNCHANGED vars

Next ==
    \/ WriteData \/ Evict \/ Listener \/ Quiescent
    \/ \E t \in Threads : read_stamp(t) \/ Invalidate(t) \/ InsertNext(t) \/ InvalNext(t)

Spec == Init /\ [][Next]_vars

(* Threads in a call keep running and locks are granted (parking_lot hands *)
(* a contended lock over eventually); nobody has to start a call.          *)
Fairness ==
    /\ WF_vars(Listener)
    /\ \A t \in Threads : WF_vars(InsertNext(t)) /\ WF_vars(InvalNext(t))

FairSpec == Spec /\ Fairness

-----------------------------------------------------------------------------
(* The listener has been called for the generation of front entry `e`. *)
Dropping(e, steps, by) ==
    \E n \in notices : /\ n.slot.key = e.key /\ n.slot.generation = e.generation
                       /\ n.step \in steps /\ n.by \in by

(* What a read is served: the front's entry, nothing else.  (An entry past *)
(* its deadline is a miss; that only takes from this set.)                 *)
get_with(k) == {e \in front : e.key = k}

(* A page a request can be served was rendered from data at least as new   *)
(* as the data when any covering invalidation that has returned was        *)
(* called.  The one exception is the window of the listener: an            *)
(* `invalidate_tags` that overlaps an `invalidate_path` or                 *)
(* `invalidate_prefix` of the same page, after that call's listener pruned *)
(* the tag index and before it cleared the front.                          *)
NoStaleHit ==
    \A k \in Keys : \A e \in get_with(k), d \in done :
        Covers(d.call, k, e.tags) /\ e.data < d.data
        => d.call.kind = "tags" /\ Dropping(e, {"front"}, Threads)

(* What the doc comment of `invalidate_tags` says: every entry carrying a  *)
(* tag of a returned invalidation is gone, with no exception.              *)
TagsLeaveNoEntry ==
    \A k \in Keys : \A e \in get_with(k), d \in done :
        Covers(d.call, k, e.tags) => e.data >= d.data

(* The struct's invariant: a front entry of generation G exists only while *)
(* moka holds G, or G's insert is in flight, or G's listener is still to   *)
(* run to its end.                                                         *)
FrontFollowsMoka ==
    \A e \in front :
        \/ [key |-> e.key, tags |-> e.tags, generation |-> e.generation] \in inner
        \/ Dropping(e, {"prune", "front"}, Threads \cup {Maintenance})
        \/ \E t \in Threads : pc[t] = "inner" /\ ins[t] = e

(* A tags or clear invalidation has `e` in hand and will remove it. *)
Removing(t, e) ==
    \/ pc[t] \in {"wipe_inner", "wipe_front"}
    \/ e.key \in inv[t].keys \cup inv[t].batch
    \/ pc[t] = "drop_front" /\ inv[t].key = e.key

BeingRemoved(e) == \E t \in gate.exclusive : Removing(t, e)

(* An insert of the same key is about to overwrite `e`. *)
BeingReplaced(e) == \E t \in gate.shared : pc[t] = "front" /\ ins[t].key = e.key

(* A live page stays indexed under each of its tags at its own generation, *)
(* so that a later `invalidate_tags` finds it: unless its removal or its   *)
(* replacement is already under way.                                       *)
LiveEntriesIndexed ==
    \A e \in front : \A g \in e.tags :
        \/ [tag |-> g, key |-> e.key, generation |-> e.generation] \in tag_index
        \/ Dropping(e, {"front"}, Threads \cup {Maintenance})
        \/ BeingRemoved(e)
        \/ BeingReplaced(e)

(* The tag index is bounded by the live entries: each slot belongs to an   *)
(* entry of moka, to an insert in flight, or to an entry whose listener    *)
(* will prune it.                                                          *)
IndexBounded ==
    \A x \in tag_index :
        \/ \E s \in inner : s.key = x.key /\ s.generation = x.generation /\ x.tag \in s.tags
        \/ \E n \in notices : /\ n.step = "prune" /\ n.slot.key = x.key
                             /\ n.slot.generation = x.generation /\ x.tag \in n.slot.tags
        \/ \E t \in gate.shared : /\ pc[t] \in {"front", "inner"}
                                 /\ ins[t].key = x.key /\ ins[t].generation = x.generation

(* No call blocks for ever on the gate, a stripe or the listener, whatever *)
(* the other threads do (lock order: gate, then stripe, then index/front). *)
CallsReturn == \A t \in Threads : pc[t] # "idle" ~> pc[t] = "idle"
=============================================================================
