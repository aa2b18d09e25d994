---------------------------- MODULE SharedPages ----------------------------
(***************************************************************************)
(* Pages and job values of several processes that share a Redis store:     *)
(* the request pipeline of a page (brust-core/src/pipeline.rs, `page`),    *)
(* Core::invalidate and Core::l2_replay (core.rs), the invalidation floor  *)
(* (l2.rs), what `cache.invalidate` does after tier 1 (cache-adapter/      *)
(* runtime.ts) and the two scripts of the adapter (cache-redis/src/lua.ts).*)
(*                                                                         *)
(* A request is split at its awaits, an invalidation at every call it      *)
(* makes into a cache or into Redis.  The page cache is what L1Cache       *)
(* promises, the job cache its like: an insert is atomic and refused when  *)
(* an invalidation that covers the entry took its number after the         *)
(* request's stamp.  Invalidation slots are exact here; two names that     *)
(* share a slot only refuse more, which an insert may do anyway.           *)
(* The content of a page is the version of the application's data its      *)
(* loader read and the one its job value was computed from.  There is one  *)
(* job, which some of the pages use.                                       *)
(***************************************************************************)
EXTENDS Integers, Sequences, FiniteSets, SequencesExt, L2Floor

CONSTANTS
    Procs,          \* processes
    Slots,          \* requests a process runs at a time
    Pages,          \* cacheable pages: [path, prefix, tags]
    JobTags,        \* the tags of the job
    Calls,          \* the arguments of cache.invalidate
    MaxData,        \* bound: writes of application data
    MaxCalls,       \* bound: calls of cache.invalidate
    MaxRequests,    \* bound: requests
    MaxWork,        \* bound: requests and calls together
    MaxFaults       \* bound: failed calls to Redis

Wild == "*"         \* an absent argument
None == -1          \* no sequence number, no value

(* InvalidateArgs.  `key` says whether the job's user key is among them. *)
Valid(c) == c.prefix # Wild => ~c.key

(* `{prefix}` alone, or with tags or a path. *)
PrefixAlone(c) == c.prefix # Wild /\ c.tags = {} /\ c.path = Wild

(* The calls Core::invalidate makes, in order. *)
Half(applies, h) == IF applies THEN <<h>> ELSE <<>>

Halves(c) == Half(c.key, "key")
                 \o Half(c.tags # {}, "tags")
                 \o Half(c.tags # {} /\ c.prefix = Wild, "jobs")
                 \o Half(c.path # Wild \/ PrefixAlone(c), "path")

ASSUME PagesAssumption ==
    /\ MaxCalls \in Nat
    /\ Pages # {}
    /\ \A g \in Pages : g.path # Wild /\ g.prefix # Wild
    /\ \A c \in Calls : Valid(c) /\ Halves(c) # <<>> /\ IsFiniteSet(c.tags)

Requests == Procs \X Slots

VARIABLES
    adapter,    \* whether the processes share a store
    planned,    \* the pages the application makes with the job's value
    data,       \* version of the application's data
    log,        \* the calls published, in order; its length is the seq key
    marks,      \* invalidation markers, by name
    index,      \* <<name, page>>: the index sets
    store,      \* the pages of the store
    clock,      \* per process: InvalClock
    l1,         \* per process: cached pages
    l1_inval,   \* per process and page: last number of a covering invalidation
    job,        \* per process: data version of the cached job value
    job_inval,  \* per process: last number of an invalidation of the job
    floor,      \* per process: Floor.names, the oldest raised first
    req,        \* requests
    begun,      \* requests so far
    task,       \* the calls of cache.invalidate
    remote,     \* per process: the event worker 0 is replaying
    pos,        \* per process: events taken from the channel
    applied,    \* history: per process, the calls it has replayed with a seq,
                \* without an adapter those it has made
    faults      \* failures so far

redis == <<log, marks, index, store>>
tier1 == <<clock, l1, l1_inval, job, job_inval>>
calls == <<task, remote, pos, applied>>
app == <<adapter, planned>>
vars == <<app, data, redis, tier1, floor, req, begun, calls, faults>>

-----------------------------------------------------------------------------
(* What a call names *)

InPrefix(c, g) == c.prefix \in {Wild, g.prefix}

CoversTags(c, g) == c.tags \cap g.tags # {} /\ InPrefix(c, g)

CoversPath(c, g) == (c.path = g.path \/ PrefixAlone(c)) /\ InPrefix(c, g)

CoversPage(c, g) == CoversTags(c, g) \/ CoversPath(c, g)

CoversJob(c) == c.key \/ (c.prefix = Wild /\ c.tags \cap JobTags # {})

Tag(t) == <<"tag", t>>
Path(p) == <<"path", p>>
Prefix(x) == <<"pfx", x>>

(* The index sets and markers a page is filed under (`set`). *)
PageNames(g) == {Tag(t) : t \in g.tags} \cup {Path(g.path), Prefix(g.prefix)}

(* The index sets and markers an invalidation names (`exec`). *)
CallNames(c) ==
    {Tag(t) : t \in c.tags}
        \cup (IF c.path = Wild THEN {} ELSE {Path(c.path)})
        \cup (IF PrefixAlone(c) THEN {Prefix(c.prefix)} ELSE {})

(* The names Floor::raise raises: those of a scoped call carry its prefix. *)
Scoped(c, n) == IF c.prefix = Wild \/ PrefixAlone(c) THEN n ELSE <<c.prefix, n>>
FloorNames(c) == {Scoped(c, n) : n \in CallNames(c)}

(* The names Floor::rejects looks up for a page. *)
PageFloors(g) ==
    LET own == {Tag(t) : t \in g.tags} \cup {Path(g.path)}
    IN  own \cup {<<g.prefix, n>> : n \in own} \cup {Prefix(g.prefix)}

-----------------------------------------------------------------------------
(* State *)

Names == (UNION {PageNames(g) : g \in Pages}) \cup (UNION {CallNames(c) : c \in Calls})
Versions == 0 .. MaxData

Page == [page : Pages, loader : Nat, job : Nat \cup {None}, stamp : Nat \cup {None}]

(* `hit`: the job value was found in the job cache. *)
Request == [step : {"idle", "get", "seq", "reply", "load", "jobs", "call",
                    "apply", "insert", "set"},
            page : Pages, since : Nat, found : SUBSET Page, stamp : Nat \cup {None},
            loader : Nat, job : Nat \cup {None}, hit : BOOLEAN]

(* `halves`: the cache calls of Core::invalidate still to make. *)
HalfNames == {"key", "tags", "jobs", "path", "clear_l1", "clear_jobs"}
Task == [step : {"local", "delete", "unlink", "publish", "published", "replay", "done"},
         proc : Procs, call : Calls, data : Nat, halves : Seq(HalfNames),
         members : SUBSET Pages, seq : Nat \cup {None}]
Replay == [id : Nat, halves : Seq(HalfNames)]

APage == CHOOSE g \in Pages : TRUE
Idle == [step |-> "idle", page |-> APage, since |-> 0, found |-> {}, stamp |-> None,
         loader |-> 0, job |-> None, hit |-> FALSE]
NoReplay == [id |-> 0, halves |-> <<>>]

(* Types, and the counters' bounds: no stamp and no position is beyond the *)
(* log, no request is stamped beyond its process's clock.                  *)
TypeOK ==
    /\ adapter \in BOOLEAN /\ planned \subseteq Pages
    /\ data \in Nat
    /\ marks \in [Names -> Nat]
    /\ index \subseteq Names \X Pages
    /\ store \subseteq Page
    /\ clock \in [Procs -> Nat]
    /\ l1 \in [Procs -> SUBSET Page]
    /\ l1_inval \in [Procs -> [Pages -> Nat]]
    /\ job \in [Procs -> Nat \cup {None}]
    /\ job_inval \in [Procs -> Nat]
    /\ floor \in [Procs -> Seq([name : UNION {FloorNames(c) : c \in Calls}, seq : Nat])]
    /\ req \in [Requests -> Request]
    /\ task \in Seq(Task)
    /\ log \in Seq(DOMAIN task)
    /\ remote \in [Procs -> Replay]
    /\ pos \in [Procs -> 0 .. Len(log)]
    /\ applied \in [Procs -> SUBSET DOMAIN task]
    /\ begun \in Nat /\ faults \in Nat
    /\ \A r \in Requests : req[r].since <= clock[r[1]] /\ req[r].stamp <= Len(log)

Init ==
    /\ adapter \in BOOLEAN /\ planned \in SUBSET Pages
    /\ data = 0 /\ begun = 0 /\ faults = 0
    /\ log = <<>> /\ marks = [n \in Names |-> 0] /\ index = {} /\ store = {}
    /\ clock = [p \in Procs |-> 0]
    /\ l1 = [p \in Procs |-> {}] /\ l1_inval = [p \in Procs |-> [g \in Pages |-> 0]]
    /\ job = [p \in Procs |-> None] /\ job_inval = [p \in Procs |-> 0]
    /\ floor = [p \in Procs |-> <<>>]
    /\ req = [r \in Requests |-> Idle]
    /\ task = <<>>
    /\ remote = [p \in Procs |-> NoReplay] /\ pos = [p \in Procs |-> 0]
    /\ applied = [p \in Procs |-> {}]

(* The application commits a write; external. *)
WriteData ==
    /\ data < MaxData
    /\ data' = data + 1
    /\ UNCHANGED <<begun, redis, tier1, floor, req, calls, faults>>

Fault ==
    /\ faults < MaxFaults
    /\ faults' = faults + 1

-----------------------------------------------------------------------------
(* The floor *)

(* Floor::raise: one name after the other. *)
raise(f, c, s) == FoldSet(LAMBDA n, g : raise_name(g, n, s), f, FloorNames(c))

(* Floor::rejects an entry of page `g` written under `stamp`. *)
rejects(f, stamp, g) ==
    /\ stamp # None
    /\ \E i \in DOMAIN f : f[i].name \in PageFloors(g) /\ stamp < f[i].seq

-----------------------------------------------------------------------------
(* The caches of a process *)

(* Mutants of l1_accepts and jobs_accept: the stamp is not asked. *)
l1_accepts_any(p, g, since) == TRUE

jobs_accept_any(p, since) == TRUE

(* CacheL1::insert and JobCache::insert: whether the insert may land. *)
l1_accepts(p, g, since) == l1_inval[p][g] <= since

jobs_accept(p, since) == job_inval[p] <= since

(* An entry of L1 keeps no stamp of the store. *)
Put(p, e) == l1' = [l1 EXCEPT ![p] = {x \in @ : x.page # e.page}
                                        \cup {[e EXCEPT !.stamp = None]}]

(* An invalidation of the page cache that takes the next number. *)
DropPages(p, G) ==
    /\ clock' = [clock EXCEPT ![p] = @ + 1]
    /\ l1' = [l1 EXCEPT ![p] = {e \in @ : e.page \notin G}]
    /\ l1_inval' = [l1_inval EXCEPT ![p] = [g \in Pages |-> IF g \in G THEN clock'[p] ELSE @[g]]]
    /\ UNCHANGED <<job, job_inval>>

DropJob(p, covered) ==
    /\ clock' = [clock EXCEPT ![p] = @ + 1]
    /\ job' = [job EXCEPT ![p] = IF covered THEN None ELSE @]
    /\ job_inval' = [job_inval EXCEPT ![p] = IF covered THEN clock'[p] ELSE @]
    /\ UNCHANGED <<l1, l1_inval>>

(* One of them. *)
invalidate(p, c, h) ==
    CASE h = "key" -> DropJob(p, TRUE)
      [] h = "tags" -> DropPages(p, {g \in Pages : CoversTags(c, g)})
      [] h = "jobs" -> DropJob(p, c.tags \cap JobTags # {})
      [] h = "path" -> DropPages(p, {g \in Pages : CoversPath(c, g)})

clear_local(p, h) == IF h = "clear_l1" THEN DropPages(p, Pages) ELSE DropJob(p, TRUE)

-----------------------------------------------------------------------------
(* page(): a request *)

Goto(r, step) == req' = [req EXCEPT ![r].step = step]

Quiet == UNCHANGED <<data, begun, redis, tier1, floor, calls, faults>>

(* The probe of L1 missed.  One stamp guards both caches; without an       *)
(* adapter the store is not asked.                                         *)
begin(r) ==
    /\ req[r].step = "idle"
    /\ begun < MaxRequests /\ begun + Len(task) < MaxWork
    /\ begun' = begun + 1
    /\ \E g \in Pages :
           req' = [req EXCEPT ![r] = [Idle EXCEPT !.step = IF adapter THEN "get" ELSE "load",
                                                  !.page = g, !.since = clock[r[1]]]]
    /\ UNCHANGED <<data, redis, tier1, floor, calls, faults>>

(* l2_get: two pipelined commands, the page ... *)
get_page(r) ==
    /\ req[r].step = "get"
    /\ req' = [req EXCEPT ![r].step = "seq", ![r].found = {e \in store : e.page = req[r].page}]
    /\ Quiet

(* Mutant of get_seq: the number the next invalidation will take. *)
get_seq_next(r) ==
    /\ req[r].step = "seq"
    /\ req' = [req EXCEPT ![r].step = "reply", ![r].stamp = Len(log) + 1]
    /\ Quiet

(* ... and the counter, which is the stamp of a write back. *)
get_seq(r) ==
    /\ req[r].step = "seq"
    /\ req' = [req EXCEPT ![r].step = "reply", ![r].stamp = Len(log)]
    /\ Quiet

(* Timeout, Failed or Off: render, and write nothing back. *)
get_failed(r) ==
    /\ req[r].step \in {"get", "seq"}
    /\ Fault
    /\ req' = [req EXCEPT ![r].step = "load", ![r].found = {}, ![r].stamp = None]
    /\ UNCHANGED <<data, begun, redis, tier1, floor, calls>>

Served(r) == {e \in req[r].found : ~rejects(floor[r[1]], e.stamp, e.page)}

(* Mutant of l2_hit: the floor is not asked. *)
l2_hit_no_floor(r) ==
    /\ req[r].step = "reply"
    /\ \E e \in req[r].found : /\ l1_accepts(r[1], e.page, req[r].since)
                               /\ Put(r[1], e)
    /\ req' = [req EXCEPT ![r] = Idle]
    /\ UNCHANGED <<data, begun, redis, clock, l1_inval, job, job_inval, floor, calls, faults>>

(* A hit above the floor is inserted into L1 and served. *)
l2_hit(r) ==
    /\ req[r].step = "reply"
    /\ \E e \in Served(r) : \/ l1_accepts(r[1], e.page, req[r].since) /\ Put(r[1], e)
                            \/ UNCHANGED l1
    /\ req' = [req EXCEPT ![r] = Idle]
    /\ UNCHANGED <<data, begun, redis, clock, l1_inval, job, job_inval, floor, calls, faults>>

(* A miss, a hit below the floor or past its ttl: render. *)
l2_miss(r) ==
    /\ req[r].step = "reply"
    /\ req' = [req EXCEPT ![r].step = "load", ![r].found = {}]
    /\ Quiet

(* The loader reads the application's data in a worker. *)
loader(r) ==
    /\ req[r].step = "load"
    /\ req' = [req EXCEPT ![r].step = "jobs", ![r].loader = data]
    /\ Quiet

(* lookup_jobs: a hit is held until the render. *)
lookup_jobs(r) ==
    /\ req[r].step = "jobs"
    /\ \/ /\ req[r].page \notin planned
          /\ Goto(r, "insert")
       \/ /\ req[r].page \in planned /\ job[r[1]] # None
          /\ req' = [req EXCEPT ![r].step = "insert", ![r].job = job[r[1]], ![r].hit = TRUE]
       \/ /\ req[r].page \in planned /\ job[r[1]] = None
          /\ Goto(r, "call")
    /\ Quiet

(* The jobs call reads the application's data in a worker. *)
jobs_call(r) ==
    /\ req[r].step = "call"
    /\ req' = [req EXCEPT ![r].step = "apply", ![r].job = data]
    /\ Quiet

(* apply_job_results: a refused value keeps the page out of L1. *)
apply_job_results(r) ==
    /\ req[r].step = "apply"
    /\ \/ /\ jobs_accept(r[1], req[r].since)
          /\ job' = [job EXCEPT ![r[1]] = req[r].job]
          /\ Goto(r, "insert")
       \/ /\ req' = [req EXCEPT ![r] = Idle]
          /\ UNCHANGED job
    /\ UNCHANGED <<data, begun, redis, clock, l1, l1_inval, job_inval, floor, calls, faults>>

Rendered(r) == [page |-> req[r].page, loader |-> req[r].loader, job |-> req[r].job,
                stamp |-> req[r].stamp]

(* The rendered page goes into L1; if it landed, and the store answered    *)
(* the read, it is written back.                                           *)
insert(r) ==
    /\ req[r].step = "insert"
    /\ l1_accepts(r[1], req[r].page, req[r].since)
    /\ Put(r[1], Rendered(r))
    /\ IF req[r].stamp = None THEN req' = [req EXCEPT ![r] = Idle] ELSE Goto(r, "set")
    /\ UNCHANGED <<data, begun, redis, clock, l1_inval, job, job_inval, floor, calls, faults>>

(* A request that stores nothing: an error or a deadline of a worker call, *)
(* a loader's verdict, a page that may not be cached, a refused insert, a  *)
(* write back dropped for want of a worker.                                *)
abandon(r) ==
    /\ req[r].step \in {"load", "jobs", "call", "apply", "insert", "set"}
    /\ req' = [req EXCEPT ![r] = Idle]
    /\ Quiet

-----------------------------------------------------------------------------
(* The scripts *)

(* Mutant of SET_LUA: the marker must be two ahead. *)
SET_LUA_late(r) ==
    /\ req[r].step = "set"
    /\ \A n \in PageNames(req[r].page) : marks[n] <= req[r].stamp + 1
    /\ store' = {e \in store : e.page # req[r].page} \cup {Rendered(r)}
    /\ index' = index \cup (PageNames(req[r].page) \X {req[r].page})
    /\ req' = [req EXCEPT ![r] = Idle]
    /\ UNCHANGED <<data, begun, log, marks, tier1, floor, calls, faults>>

(* SET_LUA, when no marker of the page is newer than its stamp. *)
SET_LUA(r) ==
    /\ req[r].step = "set"
    /\ \A n \in PageNames(req[r].page) : marks[n] <= req[r].stamp
    /\ store' = {e \in store : e.page # req[r].page} \cup {Rendered(r)}
    /\ index' = index \cup (PageNames(req[r].page) \X {req[r].page})
    /\ req' = [req EXCEPT ![r] = Idle]
    /\ UNCHANGED <<data, begun, log, marks, tier1, floor, calls, faults>>

Filed(n) == {g \in Pages : <<n, g>> \in index}

(* With a prefix beside tags or a path only the prefix's members count. *)
Filtered(c) == c.prefix # Wild /\ ~PrefixAlone(c)
Members(c) == LET all == UNION {Filed(n) : n \in CallNames(c)}
              IN  IF Filtered(c) THEN all \cap Filed(Prefix(c.prefix)) ELSE all

(* The sets are dropped; with a filter a member leaves the filter and the  *)
(* first set it is found in.                                               *)
Unfiled(c) ==
    IF Filtered(c)
    THEN {<<Prefix(c.prefix), g>> : g \in Members(c)}
             \cup {<<CHOOSE n \in CallNames(c) : <<n, g>> \in index, g>> : g \in Members(c)}
    ELSE CallNames(c) \X Pages

(* Markers only rise. *)
Marked(c, v) == [n \in Names |-> IF n \in CallNames(c) /\ v > marks[n] THEN v ELSE marks[n]]

-----------------------------------------------------------------------------
(* cache.invalidate and afterInvalidate *)

(* The call begins: its first part is Core::invalidate. *)
Invalidate(p) ==
    /\ Len(task) < MaxCalls /\ begun + Len(task) < MaxWork
    /\ \E c \in Calls :
           task' = Append(task, [step |-> "local", proc |-> p, call |-> c, data |-> data,
                                 halves |-> Halves(c), members |-> {}, seq |-> None])
    /\ UNCHANGED <<data, begun, redis, tier1, floor, req, remote, pos, applied, faults>>

(* The store ignores a key. *)
HasStoreWork(c) == c.tags # {} \/ c.path # Wild \/ c.prefix # Wild

Final(halves) == Tail(halves) = <<>>

(* What is left when tier 1 is done; it is deferred. *)
AfterTier1(c) == IF ~adapter THEN "done" ELSE IF HasStoreWork(c) THEN "delete" ELSE "publish"

(* The next cache call of Core::invalidate. *)
invalidate_own(i) ==
    LET p == task[i].proc
        c == task[i].call
        last == Final(task[i].halves)
    IN  /\ task[i].step = "local"
        /\ invalidate(p, c, Head(task[i].halves))
        /\ task' = [task EXCEPT ![i].halves = Tail(@),
                                ![i].step = IF last THEN AfterTier1(c) ELSE @]
        /\ IF last /\ ~adapter THEN applied' = [applied EXCEPT ![p] = @ \cup {i}]
           ELSE UNCHANGED applied
        /\ UNCHANGED <<data, begun, redis, floor, req, remote, pos, faults>>

(* INVAL_LUA in mode `delete`: markers at seq + 1, the counter untouched.  *)
(* The reply may be lost: the members are then not known.                  *)
delete(i) ==
    LET c == task[i].call
    IN  /\ task[i].step = "delete"
        /\ marks' = Marked(c, Len(log) + 1)
        /\ index' = index \ Unfiled(c)
        /\ \/ /\ task' = [task EXCEPT ![i].step = "unlink", ![i].members = Members(c)]
              /\ UNCHANGED faults
           \/ /\ Fault
              /\ task' = [task EXCEPT ![i].step = "publish"]
        /\ UNCHANGED <<data, begun, log, store, tier1, floor, req, remote, pos, applied>>

(* store.invalidate fails: before the script, or at the UNLINK. *)
delete_failed(i) ==
    /\ task[i].step \in {"delete", "unlink"}
    /\ Fault
    /\ task' = [task EXCEPT ![i].step = "publish"]
    /\ UNCHANGED <<data, begun, redis, tier1, floor, req, remote, pos, applied>>

(* UNLINK of the members; one that failed is tried again on reconnect. *)
unlink(i) ==
    /\ task[i].step = "unlink" \/ task[i].members # {}
    /\ store' = {e \in store : e.page \notin task[i].members}
    /\ task' = [task EXCEPT ![i].step = IF @ = "unlink" THEN "publish" ELSE @,
                            ![i].members = {}]
    /\ UNCHANGED <<data, begun, log, marks, index, tier1, floor, req, remote, pos, applied, faults>>

(* INVAL_LUA in mode `publish`; the reply, the seq, may be lost. *)
publish(i) ==
    /\ task[i].step = "publish"
    /\ log' = Append(log, i)
    /\ marks' = Marked(task[i].call, Len(log'))
    /\ \/ /\ task' = [task EXCEPT ![i].step = "published", ![i].seq = Len(log')]
          /\ UNCHANGED faults
       \/ /\ Fault
          /\ task' = [task EXCEPT ![i].step = "published"]
    /\ UNCHANGED <<data, begun, index, store, tier1, floor, req, remote, pos, applied>>

publish_failed(i) ==
    /\ task[i].step = "publish"
    /\ Fault
    /\ task' = [task EXCEPT ![i].step = "published"]
    /\ UNCHANGED <<data, begun, redis, tier1, floor, req, remote, pos, applied>>

Raised(p, c, s) == floor' = [floor EXCEPT ![p] = raise(@, c, s)]

(* Mutant of replay_own: the own replay leaves the floor as it is. *)
replay_own_no_floor(i) ==
    /\ task[i].step = "published"
    /\ task' = [task EXCEPT ![i].step = "replay", ![i].halves = Halves(task[i].call)]
    /\ UNCHANGED <<data, begun, redis, tier1, floor, req, remote, pos, applied, faults>>

(* The own replay: Core::l2_replay, the floor first when there is a seq. *)
replay_own(i) ==
    /\ task[i].step = "published"
    /\ IF task[i].seq = None THEN UNCHANGED floor
       ELSE Raised(task[i].proc, task[i].call, task[i].seq)
    /\ task' = [task EXCEPT ![i].step = "replay", ![i].halves = Halves(task[i].call)]
    /\ UNCHANGED <<data, begun, redis, tier1, req, remote, pos, applied, faults>>

invalidate_again(i) ==
    LET p == task[i].proc
        last == Final(task[i].halves)
    IN  /\ task[i].step = "replay"
        /\ invalidate(p, task[i].call, Head(task[i].halves))
        /\ task' = [task EXCEPT ![i].halves = Tail(@), ![i].step = IF last THEN "done" ELSE @]
        /\ IF last /\ task[i].seq # None THEN applied' = [applied EXCEPT ![p] = @ \cup {i}]
           ELSE UNCHANGED applied
        /\ UNCHANGED <<data, begun, redis, floor, req, remote, pos, faults>>

-----------------------------------------------------------------------------
(* Worker 0: the events of the other processes *)

Receiving(p) == remote[p].halves # <<>>

(* The next event; one of this process's own is skipped. *)
receive(p) ==
    LET i == log[pos[p] + 1]
    IN  /\ ~Receiving(p)
        /\ pos[p] < Len(log)
        /\ pos' = [pos EXCEPT ![p] = @ + 1]
        /\ IF task[i].proc = p THEN UNCHANGED <<remote, floor>>
           ELSE /\ remote' = [remote EXCEPT ![p] = [id |-> i, halves |-> Halves(task[i].call)]]
                /\ Raised(p, task[i].call, pos[p] + 1)
        /\ UNCHANGED <<data, begun, redis, tier1, req, task, applied, faults>>

(* Events were lost and the gap is noticed (see PushSync): clear_local. *)
gap(p) ==
    /\ ~Receiving(p)
    /\ Fault
    /\ \E n \in pos[p] + 1 .. Len(log) : pos' = [pos EXCEPT ![p] = n]
    /\ remote' = [remote EXCEPT ![p].halves = <<"clear_l1", "clear_jobs">>]
    /\ UNCHANGED <<data, begun, redis, tier1, floor, req, task, applied>>

invalidate_remote(p) ==
    LET i == remote[p].id
        h == Head(remote[p].halves)
        last == Final(remote[p].halves)
    IN  /\ Receiving(p)
        /\ IF i = 0 THEN clear_local(p, h) ELSE invalidate(p, task[i].call, h)
        /\ remote' = IF last THEN [remote EXCEPT ![p] = NoReplay]
                     ELSE [remote EXCEPT ![p].halves = Tail(@)]
        /\ IF last /\ i # 0 THEN applied' = [applied EXCEPT ![p] = @ \cup {i}]
           ELSE UNCHANGED applied
        /\ UNCHANGED <<data, begun, redis, floor, req, task, pos, faults>>

-----------------------------------------------------------------------------
Page_(r) == \/ begin(r) \/ get_page(r) \/ get_seq(r) \/ get_failed(r)
            \/ l2_hit(r) \/ l2_miss(r) \/ loader(r) \/ lookup_jobs(r) \/ jobs_call(r)
            \/ apply_job_results(r) \/ insert(r) \/ SET_LUA(r) \/ abandon(r)

Call_(i) == \/ invalidate_own(i) \/ delete(i) \/ delete_failed(i) \/ unlink(i)
            \/ publish(i) \/ publish_failed(i) \/ replay_own(i) \/ invalidate_again(i)

Process_(p) == Invalidate(p) \/ receive(p) \/ gap(p) \/ invalidate_remote(p)

Next ==
    \/ WriteData
    \/ \E r \in Requests : Page_(r)
    \/ \E i \in DOMAIN task : Call_(i)
    \/ \E p \in Procs : Process_(p)

Spec == Init /\ [][Next /\ UNCHANGED app]_vars

-----------------------------------------------------------------------------
(* Properties *)

(* A page of the store whose loader read data older than a published       *)
(* invalidation covering it carries a stamp below that invalidation's      *)
(* number: every process that replayed it refuses the page.                *)
StoreGuarded ==
    \A e \in store, n \in DOMAIN log :
        CoversPage(task[log[n]].call, e.page) /\ e.loader < task[log[n]].data => e.stamp < n

(* While Redis fails no call, an invalidation that has run its UNLINK      *)
(* leaves no page in the store whose loader read older data, but one that  *)
(* another call is about to unlink; and none is stored later, by a render  *)
(* that began before it or between its scripts.                            *)
StoreClean ==
    faults = 0 => \A i \in DOMAIN task, e \in store :
        /\ adapter /\ task[i].step \in {"publish", "published", "replay", "done"}
        /\ CoversPage(task[i].call, e.page)
        /\ \A j \in DOMAIN task : e.page \notin task[j].members
        => e.loader >= task[i].data

(* Once a process has replayed an invalidation, its L1 holds no page whose *)
(* loader read older data.                                                 *)
LoaderFresh ==
    \A p \in Procs : \A i \in applied[p] : \A e \in l1[p] :
        CoversPage(task[i].call, e.page) => e.loader >= task[i].data

(* Nor does its job cache hold a value computed from older data.           *)
JobFresh ==
    \A p \in Procs : \A i \in applied[p] :
        CoversJob(task[i].call) /\ job[p] # None => job[p] >= task[i].data

(* Covers both the page and the job it is made of. *)
CoversBoth(c, g) == g \in planned /\ CoversJob(c) /\ CoversPage(c, g)

(* A page about to enter L1 with a job value its own request computed is   *)
(* as fresh in that part, for every invalidation its process has replayed. *)
ComputedFresh ==
    \A r \in Requests : \A i \in applied[r[1]] :
        /\ req[r].step = "insert" /\ ~req[r].hit
        /\ l1_accepts(r[1], req[r].page, req[r].since)
        /\ CoversBoth(task[i].call, req[r].page)
        => req[r].job >= task[i].data

(* "A job value computed by a call that began before the invalidation is   *)
(* not cached, and its page is not stored in L1" (core.rs, F89).           *)
PageJobFresh ==
    \A p \in Procs : \A i \in applied[p] : \A e \in l1[p] :
        CoversBoth(task[i].call, e.page) => e.job >= task[i].data

(* "Instances that replayed the event reject them through the invalidation *)
(* floor" (docs/cache-adapters.md).                                        *)
ReplayedRejected ==
    \A p \in Procs : \A i \in applied[p] : \A e \in store :
        CoversPage(task[i].call, e.page) /\ e.loader < task[i].data
            => rejects(floor[p], e.stamp, e.page)
=============================================================================
