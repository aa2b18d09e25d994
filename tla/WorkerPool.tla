----------------------------- MODULE WorkerPool -----------------------------
(***************************************************************************)
(* The pool of JavaScript workers and the calls that go through it:        *)
(* brust-server/src/pool.rs (slots, claims, release, deadline sweeper),    *)
(* dispatch.rs (claim_or_wait, call_worker_decoded, SlotDeadline, Detach)  *)
(* and what a worker does inside a call (pipeline.rs plan_claimed,         *)
(* actions.rs, worker.ts).                                                 *)
(*                                                                         *)
(* A request claims one slot of one worker by compare-and-swap, waits on a *)
(* tokio Notify while every slot is busy, hands the call to the worker's   *)
(* JavaScript thread, and is polled until the worker's promise settles or  *)
(* the deadline stored in the slot passes.  The claim, and with it the     *)
(* slot's cells and its shared buffer, must stay with the call until the   *)
(* promise settles, whatever becomes of the client: the rule that          *)
(* RenderClaim::drop calls load-bearing.                                   *)
(*                                                                         *)
(* Time is relative: a deadline is the number of ticks left, 0 once it has *)
(* passed.  A reply, a plan and the bytes in a slot are named after the    *)
(* request whose call made them.  State that dies with a call (its future, *)
(* its StreamBody, the bytes it left in the slot, which no later call      *)
(* reads before its own worker has written) is reset when the claim is     *)
(* dropped.                                                                *)
(***************************************************************************)
EXTENDS Naturals, Sequences, FiniteSets, SequencesExt

CONSTANTS Requests,      \* the calls of one run, each made once
          WORKERS,       \* how many workers register, each with the next id
          SLOT_COUNT,    \* RenderDispatch::slot_count
          CALL_TIMEOUT,  \* ticks; also the quiet time of a streamed body
          STREAM_TOTAL,  \* ticks; stream_total_ms
          Kinds,         \* the kinds of call made: a subset of CallKinds
          MaxDeaths,     \* how many workers may die
          None           \* the empty Option

\* A call without a cell in its slot (jobs, an unplanned loader), a loader the worker may
\* plan, and the calls with a FetchCell or CacheCell: whole bodies and streamed ones.
CallKinds == {"plain", "planned", "fetch", "stream"}

Workers == 1..WORKERS
Slots == Workers \X (1..SLOT_COUNT)

ASSUME SizesAssumption == WORKERS \in Nat \ {0} /\ SLOT_COUNT \in Nat \ {0} /\ MaxDeaths \in Nat
ASSUME TimesAssumption == CALL_TIMEOUT \in Nat \ {0} /\ STREAM_TOTAL \in Nat \ {0}
ASSUME NamesAssumption == /\ Kinds \subseteq CallKinds
                          /\ None \notin Requests /\ None \notin Slots /\ None \notin Nat
                          /\ None \notin [of : Requests, is : {"seed", "plan", "fetch"}]
                          /\ None \notin [of : Requests, heap : BOOLEAN]

VARIABLES
  \* WorkerPool
  entries,         \* sequence of the registered worker ids
  dead,            \* workers whose JavaScript thread is gone
  sweeping,        \* slots the sweeper's tick saw expired and has not locked yet
  due,             \* calls whose waker the tick took and has not woken yet
  \* Slot
  idle, plan, heap_reply,
  jobs_since,      \* ticks left of the jobs phase's own call_timeout
  deadline, deadline_waker,
  buf,             \* the slot's part of the shared buffer: the reply in it
  \* tokio's Notify, and the state of each request's Notified future
  permit, waiters, notified,
  \* call_worker_decoded, one instance per request
  kind, caller, pos, slot, at, woken, call,
  \* the worker's JavaScript, one instance per call
  js,
  \* StreamBody and the reply cell of a FetchCell or CacheCell
  stream, last, total, reply,
  \* history: the requests whose answer or body was mixed with another call's, and the
  \* slots that have been claimed
  mixed, used

pool   == <<entries, dead>>
sweep  == <<sweeping, due>>
timer  == <<deadline, deadline_waker>>
cells  == <<plan, jobs_since, heap_reply>>
notify == <<permit, waiters, notified>>
body   == <<stream, last, total>>
vars   == <<pool, sweep, idle, timer, cells, buf, notify, kind, caller, pos, slot, at,
            woken, call, js, body, reply, mixed, used>>

Callers == {"new", "scan", "enable", "again", "parked", "call", "deadline", "answered"}
CallSteps == {"none", "dispatch", "await", "clear", "free", "notify", "done"}
JsSteps == {"none", "running", "planned", "resolved", "rejected", "unqueued"}

\* The claim is held: RenderClaim exists and its drop has not yet published idle.
Holds(r) == call[r] \in {"dispatch", "await", "clear", "free"}
\* The worker may still touch the slot for this call.
JsActive(r) == js[r] \in {"running", "planned"}

Init ==
  /\ \E n \in 0..WORKERS : entries = [i \in 1..n |-> i]
  /\ dead = {} /\ sweeping = {} /\ due = {}
  /\ idle = [s \in Slots |-> TRUE]
  /\ plan = [s \in Slots |-> None]
  /\ heap_reply = [s \in Slots |-> None]
  /\ jobs_since = [s \in Slots |-> None]
  /\ deadline = [s \in Slots |-> None]
  /\ deadline_waker = [s \in Slots |-> None]
  /\ buf = [s \in Slots |-> None]
  /\ permit = FALSE /\ waiters = <<>>
  /\ notified = [r \in Requests |-> "none"]
  /\ kind \in [Requests -> Kinds]
  /\ caller = [r \in Requests |-> "new"]
  /\ pos = [r \in Requests |-> 1]
  /\ slot = [r \in Requests |-> None]
  /\ at = [r \in Requests |-> 0]
  /\ woken = [r \in Requests |-> FALSE]
  /\ call = [r \in Requests |-> "none"]
  /\ js = [r \in Requests |-> "none"]
  /\ stream = [r \in Requests |-> "open"]
  /\ last = [r \in Requests |-> 0]
  /\ total = [r \in Requests |-> 0]
  /\ reply = [r \in Requests |-> None]
  /\ mixed = {} /\ used = {}
-----------------------------------------------------------------------------
(***************************************************************************)
(* The registry.  A scan holds the read lock of entries from its first     *)
(* slot to its last, so register and remove wait for the scans under way.  *)
(***************************************************************************)
Unlocked == \A r \in Requests : caller[r] \notin {"scan", "again"}

Registered(w) == \E i \in DOMAIN entries : entries[i] = w

\* WorkerPool::register: the next id, its slots at the end of the list.  Nobody is notified.
register ==
  /\ Unlocked
  /\ \E w \in Workers :
       /\ ~Registered(w) /\ w \notin dead
       /\ \A v \in Workers : v < w => (Registered(v) \/ v \in dead)
       /\ entries' = Append(entries, w)
  /\ UNCHANGED <<dead, sweep, idle, timer, cells, buf, notify, kind, caller, pos, slot, at,
                 woken, call, js, body, reply, mixed, used>>

\* The order in which try_claim_render_lockfree tries the slots.
ScanOrder ==
  [i \in 1..(Len(entries) * SLOT_COUNT) |->
     <<entries[((i - 1) \div SLOT_COUNT) + 1], ((i - 1) % SLOT_COUNT) + 1>>]
-----------------------------------------------------------------------------
(***************************************************************************)
(* tokio::sync::Notify: notify_one wakes the longest waiter or stores one  *)
(* permit; enable takes a stored permit or queues; dropping a Notified     *)
(* that was woken and not polled passes the wake on.                       *)
(***************************************************************************)
notify_one(q, n) ==
  IF q = <<>>
  THEN /\ permit' = TRUE
       /\ waiters' = q
       /\ notified' = n
  ELSE /\ permit' = permit
       /\ waiters' = Tail(q)
       /\ notified' = [n EXCEPT ![Head(q)] = "woken"]

enable(r) ==
  IF permit
  THEN /\ permit' = FALSE
       /\ waiters' = waiters
       /\ notified' = [notified EXCEPT ![r] = "taken"]
  ELSE /\ permit' = permit
       /\ waiters' = Append(waiters, r)
       /\ notified' = [notified EXCEPT ![r] = "waiting"]

\* Mutant: the wake of a dropped Notified is lost.
drop_notified_silent(r) ==
  /\ permit' = permit
  /\ waiters' = RemoveFirst(waiters, r)
  /\ notified' = [notified EXCEPT ![r] = "none"]

drop_notified(r) ==
  LET n == [notified EXCEPT ![r] = "none"]
      q == RemoveFirst(waiters, r)
  IN IF notified[r] = "woken"
     THEN notify_one(q, n)
     ELSE /\ permit' = permit
          /\ waiters' = q
          /\ notified' = n

-----------------------------------------------------------------------------
(***************************************************************************)
(* claim_or_wait over try_claim_render_lockfree.                           *)
(***************************************************************************)
answer(r) == caller' = [caller EXCEPT ![r] = "answered"]

\* The request comes in (a streamed body starts its clocks, StreamBody::new) and takes the
\* read lock for its first scan.
arrive(r) ==
  /\ caller[r] = "new"
  /\ caller' = [caller EXCEPT ![r] = "scan"]
  /\ last' = [last EXCEPT ![r] = IF kind[r] = "stream" THEN CALL_TIMEOUT ELSE 0]
  /\ total' = [total EXCEPT ![r] = IF kind[r] = "stream" THEN STREAM_TOTAL ELSE 0]
  /\ UNCHANGED <<pool, sweep, idle, timer, cells, buf, notify, kind, pos, slot, at, woken,
                 call, js, stream, reply, mixed, used>>

\* No worker is registered: NoWorkers, never waited on.
pool_empty(r) ==
  /\ caller[r] \in {"scan", "again"}
  /\ entries = <<>>
  /\ answer(r)
  /\ drop_notified(r)
  /\ UNCHANGED <<pool, sweep, idle, timer, cells, buf, kind, pos, slot, at, woken, call, js,
                 body, reply, mixed, used>>

\* Mutant: a store instead of a compare-and-swap.
store_busy(s) == idle' = [idle EXCEPT ![s] = FALSE]

compare_exchange(s) == idle[s] /\ idle' = [idle EXCEPT ![s] = FALSE]

\* The compare-and-swap on the next slot of the scan succeeds: the claim.  A Notified enabled
\* for the second look is dropped with the loop.
claim(r) ==
  /\ caller[r] \in {"scan", "again"}
  /\ pos[r] <= Len(ScanOrder)
  /\ LET s == ScanOrder[pos[r]] IN
       /\ compare_exchange(s)
       /\ slot' = [slot EXCEPT ![r] = s]
       /\ used' = used \cup {s}
  /\ pos' = [pos EXCEPT ![r] = 1]
  /\ caller' = [caller EXCEPT ![r] = "call"]
  /\ call' = [call EXCEPT ![r] = "dispatch"]
  /\ drop_notified(r)
  /\ UNCHANGED <<pool, sweep, timer, cells, buf, kind, at, woken, js, body, reply, mixed>>

\* The compare-and-swap fails: the next slot, or AllBusy after the last one.
slot_busy(r) ==
  /\ caller[r] \in {"scan", "again"}
  /\ pos[r] <= Len(ScanOrder)
  /\ ~idle[ScanOrder[pos[r]]]
  /\ IF pos[r] < Len(ScanOrder)
     THEN /\ pos' = [pos EXCEPT ![r] = @ + 1]
          /\ caller' = caller
     ELSE /\ pos' = [pos EXCEPT ![r] = 1]
          /\ caller' = [caller EXCEPT ![r] = IF @ = "scan" THEN "enable" ELSE "parked"]
  /\ UNCHANGED <<pool, sweep, idle, timer, cells, buf, notify, kind, slot, at, woken, call,
                 js, body, reply, mixed, used>>

\* Top of the loop: a new Notified, enabled before the second look.
enable_notified(r) ==
  /\ caller[r] = "enable"
  /\ enable(r)
  /\ caller' = [caller EXCEPT ![r] = "again"]
  /\ UNCHANGED <<pool, sweep, idle, timer, cells, buf, kind, pos, slot, at, woken, call, js,
                 body, reply, mixed, used>>

\* select!: the notification arrived.
woken_up(r) ==
  /\ caller[r] = "parked"
  /\ notified[r] \in {"woken", "taken"}
  /\ caller' = [caller EXCEPT ![r] = "enable"]
  /\ notified' = [notified EXCEPT ![r] = "none"]
  /\ UNCHANGED <<pool, sweep, idle, timer, cells, buf, permit, waiters, kind, pos, slot, at,
                 woken, call, js, body, reply, mixed, used>>

\* select!: the claim timeout passed; or the client left and the future is dropped.
give_up(r) ==
  /\ caller[r] = "parked"
  /\ answer(r)
  /\ drop_notified(r)
  /\ UNCHANGED <<pool, sweep, idle, timer, cells, buf, kind, pos, slot, at, woken, call, js,
                 body, reply, mixed, used>>
-----------------------------------------------------------------------------
(***************************************************************************)
(* call_worker_decoded with the claim in hand.                             *)
(***************************************************************************)
\* Mutant: a streamed call is bounded by the total alone.
stream_deadline_total(r) ==
  IF stream[r] \in {"open", "failed"} THEN total[r] ELSE last[r]

\* StreamBody::deadline: the quiet time after the last pull, never past the total, which no
\* longer counts once the body ended whole.
stream_deadline(r) ==
  IF stream[r] \in {"open", "failed"} THEN Min({last[r], total[r]}) ELSE last[r]

\* RenderClaim::put_plan with the cell this kind of call seeds.
put_plan(r) ==
  plan' = [plan EXCEPT ![slot[r]] =
             CASE kind[r] = "plain" -> @
               [] kind[r] = "planned" -> [of |-> r, is |-> "seed"]
               [] OTHER -> [of |-> r, is |-> "fetch"]]

\* The seed goes into the slot, the sweeper is running from now on, the deadline is armed,
\* and the first poll of the call hands it to the worker.
dispatch_call(r) ==
  /\ caller[r] = "call" /\ call[r] = "dispatch"
  /\ put_plan(r)
  /\ LET d == IF kind[r] = "stream" THEN stream_deadline(r) ELSE CALL_TIMEOUT IN
       /\ at' = [at EXCEPT ![r] = d]
       /\ deadline' = [deadline EXCEPT ![slot[r]] = d]
  /\ call' = [call EXCEPT ![r] = "await"]
  /\ js' = [js EXCEPT ![r] = IF slot[r][1] \in dead THEN "unqueued" ELSE "running"]
  /\ woken' = [woken EXCEPT ![r] = TRUE]
  /\ UNCHANGED <<pool, sweep, idle, jobs_since, heap_reply, deadline_waker, buf, notify,
                 kind, caller, pos, slot, body, reply, mixed, used>>

\* The request does not serialise: the claim is dropped with its seed in the slot.
serialise_fails(r) ==
  /\ caller[r] = "call" /\ call[r] = "dispatch"
  /\ put_plan(r)
  /\ call' = [call EXCEPT ![r] = "clear"]
  /\ answer(r)
  /\ UNCHANGED <<pool, sweep, idle, timer, jobs_since, heap_reply, buf, notify, kind, pos,
                 slot, at, woken, js, body, reply, mixed, used>>

\* The decode closure and take_plan: the bytes in the slot, the body behind a heap marker
\* (from the call's own reply cell or from the slot), the plan.
decode(r) ==
  LET s == slot[r]
      cell == kind[r] \in {"fetch", "stream"}
      heap == IF cell THEN reply[r] ELSE heap_reply[s]
      own == /\ buf[s].of = r
             /\ buf[s].heap => heap = r
             /\ plan[s] # None => plan[s].of = r
  IN /\ mixed' = IF own THEN mixed ELSE mixed \cup {r}
     /\ heap_reply' = IF buf[s].heap /\ ~cell THEN [heap_reply EXCEPT ![s] = None] ELSE heap_reply
     /\ reply' = IF buf[s].heap /\ cell THEN [reply EXCEPT ![r] = None] ELSE reply
     /\ plan' = [plan EXCEPT ![s] = None]

\* The promise settled: the reply is decoded; a call that could not be enqueued removes its
\* worker from the pool.  The claim's drop follows.
Settled(r) == js[r] \in {"resolved", "rejected", "unqueued"}

finish(r) ==
  /\ Settled(r)
  /\ js[r] = "unqueued" => Unlocked
  /\ entries' = IF js[r] = "unqueued"
                THEN RemoveFirst(entries, slot[r][1]) ELSE entries
  /\ IF js[r] = "resolved" THEN decode(r) ELSE UNCHANGED <<mixed, heap_reply, reply, plan>>
  /\ call' = [call EXCEPT ![r] = "clear"]

\* One poll of the request's future: first the call, which may be settled ...
poll_call(r) ==
  /\ caller[r] = "call" /\ call[r] = "await" /\ woken[r]
  /\ woken' = [woken EXCEPT ![r] = FALSE]
  /\ \/ finish(r) /\ answer(r)
     \/ /\ ~Settled(r)
        /\ caller' = [caller EXCEPT ![r] = "deadline"]
        /\ UNCHANGED <<entries, mixed, heap_reply, reply, plan, call>>
  /\ UNCHANGED <<dead, sweep, idle, timer, jobs_since, buf, notify, kind, pos, slot, at, js,
                 body, used>>

\* Dropping Detach before the call is complete: the rest runs as a task of its own and keeps
\* the claim.
detach(r) ==
  /\ answer(r)
  /\ woken' = [woken EXCEPT ![r] = FALSE]
  /\ call' = call

\* Mutant: the waker is not parked again when the deadline moved.
poll_deadline_parks_once(r) ==
  /\ caller[r] = "deadline"
  /\ LET s == slot[r]
         moved == CASE kind[r] = "stream" -> stream_deadline(r)
                    [] jobs_since[s] # None -> jobs_since[s]
                    [] OTHER -> 0
     IN \/ /\ at[r] = 0 /\ moved = 0
           /\ detach(r)
           /\ stream' = [stream EXCEPT ![r] = IF @ = "open" THEN "failed" ELSE @]
           /\ UNCHANGED <<at, timer>>
        \/ /\ at[r] + moved > 0
           /\ at' = [at EXCEPT ![r] = IF @ = 0 THEN moved ELSE @]
           /\ deadline' = [deadline EXCEPT ![s] = IF at[r] = 0 THEN moved ELSE @]
           /\ deadline_waker' = [deadline_waker EXCEPT ![s] = IF at[r] = 0 THEN @ ELSE r]
           /\ caller' = [caller EXCEPT ![r] = "call"]
           /\ UNCHANGED <<woken, call, stream>>
  /\ UNCHANGED <<pool, sweep, idle, cells, buf, notify, kind, pos, slot, js, last, total,
                 reply, mixed, used>>

\* ... then SlotDeadline::poll: a passed deadline moves with the last pull of a streamed body
\* or with the jobs phase, or the call has run out of time; Pending parks the waker.
poll_deadline(r) ==
  /\ caller[r] = "deadline"
  /\ LET s == slot[r]
         moved == CASE kind[r] = "stream" -> stream_deadline(r)
                    [] jobs_since[s] # None -> jobs_since[s]
                    [] OTHER -> 0
     IN \/ /\ at[r] = 0 /\ moved = 0
           /\ detach(r)
           /\ stream' = [stream EXCEPT ![r] = IF @ = "open" THEN "failed" ELSE @]
           /\ UNCHANGED <<at, timer>>
        \/ /\ at[r] + moved > 0
           /\ at' = [at EXCEPT ![r] = IF @ = 0 THEN moved ELSE @]
           /\ deadline' = [deadline EXCEPT ![s] = IF at[r] = 0 THEN moved ELSE @]
           /\ deadline_waker' = [deadline_waker EXCEPT ![s] = r]
           /\ caller' = [caller EXCEPT ![r] = "call"]
           /\ UNCHANGED <<woken, call, stream>>
  /\ UNCHANGED <<pool, sweep, idle, cells, buf, notify, kind, pos, slot, js, last, total,
                 reply, mixed, used>>

\* The client left while the call was pending.
disconnect(r) ==
  /\ caller[r] = "call" /\ call[r] = "await"
  /\ detach(r)
  /\ UNCHANGED <<pool, sweep, idle, timer, cells, buf, notify, kind, pos, slot, at, js, body,
                 reply, mixed, used>>

\* The detached rest of a call, polled by its own task once the promise settled.
detached_settles(r) ==
  /\ caller[r] = "answered" /\ call[r] = "await"
  /\ finish(r)
  /\ UNCHANGED <<dead, sweep, idle, timer, jobs_since, buf, notify, kind, caller, pos, slot,
                 at, woken, js, body, used>>
-----------------------------------------------------------------------------
(***************************************************************************)
(* RenderClaim::drop: the cells are emptied and the deadline disarmed,     *)
(* then idle is published, then one waiter is notified.                    *)
(***************************************************************************)
\* Mutant: the stamp of the jobs phase outlives the claim.
drop_clear_but_jobs(r) ==
  /\ call[r] = "clear"
  /\ LET s == slot[r] IN
       /\ plan' = [plan EXCEPT ![s] = None]
       /\ heap_reply' = [heap_reply EXCEPT ![s] = None]
       /\ deadline' = [deadline EXCEPT ![s] = None]
       /\ deadline_waker' = [deadline_waker EXCEPT ![s] = None]
  /\ at' = [at EXCEPT ![r] = 0]
  /\ stream' = [stream EXCEPT ![r] = "closed"]
  /\ last' = [last EXCEPT ![r] = 0]
  /\ total' = [total EXCEPT ![r] = 0]
  /\ reply' = [reply EXCEPT ![r] = None]
  /\ buf' = [buf EXCEPT ![slot[r]] = None]
  /\ call' = [call EXCEPT ![r] = "free"]
  /\ UNCHANGED <<pool, sweep, idle, jobs_since, notify, kind, caller, pos, slot, woken, js,
                 mixed, used>>

drop_clear(r) ==
  /\ call[r] = "clear"
  /\ LET s == slot[r] IN
       /\ plan' = [plan EXCEPT ![s] = None]
       /\ jobs_since' = [jobs_since EXCEPT ![s] = None]
       /\ heap_reply' = [heap_reply EXCEPT ![s] = None]
       /\ deadline' = [deadline EXCEPT ![s] = None]
       /\ deadline_waker' = [deadline_waker EXCEPT ![s] = None]
  /\ at' = [at EXCEPT ![r] = 0]
  /\ stream' = [stream EXCEPT ![r] = "closed"]
  /\ last' = [last EXCEPT ![r] = 0]
  /\ total' = [total EXCEPT ![r] = 0]
  /\ reply' = [reply EXCEPT ![r] = None]
  /\ buf' = [buf EXCEPT ![slot[r]] = None]
  /\ call' = [call EXCEPT ![r] = "free"]
  /\ UNCHANGED <<pool, sweep, idle, notify, kind, caller, pos, slot, woken, js, mixed,
                 used>>

drop_free(r) ==
  /\ call[r] = "free"
  /\ idle' = [idle EXCEPT ![slot[r]] = TRUE]
  /\ call' = [call EXCEPT ![r] = "notify"]
  /\ UNCHANGED <<pool, sweep, timer, cells, buf, notify, kind, caller, pos, slot, at, woken,
                 js, body, reply, mixed, used>>

\* With the claim gone only a reader of a streamed body still knows the slot's number.
drop_notify(r) ==
  /\ call[r] = "notify"
  /\ notify_one(waiters, notified)
  /\ call' = [call EXCEPT ![r] = "done"]
  /\ slot' = [slot EXCEPT ![r] = IF kind[r] = "stream" THEN @ ELSE None]
  /\ js' = [js EXCEPT ![r] = IF kind[r] = "stream" THEN @ ELSE "none"]
  /\ UNCHANGED <<pool, sweep, idle, timer, cells, buf, kind, caller, pos, at, woken, body,
                 reply, mixed, used>>
-----------------------------------------------------------------------------
(***************************************************************************)
(* The worker's JavaScript thread inside a call.  The native functions it  *)
(* calls find the slot by worker id and slot number: they decline when the *)
(* worker is no longer registered or the slot is idle, and do not know     *)
(* whose claim it is.                                                      *)
(***************************************************************************)
ClaimedSlot(r) == Registered(slot[r][1]) /\ ~idle[slot[r]]
\* The promise wakes the request's task; a detached call has a task of its own.
Wake(r) == woken' = [woken EXCEPT ![r] = caller[r] # "answered"]
Alive(r) == slot[r] # None /\ slot[r][1] \notin dead

\* makeDispatch's planned loader: the loader's answer goes into the slot, and plan_claimed
\* swaps the seed for a plan and stamps the jobs phase, or declines with the cell empty.
plan_in_call(r) ==
  /\ js[r] = "running" /\ kind[r] = "planned" /\ Alive(r)
  /\ LET s == slot[r] IN
       /\ buf' = [buf EXCEPT ![s] = [of |-> r, heap |-> FALSE]]
       /\ \/ /\ ClaimedSlot(r) /\ plan[s] # None
             /\ plan[s].is = "seed"
             /\ plan' = [plan EXCEPT ![s].is = "plan"]
             /\ jobs_since' = [jobs_since EXCEPT ![s] = CALL_TIMEOUT]
          \/ /\ plan' = [plan EXCEPT ![s] = IF ClaimedSlot(r) THEN None ELSE @]
             /\ jobs_since' = jobs_since
  /\ js' = [js EXCEPT ![r] = "planned"]
  /\ UNCHANGED <<pool, sweep, idle, timer, heap_reply, notify, kind, caller, pos, slot, at,
                 woken, call, body, reply, mixed, used>>

\* The reply is written to the slot; or put_fetch_reply hands it over, into the reply cell
\* of the call whose cell the slot holds or into the slot, and a marker is written.  Then the
\* promise resolves.
resolve(r) ==
  /\ js[r] \in {"running", "planned"} /\ Alive(r)
  /\ LET s == slot[r]
         typed == plan[s] # None /\ plan[s].is = "fetch"
         put == IF typed THEN reply[plan[s].of] ELSE heap_reply[s]
     IN \E heap \in BOOLEAN :
          /\ heap => ClaimedSlot(r) /\ put = None
          /\ reply' = IF heap /\ typed THEN [reply EXCEPT ![plan[s].of] = r] ELSE reply
          /\ heap_reply' = IF heap /\ ~typed THEN [heap_reply EXCEPT ![s] = r] ELSE heap_reply
          /\ buf' = [buf EXCEPT ![s] = [of |-> r, heap |-> heap]]
  /\ js' = [js EXCEPT ![r] = "resolved"]
  /\ Wake(r)
  /\ UNCHANGED <<pool, sweep, idle, timer, plan, jobs_since, notify, kind, caller, pos, slot,
                 at, call, body, mixed, used>>

\* A worker's thread ends: a promise it leaves is rejected, or the enqueued call fails, or
\* neither is ever reported.
worker_dies(w) ==
  /\ w \notin dead /\ Registered(w) /\ Cardinality(dead) < MaxDeaths
  /\ dead' = dead \cup {w}
  /\ UNCHANGED <<entries, sweep, idle, timer, cells, buf, notify, kind, caller, pos, slot,
                 at, woken, call, js, body, reply, mixed, used>>

abandoned(r) ==
  /\ JsActive(r) /\ ~Alive(r)
  /\ \E x \in {"unqueued", "rejected"} :
       /\ x = "unqueued" => js[r] = "running"
       /\ js' = [js EXCEPT ![r] = x]
  /\ Wake(r)
  /\ UNCHANGED <<pool, sweep, idle, timer, cells, buf, notify, kind, caller, pos, slot, at,
                 call, body, reply, mixed, used>>

\* The cell of a fetch call in the slot this call's worker names, if there is one.
FetchCell(r) == ClaimedSlot(r) /\ plan[slot[r]] # None /\ plan[slot[r]].is = "fetch"

\* takeFetchBody inside the call: the whole body, once.
take_fetch_body(r) ==
  /\ js[r] = "running" /\ kind[r] = "fetch" /\ Alive(r)
  /\ FetchCell(r)
  /\ LET o == plan[slot[r]].of IN
       /\ kind[o] = "fetch" /\ stream[o] = "open"
       /\ stream' = [stream EXCEPT ![o] = "closed"]
       /\ mixed' = IF o = r THEN mixed ELSE mixed \cup {o}
  /\ UNCHANGED <<pool, sweep, idle, timer, cells, buf, notify, kind, caller, pos, slot, at,
                 woken, call, js, last, total, reply, used>>

\* Mutant: the token is not compared.
TokenMatches_any(r, o) == o \in Requests

\* fetch_stream: the body in the slot's cell, for the token of the call it was sent to.
TokenMatches(r, o) == o = r

\* pullFetchBody, during the call or by a reader the app kept past it.  StreamBody::pull
\* stamps last and gives a chunk (perhaps the last one) or the end; or it fails, some time
\* after its start, which is what it then has stamped.  The app's reader closes at the end
\* and at a failure.
pull_fetch_body(r) ==
  /\ js[r] \in {"running", "resolved"} /\ kind[r] = "stream" /\ Alive(r)
  /\ FetchCell(r)
  /\ LET o == plan[slot[r]].of IN
       /\ kind[o] = "stream" /\ TokenMatches(r, o)
       /\ mixed' = IF o = r THEN mixed ELSE mixed \cup {o}
       /\ \/ /\ stream[o] = "open"
             /\ \E x \in {"open", "done", "closed"} : stream' = [stream EXCEPT ![o] = x]
             /\ last' = [last EXCEPT ![o] = CALL_TIMEOUT]
          \/ /\ stream[o] = "open"
             /\ stream' = [stream EXCEPT ![o] = "failed"]
             /\ \E t \in last[o]..CALL_TIMEOUT : last' = [last EXCEPT ![o] = t]
          \/ /\ stream[o] = "done"
             /\ stream' = [stream EXCEPT ![o] = "closed"]
             /\ last' = [last EXCEPT ![o] = CALL_TIMEOUT]
  /\ UNCHANGED <<pool, sweep, idle, timer, cells, buf, notify, kind, caller, pos, slot, at,
                 woken, call, js, total, reply, used>>
-----------------------------------------------------------------------------
(***************************************************************************)
(* Time and the sweeper: each tick looks at every slot of every entry that *)
(* is still alive, registered or not, locks the wakers of those it saw     *)
(* expired, looks again, and wakes what it took.                           *)
(***************************************************************************)
Less(n) == IF n = None \/ n = 0 THEN n ELSE n - 1

Tick ==
  /\ \E r \in Requests : /\ caller[r] # "answered"
                         /\ at[r] + last[r] + total[r] > 0
  /\ at' = [r \in Requests |-> Less(at[r])]
  /\ last' = [r \in Requests |-> Less(last[r])]
  /\ total' = [r \in Requests |-> Less(total[r])]
  /\ deadline' = [s \in Slots |-> Less(deadline[s])]
  /\ jobs_since' = [s \in Slots |-> Less(jobs_since[s])]
  /\ UNCHANGED <<pool, sweep, idle, plan, heap_reply, deadline_waker, buf, notify, kind,
                 caller, pos, slot, woken, call, js, stream, reply, mixed, used>>

\* The entries swept reaches: upgrade succeeds while the pool or a claim keeps them.
Swept(w) == Registered(w) \/ \E r \in Requests : Holds(r) /\ slot[r][1] = w
Expired(s) == Swept(s[1]) /\ deadline[s] = 0

sweep_tick ==
  /\ sweeping = {} /\ due = {}
  /\ \E s \in Slots : Expired(s)
  /\ sweeping' = {s \in Slots : Expired(s)}
  /\ UNCHANGED <<pool, due, idle, timer, cells, buf, notify, kind, caller, pos, slot, at,
                 woken, call, js, body, reply, mixed, used>>

sweep_take(s) ==
  /\ s \in sweeping
  /\ sweeping' = sweeping \ {s}
  /\ LET fires == deadline[s] = 0 /\ deadline_waker[s] # None IN
       /\ due' = IF fires THEN due \cup {deadline_waker[s]} ELSE due
       /\ deadline_waker' = [deadline_waker EXCEPT ![s] = IF fires THEN None ELSE @]
  /\ UNCHANGED <<pool, idle, deadline, cells, buf, notify, kind, caller, pos, slot, at,
                 woken, call, js, body, reply, mixed, used>>

\* Waking the task of a request that has been answered does nothing.
sweep_wake ==
  /\ sweeping = {} /\ due # {}
  /\ woken' = [r \in Requests |-> woken[r] \/ (r \in due /\ caller[r] # "answered")]
  /\ due' = {}
  /\ UNCHANGED <<pool, sweeping, idle, timer, cells, buf, notify, kind, caller, pos, slot,
                 at, call, js, body, reply, mixed, used>>
-----------------------------------------------------------------------------
\* What the request's own task, or the task Detach spawned, does next.
Task(r) == \/ pool_empty(r) \/ claim(r) \/ slot_busy(r) \/ enable_notified(r)
           \/ woken_up(r) \/ give_up(r) \/ dispatch_call(r)
           \/ poll_call(r) \/ poll_deadline(r) \/ detached_settles(r)
           \/ drop_clear(r) \/ drop_free(r) \/ drop_notify(r)

Client(r) == arrive(r) \/ disconnect(r) \/ serialise_fails(r)

Javascript(r) == \/ plan_in_call(r) \/ resolve(r) \/ abandoned(r)
                 \/ take_fetch_body(r) \/ pull_fetch_body(r)

Sweeper == sweep_tick \/ (\E s \in Slots : sweep_take(s)) \/ sweep_wake

\* Every call has been answered and has released its slot.
Finished ==
  /\ \A r \in Requests : caller[r] = "answered" /\ call[r] \in {"none", "done"}
  /\ UNCHANGED vars

Next ==
  \/ \E r \in Requests : Task(r) \/ Client(r) \/ Javascript(r)
  \/ register \/ (\E w \in Workers : worker_dies(w))
  \/ Sweeper \/ Tick \/ Finished

\* tokio runs every task that can run, its timers fire, and time passes.  Nothing is assumed
\* of the client, of the worker's JavaScript, which may never settle, or of a dead worker.
Fairness == /\ \A r \in Requests : WF_vars(Task(r))
            /\ WF_vars(Sweeper) /\ WF_vars(Tick)

Spec == Init /\ [][Next]_vars
FairSpec == Spec /\ Fairness
-----------------------------------------------------------------------------
Timers == {None} \cup (0..CALL_TIMEOUT)

TypeOK ==
  /\ entries \in Seq(Workers) /\ dead \subseteq Workers
  /\ sweeping \subseteq Slots /\ due \subseteq Requests
  /\ idle \in [Slots -> BOOLEAN]
  /\ plan \in [Slots -> {None} \cup [of : Requests, is : {"seed", "plan", "fetch"}]]
  /\ heap_reply \in [Slots -> {None} \cup Requests]
  /\ jobs_since \in [Slots -> Timers] /\ deadline \in [Slots -> Timers]
  /\ deadline_waker \in [Slots -> {None} \cup Requests]
  /\ buf \in [Slots -> {None} \cup [of : Requests, heap : BOOLEAN]]
  /\ permit \in BOOLEAN /\ waiters \in Seq(Requests)
  /\ notified \in [Requests -> {"none", "waiting", "woken", "taken"}]
  /\ kind \in [Requests -> Kinds]
  /\ caller \in [Requests -> Callers] /\ pos \in [Requests -> Nat]
  /\ slot \in [Requests -> {None} \cup Slots] /\ at \in [Requests -> 0..CALL_TIMEOUT]
  /\ woken \in [Requests -> BOOLEAN] /\ call \in [Requests -> CallSteps]
  /\ js \in [Requests -> JsSteps]
  /\ stream \in [Requests -> {"open", "done", "closed", "failed"}]
  /\ last \in [Requests -> 0..CALL_TIMEOUT] /\ total \in [Requests -> 0..STREAM_TOTAL]
  /\ reply \in [Requests -> {None} \cup Requests]
  /\ mixed \subseteq Requests /\ used \subseteq Slots

(***************************************************************************)
(* The load-bearing rule of RenderClaim::drop, as a refinement: the pool   *)
(* leases its slots as SlotLease promises.  While a worker may still touch *)
(* a slot for one call no other call is given it, whether the first call's *)
(* client is waiting, has left or has run into the deadline, and however   *)
(* claims race for it.                                                     *)
(***************************************************************************)
Holder(s) == IF \E r \in Requests : Holds(r) /\ slot[r] = s
             THEN CHOOSE r \in Requests : Holds(r) /\ slot[r] = s
             ELSE None

Lease == INSTANCE SlotLease WITH lease <- [s \in Slots |-> Holder(s)],
                                 working <- {r \in Requests : JsActive(r)}

LeasesSlots == Lease!Spec

(***************************************************************************)
(* What a call is answered from is its own: the bytes in the slot, the     *)
(* heap reply behind a marker, the plan; and no other call's code takes or *)
(* pulls the body it carries, a reader kept past its own call included.    *)
(***************************************************************************)
OwnReply == mixed = {}

(***************************************************************************)
(* A slot that can be claimed carries nothing of its last call: no plan,   *)
(* no jobs stamp, no heap reply, no armed deadline and no parked waker.    *)
(***************************************************************************)
IdleSlotClean ==
  \A s \in Slots :
    idle[s] => /\ plan[s] = None /\ jobs_since[s] = None /\ heap_reply[s] = None
               /\ deadline[s] = None /\ deadline_waker[s] = None

(***************************************************************************)
(* No wake is lost: while a request is parked unnotified and a released    *)
(* slot of a registered worker is idle, somebody is on the way to it: a    *)
(* release that has still to notify, a request that was notified or is     *)
(* about to look again, or a scan that has still to reach an idle slot.    *)
(***************************************************************************)
OnItsWay(r) ==
  \/ call[r] = "notify" \/ notified[r] \in {"woken", "taken"} \/ caller[r] = "enable"
  \/ /\ caller[r] \in {"scan", "again"}
     /\ \E i \in pos[r]..Len(ScanOrder) : idle[ScanOrder[i]]

Unnotified(r) == caller[r] = "parked" /\ notified[r] = "waiting"

NoLostWakeup ==
  (/\ \E r \in Requests : Unnotified(r)
   /\ \E s \in used : idle[s] /\ Registered(s[1]))
  => \E r \in Requests : OnItsWay(r)

(***************************************************************************)
(* Every request is answered: with its reply, with a busy or empty pool,   *)
(* or by its deadline, even when the worker never settles, is dead, or has *)
(* left the pool, and however a streamed body is pulled.                   *)
(***************************************************************************)
EveryRequestAnswered ==
  \A r \in Requests : caller[r] = "scan" ~> caller[r] = "answered"
=============================================================================
