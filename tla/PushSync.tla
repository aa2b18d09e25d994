------------------------------ MODULE PushSync ------------------------------
(***************************************************************************)
(* How an invalidation reaches the processes of a Redis deployment: the    *)
(* subscriber connection of worker 0 and its reconnect loop                *)
(* (cache-redis/src/conn.ts), the gap check after every subscribe          *)
(* (subscriber.ts), what the adapter runtime does with an event or a gap   *)
(* (cache-adapter/runtime.ts), and the publisher's own half.               *)
(*                                                                         *)
(* One process is modelled; the others appear as the events they publish.  *)
(* The JavaScript of worker 0 is single-threaded: an action ends where it  *)
(* awaits.  What a page, a render and an own invalidation are is said in   *)
(* PullSync.                                                               *)
(***************************************************************************)
EXTENDS Integers, Sequences, FiniteSets

CONSTANTS
    Pages,
    MaxAttempts,        \* bound: connection attempts
    MaxOwed,            \* bound: own invalidations under way
    MaxLog              \* bound: events published

ASSUME PushAssumption == MaxAttempts \in Nat \ {0}

VARIABLES
    log,        \* every event of the channel; its length is the seq key
    attempts,   \* the runs of Link.attempt so far
    client,     \* attempt whose connection is this.client, 0 for null
    timer,      \* a reconnect is scheduled
    last,       \* SubscriberState.last
    seen,       \* `last` of the runtime's startSubscriber
    tier1,      \* cached pages
    renders,    \* renders whose insert would still be accepted
    owed,       \* deferred halves of the process's own invalidations
    joined,     \* history: first value of `last`
    blind       \* history: events up to here were skipped unnoticed

link == <<attempts, client, timer>>
local == <<tier1, renders>>
history == <<joined, blind>>
vars == <<log, link, last, seen, local, owed, history>>

Null == -1

Event == [own : BOOLEAN, page : Pages]
Page == [page : Pages, at : Nat]
Task == [page : Pages, step : {"publish", "replay"}]

(* Where an attempt awaits, whether its socket is open, the last event its *)
(* socket has handed over, and the answer of readSeq.                      *)
Attempt == [stage : {"connect", "subscribe", "seq", "up", "over"},
            open : BOOLEAN, pos : Nat, reply : Nat \cup {Null}]

NewAttempt == [stage |-> "connect", open |-> FALSE, pos |-> 0, reply |-> Null]

Seqs == 0 .. Len(log)

(* Types, and the bounds the counter gives: nothing delivered, read or     *)
(* remembered is beyond the log.                                           *)
TypeOK ==
    /\ log \in Seq(Event)
    /\ attempts \in Seq(Attempt)
    /\ \A a \in DOMAIN attempts : attempts[a].pos \in Seqs /\ attempts[a].reply \in Seqs \cup {Null}
    /\ client \in 0 .. Len(attempts)
    /\ timer \in BOOLEAN
    /\ last \in Seqs \cup {Null}
    /\ seen \in Seqs \cup {Null}
    /\ tier1 \subseteq Page
    /\ renders \subseteq Page
    /\ owed \subseteq Task
    /\ joined \in Seqs
    /\ blind \in Seqs

Init ==
    /\ log = <<>>
    /\ attempts = <<NewAttempt>> /\ client = 0 /\ timer = FALSE
    /\ last = Null /\ seen = Null
    /\ tier1 = {} /\ renders = {} /\ owed = {}
    /\ joined = 0 /\ blind = 0

-----------------------------------------------------------------------------
(* Tier 1, as in PullSync *)

invalidate(pages) ==
    /\ tier1' = {e \in tier1 : e.page \notin pages}
    /\ renders' = {e \in renders : e.page \notin pages}

clear_local == tier1' = {} /\ renders' = {}

(* The script that counts and publishes an event runs alone in Redis. *)
publish(own, p) ==
    /\ Len(log) < MaxLog
    /\ log' = Append(log, [own |-> own, page |-> p])

(* Another process publishes. *)
Elsewhere(p) ==
    /\ publish(FALSE, p)
    /\ UNCHANGED <<link, last, seen, local, owed, history>>

-----------------------------------------------------------------------------
(* Link: attempts and the reconnect loop *)

Set(a, r) == attempts' = [attempts EXCEPT ![a] = r]

connected(a) ==
    /\ attempts[a].stage = "connect"
    /\ Set(a, [attempts[a] EXCEPT !.stage = "subscribe", !.open = TRUE])
    /\ client' = a
    /\ UNCHANGED <<log, timer, last, seen, local, owed, history>>

(* Redis takes the subscription; events from now on reach this socket. *)
subscribe(a) ==
    /\ attempts[a].stage = "subscribe"
    /\ Set(a, [attempts[a] EXCEPT !.stage = "seq", !.pos = Len(log)])
    /\ UNCHANGED <<log, client, timer, last, seen, local, owed, history>>

(* Mutant of ReadSeq: the counter's next value. *)
ReadSeq_next(a) ==
    /\ attempts[a].stage = "seq" /\ attempts[a].reply = Null
    /\ Set(a, [attempts[a] EXCEPT !.reply = Len(log) + 1])
    /\ UNCHANGED <<log, client, timer, last, seen, local, owed, history>>

(* Redis answers the GET of readSeq, sent over the command connection. *)
ReadSeq(a) ==
    /\ attempts[a].stage = "seq" /\ attempts[a].reply = Null
    /\ Set(a, [attempts[a] EXCEPT !.reply = Len(log)])
    /\ UNCHANGED <<log, client, timer, last, seen, local, owed, history>>

(* A failure is possible while another attempt may follow. *)
MayFail == Len(attempts) < MaxAttempts

(* The await of an attempt rejects or times out: the socket is closed and  *)
(* a retry scheduled.  A socket that closes before it is subscribed        *)
(* rejects the await at once.                                              *)
attempt_fails(a) ==
    /\ MayFail
    /\ attempts[a].stage \in {"connect", "subscribe", "seq"}
    /\ Set(a, [attempts[a] EXCEPT !.stage = "over", !.open = FALSE, !.reply = Null])
    /\ client' = IF client = a THEN 0 ELSE client
    /\ timer' = TRUE
    /\ UNCHANGED <<log, last, seen, local, owed, history>>

(* Mutant of lost: the loop is not started. *)
lost_no_retry(a) ==
    /\ MayFail
    /\ attempts[a].stage \in {"seq", "up"} /\ attempts[a].open
    /\ Set(a, [attempts[a] EXCEPT !.open = FALSE])
    /\ client' = IF client = a THEN 0 ELSE client
    /\ UNCHANGED <<log, timer, last, seen, local, owed, history>>

(* The socket of an attempt closes.  An onUp that awaits readSeq, which    *)
(* goes over the other connection, is not disturbed by it.                 *)
lost(a) ==
    /\ MayFail
    /\ attempts[a].stage \in {"seq", "up"} /\ attempts[a].open
    /\ Set(a, [attempts[a] EXCEPT !.open = FALSE])
    /\ \/ client = a /\ client' = 0 /\ timer' = TRUE
       \/ client # a /\ UNCHANGED <<client, timer>>
    /\ UNCHANGED <<log, last, seen, local, owed, history>>

(* The scheduled reconnect. *)
schedule ==
    /\ timer /\ MayFail
    /\ timer' = FALSE
    /\ attempts' = Append(attempts, NewAttempt)
    /\ UNCHANGED <<log, client, last, seen, local, owed, history>>

-----------------------------------------------------------------------------
(* The subscriber and the runtime *)

(* The runtime's `onGap`: tier 1 is dropped and the seq forgotten. *)
onGap == clear_local /\ seen' = Null

(* Mutant of gap_check: the counter is taken over without a clear. *)
gap_check_no_clear(a) ==
    LET seq == attempts[a].reply
    IN  /\ attempts[a].stage = "seq" /\ seq # Null
        /\ Set(a, [attempts[a] EXCEPT !.stage = "up", !.reply = Null])
        /\ last' = IF seq > last THEN seq ELSE last
        /\ joined' = IF last = Null THEN seq ELSE joined
        /\ blind' = IF last = Null THEN seq ELSE blind
        /\ UNCHANGED <<log, client, timer, seen, local, owed>>

(* The rest of onUp once readSeq has answered. *)
gap_check(a) ==
    LET seq == attempts[a].reply
    IN  /\ attempts[a].stage = "seq" /\ seq # Null
        /\ Set(a, [attempts[a] EXCEPT !.stage = "up", !.reply = Null])
        /\ \/ /\ last = Null
              /\ last' = seq /\ joined' = seq /\ blind' = seq
              /\ UNCHANGED <<seen, local>>
           \/ /\ last # Null /\ seq > last
              /\ last' = seq /\ onGap
              /\ UNCHANGED history
           \/ /\ last # Null /\ seq <= last
              /\ UNCHANGED <<last, seen, local, history>>
        /\ UNCHANGED <<log, client, timer, owed>>

(* The runtime's `on` for event `n`.  After a clear there is nothing left  *)
(* to replay.                                                              *)
on(n) ==
    \/ /\ seen # Null /\ n <= seen
       /\ UNCHANGED <<seen, local>>
    \/ /\ seen # Null /\ n > seen + 1
       /\ seen' = n /\ clear_local
    \/ /\ seen = Null \/ n = seen + 1
       /\ seen' = n
       /\ IF log[n].own THEN UNCHANGED local ELSE invalidate({log[n].page})

(* The listener takes the next message of a socket. *)
listener(a) ==
    LET n == attempts[a].pos + 1
        skips == seen = Null /\ n > last + 1
    IN  /\ attempts[a].stage \in {"seq", "up"} /\ attempts[a].open /\ n <= Len(log)
        /\ Set(a, [attempts[a] EXCEPT !.pos = n])
        /\ last' = IF n > last THEN n ELSE last
        /\ on(n)
        /\ joined' = IF last = Null THEN n - 1 ELSE joined
        /\ blind' = IF skips THEN n - 1 ELSE blind
        /\ UNCHANGED <<log, client, timer, owed>>

-----------------------------------------------------------------------------
(* Requests, and the application's invalidations *)

Render(p) ==
    /\ \A e \in renders : e.page # p
    /\ renders' = renders \cup {[page |-> p, at |-> Len(log)]}
    /\ UNCHANGED <<log, link, last, seen, tier1, owed, history>>

insert(e) ==
    /\ renders' = renders \ {e}
    /\ tier1' = {x \in tier1 : x.page # e.page} \cup {e}
    /\ UNCHANGED <<log, link, last, seen, owed, history>>

(* cache.invalidate: tier 1 at once, the rest deferred (afterInvalidate). *)
Invalidate(p) ==
    /\ Cardinality(owed) < MaxOwed
    /\ invalidate({p})
    /\ owed' = owed \cup {[page |-> p, step |-> "publish"]}
    /\ UNCHANGED <<log, link, last, seen, history>>

(* broadcast.publish returns or fails; a failure may come after the script *)
(* ran.                                                                    *)
Publish(t) ==
    /\ t.step = "publish"
    /\ publish(TRUE, t.page) \/ UNCHANGED log
    /\ owed' = (owed \ {t}) \cup {[t EXCEPT !.step = "replay"]}
    /\ UNCHANGED <<link, last, seen, local, history>>

OwnReplay(t) ==
    /\ t.step = "replay"
    /\ invalidate({t.page})
    /\ owed' = owed \ {t}
    /\ UNCHANGED <<log, link, last, seen, history>>

-----------------------------------------------------------------------------
Connection(a) == connected(a) \/ subscribe(a) \/ ReadSeq(a) \/ attempt_fails(a) \/ lost(a)

Subscriber(a) == gap_check(a) \/ listener(a)

Request ==
    \/ \E p \in Pages : Render(p) \/ Invalidate(p)
    \/ \E e \in renders : insert(e)
    \/ \E t \in owed : Publish(t) \/ OwnReplay(t)

Next ==
    \/ \E p \in Pages : Elsewhere(p)
    \/ \E a \in DOMAIN attempts : Connection(a) \/ Subscriber(a)
    \/ schedule
    \/ Request

Spec == Init /\ [][Next]_vars

(* Timers fire, and a connection that stays up is served: what fails does  *)
(* not fail for ever, which the bound on attempts says.                    *)
Fairness ==
    /\ WF_vars(schedule)
    /\ \A a \in 1 .. MaxAttempts :
        WF_vars(a \in DOMAIN attempts /\ (connected(a) \/ subscribe(a) \/ ReadSeq(a) \/ Subscriber(a)))

FairSpec == Spec /\ Fairness

-----------------------------------------------------------------------------
Outdated(e, n) == log[n].page = e.page /\ e.at < n

Owes(p) == \E t \in owed : t.page = p

FreshFor(e, n) == Outdated(e, n) => log[n].own /\ Owes(e.page)

(* Some connection is up and everything sent to it has been taken. *)
Settled ==
    \E a \in DOMAIN attempts :
        attempts[a].stage = "up" /\ attempts[a].open /\ attempts[a].pos = Len(log)

(* When the subscriber has caught up, after however many lost and parallel *)
(* connections, no page older than an event is cached, but for the events  *)
(* skipped unnoticed: see MissedEventsCleared.                             *)
SettledFresh ==
    Settled => \A e \in tier1, n \in blind + 1 .. Len(log) : FreshFor(e, n)

(* docs/cache-adapters.md: "an event missed during the outage cannot leave *)
(* a stale page": the same for every event after the first subscribe.      *)
MissedEventsCleared ==
    Settled => \A e \in tier1, n \in joined + 1 .. Len(log) : FreshFor(e, n)

(* Every event is heard of, delivered or counted, whatever connections     *)
(* were lost before: the reconnect loop never ends.                        *)
EventsHeard == \A n \in 1 .. MaxLog : Len(log) >= n ~> last >= n

-----------------------------------------------------------------------------
(* The inductive invariant. *)

(* The runtime is not ahead of the adapter. *)
SeenAgrees == seen <= last

(* A connection's events and the counter read after it subscribed have     *)
(* been taken into `last`.                                                 *)
AttemptsOK ==
    \A a \in DOMAIN attempts :
        LET r == attempts[a]
        IN  /\ r.stage \in {"connect", "subscribe"} => r.reply = Null
            /\ r.stage = "up" => last >= r.pos
            /\ r.stage = "seq" => last >= r.pos \/ r.reply = Null \/ r.reply >= r.pos

HandledFresh ==
    \A e \in tier1 \cup renders, n \in blind + 1 .. last : FreshFor(e, n)

OwnPagesOwed ==
    \A e \in tier1 \cup renders, n \in 1 .. Len(log) :
        log[n].own /\ Outdated(e, n) => Owes(e.page)

PushInv == TypeOK /\ SeenAgrees /\ AttemptsOK /\ HandledFresh /\ OwnPagesOwed
=============================================================================
