------------------------------ MODULE PullSync ------------------------------
(***************************************************************************)
(* How an invalidation reaches the isolates of a Workers deployment whose  *)
(* broadcast is the Durable Object (`cloudflare-do`): the event ring of    *)
(* the object, the cursor an isolate polls it with                         *)
(* (crates/brust-wasm/src/epoch), what an answer does to tier 1 and to the *)
(* floor, and the publisher's own half (cache-adapter/runtime.ts).         *)
(*                                                                         *)
(* One isolate is modelled; the others appear as the events they publish,  *)
(* the only way isolates act on each other.  An isolate is                 *)
(* single-threaded: its requests interleave only at their awaits, which is *)
(* where an action ends.  A page stands for everything an InvalidateArgs   *)
(* selects, by one floor name.  A page of tier 1 is known by the length of *)
(* the log when its render began: event n makes it stale when that is      *)
(* below n.                                                                *)
(***************************************************************************)
EXTENDS Integers, Sequences, FiniteSets, L2Floor

CONSTANTS
    Pages,
    CapEntries,         \* capEntries of the ring
    MAX_REPLAY,
    MaxOwed,            \* bound: own invalidations under way
    MaxLog,             \* bound: events published
    MaxGen              \* bound: lives of the Durable Object

ASSUME PullAssumption ==
    /\ CapEntries \in Nat \ {0}
    /\ MAX_REPLAY \in Nat

VARIABLES
    log,        \* every event of the namespace; its length is the persisted seq
    gen,        \* generation of the object, new at each construction
    ring,       \* seqs retained in memory
    dropped,    \* the highest seq no longer retained
    cursor,
    answers,    \* the answer of the poll in flight, once given
    tier1,      \* cached pages
    renders,    \* renders whose insert would still be accepted
    floor,
    owed,       \* deferred halves of the isolate's own invalidations
    joined,     \* history: seq adopted at first contact
    based       \* history: seq at which the floor was last empty

object == <<log, gen, ring, dropped>>
local == <<tier1, renders, floor>>
history == <<joined, based>>
vars == <<object, cursor, answers, local, owed, history>>

Event == [own : BOOLEAN, page : Pages, oversize : BOOLEAN]
Answer == [gen : Nat, seq : Nat, behind : BOOLEAN, events : SUBSET Nat]
Cursor == [generation : Nat, seq : Nat, in_flight : BOOLEAN]    \* generation 0: None
Page == [page : Pages, at : Nat]
Floor == [names : Floors(Pages), global : Nat]
Task == [page : Pages, step : {"publish", "replay"}, retry : BOOLEAN, seq : Nat]

NoFloor == [names |-> <<>>, global |-> 0]

(* Types, and the bounds the persisted seq gives: no event retained,       *)
(* dropped or passed by the cursor is beyond the log.                      *)
TypeOK ==
    /\ log \in Seq(Event)
    /\ gen \in Nat \ {0}
    /\ ring \subseteq 1 .. Len(log)
    /\ dropped \in 0 .. Len(log)
    /\ cursor \in Cursor /\ cursor.seq <= Len(log)
    /\ answers \subseteq Answer
    /\ tier1 \subseteq Page
    /\ renders \subseteq Page
    /\ floor \in Floor
    /\ owed \subseteq Task
    /\ joined \in Nat
    /\ based \in Nat

Init ==
    /\ log = <<>> /\ gen = 1 /\ ring = {} /\ dropped = 0
    /\ cursor = [generation |-> 0, seq |-> 0, in_flight |-> FALSE]
    /\ answers = {} /\ tier1 = {} /\ renders = {} /\ owed = {}
    /\ floor = NoFloor
    /\ joined = 0 /\ based = 0

Max2(a, b) == IF a >= b THEN a ELSE b
MaxOf(S) == CHOOSE n \in S : \A m \in S : m <= n

-----------------------------------------------------------------------------
(* Tier 1 and the floor *)

(* Mutant of invalidate: a render under way is cached all the same. *)
invalidate_cached_only(pages) ==
    /\ tier1' = {e \in tier1 : e.page \notin pages}
    /\ UNCHANGED renders

(* Core::invalidate for `pages`: cached pages go, and the insert of a      *)
(* render that began before is refused (its stamp is older).               *)
invalidate(pages) ==
    /\ tier1' = {e \in tier1 : e.page \notin pages}
    /\ renders' = {e \in renders : e.page \notin pages}

clear_local == tier1' = {} /\ renders' = {}

(* Floor::raise for every event of `seqs`, one after the other. *)
raise(seqs) ==
    LET names[n \in 0 .. Len(log)] ==
            IF n = 0 THEN floor.names
            ELSE IF n \in seqs THEN raise_name(names[n - 1], log[n].page, n)
            ELSE names[n - 1]
    IN  [floor EXCEPT !.names = names[Len(log)]]

clear_at(seq) == [floor EXCEPT !.global = Max2(floor.global, seq)]

(* Whether an L2 body of page `p` written under stamp `s` is refused. *)
rejects(s, p) ==
    \/ s < floor.global
    \/ \E i \in DOMAIN floor.names : floor.names[i].name = p /\ s < floor.names[i].seq

-----------------------------------------------------------------------------
(* The Durable Object *)

(* Ring.publish, persisted in the same transaction.  Old slots leave when  *)
(* the ring is over its entries, or earlier when it is over its bytes.     *)
publish(own, p) ==
    LET seq == Len(log) + 1
        all == ring \cup {seq}
    IN  /\ Len(log) < MaxLog
        /\ \E big \in BOOLEAN, keep \in 1 .. CapEntries :
               LET gone == {n \in all : n <= seq - keep}
               IN  /\ log' = Append(log, [own |-> own, page |-> p, oversize |-> big])
                   /\ ring' = all \ gone
                   /\ dropped' = IF gone = {} THEN dropped ELSE MaxOf(gone)
        /\ UNCHANGED gen

(* Mutant of since: the answer names the next seq, not the last one. *)
since_next(from) ==
    [gen |-> gen, seq |-> Len(log) + 1, behind |-> FALSE, events |-> {n \in ring : n > from}]

(* Ring.since: the answer to an isolate that has seen `from`. *)
since(from) ==
    LET after == {n \in ring : n > from}
        behind == \/ from < dropped
                  \/ from > Len(log)
                  \/ \E n \in after : log[n].oversize
    IN  [gen |-> gen, seq |-> Len(log), behind |-> behind,
         events |-> IF behind THEN {} ELSE after]

(* The object is constructed anew: seq is read back, the ring is empty. *)
Construct ==
    /\ gen < MaxGen
    /\ gen' = gen + 1
    /\ ring' = {} /\ dropped' = 0
    /\ UNCHANGED <<log, cursor, answers, local, owed, history>>

(* Another isolate publishes. *)
Elsewhere(p) ==
    /\ publish(FALSE, p)
    /\ UNCHANGED <<cursor, answers, local, owed, history>>

-----------------------------------------------------------------------------
(* maybe_sync: a request finds the cursor due and polls.  How much time    *)
(* has passed is left open.                                                *)

begin ==
    /\ ~cursor.in_flight
    /\ cursor' = [cursor EXCEPT !.in_flight = TRUE]
    /\ UNCHANGED <<object, answers, local, owed, history>>

(* The object answers; the seq asked from is still the cursor's. *)
poll ==
    /\ cursor.in_flight /\ answers = {}
    /\ answers' = {since(cursor.seq)}
    /\ UNCHANGED <<object, cursor, local, owed, history>>

(* The poll fails or times out, before or after the object answered; a     *)
(* late answer is dropped with the future.                                 *)
failed ==
    /\ cursor.in_flight
    /\ cursor' = [cursor EXCEPT !.in_flight = FALSE]
    /\ answers' = {}
    /\ UNCHANGED <<object, local, owed, history>>

(* The answer does not continue the cursor's history. *)
lost(r) ==
    \/ r.gen # cursor.generation
    \/ r.behind
    \/ r.seq < cursor.seq
    \/ Cardinality(r.events) > MAX_REPLAY
    \/ r.events # cursor.seq + 1 .. r.seq

(* Plan::Adopt, Plan::Clear and Plan::Replay, as apply carries them out. *)
Adopt(r) ==
    /\ cursor.generation = 0
    /\ joined' = r.seq /\ based' = r.seq
    /\ UNCHANGED local

Clear(r) ==
    /\ cursor.generation # 0 /\ lost(r)
    /\ clear_local
    /\ \/ r.gen = cursor.generation /\ floor' = clear_at(r.seq) /\ UNCHANGED based
       \/ r.gen # cursor.generation /\ floor' = NoFloor /\ based' = r.seq
    /\ UNCHANGED joined

Replay(r) ==
    LET foreign == {n \in r.events : ~log[n].own}
    IN  /\ cursor.generation # 0 /\ ~lost(r)
        /\ floor' = raise(foreign)
        /\ invalidate({log[n].page : n \in foreign})
        /\ UNCHANGED history

(* Mutant of apply: a lost history returns before the seq is taken over. *)
apply_clear_returns ==
    \E r \in answers :
        /\ cursor' = [generation |-> r.gen, in_flight |-> FALSE,
                      seq |-> IF cursor.generation # 0 /\ lost(r) THEN cursor.seq ELSE r.seq]
        /\ answers' = {}
        /\ Adopt(r) \/ Clear(r) \/ Replay(r)
        /\ UNCHANGED <<object, owed>>

apply ==
    \E r \in answers :
        /\ cursor' = [generation |-> r.gen, seq |-> r.seq, in_flight |-> FALSE]
        /\ answers' = {}
        /\ Adopt(r) \/ Clear(r) \/ Replay(r)
        /\ UNCHANGED <<object, owed>>

-----------------------------------------------------------------------------
(* Requests that do not poll, and the application's invalidations *)

(* A miss renders the page: its stamp and its data are those of now. *)
Render(p) ==
    /\ \A e \in renders : e.page # p
    /\ renders' = renders \cup {[page |-> p, at |-> Len(log)]}
    /\ UNCHANGED <<object, cursor, answers, tier1, floor, owed, history>>

insert(e) ==
    /\ renders' = renders \ {e}
    /\ tier1' = {x \in tier1 : x.page # e.page} \cup {e}
    /\ UNCHANGED <<object, cursor, answers, floor, owed, history>>

(* cache.invalidate: tier 1 at once, the rest deferred (afterInvalidate). *)
Invalidate(p) ==
    /\ Cardinality(owed) < MaxOwed
    /\ invalidate({p})
    /\ owed' = owed \cup {[page |-> p, step |-> "publish", retry |-> FALSE, seq |-> 0]}
    /\ UNCHANGED <<object, cursor, answers, floor, history>>

(* broadcast.publish: the event is recorded and its seq returned. *)
Published(t) ==
    /\ t.step = "publish"
    /\ publish(TRUE, t.page)
    /\ owed' = (owed \ {t}) \cup {[t EXCEPT !.step = "replay", !.seq = Len(log) + 1]}
    /\ UNCHANGED <<cursor, answers, local, history>>

(* The call fails, the event recorded or not; the adapter tries once more, *)
(* then afterInvalidate goes on without a seq.                             *)
PublishFails(t) ==
    /\ t.step = "publish"
    /\ publish(TRUE, t.page) \/ UNCHANGED object
    /\ owed' = (owed \ {t}) \cup {IF t.retry THEN [t EXCEPT !.step = "replay"]
                                  ELSE [t EXCEPT !.retry = TRUE]}
    /\ UNCHANGED <<cursor, answers, local, history>>

(* Then the isolate replays its own invalidation, which its cursor skips. *)
OwnReplay(t) ==
    /\ t.step = "replay"
    /\ floor' = raise({t.seq} \ {0})
    /\ invalidate({t.page})
    /\ owed' = owed \ {t}
    /\ UNCHANGED <<object, cursor, answers, history>>

-----------------------------------------------------------------------------
Sync == begin \/ poll \/ failed \/ apply

Request ==
    \/ \E p \in Pages : Render(p) \/ Invalidate(p)
    \/ \E e \in renders : insert(e)
    \/ \E t \in owed : Published(t) \/ PublishFails(t) \/ OwnReplay(t)

Next == Construct \/ (\E p \in Pages : Elsewhere(p)) \/ Sync \/ Request

Spec == Init /\ [][Next]_vars

(* An isolate that keeps serving requests keeps polling, and a poll that   *)
(* is tried for ever is answered in time again and again.                  *)
Fairness == WF_vars(begin) /\ SF_vars(poll) /\ SF_vars(apply)

FairSpec == Spec /\ Fairness

-----------------------------------------------------------------------------
(* Page `e` is older than event `n`. *)
Outdated(e, n) == log[n].page = e.page /\ e.at < n

(* The isolate has still to replay its own invalidation of page `p`. *)
Owes(p) == \E t \in owed : t.page = p

(* Once the cursor has passed an event no older page it covers is left in  *)
(* tier 1, whatever was lost on the way: the answer was replayed or        *)
(* cleared, and own events are made good by the own replay.  Events up to  *)
(* first contact are left out: see FirstContactFresh.                      *)
SyncedPagesFresh ==
    \A e \in tier1, n \in joined + 1 .. cursor.seq :
        Outdated(e, n) => log[n].own /\ Owes(e.page)

(* The comment of Plan::Adopt, "nothing to replay (tier 1 is fresh)": the  *)
(* same for the events up to first contact.                                *)
FirstContactFresh ==
    \A e \in tier1, n \in 1 .. joined : Outdated(e, n) => log[n].own /\ Owes(e.page)

(* The names of other events raised after event `n`, or at any time, as an *)
(* isolate raises those of its own invalidations when it gets to them.     *)
Since(n) == {log[m].page : m \in {k \in 1 .. Len(log) : k > n \/ log[k].own}} \ {log[n].page}

(* Every foreign event between the floor's last reset and the cursor keeps *)
(* out the L2 bodies written before it, whether it was replayed by name or *)
(* lost in a clear, until as many other names have pushed its own out.     *)
FloorCovers ==
    \A n \in based + 1 .. cursor.seq :
        ~log[n].own => \/ rejects(n - 1, log[n].page)
                       \/ Cardinality(Since(n)) >= FLOOR_NAMES

(* The inductive invariant behind both: an answer in flight continues the  *)
(* log; what is said of tier 1 is also true of the renders that may still  *)
(* be inserted, for own events whether the cursor has passed them or not;  *)
(* and the floor keeps its names in the order they were raised in.         *)
AnswersOK ==
    \A r \in answers : /\ r.gen # 0
                       /\ r.seq \in cursor.seq .. Len(log)
                       /\ r.events \subseteq 1 .. Len(log)

SyncedRendersFresh ==
    \A e \in tier1 \cup renders, n \in joined + 1 .. cursor.seq :
        Outdated(e, n) => log[n].own /\ Owes(e.page)

OwnPagesOwed ==
    \A e \in tier1 \cup renders, n \in 1 .. Len(log) :
        log[n].own /\ Outdated(e, n) => Owes(e.page)

(* A task with a seq is to replay that event. *)
OwedEvents ==
    \A t \in owed : t.seq # 0 => /\ t.seq \in 1 .. Len(log)
                                 /\ log[t.seq].own /\ log[t.seq].page = t.page

(* What floor names `f` know of the events `E`: their names, or else as    *)
(* many others raised since; and behind a name only such others.           *)
Remembers(f, E) ==
    /\ f \in Floors(Pages) /\ Once(f)
    /\ \A n \in E : \/ \E i \in DOMAIN f : f[i].name = log[n].page /\ n <= f[i].seq
                    \/ Cardinality(Since(n)) >= FLOOR_NAMES
    /\ \A n \in E, i, j \in DOMAIN f :
           f[i].name = log[n].page /\ i < j => f[j].name \in Since(n)

Replayed == {n \in based + 1 .. cursor.seq : ~log[n].own /\ n > floor.global}

FloorRemembers == Remembers(floor.names, Replayed)

PullInv ==
    /\ TypeOK /\ AnswersOK /\ OwnPagesOwed /\ SyncedRendersFresh
    /\ OwedEvents /\ FloorRemembers

(* A published event reaches an isolate that goes on polling: no failed    *)
(* poll ends the syncing.                                                  *)
EventsArrive == \A n \in 1 .. MaxLog : Len(log) >= n ~> cursor.seq >= n
=============================================================================
