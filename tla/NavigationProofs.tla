-------------------------- MODULE NavigationProofs --------------------------
(***************************************************************************)
(* Proofs about Navigation, for any pages, redirects, cache size and       *)
(* numbers of navigations, fetches and mutations.                          *)
(***************************************************************************)
EXTENDS Navigation, SequenceTheorems, TLAPS


(* An entry of the page cache is the only one of its URL.  Its fetch is    *)
(* that URL's, is in flight or kept, shows data no older than the last     *)
(* mutation the cache was cleared for, and is in flight when its response  *)
(* is not for keeping.                                                     *)
Good(e, fs, v) ==
  /\ e.page \in Pages /\ e.fetch \in DOMAIN fs
  /\ fs[e.fetch] \in FetchState /\ fs[e.fetch].state \in {"flying", "kept", "stale"}
  /\ fs[e.fetch].page = e.page /\ fs[e.fetch].version >= v
  /\ Redirect[e.page] \in NoStore => fs[e.fetch].state = "flying"

Distinct(c) == \A i, j \in DOMAIN c : c[i].page = c[j].page => i = j

Fits(c, fs, v) == Distinct(c) /\ \A i \in DOMAIN c : Good(c[i], fs, v)

CacheFits == Fits(cache, fetches, cleared)

(* A navigation's fetch is there while it awaits it, and what a navigation *)
(* shows is no older than the last clear before it began.                  *)
Fresh(t, fs) ==
  /\ t.pc = "fetch" => /\ t.fetch \in DOMAIN fs /\ fs[t.fetch] \in FetchState
                       /\ fs[t.fetch].version >= t.since
  /\ t.pc \notin {"fetch", "done"} => t.version >= t.since

AwaitsFit ==
  /\ cleared <= version /\ unanswered \subseteq 1..version
  /\ \A i \in DOMAIN navs : Fresh(navs[i], fetches)
  /\ screen.version >= screen.since

(* Stylesheets and store tags belong to a navigation that has added them   *)
(* and not swapped yet, or to the page on screen.                          *)
Adding == {"modules", "sheets", "transition"}

AddsWhile(t) == t.pc # "done" => (t.added <=> t.pc \in Adding)

OfSheet(s, ns, p) ==
  /\ s.by <= Len(ns)
  /\ s.on => /\ s.page = p
             /\ s.by \in DOMAIN ns /\ ns[s.by].pc # "done" => ns[s.by].pc = "scripts"
  /\ ~s.on => /\ s.by \in DOMAIN ns /\ ns[s.by].pc \in {"sheets", "transition"}
              /\ s.page = Redirect[ns[s.by].req]

OfTag(i, ns) == i \in DOMAIN ns /\ ns[i].pc # "done" /\ ns[i].added

(* The newest navigation has the stylesheet of its page when it may swap.  *)
Dressed(ss, ns, a) ==
  a \in DOMAIN ns /\ ns[a].pc \in {"sheets", "transition"} =>
     \E s \in ss : s.page = Redirect[ns[a].req] /\ (s.on \/ s.by = a)

SheetsFit ==
  /\ \A i \in DOMAIN navs : AddsWhile(navs[i])
  /\ \A s \in sheets : OfSheet(s, navs, screen.page)
  /\ \E s \in sheets : s.on /\ s.page = screen.page
  /\ Dressed(sheets, navs, active)
  /\ \A i \in tags : OfTag(i, navs)

(* The entries of the history are of pages that redirect no further.       *)
Plain(h) == \A e \in DOMAIN h : Redirect[h[e].page] = h[e].page

(* The store hears of no navigation that began before it was evaluated,    *)
(* and has neither state nor record until then.                            *)
StoreFits ==
  /\ store.bound = None => store.state = "idle" /\ store.url = None
  /\ store.bound # None => store.bound <= active

(* The page on screen, the current entry and the last swapped URL agree.   *)
Matches == /\ screen.page = Redirect[Here] /\ screen.page = Redirect[shown]
           /\ history[entry].id = cur

(* The newest navigation before its swap, after it, and when it is over:   *)
(* one for back/forward is for the current entry, and what one has swapped *)
(* in is shown at the current entry, with no store tag left to seed the    *)
(* store from, unless the user has crossed it.                             *)
Newest == navs[active]

Pending == /\ Running(active) /\ Newest.pc # "scripts"
           /\ Newest.kind = "popstate" /\ ~Newest.crossed
SwappedIn == Running(active) /\ Newest.pc = "scripts" /\ ~Newest.crossed
Settled == ~Running(active) /\ ~cancelled /\ ~slipped

EntryFits ==
  ~left =>
    /\ Pending => Here = Newest.req /\ history[entry].id = Newest.pop
    /\ SwappedIn => Matches /\ screen.page = Final(active) /\ tags = {}
    /\ Settled => Matches /\ store.url \in {None, screen.page} /\ tags = {}
-----------------------------------------------------------------------------
(***************************************************************************)
(* Navigations: what a running one is made of, and what becomes of it.     *)
(***************************************************************************)
LEMMA RunningNav ==
    ASSUME TypeOK, NEW i \in DOMAIN navs, navs[i].pc # "done"
    PROVE  navs[i] \in NavState
  BY DEF TypeOK, Done

(* A running navigation, named by its number. *)
LEMMA RunningOne ==
    ASSUME TypeOK, NEW i, Running(i)
    PROVE  i \in DOMAIN navs /\ i \in 1..Len(navs) /\ i \in Nat /\ navs[i] \in NavState
<1>1. i \in DOMAIN navs /\ navs[i].pc # "done"
  BY DEF Running
<1>2. navs[i] \in NavState
  BY <1>1, RunningNav
<1>. QED  BY <1>1, <1>2 DEF TypeOK

(* The fields of a navigation. *)
LEMMA NavFields ==
    ASSUME NEW t \in NavState
    PROVE  /\ t.pc \in Steps /\ t.pc # "done" /\ t.req \in Pages /\ t.kind \in Kinds
           /\ t.pop \in Nat \cup {None} /\ t.fetch \in Nat /\ t.version \in 0..MaxVersion
           /\ t.added \in BOOLEAN /\ t.found \in {"flying", "kept", "stale"}
           /\ t.since \in 0..MaxVersion /\ t.crossed \in BOOLEAN
  BY DEF NavState, Steps

(* What go() was called with, and found, stays with the navigation. *)
SameCall(t, u) ==
  /\ t.req = u.req /\ t.kind = u.kind /\ t.pop = u.pop /\ t.fetch = u.fetch
  /\ t.found = u.found /\ t.since = u.since

(* A navigation at another await. *)
LEMMA AtPc ==
    ASSUME NEW t \in NavState, NEW x \in Steps
    PROVE  LET u == [t EXCEPT !.pc = x] IN
             /\ u \in NavState /\ u.pc = x /\ SameCall(u, t) /\ u.crossed = t.crossed
             /\ u.added = t.added /\ u.version = t.version
  BY DEF NavState, SameCall

(* A navigation that the user has crossed. *)
LEMMA AtCrossed ==
    ASSUME NEW t \in NavState
    PROVE  LET u == [t EXCEPT !.crossed = TRUE] IN
             /\ u \in NavState /\ u.pc = t.pc /\ SameCall(u, t) /\ u.crossed
             /\ u.added = t.added /\ u.version = t.version
  BY DEF NavState, SameCall

(* A navigation whose document is there. *)
LEMMA AtModules ==
    ASSUME NEW t \in NavState, NEW v \in 0..MaxVersion
    PROVE  LET u == [t EXCEPT !.pc = "modules", !.added = TRUE, !.version = v] IN
             /\ u \in NavState /\ u.pc = "modules" /\ SameCall(u, t) /\ u.crossed = t.crossed
             /\ u.added /\ u.version = v
  BY DEF NavState, SameCall, Steps

(* A navigation that has swapped. *)
LEMMA AtScripts ==
    ASSUME NEW t \in NavState
    PROVE  LET u == [t EXCEPT !.pc = "scripts", !.added = FALSE] IN
             /\ u \in NavState /\ u.pc = "scripts" /\ SameCall(u, t) /\ u.crossed = t.crossed
             /\ ~u.added /\ u.version = t.version
  BY DEF NavState, SameCall, Steps

(* One navigation comes to stand as t. *)
Moves(i, t) ==
  /\ i \in DOMAIN navs /\ DOMAIN navs' = DOMAIN navs /\ Len(navs') = Len(navs)
  /\ navs' \in Seq(NavState \cup {Done})
  /\ navs'[i] = t /\ \A j \in DOMAIN navs : j # i => navs'[j] = navs[j]

(* One element of navs is replaced. *)
LEMMA Moved ==
    ASSUME TypeOK, NEW i \in DOMAIN navs, NEW t \in NavState \cup {Done},
           navs' = [navs EXCEPT ![i] = t]
    PROVE  Moves(i, t)
<1>1. navs \in Seq(NavState \cup {Done}) /\ i \in 1..Len(navs)
  BY DEF TypeOK
<1>2. navs' \in Seq(NavState \cup {Done}) /\ Len(navs') = Len(navs)
  BY <1>1, ExceptSeq
<1>3. DOMAIN navs' = DOMAIN navs /\ navs'[i] = t /\ \A j \in DOMAIN navs : j # i => navs'[j] = navs[j]
  BY <1>1
<1>. QED  BY <1>2, <1>3 DEF Moves

(* A navigation that ends. *)
LEMMA EndMoves ==
    ASSUME TypeOK, NEW i \in DOMAIN navs, ends(i)
    PROVE  Moves(i, Done)
  BY Moved DEF ends

(* A navigation that goes on to its next await. *)
LEMMA GoMoves ==
    ASSUME TypeOK, NEW i, Running(i), NEW x \in Steps, goes_to(i, x)
    PROVE  \E t \in NavState : /\ Moves(i, t) /\ t.pc = x /\ SameCall(t, navs[i])
                               /\ t.crossed = navs[i].crossed
                               /\ t.added = navs[i].added /\ t.version = navs[i].version
<1>1. i \in DOMAIN navs /\ navs[i] \in NavState
  BY RunningOne
<1>. DEFINE t == [navs[i] EXCEPT !.pc = x]
<1>2. /\ t \in NavState /\ t.pc = x /\ SameCall(t, navs[i]) /\ t.crossed = navs[i].crossed
      /\ t.added = navs[i].added /\ t.version = navs[i].version
  BY <1>1, AtPc
<1>3. navs' = [navs EXCEPT ![i] = t]
  BY <1>1 DEF goes_to
<1>. HIDE DEF t
<1>4. Moves(i, t)
  BY <1>1, <1>2, <1>3, Moved
<1>. QED  BY <1>2, <1>4

(* A navigation whose document is there. *)
LEMMA FetchedMoves ==
    ASSUME TypeOK, NEW i, Running(i), Response(i).version \in 0..MaxVersion, fetched(i)
    PROVE  \E t \in NavState : /\ Moves(i, t) /\ t.pc = "modules" /\ SameCall(t, navs[i])
                               /\ t.crossed = navs[i].crossed
                               /\ t.added /\ t.version = Response(i).version
<1>1. i \in DOMAIN navs /\ navs[i] \in NavState
  BY RunningOne
<1>. DEFINE t == [navs[i] EXCEPT !.pc = "modules", !.added = TRUE, !.version = Response(i).version]
<1>2. /\ t \in NavState /\ t.pc = "modules" /\ SameCall(t, navs[i]) /\ t.crossed = navs[i].crossed
      /\ t.added /\ t.version = Response(i).version
  BY <1>1, AtModules
<1>3. navs' = [navs EXCEPT ![i] = t]
  BY <1>1 DEF fetched
<1>. HIDE DEF t
<1>4. Moves(i, t)
  BY <1>1, <1>2, <1>3, Moved
<1>. QED  BY <1>2, <1>4

(* A navigation that swaps its document in. *)
LEMMA SwapMoves ==
    ASSUME TypeOK, NEW i, Running(i), swap(i)
    PROVE  \E t \in NavState : /\ Moves(i, t) /\ t.pc = "scripts" /\ SameCall(t, navs[i])
                               /\ t.crossed = navs[i].crossed
                               /\ ~t.added /\ t.version = navs[i].version
<1>1. i \in DOMAIN navs /\ navs[i] \in NavState
  BY RunningOne
<1>. DEFINE t == [navs[i] EXCEPT !.pc = "scripts", !.added = FALSE]
<1>2. /\ t \in NavState /\ t.pc = "scripts" /\ SameCall(t, navs[i]) /\ t.crossed = navs[i].crossed
      /\ ~t.added /\ t.version = navs[i].version
  BY <1>1, AtScripts
<1>3. navs' = [navs EXCEPT ![i] = t]
  BY DEF swap, swapped
<1>. HIDE DEF t
<1>4. Moves(i, t)
  BY <1>1, <1>2, <1>3, Moved
<1>. QED  BY <1>2, <1>4

(* The newest navigation that the user crosses. *)
LEMMA CrossMoves ==
    ASSUME TypeOK, NEW i, Running(i), navs' = [navs EXCEPT ![i].crossed = TRUE]
    PROVE  \E t \in NavState : /\ Moves(i, t) /\ t.pc = navs[i].pc /\ SameCall(t, navs[i])
                               /\ t.crossed
                               /\ t.added = navs[i].added /\ t.version = navs[i].version
<1>1. i \in DOMAIN navs /\ navs[i] \in NavState
  BY RunningOne
<1>. DEFINE t == [navs[i] EXCEPT !.crossed = TRUE]
<1>2. /\ t \in NavState /\ t.pc = navs[i].pc /\ SameCall(t, navs[i]) /\ t.crossed
      /\ t.added = navs[i].added /\ t.version = navs[i].version
  BY <1>1, AtCrossed
<1>3. navs' = [navs EXCEPT ![i] = t]
  BY <1>1
<1>. HIDE DEF t
<1>4. Moves(i, t)
  BY <1>1, <1>2, <1>3, Moved
<1>. QED  BY <1>2, <1>4
-----------------------------------------------------------------------------
(***************************************************************************)
(* Fetches: what is held stays.                                            *)
(***************************************************************************)
LEMMA CollectedFetches ==
    ASSUME NEW fs \in Seq(FetchState \cup {Gone}), NEW c, NEW ns
    PROVE  /\ Collected(fs, c, ns) \in Seq(FetchState \cup {Gone})
           /\ DOMAIN Collected(fs, c, ns) = DOMAIN fs /\ Len(Collected(fs, c, ns)) = Len(fs)
           /\ \A f \in DOMAIN fs : Held(f, c, ns) => Collected(fs, c, ns)[f] = fs[f]
<1>. DEFINE g == Collected(fs, c, ns)
            m == Len(fs)
            S == FetchState \cup {Gone}
<1>1. m \in Nat /\ DOMAIN fs = 1..m /\ \A f \in 1..m : fs[f] \in S
  OBVIOUS
<1>2. g = [f \in 1..m |-> IF Held(f, c, ns) THEN fs[f] ELSE Gone]
  BY <1>1 DEF Collected
<1>3. DOMAIN g = 1..m /\ \A f \in 1..m : g[f] \in S /\ (Held(f, c, ns) => g[f] = fs[f])
  BY <1>1, <1>2
<1>4. g \in [1..m -> S]
  BY <1>2, <1>3
<1>. HIDE DEF g, S
<1>5. g \in Seq(S) /\ Len(g) = m
  BY <1>1, <1>4, IsASeq, LenProperties
<1>. QED  BY <1>1, <1>3, <1>5 DEF g, S

(* The fields of a fetch. *)
LEMMA FetchFields ==
    ASSUME NEW r \in FetchState
    PROVE  /\ r.page \in Pages /\ r.version \in 0..MaxVersion
           /\ r.state \in {"flying", "kept", "stale", "dropped", "failed"}
  BY DEF FetchState

(* A fetch that is in a state is there. *)
LEMMA StateIsThere ==
    ASSUME TypeOK, NEW f \in DOMAIN fetches, fetches[f].state # "gone"
    PROVE  fetches[f] \in FetchState
  BY DEF TypeOK, Gone

(* A fetch whose state changes. *)
LEMMA AtState ==
    ASSUME NEW r \in FetchState, NEW x \in {"flying", "kept", "stale", "dropped", "failed"}
    PROVE  LET q == [r EXCEPT !.state = x] IN
             q \in FetchState /\ q.state = x /\ q.version = r.version /\ q.page = r.page
  BY DEF FetchState

(* Fetch f becomes r in gs, and all the others stay. *)
FetchTurns(gs, f, r) ==
  /\ f \in DOMAIN fetches /\ gs \in Seq(FetchState \cup {Gone})
  /\ DOMAIN gs = DOMAIN fetches /\ gs[f] = r
  /\ \A g \in DOMAIN fetches : g # f => gs[g] = fetches[g]

(* One element of fetches is replaced. *)
LEMMA Turned ==
    ASSUME TypeOK, NEW f \in DOMAIN fetches, NEW r \in FetchState, NEW gs,
           gs = [fetches EXCEPT ![f] = r]
    PROVE  FetchTurns(gs, f, r)
<1>1. fetches \in Seq(FetchState \cup {Gone}) /\ f \in 1..Len(fetches)
  BY DEF TypeOK
<1>2. gs \in Seq(FetchState \cup {Gone})
  BY <1>1, ExceptSeq
<1>3. DOMAIN gs = DOMAIN fetches /\ gs[f] = r
      /\ \A g \in DOMAIN fetches : g # f => gs[g] = fetches[g]
  OBVIOUS
<1>. QED  BY <1>2, <1>3 DEF FetchTurns

(* A fetch that comes into another state. *)
LEMMA TurnsTo ==
    ASSUME TypeOK, NEW f \in DOMAIN fetches, fetches[f] \in FetchState,
           NEW x \in {"flying", "kept", "stale", "dropped", "failed"},
           NEW gs, gs = [fetches EXCEPT ![f].state = x]
    PROVE  \E r \in FetchState : /\ FetchTurns(gs, f, r) /\ r.state = x
                                 /\ r.version = fetches[f].version
                                 /\ r.page = fetches[f].page
<1>. DEFINE r == [fetches[f] EXCEPT !.state = x]
<1>1. r \in FetchState /\ r.state = x /\ r.version = fetches[f].version /\ r.page = fetches[f].page
  BY AtState
<1>2. gs = [fetches EXCEPT ![f] = r]
  OBVIOUS
<1>. HIDE DEF r
<1>3. FetchTurns(gs, f, r)
  BY <1>1, <1>2, Turned
<1>. QED  BY <1>1, <1>3
-----------------------------------------------------------------------------
(***************************************************************************)
(* The page cache: what is left of it when an entry is deleted.            *)
(***************************************************************************)
LEMMA RemovedAt ==
    ASSUME NEW S, NEW s \in Seq(S), NEW k \in 1..Len(s)
    PROVE  /\ RemoveAt(s, k) \in Seq(S) /\ Len(RemoveAt(s, k)) = Len(s) - 1
           /\ \A i \in 1..(Len(s) - 1) : RemoveAt(s, k)[i] = s[IF i < k THEN i ELSE i + 1]
<1>. DEFINE a == SubSeq(s, 1, k - 1)
            b == SubSeq(s, k + 1, Len(s))
<1>1. Len(s) \in Nat /\ k \in Nat
  OBVIOUS
<1>2. a \in Seq(S) /\ Len(a) = k - 1 /\ \A i \in 1..(k - 1) : a[i] = s[i]
  BY <1>1
<1>3. b \in Seq(S) /\ Len(b) = Len(s) - k /\ \A i \in 1..(Len(s) - k) : b[i] = s[k + i]
  BY <1>1
<1>4. RemoveAt(s, k) = a \o b
  BY DEF RemoveAt
<1>. HIDE DEF a, b
<1>5. /\ Len(a \o b) = Len(a) + Len(b) /\ a \o b \in Seq(S)
      /\ \A i \in 1..(Len(a) + Len(b)) :
             (a \o b)[i] = IF i <= Len(a) THEN a[i] ELSE b[i - Len(a)]
  BY <1>2, <1>3, ConcatProperties
<1>6. ASSUME NEW i \in 1..(Len(s) - 1)
      PROVE  RemoveAt(s, k)[i] = s[IF i < k THEN i ELSE i + 1]
  <2>1. RemoveAt(s, k)[i] = IF i <= k - 1 THEN a[i] ELSE b[i - (k - 1)]
    BY <1>1, <1>2, <1>3, <1>4, <1>5
  <2>2. CASE i < k
    BY <1>1, <1>2, <2>1, <2>2
  <2>3. CASE ~(i < k)
    <3>1. i - (k - 1) \in 1..(Len(s) - k) /\ k + (i - (k - 1)) = i + 1
      BY <1>1, <2>3
    <3>. QED  BY <1>1, <1>3, <2>1, <2>3, <3>1
  <2>. QED  BY <2>2, <2>3
<1>. QED  BY <1>1, <1>2, <1>3, <1>4, <1>5, <1>6

(* c is what is left of the cache: every entry of it is one of the cache's. *)
Entries == [page : Pages, fetch : Nat]

Left(c) ==
  /\ c \in Seq(Entries) /\ Len(c) <= Len(cache)
  /\ Distinct(cache) => Distinct(c)
  /\ \A k \in DOMAIN c : \E j \in DOMAIN cache : c[k] = cache[j]

(* The cache is a sequence of entries. *)
LEMMA CacheEntries == TypeOK => cache \in Seq(Entries) /\ Len(cache) \in Nat
<1>. SUFFICES ASSUME TypeOK PROVE cache \in Seq(Entries) /\ Len(cache) \in Nat
  OBVIOUS
<1>1. cache \in Seq([page : Pages, fetch : DOMAIN fetches]) /\ DOMAIN fetches \subseteq Nat
  BY DEF TypeOK
<1>2. [page : Pages, fetch : DOMAIN fetches] \subseteq Entries
  BY <1>1 DEF Entries
<1>. QED  BY <1>1, <1>2, SeqMonotonic, LenProperties

(* Nothing is deleted. *)
LEMMA SameLeft == TypeOK => Left(cache)
<1>. SUFFICES ASSUME TypeOK PROVE Left(cache)
  OBVIOUS
<1>1. cache \in Seq(Entries) /\ Len(cache) <= Len(cache)
  BY CacheEntries
<1>. QED  BY <1>1 DEF Left

(* One entry is taken out. *)
LEMMA DeletedAt ==
    ASSUME TypeOK, NEW k \in DOMAIN cache
    PROVE  /\ Left(RemoveAt(cache, k))
           /\ \A x \in DOMAIN RemoveAt(cache, k) :
                 \E j \in DOMAIN cache : j # k /\ RemoveAt(cache, k)[x] = cache[j]
<1>. DEFINE R == RemoveAt(cache, k)
            at(x) == IF x < k THEN x ELSE x + 1
<1>1. cache \in Seq(Entries) /\ Len(cache) \in Nat /\ k \in 1..Len(cache) /\ k \in Nat
      /\ DOMAIN cache = 1..Len(cache)
  BY CacheEntries
<1>2. /\ R \in Seq(Entries) /\ Len(R) = Len(cache) - 1
      /\ \A i \in 1..(Len(cache) - 1) : R[i] = cache[at(i)]
  BY <1>1, RemovedAt
<1>. HIDE DEF R
<1>3. DOMAIN R = 1..(Len(cache) - 1)
  BY <1>2
<1>4. \A x \in DOMAIN R : at(x) \in DOMAIN cache /\ at(x) # k /\ R[x] = cache[at(x)]
  BY <1>1, <1>2, <1>3
<1>5. \A x, y \in DOMAIN R : at(x) = at(y) => x = y
  BY <1>1, <1>3
<1>. HIDE DEF at
<1>6. Distinct(cache) => Distinct(R)
  BY <1>4, <1>5 DEF Distinct
<1>7. Len(R) <= Len(cache)
  BY <1>1, <1>2
<1>8. Left(R)
  BY <1>2, <1>4, <1>6, <1>7 DEF Left
<1>. QED  BY <1>4, <1>8 DEF R

(* delete takes out the one entry that it is given, or none. *)
LEMMA Deleted ==
    ASSUME TypeOK, NEW I \in SUBSET DOMAIN cache
    PROVE  /\ Left(delete(I))
           /\ (\A i, j \in I : i = j) =>
                 \A x \in DOMAIN delete(I) : \E j \in DOMAIN cache \ I : delete(I)[x] = cache[j]
<1>1. CASE I = {}
  BY <1>1, SameLeft DEF delete
<1>2. CASE I # {}
  <2>. DEFINE k == CHOOSE i \in I : TRUE
  <2>1. k \in I /\ k \in DOMAIN cache
    BY <1>2
  <2>2. delete(I) = RemoveAt(cache, k)
    BY <1>2 DEF delete
  <2>. HIDE DEF k
  <2>. QED  BY <2>1, <2>2, DeletedAt
<1>. QED  BY <1>1, <1>2

(* Without(p) has no entry of p, Drop(f) none of f. *)
LEMMA LeftWithout ==
    ASSUME TypeOK, NEW p
    PROVE  /\ Left(Without(p))
           /\ Distinct(cache) => \A x \in DOMAIN Without(p) : Without(p)[x].page # p
<1>1. Cached(p) \in SUBSET DOMAIN cache
  BY DEF Cached
<1>2. Distinct(cache) => \A i, j \in Cached(p) : i = j
  BY DEF Cached, Distinct
<1>3. ASSUME Distinct(cache), NEW x \in DOMAIN Without(p)
      PROVE  Without(p)[x].page # p
  <2>1. PICK j \in DOMAIN cache \ Cached(p) : Without(p)[x] = cache[j]
    BY <1>1, <1>2, <1>3, Deleted DEF Without
  <2>. QED  BY <2>1 DEF Cached
<1>. QED  BY <1>1, <1>3, Deleted DEF Without

(* drop removes the entry of the fetch, if it still is the entry. *)
LEMMA LeftDrop ==
    ASSUME TypeOK, NEW f \in DOMAIN fetches
    PROVE  /\ Left(Drop(f))
           /\ CacheFits => \A x \in DOMAIN Drop(f) : Drop(f)[x].fetch # f
<1>. DEFINE I == {i \in Cached(fetches[f].page) : cache[i].fetch = f}
<1>1. I \in SUBSET DOMAIN cache
  BY DEF Cached
<1>2. CacheFits => \A i, j \in I : i = j
  BY DEF Cached, CacheFits, Fits, Distinct
<1>3. ASSUME CacheFits, NEW x \in DOMAIN Drop(f)
      PROVE  Drop(f)[x].fetch # f
  <2>1. PICK j \in DOMAIN cache \ I : Drop(f)[x] = cache[j]
    <3>. HIDE DEF I
    <3>. QED  BY <1>1, <1>2, <1>3, Deleted DEF Drop, I
  <2>2. j \in DOMAIN cache /\ (cache[j].fetch = f => cache[j].page = fetches[f].page)
    BY <1>3 DEF CacheFits, Fits, Good
  <2>. QED  BY <2>1, <2>2 DEF Cached
<1>. HIDE DEF I
<1>. QED  BY <1>1, <1>3, Deleted DEF Drop, I
-----------------------------------------------------------------------------
(***************************************************************************)
(* The page cache after get, and after anything else.                      *)
(***************************************************************************)
LEMMA CachedIsOne ==
    ASSUME TypeOK, CacheFits, NEW p, Cached(p) # {}
    PROVE  \E k \in DOMAIN cache : /\ cache[k].page = p /\ CachedFetch(p) = cache[k].fetch
                                   /\ Good(cache[k], fetches, cleared)
<1>. DEFINE k == CHOOSE i \in Cached(p) : TRUE
<1>1. k \in Cached(p)
  OBVIOUS
<1>2. CachedFetch(p) = cache[k].fetch
  BY DEF CachedFetch
<1>. HIDE DEF k
<1>3. k \in DOMAIN cache /\ cache[k].page = p
  BY <1>1 DEF Cached
<1>. QED  BY <1>2, <1>3 DEF CacheFits, Fits

(* Entries that are good stay so when their fetches do. *)
LEMMA GoodStays ==
    ASSUME NEW e, NEW fs, NEW gs, NEW v, Good(e, fs, v),
           DOMAIN fs \subseteq DOMAIN gs, gs[e.fetch] = fs[e.fetch]
    PROVE  Good(e, gs, v)
  BY DEF Good

(* A cache fits as long as what it holds does not change. *)
LEMMA FitsStays ==
    ASSUME NEW c, NEW fs, NEW gs, NEW v, Fits(c, fs, v),
           DOMAIN fs \subseteq DOMAIN gs, \A k \in DOMAIN c : gs[c[k].fetch] = fs[c[k].fetch]
    PROVE  Fits(c, gs, v)
  BY GoodStays DEF Fits

(* What is left of the cache fits. *)
LEMMA LeftFits ==
    ASSUME CacheFits, NEW c, Left(c)
    PROVE  Fits(c, fetches, cleared)
  BY DEF CacheFits, Fits, Left

(* Collecting what nobody holds changes nothing that the cache holds. *)
LEMMA CollectedFits ==
    ASSUME NEW fs \in Seq(FetchState \cup {Gone}), NEW c, NEW ns, NEW v, Fits(c, fs, v)
    PROVE  Fits(c, Collected(fs, c, ns), v)
<1>. DEFINE g == Collected(fs, c, ns)
<1>1. DOMAIN g = DOMAIN fs /\ \A f \in DOMAIN fs : Held(f, c, ns) => g[f] = fs[f]
  BY CollectedFetches
<1>2. \A k \in DOMAIN c : c[k].fetch \in DOMAIN fs /\ Held(c[k].fetch, c, ns)
  BY DEF Fits, Good, Held
<1>. HIDE DEF g
<1>3. Fits(c, g, v)
  BY <1>1, <1>2, FitsStays
<1>. QED  BY <1>3 DEF g

(* A cache that fits has the type of the page cache. *)
LEMMA FitsTyped ==
    ASSUME NEW c \in Seq(Entries), NEW fs, NEW v, Fits(c, fs, v)
    PROVE  c \in Seq([page : Pages, fetch : DOMAIN fs])
<1>. DEFINE S == [page : Pages, fetch : DOMAIN fs]
<1>1. DOMAIN c = 1..Len(c) /\ Len(c) \in Nat /\ \A k \in DOMAIN c : c[k] \in Entries
  OBVIOUS
<1>2. \A k \in DOMAIN c : c[k].fetch \in DOMAIN fs
  BY DEF Fits, Good
<1>3. \A k \in DOMAIN c : c[k] \in S
  BY <1>1, <1>2 DEF Entries
<1>. HIDE DEF S
<1>4. c \in [1..Len(c) -> S]
  BY <1>1, <1>3
<1>5. c \in Seq(S)
  BY <1>1, <1>4, IsASeq
<1>. QED  BY <1>5 DEF S

(* The entry that get appends is good. *)
LEMMA GotEntry ==
    ASSUME TypeOK, CacheFits, cleared <= version, NEW p \in Pages, NEW any \in BOOLEAN, NEW base,
           base = (IF Fetch(p, any) \in DOMAIN fetches THEN fetches
                   ELSE Append(fetches, [page |-> p, state |-> "flying", version |-> version]))
    PROVE  /\ base \in Seq(FetchState \cup {Gone}) /\ DOMAIN fetches \subseteq DOMAIN base
           /\ \A g \in DOMAIN fetches : base[g] = fetches[g]
           /\ Good([page |-> p, fetch |-> Fetch(p, any)], base, cleared)
           /\ Fetch(p, any) \in Nat
           /\ ~Usable(p, any) => Fetch(p, any) \notin DOMAIN fetches
           /\ Usable(p, any) => /\ Fetch(p, any) \in DOMAIN fetches /\ base = fetches
                                /\ fetches[CachedFetch(p)].state \in {"flying", "kept", "stale"}
                                /\ Redirect[p] \in NoStore =>
                                      fetches[CachedFetch(p)].state = "flying"
<1>. DEFINE e == [page |-> p, fetch |-> Fetch(p, any)]
            new == [page |-> p, state |-> "flying", version |-> version]
            S == FetchState \cup {Gone}
<1>1. fetches \in Seq(S) /\ version \in 0..MaxVersion
  BY DEF TypeOK
<1>2. DOMAIN fetches = 1..Len(fetches) /\ Len(fetches) \in Nat
  BY <1>1
<1>3. CASE Usable(p, any)
  <2>1. Cached(p) # {} /\ Fetch(p, any) = CachedFetch(p)
    BY <1>3 DEF Usable, Fetch
  <2>2. PICK k \in DOMAIN cache : /\ cache[k].page = p /\ CachedFetch(p) = cache[k].fetch
                                  /\ Good(cache[k], fetches, cleared)
    BY <2>1, CachedIsOne
  <2>3. Good(e, fetches, cleared)
    BY <2>1, <2>2 DEF Good
  <2>4. Fetch(p, any) \in DOMAIN fetches /\ base = fetches
    BY <2>1, <2>2 DEF Good
  <2>5. /\ fetches[CachedFetch(p)].state \in {"flying", "kept", "stale"}
        /\ Redirect[p] \in NoStore => fetches[CachedFetch(p)].state = "flying"
    BY <2>2 DEF Good
  <2>. QED  BY <1>1, <1>2, <1>3, <2>3, <2>4, <2>5
<1>4. CASE ~Usable(p, any)
  <2>1. Fetch(p, any) = Len(fetches) + 1
    BY <1>4 DEF Fetch
  <2>2. Fetch(p, any) \notin DOMAIN fetches /\ base = Append(fetches, new)
    BY <1>2, <2>1
  <2>3. new \in FetchState /\ new.state = "flying" /\ new.version = version /\ new.page = p
    BY <1>1 DEF FetchState
  <2>4. new \in S
    BY <2>3
  <2>. HIDE DEF new, S
  <2>5. /\ base \in Seq(S) /\ Len(base) = Len(fetches) + 1
        /\ \A g \in 1..Len(fetches) : base[g] = fetches[g]
        /\ base[Len(fetches) + 1] = new
    BY <1>1, <2>2, <2>4, AppendProperties
  <2>6. DOMAIN base = 1..(Len(fetches) + 1)
    BY <2>5
  <2>7. Fetch(p, any) \in DOMAIN base /\ base[Fetch(p, any)] = new
    BY <1>2, <2>1, <2>5, <2>6
  <2>8. new.version >= cleared
    BY <2>3
  <2>9. Good(e, base, cleared)
    BY <2>3, <2>7, <2>8 DEF Good
  <2>10. /\ base \in Seq(S) /\ DOMAIN fetches \subseteq DOMAIN base
         /\ \A g \in DOMAIN fetches : base[g] = fetches[g]
    BY <1>2, <2>5, <2>6
  <2>11. Fetch(p, any) \in Nat
    BY <1>2, <2>1
  <2>. QED  BY <1>4, <2>2, <2>9, <2>10, <2>11 DEF S
<1>. QED  BY <1>3, <1>4
-----------------------------------------------------------------------------
(* get: the cache has room for it, fits, and holds what was asked for. *)
LEMMA Got ==
    ASSUME TypeOK, CacheFits, cleared <= version, NEW p \in Pages, NEW any \in BOOLEAN, NEW ns,
           get(p, any, ns)
    PROVE  /\ fetches' \in Seq(FetchState \cup {Gone}) /\ DOMAIN fetches \subseteq DOMAIN fetches'
           /\ cache' \in Seq(Entries) /\ Len(cache') <= CACHE_SIZE
           /\ Fits(cache', fetches', cleared)
           /\ \A g \in DOMAIN fetches : Held(g, <<>>, ns) => fetches'[g] = fetches[g]
           /\ Fetch(p, any) \in DOMAIN fetches' /\ Fetch(p, any) \in Nat
           /\ Held(Fetch(p, any), <<>>, ns) => /\ fetches'[Fetch(p, any)] \in FetchState
                                               /\ fetches'[Fetch(p, any)].version >= cleared
<1>. DEFINE f == Fetch(p, any)
            e == [page |-> p, fetch |-> f]
            c == Append(Without(p), e)
            base == IF f \in DOMAIN fetches THEN fetches
                    ELSE Append(fetches, [page |-> p, state |-> "flying", version |-> version])
<1>1. /\ cache' = IF Len(c) > CACHE_SIZE THEN Tail(c) ELSE c
      /\ fetches' = Collected(base, cache', ns)
  BY DEF get
<1>2. /\ base \in Seq(FetchState \cup {Gone}) /\ DOMAIN fetches \subseteq DOMAIN base
      /\ \A g \in DOMAIN fetches : base[g] = fetches[g]
      /\ Good(e, base, cleared) /\ f \in Nat
  BY GotEntry
<1>3. e \in Entries /\ e.page = p
  BY <1>2 DEF Entries
<1>. HIDE DEF base, e
<1>4. Left(Without(p)) /\ \A x \in DOMAIN Without(p) : Without(p)[x].page # p
  BY LeftWithout DEF CacheFits, Fits
<1>. DEFINE w == Without(p)
<1>5. w \in Seq(Entries) /\ Len(w) <= Len(cache) /\ Len(w) \in Nat /\ DOMAIN w = 1..Len(w)
  BY <1>4 DEF Left
<1>6. Fits(w, base, cleared)
  <2>1. Fits(w, fetches, cleared)
    BY <1>4, LeftFits
  <2>2. \A k \in DOMAIN w : w[k].fetch \in DOMAIN fetches
    BY <2>1 DEF Fits, Good
  <2>. HIDE DEF w
  <2>. QED  BY <1>2, <2>1, <2>2, FitsStays
<1>7. \A x \in DOMAIN w : w[x].page # p
  BY <1>4
<1>8. c = Append(w, e)
  OBVIOUS
<1>. HIDE DEF w, c
<1>9. /\ c \in Seq(Entries) /\ Len(c) = Len(w) + 1 /\ DOMAIN c = 1..(Len(w) + 1)
      /\ \A k \in 1..Len(w) : c[k] = w[k]
      /\ c[Len(w) + 1] = e
  BY <1>3, <1>5, <1>8, AppendProperties
<1>10. Fits(c, base, cleared)
  <2>1. Distinct(c)
    <3>1. \A i \in DOMAIN c : i = Len(w) + 1 \/ (i \in DOMAIN w /\ c[i] = w[i])
      BY <1>5, <1>9
    <3>. QED  BY <1>3, <1>6, <1>7, <1>9, <3>1 DEF Distinct, Fits
  <2>2. ASSUME NEW i \in DOMAIN c PROVE Good(c[i], base, cleared)
    <3>1. CASE i = Len(w) + 1
      BY <1>2, <1>9, <3>1
    <3>2. CASE i # Len(w) + 1
      <4>1. i \in DOMAIN w /\ c[i] = w[i]
        BY <1>5, <1>9, <3>2
      <4>. QED  BY <1>6, <4>1 DEF Fits
    <3>. QED  BY <3>1, <3>2
  <2>. QED  BY <2>1, <2>2 DEF Fits
<1>11. cache' \in Seq(Entries) /\ Len(cache') <= CACHE_SIZE /\ Fits(cache', base, cleared)
  <2>1. Len(cache) <= CACHE_SIZE /\ CACHE_SIZE \in Nat /\ Len(cache) \in Nat
    BY BoundsAssumption, CacheEntries DEF TypeOK
  <2>2. CASE Len(c) > CACHE_SIZE
    <3>1. cache' = Tail(c) /\ c # <<>>
      BY <1>1, <1>9, <2>2
    <3>2. /\ Tail(c) \in Seq(Entries) /\ Len(Tail(c)) = Len(c) - 1
          /\ \A i \in 1..Len(Tail(c)) : Tail(c)[i] = c[i + 1]
      BY <1>9, <3>1, HeadTailProperties
    <3>3. DOMAIN Tail(c) = 1..(Len(c) - 1)
      BY <3>2
    <3>4. \A i \in DOMAIN Tail(c) : i + 1 \in DOMAIN c /\ Tail(c)[i] = c[i + 1]
      BY <1>5, <1>9, <3>2, <3>3
    <3>5. \A i, j \in DOMAIN Tail(c) : i + 1 = j + 1 => i = j
      BY <3>3
    <3>6. Fits(Tail(c), base, cleared)
      BY <1>10, <3>4, <3>5 DEF Fits, Distinct
    <3>. QED  BY <1>5, <1>9, <2>1, <3>1, <3>2, <3>6
  <2>3. CASE ~(Len(c) > CACHE_SIZE)
    BY <1>1, <1>5, <1>9, <1>10, <2>1, <2>3
  <2>. QED  BY <2>2, <2>3
<1>12. /\ fetches' \in Seq(FetchState \cup {Gone}) /\ DOMAIN fetches' = DOMAIN base
       /\ \A g \in DOMAIN base : Held(g, cache', ns) => fetches'[g] = base[g]
  BY <1>1, <1>2, CollectedFetches
<1>13. Fits(cache', fetches', cleared)
  BY <1>1, <1>2, <1>11, CollectedFits
<1>14. \A g : Held(g, <<>>, ns) => Held(g, cache', ns)
  BY DEF Held
<1>15. \A g \in DOMAIN fetches : Held(g, <<>>, ns) => fetches'[g] = fetches[g]
  BY <1>2, <1>12, <1>14
<1>16. /\ f \in DOMAIN base /\ base[f] \in FetchState /\ base[f].version >= cleared
  BY <1>2 DEF Good, e
<1>17. Held(f, <<>>, ns) => fetches'[f] = base[f]
  BY <1>12, <1>14, <1>16
<1>. HIDE DEF f
<1>. QED  BY <1>2, <1>11, <1>12, <1>13, <1>15, <1>16, <1>17 DEF f
-----------------------------------------------------------------------------
(* What every step leaves of the cache and the fetches: the cache fits, and *)
(* a fetch that a navigation of ns awaits is there, and no older.          *)
Shelved(ns) ==
  /\ fetches' \in Seq(FetchState \cup {Gone}) /\ DOMAIN fetches \subseteq DOMAIN fetches'
  /\ cache' \in Seq(Entries) /\ Len(cache') <= CACHE_SIZE
  /\ Fits(cache', fetches', cleared')
  /\ \A g \in DOMAIN fetches : Held(g, <<>>, ns) /\ fetches[g] \in FetchState =>
        fetches'[g] \in FetchState /\ fetches'[g].version >= fetches[g].version

(* Versions are numbers. *)
LEMMA VersionsAre ==
    ASSUME NEW r \in FetchState PROVE r.version \in Nat /\ r.version >= r.version
<1>1. r.version \in 0..MaxVersion
  BY FetchFields
<1>. QED  BY <1>1, BoundsAssumption

(* The types that the cache lemmas need. *)
LEMMA PlainTypes ==
    ASSUME TypeOK
    PROVE  /\ cleared \in Nat /\ version \in Nat /\ cleared \in 0..MaxVersion
           /\ version \in 0..MaxVersion /\ fetches \in Seq(FetchState \cup {Gone})
<1>1. cleared \in 0..MaxVersion /\ version \in 0..MaxVersion
  BY DEF TypeOK
<1>2. fetches \in Seq(FetchState \cup {Gone})
  BY DEF TypeOK
<1>. QED  BY <1>1, <1>2

(* A step that touches neither. *)
LEMMA ShelvedSame ==
    ASSUME TypeOK, CacheFits, NEW ns, UNCHANGED <<cache, fetches, cleared>>
    PROVE  Shelved(ns)
<1>1. /\ fetches' \in Seq(FetchState \cup {Gone}) /\ DOMAIN fetches \subseteq DOMAIN fetches'
      /\ Len(cache') <= CACHE_SIZE
  BY DEF TypeOK
<1>2. cache' \in Seq(Entries)
  BY CacheEntries
<1>3. Fits(cache', fetches', cleared')
  BY DEF CacheFits
<1>. QED  BY <1>1, <1>2, <1>3, VersionsAre DEF Shelved

(* A step that gets a page. *)
LEMMA ShelvedGet ==
    ASSUME TypeOK, CacheFits, cleared <= version, NEW p \in Pages, NEW any \in BOOLEAN, NEW ns,
           get(p, any, ns), cleared' = cleared
    PROVE  Shelved(ns)
<1>1. /\ fetches' \in Seq(FetchState \cup {Gone}) /\ DOMAIN fetches \subseteq DOMAIN fetches'
      /\ cache' \in Seq(Entries) /\ Len(cache') <= CACHE_SIZE
      /\ Fits(cache', fetches', cleared)
      /\ \A g \in DOMAIN fetches : Held(g, <<>>, ns) => fetches'[g] = fetches[g]
  BY Got
<1>. QED  BY <1>1, VersionsAre DEF Shelved

(* The rest of the cache is kept, and what nobody holds is gone. *)
LEMMA ShelvedSweep ==
    ASSUME TypeOK, CacheFits, NEW ns, Left(cache'), cleared' = cleared,
           fetches' = Collected(fetches, cache', ns)
    PROVE  Shelved(ns)
<1>1. /\ fetches' \in Seq(FetchState \cup {Gone}) /\ DOMAIN fetches' = DOMAIN fetches
      /\ \A g \in DOMAIN fetches : Held(g, cache', ns) => fetches'[g] = fetches[g]
  BY PlainTypes, CollectedFetches
<1>2. \A g : Held(g, <<>>, ns) => Held(g, cache', ns)
  BY DEF Held
<1>3. cache' \in Seq(Entries) /\ Len(cache') <= CACHE_SIZE
  <2>1. cache' \in Seq(Entries) /\ Len(cache') <= Len(cache) /\ Len(cache) <= CACHE_SIZE
    BY DEF Left, TypeOK
  <2>2. Len(cache') \in Nat /\ Len(cache) \in Nat /\ CACHE_SIZE \in Nat
    BY <2>1, CacheEntries, BoundsAssumption
  <2>. QED  BY <2>1, <2>2
<1>4. Fits(cache', fetches, cleared)
  <2>1. \A c : Left(c) => Fits(c, fetches, cleared)
    BY LeftFits
  <2>. QED  BY <2>1
<1>5. Fits(cache', fetches', cleared)
  <2>1. fetches \in Seq(FetchState \cup {Gone})
    BY DEF TypeOK
  <2>. QED  BY <1>4, <2>1, CollectedFits
<1>. QED  BY <1>1, <1>2, <1>3, <1>5, VersionsAre DEF Shelved

(* clearCache empties the cache; fetches that are awaited go on. *)
LEMMA ShelvedClear ==
    ASSUME TypeOK, NEW v, clearCache(v)
    PROVE  Shelved(navs')
<1>1. cache' = <<>> /\ fetches' = Collected(fetches, cache', navs) /\ navs' = navs
  BY DEF clearCache, clear_cache
<1>2. /\ fetches' \in Seq(FetchState \cup {Gone}) /\ DOMAIN fetches' = DOMAIN fetches
      /\ \A g \in DOMAIN fetches : Held(g, cache', navs) => fetches'[g] = fetches[g]
  BY <1>1, PlainTypes, CollectedFetches
<1>3. \A g : Held(g, <<>>, navs') => Held(g, cache', navs)
  BY <1>1
<1>4. cache' \in Seq(Entries) /\ Len(cache') <= CACHE_SIZE
  BY <1>1, BoundsAssumption
<1>5. Fits(cache', fetches', cleared')
  BY <1>1 DEF Fits, Distinct
<1>. QED  BY <1>2, <1>3, <1>4, <1>5, VersionsAre DEF Shelved

(* A fetch turns into r; what of the cache holds it, holds r as well. *)
LEMMA ShelvedTurn ==
    ASSUME TypeOK, CacheFits, NEW f \in DOMAIN fetches, NEW r \in FetchState, NEW gs,
           fetches[f] \in FetchState, FetchTurns(gs, f, r), Left(cache'),
           r.page = fetches[f].page, r.version >= fetches[f].version,
           \A k \in DOMAIN cache' : cache'[k].fetch = f =>
              /\ r.state \in {"flying", "kept", "stale"}
              /\ Redirect[cache'[k].page] \in NoStore => r.state = "flying",
           fetches' = Collected(gs, cache', navs) \/ fetches' = gs,
           navs' = navs, cleared' = cleared, cleared \in Nat
    PROVE  Shelved(navs')
<1>1. /\ gs \in Seq(FetchState \cup {Gone}) /\ DOMAIN gs = DOMAIN fetches /\ gs[f] = r
      /\ \A g \in DOMAIN fetches : g # f => gs[g] = fetches[g]
  BY DEF FetchTurns
<1>2. /\ fetches' \in Seq(FetchState \cup {Gone}) /\ DOMAIN fetches' = DOMAIN fetches
      /\ \A g \in DOMAIN fetches : Held(g, cache', navs) => fetches'[g] = gs[g]
  BY <1>1, CollectedFetches
<1>3. \A g : Held(g, <<>>, navs') => Held(g, cache', navs)
  BY DEF Held
<1>4. cache' \in Seq(Entries) /\ Len(cache') <= CACHE_SIZE
  <2>1. cache' \in Seq(Entries) /\ Len(cache') <= Len(cache) /\ Len(cache) <= CACHE_SIZE
    BY DEF Left, TypeOK
  <2>2. Len(cache') \in Nat /\ Len(cache) \in Nat /\ CACHE_SIZE \in Nat
    BY <2>1, CacheEntries, BoundsAssumption
  <2>. QED  BY <2>1, <2>2
<1>5. Fits(cache', fetches, cleared)
  <2>1. \A c : Left(c) => Fits(c, fetches, cleared)
    BY LeftFits
  <2>. QED  BY <2>1
<1>6. Fits(cache', gs, cleared)
  <2>1. ASSUME NEW k \in DOMAIN cache' PROVE Good(cache'[k], gs, cleared)
    <3>1. Good(cache'[k], fetches, cleared)
      BY <1>5 DEF Fits
    <3>2. CASE cache'[k].fetch # f
      BY <1>1, <3>1, <3>2 DEF Good
    <3>3. CASE cache'[k].fetch = f
      <4>1. fetches[f].version >= cleared /\ fetches[f].page = cache'[k].page
        BY <3>1, <3>3 DEF Good
      <4>2. r.version \in Nat /\ fetches[f].version \in Nat
        BY VersionsAre
      <4>3. r.version >= cleared
        BY <4>1, <4>2
      <4>. QED  BY <1>1, <3>1, <3>3, <4>1, <4>3 DEF Good
    <3>. QED  BY <3>2, <3>3
  <2>. QED  BY <1>5, <2>1 DEF Fits
<1>7. Fits(cache', fetches', cleared)
  BY <1>1, <1>6, CollectedFits
<1>8. ASSUME NEW g \in DOMAIN fetches, Held(g, <<>>, navs'), fetches[g] \in FetchState
      PROVE  fetches'[g] \in FetchState /\ fetches'[g].version >= fetches[g].version
  <2>1. fetches'[g] = gs[g]
    BY <1>2, <1>3, <1>8
  <2>2. CASE g = f
    BY <1>1, <2>1, <2>2
  <2>3. CASE g # f
    BY <1>1, <1>8, <2>1, <2>3, VersionsAre
  <2>. QED  BY <2>2, <2>3
<1>. QED  BY <1>2, <1>4, <1>7, <1>8 DEF Shelved

(* A response arrives. *)
LEMMA ShelvedAnswered ==
    ASSUME TypeOK, CacheFits, NEW f \in DOMAIN fetches, answered(f)
    PROVE  Shelved(navs')
<1>. DEFINE keep == Redirect[fetches[f].page] \notin NoStore
            x == IF keep THEN "kept" ELSE "dropped"
<1>1. fetches[f].state = "flying" /\ settle(f) /\ navs' = navs /\ cleared' = cleared
  BY DEF answered, ghosts
<1>2. fetches[f] \in FetchState
  BY <1>1, StateIsThere
<1>3. cache' = IF keep THEN cache ELSE Drop(f)
  BY <1>1 DEF settle
<1>4. PICK v \in fetches[f].version..version :
         fetches' = Collected([fetches EXCEPT ![f].state = x, ![f].version = v], cache', navs)
  BY <1>1 DEF settle
<1>5. v \in 0..MaxVersion /\ v >= fetches[f].version /\ cleared \in Nat
  <2>1. fetches[f].version \in 0..MaxVersion /\ version \in 0..MaxVersion /\ cleared \in 0..MaxVersion
    BY <1>2, FetchFields DEF TypeOK
  <2>. QED  BY <1>4, <2>1, BoundsAssumption
<1>. DEFINE r == [fetches[f] EXCEPT !.state = x, !.version = v]
            gs == [fetches EXCEPT ![f] = r]
<1>6. /\ r \in FetchState /\ r.state = x /\ r.version = v /\ r.page = fetches[f].page
      /\ FetchTurns(gs, f, r)
  <2>1. r \in FetchState /\ r.state = x /\ r.version = v /\ r.page = fetches[f].page
    BY <1>2, <1>5 DEF FetchState
  <2>. HIDE DEF r
  <2>2. FetchTurns(gs, f, r)
    BY <2>1, Turned
  <2>. QED  BY <2>1, <2>2
<1>7. Left(cache')
  BY <1>3, SameLeft, LeftDrop
<1>8. ASSUME NEW k \in DOMAIN cache', cache'[k].fetch = f
      PROVE  /\ r.state \in {"flying", "kept", "stale"}
             /\ Redirect[cache'[k].page] \in NoStore => r.state = "flying"
  <2>1. keep
    BY <1>3, <1>8, LeftDrop
  <2>2. cache' = cache /\ Good(cache[k], fetches, cleared)
    BY <1>3, <1>8, <2>1 DEF CacheFits, Fits
  <2>3. cache'[k].page = fetches[f].page
    BY <1>8, <2>2 DEF Good
  <2>. QED  BY <1>6, <2>1, <2>3
<1>9. fetches' = Collected(gs, cache', navs)
  <2>1. [fetches EXCEPT ![f].state = x, ![f].version = v] = gs
    OBVIOUS
  <2>. HIDE DEF gs
  <2>. QED  BY <1>4, <2>1
<1>. HIDE DEF gs, keep, x, r
<1>. QED  BY <1>1, <1>2, <1>5, <1>6, <1>7, <1>8, <1>9, ShelvedTurn

(* A fetch fails. *)
LEMMA ShelvedFailed ==
    ASSUME TypeOK, CacheFits, NEW f \in DOMAIN fetches, network_fails(f)
    PROVE  Shelved(navs')
<1>1. /\ fetches[f].state = "flying" /\ navs' = navs /\ cleared' = cleared
      /\ cache' = Drop(f)
      /\ fetches' = Collected([fetches EXCEPT ![f].state = "failed"], cache', navs)
  BY DEF network_fails, ghosts
<1>2. fetches[f] \in FetchState /\ cleared \in Nat
  BY <1>1, StateIsThere, PlainTypes
<1>. DEFINE gs == [fetches EXCEPT ![f].state = "failed"]
<1>3. PICK r \in FetchState : /\ FetchTurns(gs, f, r) /\ r.state = "failed"
                              /\ r.version = fetches[f].version /\ r.page = fetches[f].page
  BY <1>2, TurnsTo
<1>4. Left(cache') /\ \A k \in DOMAIN cache' : cache'[k].fetch # f
  BY <1>1, LeftDrop
<1>5. fetches' = Collected(gs, cache', navs)
  BY <1>1
<1>. HIDE DEF gs
<1>6. r.version >= fetches[f].version
  BY <1>3, VersionsAre
<1>. QED  BY <1>1, <1>2, <1>3, <1>4, <1>5, <1>6, ShelvedTurn

(* The ttl of a fetch is over. *)
LEMMA ShelvedExpired ==
    ASSUME TypeOK, CacheFits, NEW f \in DOMAIN fetches, expire(f)
    PROVE  Shelved(navs')
<1>1. /\ fetches[f].state = "kept" /\ navs' = navs /\ cleared' = cleared /\ cache' = cache
      /\ fetches' = [fetches EXCEPT ![f].state = "stale"]
  BY DEF expire, ghosts
<1>2. fetches[f] \in FetchState /\ cleared \in Nat
  BY <1>1, StateIsThere, PlainTypes
<1>. DEFINE gs == [fetches EXCEPT ![f].state = "stale"]
<1>3. PICK r \in FetchState : /\ FetchTurns(gs, f, r) /\ r.state = "stale"
                              /\ r.version = fetches[f].version /\ r.page = fetches[f].page
  BY <1>2, TurnsTo
<1>4. Left(cache')
  BY <1>1, SameLeft
<1>5. ASSUME NEW k \in DOMAIN cache', cache'[k].fetch = f
      PROVE  /\ r.state \in {"flying", "kept", "stale"}
             /\ Redirect[cache'[k].page] \in NoStore => r.state = "flying"
  <2>1. Good(cache[k], fetches, cleared)
    BY <1>1, <1>5 DEF CacheFits, Fits
  <2>2. Redirect[cache[k].page] \notin NoStore
    BY <1>1, <1>5, <2>1 DEF Good
  <2>. QED  BY <1>1, <1>3, <2>2
<1>6. fetches' = gs
  BY <1>1
<1>. HIDE DEF gs
<1>7. r.version >= fetches[f].version
  BY <1>3, VersionsAre
<1>. QED  BY <1>1, <1>2, <1>3, <1>4, <1>5, <1>6, <1>7, ShelvedTurn
-----------------------------------------------------------------------------
(***************************************************************************)
(* What the user does: a prefetch, a navigation that starts, or another    *)
(* entry of the page on screen.                                            *)
(***************************************************************************)
HistoryEntry == [page : Pages, id : Nat \cup {None}]
Typed(h) == h \in Seq(HistoryEntry)

Started(p, kind, pop) ==
  /\ ~left /\ go(p, kind, pop)
  /\ UNCHANGED <<server, n, cur, screen, sheets, tags, left, shown, ghosts>>
  /\ Typed(history') /\ entry' \in DOMAIN history' /\ (Plain(history) => Plain(history'))
  /\ kind = "popstate" => p = history'[entry'].page /\ pop = history'[entry'].id

Stayed ==
  /\ ~left
  /\ Typed(history') /\ entry' \in DOMAIN history' /\ n' \in Nat /\ cur' \in Nat
  /\ Plain(history) => Plain(history')
  /\ history'[entry'].page = shown /\ history'[entry'].id = cur'
  /\ navs' = IF Running(active) /\ navs[active].kind = "popstate"
             THEN [navs EXCEPT ![active].crossed = TRUE] ELSE navs
  /\ UNCHANGED <<server, dom, shown, active, cache, fetches, store, ghosts>>

(* The fields of a history entry. *)
LEMMA EntryFields ==
    ASSUME NEW h, Typed(h), NEW e \in DOMAIN h
    PROVE  h[e].page \in Pages /\ h[e].id \in Nat \cup {None} /\ e \in 1..Len(h) /\ Len(h) \in Nat
<1>1. h[e] \in HistoryEntry /\ e \in 1..Len(h) /\ Len(h) \in Nat
  BY DEF Typed
<1>. QED  BY <1>1 DEF HistoryEntry

(* The current entry. *)
LEMMA HereIsPage ==
    ASSUME TypeOK
    PROVE  Typed(history) /\ entry \in DOMAIN history /\ Here \in Pages
<1>1. Typed(history) /\ entry \in DOMAIN history
  BY DEF TypeOK, Typed, HistoryEntry
<1>. QED  BY <1>1, EntryFields DEF Here

(* An entry that is given an id keeps its page. *)
LEMMA TaggedEntry ==
    ASSUME TypeOK, NEW h, Typed(h), NEW e \in DOMAIN h
    PROVE  /\ Typed(tagged(h, e)) /\ e \in DOMAIN tagged(h, e)
           /\ tagged(h, e)[e].page = h[e].page /\ tagged(h, e)[e].id \in Nat
           /\ Plain(h) => Plain(tagged(h, e))
<1>1. h[e] \in HistoryEntry /\ e \in 1..Len(h) /\ n \in Nat
  BY DEF Typed, TypeOK
<1>2. CASE h[e].id # None
  BY <1>1, <1>2 DEF tagged, HistoryEntry
<1>3. CASE h[e].id = None
  <2>. DEFINE q == [h[e] EXCEPT !.id = n + 1]
  <2>1. q \in HistoryEntry /\ q.page = h[e].page /\ q.id = n + 1
    BY <1>1 DEF HistoryEntry
  <2>2. tagged(h, e) = [h EXCEPT ![e] = q]
    BY <1>3 DEF tagged
  <2>. HIDE DEF q
  <2>3. Typed(tagged(h, e))
    BY <1>1, <2>1, <2>2, ExceptSeq DEF Typed
  <2>4. DOMAIN tagged(h, e) = DOMAIN h /\ tagged(h, e)[e] = q
        /\ \A d \in DOMAIN h : d # e => tagged(h, e)[d] = h[d]
    BY <2>2
  <2>5. Plain(h) => Plain(tagged(h, e))
    BY <2>1, <2>4 DEF Plain
  <2>. QED  BY <1>1, <2>1, <2>3, <2>4, <2>5
<1>. QED  BY <1>2, <1>3

(* popstate starts a navigation, or stays on the page. *)
LEMMA Popped ==
    ASSUME TypeOK, NEW h, Typed(h), NEW e \in DOMAIN h, Plain(history) => Plain(h), ~left,
           popstate(h, e),
           UNCHANGED <<server, screen, sheets, tags, left, shown, ghosts>>
    PROVE  Stayed \/ \E p \in Pages : \E pop \in Nat \cup {None} : Started(p, "popstate", pop)
<1>1. entry' = e
  BY DEF popstate
<1>2. CASE h[e].page = shown
  <2>1. /\ history' = tagged(h, e)
        /\ n' = IF h[e].id = None THEN n + 1 ELSE n
        /\ cur' = history'[e].id
        /\ navs' = IF Running(active) /\ navs[active].kind = "popstate"
                   THEN [navs EXCEPT ![active].crossed = TRUE] ELSE navs
        /\ UNCHANGED <<loading, active, cache, fetches, store>>
    BY <1>2 DEF popstate
  <2>2. /\ Typed(history') /\ entry' \in DOMAIN history'
        /\ history'[entry'].page = shown /\ cur' \in Nat /\ history'[entry'].id = cur'
        /\ Plain(history) => Plain(history')
    BY <1>1, <1>2, <2>1, TaggedEntry
  <2>3. n' \in Nat
    BY <2>1 DEF TypeOK
  <2>. QED  BY <2>1, <2>2, <2>3 DEF Stayed, dom
<1>3. CASE h[e].page # shown
  <2>1. history' = h /\ go(h[e].page, "popstate", h[e].id) /\ n' = n /\ cur' = cur
    BY <1>3 DEF popstate
  <2>2. Started(h[e].page, "popstate", h[e].id)
    BY <1>1, <2>1 DEF Started
  <2>. QED  BY <2>2, EntryFields
<1>. QED  BY <1>2, <1>3

(* Every step of the user is one of three. *)
LEMMA UserSteps ==
    ASSUME TypeOK, User
    PROVE  \/ \E p \in Pages : prefetch(p)
           \/ \E p \in Pages : \E kind \in Kinds : \E pop \in Nat \cup {None} : Started(p, kind, pop)
           \/ Stayed
<1>0. "push" \in Kinds /\ "replace" \in Kinds /\ "popstate" \in Kinds
  BY DEF Kinds
<1>1. ASSUME NEW p \in Pages, link(p) \/ \E b \in BOOLEAN : navigate(p, b)
      PROVE  \E kind \in Kinds : Started(p, kind, None)
  <2>1. PICK kind \in {"push", "replace"} : go(p, kind, None)
    BY <1>1 DEF link, navigate
  <2>2. /\ ~left /\ UNCHANGED <<server, n, cur, screen, sheets, tags, left, shown, ghosts>>
        /\ history' = history /\ entry' = entry
    BY <1>1 DEF link, navigate, tab
  <2>3. Started(p, kind, None)
    BY <2>1, <2>2, HereIsPage DEF Started
  <2>. QED  BY <1>0, <2>3
<1>2. ASSUME NEW e \in DOMAIN history, traverse(e)
      PROVE  Stayed \/ \E p \in Pages : \E pop \in Nat \cup {None} : Started(p, "popstate", pop)
  <2>1. /\ ~left /\ popstate(history, e)
        /\ UNCHANGED <<server, screen, sheets, tags, left, shown, ghosts>>
    BY <1>2 DEF traverse
  <2>. QED  BY <2>1, HereIsPage, Popped
<1>3. ASSUME fragment
      PROVE  Stayed \/ \E p \in Pages : \E pop \in Nat \cup {None} : Started(p, "popstate", pop)
  <2>. DEFINE x == [page |-> Here, id |-> None]
              a == SubSeq(history, 1, entry)
              h == Append(a, x)
  <2>1. /\ ~left /\ popstate(h, entry + 1)
        /\ UNCHANGED <<server, screen, sheets, tags, left, shown, ghosts>>
    BY <1>3 DEF fragment
  <2>2. Typed(history) /\ entry \in 1..Len(history) /\ Len(history) \in Nat
    BY HereIsPage DEF Typed
  <2>3. a \in Seq(HistoryEntry) /\ Len(a) = entry
    BY <2>2 DEF Typed
  <2>4. x \in HistoryEntry
    BY HereIsPage DEF HistoryEntry
  <2>5. x.page = history[entry].page /\ \A d \in 1..entry : a[d] = history[d] /\ d \in DOMAIN history
    BY <2>2 DEF Here
  <2>. HIDE DEF x, a
  <2>6. Typed(h) /\ Len(h) = entry + 1
    BY <2>3, <2>4, AppendProperties DEF Typed
  <2>7. \A d \in DOMAIN h : (d \in 1..entry /\ h[d] = a[d]) \/ h[d] = x
    BY <2>2, <2>3, <2>4, <2>6, AppendProperties DEF Typed
  <2>. HIDE DEF h
  <2>8. entry + 1 \in DOMAIN h
    BY <2>2, <2>6 DEF Typed
  <2>9. Plain(history) => Plain(h)
    BY <2>5, <2>7, HereIsPage DEF Plain
  <2>. QED  BY <2>1, <2>6, <2>8, <2>9, Popped
<1>4. PICK p \in Pages : prefetch(p) \/ link(p) \/ (\E b \in BOOLEAN : navigate(p, b))
      \/ (\E e \in DOMAIN history : traverse(e)) \/ fragment
  BY HereIsPage DEF User
<1>. QED  BY <1>0, <1>1, <1>2, <1>3, <1>4

(* The new navigation. *)
Begun(t) ==
  /\ navs' \in Seq(NavState \cup {Done}) /\ Len(navs') = Len(navs) + 1
  /\ DOMAIN navs' = 1..(Len(navs) + 1) /\ DOMAIN navs = 1..Len(navs) /\ Len(navs) \in Nat
  /\ active = Len(navs) /\ active' = Len(navs) + 1 /\ active' \notin DOMAIN navs
  /\ t \in NavState /\ t.pc = "fetch"
  /\ navs'[active'] = t /\ \A j \in DOMAIN navs : navs'[j] = navs[j]

(* go() appends a navigation with what it was called with and found. *)
LEMMA StartedNav ==
    ASSUME TypeOK, CacheFits, cleared <= version,
           NEW p \in Pages, NEW kind \in Kinds, NEW pop \in Nat \cup {None}, Started(p, kind, pop)
    PROVE  \E t \in NavState :
              /\ Begun(t) /\ t.req = p /\ t.kind = kind /\ t.pop = pop
              /\ t.fetch = Fetch(p, kind = "popstate") /\ t.since = cleared
              /\ ~t.added /\ ~t.crossed
              /\ Redirect[p] \in NoStore => t.found = "flying"
<1>. DEFINE any == kind = "popstate"
            found == IF Usable(p, any) THEN fetches[CachedFetch(p)].state ELSE "flying"
            t == [pc |-> "fetch", req |-> p, kind |-> kind, pop |-> pop,
                  fetch |-> Fetch(p, any), version |-> 0, added |-> FALSE,
                  found |-> found, since |-> cleared, crossed |-> FALSE]
<1>1. navs' = Append(navs, t) /\ active' = active + 1
  BY DEF Started, go
<1>2. /\ found \in {"flying", "kept", "stale"}
      /\ Redirect[p] \in NoStore => found = "flying"
      /\ Fetch(p, any) \in Nat
  <2>1. any \in BOOLEAN
    OBVIOUS
  <2>. HIDE DEF any
  <2>2. \A base : base = (IF Fetch(p, any) \in DOMAIN fetches THEN fetches
                   ELSE Append(fetches, [page |-> p, state |-> "flying", version |-> version])) =>
           /\ Fetch(p, any) \in Nat
           /\ Usable(p, any) => /\ fetches[CachedFetch(p)].state \in {"flying", "kept", "stale"}
                                /\ Redirect[p] \in NoStore =>
                                      fetches[CachedFetch(p)].state = "flying"
    BY <2>1, GotEntry
  <2>. QED  BY <2>2
<1>. HIDE DEF found, any
<1>3. t \in NavState
  BY <1>2, PlainTypes, BoundsAssumption DEF NavState, Steps
<1>4. /\ t.pc = "fetch" /\ t.req = p /\ t.kind = kind /\ t.pop = pop /\ t.fetch = Fetch(p, any)
      /\ t.since = cleared /\ ~t.added /\ ~t.crossed /\ t.found = found
  OBVIOUS
<1>. HIDE DEF t
<1>5. navs \in Seq(NavState \cup {Done}) /\ active = Len(navs) /\ Len(navs) \in Nat
      /\ DOMAIN navs = 1..Len(navs)
  BY DEF TypeOK
<1>6. /\ navs' \in Seq(NavState \cup {Done}) /\ Len(navs') = Len(navs) + 1
      /\ \A j \in 1..Len(navs) : navs'[j] = navs[j]
      /\ navs'[Len(navs) + 1] = t
  BY <1>1, <1>3, <1>5, AppendProperties
<1>7. DOMAIN navs' = 1..(Len(navs) + 1)
  BY <1>6
<1>8. Begun(t)
  BY <1>1, <1>3, <1>4, <1>5, <1>6, <1>7 DEF Begun
<1>. QED  BY <1>2, <1>3, <1>4, <1>8 DEF any
-----------------------------------------------------------------------------
(***************************************************************************)
(* The steps, one by one.                                                  *)
(***************************************************************************)
Swaps(i) == /\ ~left /\ Running(i) /\ Live(i) /\ navs[i].pc \in {"sheets", "transition"}
            /\ swap(i)

(* Every step of the specification. *)
LEMMA StepCases ==
    ASSUME TypeOK, [Next]_vars
    PROVE  \/ UNCHANGED vars
           \/ \E p \in Pages : prefetch(p)
           \/ \E p \in Pages : \E kind \in Kinds : \E pop \in Nat \cup {None} : Started(p, kind, pop)
           \/ Stayed
           \/ \E f \in DOMAIN fetches : answered(f) \/ network_fails(f) \/ expire(f)
           \/ mutate \/ Store
           \/ \E v \in unanswered : clearCache(v)
           \/ \E i \in DOMAIN navs :
                 \/ superseded(i) \/ fails(i) \/ fetched(i) \/ modules_loaded(i)
                 \/ start_transition(i) \/ Swaps(i) \/ success(i)
<1>1. ASSUME NEW i \in DOMAIN navs, Navigating(i)
      PROVE  \/ superseded(i) \/ fails(i) \/ fetched(i) \/ modules_loaded(i)
             \/ start_transition(i) \/ Swaps(i) \/ success(i)
  <2>1. ASSUME swap_now(i) \/ update_callback(i) PROVE Swaps(i)
    BY <2>1 DEF swap_now, update_callback, Swaps, At
  <2>. QED  BY <1>1, <2>1 DEF Navigating
<1>. QED  BY <1>1, UserSteps DEF Next, Network

(* The store's own steps leave everything else alone. *)
LEMMA StoreSteps ==
    ASSUME Store
    PROVE  /\ ~left
           /\ UNCHANGED <<version, unanswered, cleared>>
           /\ UNCHANGED <<history, entry, n, cur, shown, screen>>
           /\ UNCHANGED <<sheets, tags, loading, left, slipped, cancelled>>
           /\ UNCHANGED <<navs, active, cache, fetches>>
  BY DEF Store, evaluate, first_read, server, tab, dom, ghosts

(* Every step leaves a cache that fits. *)
LEMMA Shelving ==
    ASSUME TypeOK, CacheFits, cleared <= version, [Next]_vars
    PROVE  Shelved(navs')
<1>1. CASE UNCHANGED <<cache, fetches, cleared>>
  BY <1>1, ShelvedSame
<1>2. ASSUME NEW p \in Pages, prefetch(p) PROVE Shelved(navs')
  <2>1. get(p, FALSE, navs) /\ navs' = navs /\ cleared' = cleared
    BY <1>2 DEF prefetch, ghosts
  <2>2. Shelved(navs)
    BY <2>1, ShelvedGet
  <2>. QED  BY <2>1, <2>2
<1>3. ASSUME NEW p \in Pages, NEW kind \in Kinds, NEW pop \in Nat \cup {None}, Started(p, kind, pop)
      PROVE  Shelved(navs')
  <2>1. get(p, kind = "popstate", navs') /\ cleared' = cleared
    BY <1>3 DEF Started, go, ghosts
  <2>2. (kind = "popstate") \in BOOLEAN
    OBVIOUS
  <2>3. ASSUME NEW any \in BOOLEAN, get(p, any, navs') PROVE Shelved(navs')
    BY <2>1, <2>3, ShelvedGet
  <2>. QED  BY <2>1, <2>2, <2>3
<1>4. ASSUME NEW i \in DOMAIN navs,
             superseded(i) \/ fails(i) \/ fetched(i)
      PROVE  Shelved(navs')
  <2>1. Left(cache') /\ fetches' = Collected(fetches, cache', navs')
    <3>1. CASE superseded(i) \/ fetched(i)
      BY <3>1, SameLeft DEF superseded, fetched
    <3>2. CASE fails(i)
      BY <3>2, LeftWithout DEF fails
    <3>. QED  BY <1>4, <3>1, <3>2
  <2>2. cleared' = cleared
    BY <1>4 DEF superseded, fails, fetched, ghosts
  <2>. QED  BY <2>1, <2>2, ShelvedSweep
<1>5. ASSUME NEW i \in DOMAIN navs,
             modules_loaded(i) \/ start_transition(i) \/ Swaps(i) \/ success(i)
      PROVE  UNCHANGED <<cache, fetches, cleared>>
  BY <1>5 DEF modules_loaded, start_transition, Swaps, swap, success, ghosts
<1>6. Stayed \/ mutate \/ Store \/ UNCHANGED vars => UNCHANGED <<cache, fetches, cleared>>
  BY StoreSteps DEF Stayed, mutate, vars, ghosts
<1>. QED  BY <1>1, <1>2, <1>3, <1>4, <1>5, <1>6, StepCases, ShelvedAnswered, ShelvedFailed,
             ShelvedExpired, ShelvedClear
-----------------------------------------------------------------------------
(***************************************************************************)
(* The entry a page is shown in.                                           *)
(***************************************************************************)
LEMMA FinalIsPage ==
    ASSUME TypeOK, NEW i, Running(i)
    PROVE  Final(i) \in Pages /\ Redirect[Final(i)] = Final(i)
<1>1. navs[i].req \in Pages
  BY RunningOne, NavFields
<1>. QED  BY <1>1, PagesAssumption DEF Final

(* The entry a page is swapped in at has its page and its id. *)
LEMMA SwappedTab ==
    ASSUME TypeOK, NEW i, Running(i), tag_entry(i)
    PROVE  /\ Typed(history') /\ entry' \in DOMAIN history' /\ n' \in Nat /\ cur' \in Nat
           /\ Plain(history) => Plain(history')
           /\ navs[i].kind # "popstate" =>
                 history'[entry'].page = Final(i) /\ history'[entry'].id = cur'
           /\ navs[i].kind = "popstate" =>
                 /\ history'[entry'].page = Here
                 /\ history[entry].id = navs[i].pop => history'[entry'].id = cur'
<1>. DEFINE kind == navs[i].kind
            pop == navs[i].pop
            untagged == kind = "popstate" /\ pop = None
            page == [page |-> Final(i), id |-> IF kind = "push" THEN n + 1 ELSE cur]
<1>1. kind \in {"push", "replace", "popstate"} /\ pop \in Nat \cup {None}
  BY RunningOne, NavFields DEF Kinds
<1>2. n \in Nat /\ cur \in Nat
  BY DEF TypeOK
<1>3. Typed(history) /\ entry \in DOMAIN history /\ Here \in Pages
      /\ entry \in 1..Len(history) /\ Len(history) \in Nat
  BY HereIsPage, EntryFields
<1>4. page \in HistoryEntry /\ page.page = Final(i) /\ Redirect[page.page] = page.page
      /\ page.id = IF kind = "push" THEN n + 1 ELSE cur
  BY <1>2, FinalIsPage DEF HistoryEntry
<1>5. /\ n' = IF untagged \/ kind = "push" THEN n + 1 ELSE n
      /\ entry' = IF kind = "push" THEN entry + 1 ELSE entry
      /\ cur' = shown_id(i)
  BY DEF tag_entry
<1>6. /\ kind = "push" => history' = Append(SubSeq(history, 1, entry), page)
      /\ kind = "replace" => history' = [history EXCEPT ![entry] = page]
      /\ untagged => history' = [history EXCEPT ![entry].id = n + 1]
      /\ kind = "popstate" /\ pop # None => history' = history
  BY <1>1 DEF tag_entry
<1>7. /\ kind = "push" \/ untagged => cur' = n + 1
      /\ kind = "replace" => cur' = cur
      /\ kind = "popstate" /\ pop # None => cur' = pop
  BY <1>1, <1>5 DEF shown_id
<1>. HIDE DEF page
<1>8. CASE kind = "push"
  <2>. DEFINE a == SubSeq(history, 1, entry)
  <2>1. a \in Seq(HistoryEntry) /\ Len(a) = entry
    BY <1>3 DEF Typed
  <2>2. history' = Append(a, page) /\ \A d \in 1..entry : a[d] = history[d] /\ d \in DOMAIN history
    BY <1>3, <1>6, <1>8 DEF Typed
  <2>. HIDE DEF a
  <2>3. history' \in Seq(HistoryEntry) /\ Len(history') = entry + 1 /\ history'[entry + 1] = page
    BY <1>4, <2>1, <2>2, AppendProperties
  <2>4. DOMAIN history' = 1..(entry + 1) /\ entry' = entry + 1
    BY <1>5, <1>8, <2>3
  <2>5. \A d \in DOMAIN history' : (d \in 1..entry /\ history'[d] = a[d]) \/ history'[d] = page
    BY <1>3, <1>4, <2>1, <2>2, <2>3, <2>4, AppendProperties
  <2>6. Plain(history) => Plain(history')
    BY <1>4, <2>2, <2>5 DEF Plain
  <2>. QED  BY <1>2, <1>3, <1>4, <1>5, <1>7, <1>8, <2>3, <2>4, <2>6 DEF Typed
<1>9. CASE kind = "replace"
  <2>1. history' = [history EXCEPT ![entry] = page] /\ entry' = entry
    BY <1>5, <1>6, <1>9
  <2>2. history' \in Seq(HistoryEntry)
    BY <1>3, <1>4, <2>1, ExceptSeq DEF Typed
  <2>3. DOMAIN history' = DOMAIN history /\ history'[entry'] = page
        /\ \A d \in DOMAIN history : d # entry => history'[d] = history[d]
    BY <1>3, <2>1
  <2>4. Plain(history) => Plain(history')
    BY <1>4, <2>1, <2>3 DEF Plain
  <2>. QED  BY <1>2, <1>3, <1>4, <1>5, <1>7, <1>9, <2>1, <2>2, <2>3, <2>4 DEF Typed
<1>10. CASE untagged
  <2>. DEFINE q == [history[entry] EXCEPT !.id = n + 1]
  <2>1. history' = [history EXCEPT ![entry] = q] /\ entry' = entry
    BY <1>5, <1>6, <1>10
  <2>2. history[entry] \in HistoryEntry
    BY <1>3 DEF Typed
  <2>3. q \in HistoryEntry /\ q.page = Here /\ q.id = n + 1
    BY <1>2, <2>2 DEF HistoryEntry, Here
  <2>. HIDE DEF q
  <2>4. history' \in Seq(HistoryEntry)
    BY <1>3, <2>1, <2>3, ExceptSeq DEF Typed
  <2>5. DOMAIN history' = DOMAIN history /\ history'[entry'] = q
        /\ \A d \in DOMAIN history : d # entry => history'[d] = history[d]
    BY <1>3, <2>1
  <2>6. Plain(history) => Plain(history')
    BY <1>3, <2>1, <2>3, <2>5 DEF Plain, Here
  <2>. QED  BY <1>2, <1>3, <1>5, <1>7, <1>10, <2>1, <2>3, <2>4, <2>5, <2>6 DEF Typed
<1>11. CASE kind = "popstate" /\ pop # None
  BY <1>1, <1>2, <1>3, <1>5, <1>6, <1>7, <1>11 DEF Here
<1>. QED  BY <1>1, <1>8, <1>9, <1>10, <1>11
-----------------------------------------------------------------------------
(***************************************************************************)
(* Types.                                                                  *)
(***************************************************************************)
SameServer == UNCHANGED <<version, unanswered, cleared>>

(* The data, and the last clear, change in two actions. *)
LEMMA ServerCases ==
    ASSUME TypeOK, [Next]_vars
    PROVE  SameServer \/ mutate \/ \E v \in unanswered : clearCache(v)
<1>1. ASSUME NEW p \in Pages, prefetch(p) PROVE SameServer
  BY <1>1 DEF prefetch, SameServer, server, ghosts
<1>2. ASSUME NEW p \in Pages, NEW kind \in Kinds, NEW pop \in Nat \cup {None}, Started(p, kind, pop)
      PROVE  SameServer
  BY <1>2 DEF Started, SameServer, server, ghosts
<1>3. ASSUME Stayed \/ Store \/ UNCHANGED vars PROVE SameServer
  BY <1>3, StoreSteps DEF Stayed, vars, SameServer, server, ghosts
<1>4. ASSUME NEW f \in DOMAIN fetches, answered(f) \/ network_fails(f) \/ expire(f)
      PROVE  SameServer
  BY <1>4 DEF answered, network_fails, expire, SameServer, server, ghosts
<1>5. ASSUME NEW i \in DOMAIN navs,
             \/ superseded(i) \/ fails(i) \/ fetched(i) \/ modules_loaded(i)
             \/ start_transition(i) \/ Swaps(i) \/ success(i)
      PROVE  SameServer
  BY <1>5 DEF superseded, fails, fetched, modules_loaded, start_transition, Swaps, swap, success,
              SameServer, server, ghosts
<1>. QED  BY <1>1, <1>2, <1>3, <1>4, <1>5, StepCases

(* Types of the versions. *)
LEMMA TypesServer ==
    ASSUME TypeOK, [Next]_vars
    PROVE  /\ version' \in 0..MaxVersion /\ unanswered' \subseteq 1..MaxVersion
           /\ cleared' \in 0..MaxVersion
<1>1. version \in 0..MaxVersion /\ unanswered \subseteq 1..MaxVersion /\ cleared \in 0..MaxVersion
  BY DEF TypeOK
<1>2. CASE SameServer
  BY <1>1, <1>2 DEF SameServer
<1>3. CASE mutate
  <2>1. version' = version + 1 /\ version < MaxVersion /\ unanswered' = unanswered \cup {version'}
        /\ cleared' = cleared
    BY <1>3 DEF mutate, ghosts
  <2>. QED  BY <1>1, <2>1, BoundsAssumption
<1>4. ASSUME NEW v \in unanswered, clearCache(v)
      PROVE  /\ version' \in 0..MaxVersion /\ unanswered' \subseteq 1..MaxVersion
             /\ cleared' \in 0..MaxVersion
  <2>1. version' = version /\ unanswered' = unanswered \ {v}
        /\ cleared' = IF v > cleared THEN v ELSE cleared
    BY <1>4 DEF clearCache
  <2>. QED  BY <1>1, <2>1, BoundsAssumption
<1>. QED  BY <1>2, <1>3, <1>4, ServerCases

(* The address, and what is on screen, change when a navigation starts, is *)
(* crossed, or swaps.                                                      *)
SameAddress == UNCHANGED <<history, entry, n, cur, shown, screen>>

(* Which steps change the address or the screen. *)
LEMMA AddressCases ==
    ASSUME TypeOK, [Next]_vars
    PROVE  \/ SameAddress
           \/ \E p \in Pages : \E kind \in Kinds : \E pop \in Nat \cup {None} : Started(p, kind, pop)
           \/ Stayed
           \/ \E i \in DOMAIN navs : Swaps(i)
<1>1. ASSUME NEW p \in Pages, prefetch(p) PROVE SameAddress
  BY <1>1 DEF prefetch, SameAddress, tab, dom
<1>2. ASSUME Store \/ UNCHANGED vars PROVE SameAddress
  BY <1>2, StoreSteps DEF vars, SameAddress, tab, dom
<1>3. ASSUME NEW f \in DOMAIN fetches, answered(f) \/ network_fails(f) \/ expire(f)
      PROVE  SameAddress
  BY <1>3 DEF answered, network_fails, expire, SameAddress, tab, dom
<1>4. ASSUME NEW v \in unanswered, mutate \/ clearCache(v)
      PROVE  SameAddress
  BY <1>4 DEF mutate, clearCache, SameAddress, tab, dom
<1>5. ASSUME mutate PROVE SameAddress
  BY <1>5 DEF mutate, SameAddress, tab, dom
<1>6. ASSUME NEW i \in DOMAIN navs,
             \/ superseded(i) \/ fails(i) \/ fetched(i) \/ modules_loaded(i)
             \/ start_transition(i) \/ success(i)
      PROVE  SameAddress
  BY <1>6 DEF superseded, fails, fetched, modules_loaded, start_transition, success, SameAddress,
              tab, dom
<1>. QED  BY <1>1, <1>2, <1>3, <1>4, <1>5, <1>6, StepCases

(* Types of the history and of the screen. *)
LEMMA TypesAddress ==
    ASSUME TypeOK, [Next]_vars
    PROVE  /\ Typed(history') /\ entry' \in DOMAIN history' /\ n' \in Nat /\ cur' \in Nat
           /\ shown' \in Pages
           /\ screen' \in [page : Pages, version : 0..MaxVersion, by : Nat, since : 0..MaxVersion]
<1>1. /\ Typed(history) /\ entry \in DOMAIN history /\ n \in Nat /\ cur \in Nat /\ shown \in Pages
      /\ screen \in [page : Pages, version : 0..MaxVersion, by : Nat, since : 0..MaxVersion]
  BY HereIsPage DEF TypeOK
<1>2. CASE SameAddress
  BY <1>1, <1>2 DEF SameAddress
<1>3. ASSUME NEW p \in Pages, NEW kind \in Kinds, NEW pop \in Nat \cup {None}, Started(p, kind, pop)
      PROVE  /\ Typed(history') /\ entry' \in DOMAIN history' /\ n' \in Nat /\ cur' \in Nat
             /\ shown' = shown /\ screen' = screen
  BY <1>1, <1>3 DEF Started
<1>4. CASE Stayed
  BY <1>1, <1>4 DEF Stayed, dom
<1>5. ASSUME NEW i \in DOMAIN navs, Swaps(i)
      PROVE  /\ Typed(history') /\ entry' \in DOMAIN history' /\ n' \in Nat /\ cur' \in Nat
             /\ shown' \in Pages
             /\ screen' \in [page : Pages, version : 0..MaxVersion, by : Nat, since : 0..MaxVersion]
  <2>1. Running(i) /\ tag_entry(i) /\ shown' = history'[entry'].page
        /\ screen' = [page |-> Final(i), version |-> navs[i].version, by |-> i,
                      since |-> navs[i].since]
    BY <1>5 DEF Swaps, swap, swapBody
  <2>2. Typed(history') /\ entry' \in DOMAIN history' /\ n' \in Nat /\ cur' \in Nat
    BY <2>1, SwappedTab
  <2>3. shown' \in Pages
    BY <2>1, <2>2, EntryFields
  <2>4. /\ Final(i) \in Pages /\ i \in Nat /\ navs[i].version \in 0..MaxVersion
        /\ navs[i].since \in 0..MaxVersion
    BY <2>1, FinalIsPage, RunningOne, NavFields
  <2>. QED  BY <2>1, <2>2, <2>3, <2>4
<1>. QED  BY <1>1, <1>2, <1>3, <1>4, <1>5, AddressCases
-----------------------------------------------------------------------------
(***************************************************************************)
(* What becomes of the navigations.                                        *)
(***************************************************************************)
Continues(i, t) ==
  /\ active' = active /\ Running(i) /\ Moves(i, t) /\ SameCall(t, navs[i])
  /\ t.pc = "fetch" => navs[i].pc = "fetch"
  /\ navs[i].pc # "fetch" => t.version = navs[i].version
  /\ navs[i].pc = "fetch" /\ t.pc # "fetch" => t.version = Response(i).version

Ended(i) == active' = active /\ Running(i) /\ Moves(i, Done)

SameNavs == UNCHANGED <<navs, active>>

(* The fetch that a navigation awaits. *)
LEMMA AwaitedFetch ==
    ASSUME TypeOK, AwaitsFit, NEW i, Running(i), navs[i].pc = "fetch"
    PROVE  /\ navs[i].fetch \in DOMAIN fetches /\ Response(i) \in FetchState
           /\ Response(i).version \in 0..MaxVersion /\ Response(i).version >= navs[i].since
<1>1. i \in DOMAIN navs
  BY RunningOne
<1>2. /\ navs[i].fetch \in DOMAIN fetches /\ Response(i) \in FetchState
      /\ Response(i).version >= navs[i].since
  BY <1>1 DEF AwaitsFit, Fresh, Response
<1>. QED  BY <1>2, FetchFields

(* Another entry of the same page crosses a pending back/forward. *)
LEMMA StayedNavs ==
    ASSUME TypeOK, Stayed
    PROVE  \/ SameNavs /\ ~(Running(active) /\ navs[active].kind = "popstate")
           \/ /\ Running(active)
              /\ \E t \in NavState : Continues(active, t) /\ t.pc = navs[active].pc
                                     /\ t.crossed /\ t.added = navs[active].added
<1>1. active' = active
      /\ navs' = IF Running(active) /\ navs[active].kind = "popstate"
                 THEN [navs EXCEPT ![active].crossed = TRUE] ELSE navs
  BY DEF Stayed
<1>2. CASE Running(active) /\ navs[active].kind = "popstate"
  <2>1. navs' = [navs EXCEPT ![active].crossed = TRUE]
    BY <1>1, <1>2
  <2>2. \A i : Running(i) /\ navs' = [navs EXCEPT ![i].crossed = TRUE] =>
            \E t \in NavState : /\ Moves(i, t) /\ t.pc = navs[i].pc /\ SameCall(t, navs[i])
                                /\ t.crossed
                                /\ t.added = navs[i].added /\ t.version = navs[i].version
    BY CrossMoves
  <2>3. PICK t \in NavState : /\ Moves(active, t) /\ t.pc = navs[active].pc
                              /\ SameCall(t, navs[active]) /\ t.crossed
                              /\ t.added = navs[active].added /\ t.version = navs[active].version
    BY <1>2, <2>1, <2>2
  <2>4. Continues(active, t)
    BY <1>1, <1>2, <2>3 DEF Continues
  <2>. QED  BY <1>2, <2>3, <2>4
<1>3. CASE ~(Running(active) /\ navs[active].kind = "popstate")
  BY <1>1, <1>3 DEF SameNavs
<1>. QED  BY <1>2, <1>3

(* Three actions end a navigation. *)
LEMMA EndedNav ==
    ASSUME TypeOK, NEW i \in DOMAIN navs, superseded(i) \/ fails(i) \/ success(i)
    PROVE  Ended(i)
<1>1. Running(i) /\ ends(i) /\ active' = active
  BY DEF superseded, fails, success, At
<1>. QED  BY <1>1, EndMoves DEF Ended

(* A navigation goes on with its document. *)
LEMMA FetchedNav ==
    ASSUME TypeOK, AwaitsFit, NEW i \in DOMAIN navs, fetched(i)
    PROVE  \E t \in NavState : Continues(i, t) /\ t.pc = "modules" /\ t.added
                               /\ t.crossed = navs[i].crossed
<1>1. Running(i) /\ navs[i].pc = "fetch" /\ active' = active
  BY DEF fetched, At
<1>2. Response(i).version \in 0..MaxVersion
  BY <1>1, AwaitedFetch
<1>3. PICK t \in NavState : /\ Moves(i, t) /\ t.pc = "modules" /\ SameCall(t, navs[i])
                            /\ t.crossed = navs[i].crossed
                            /\ t.added /\ t.version = Response(i).version
  BY <1>1, <1>2, FetchedMoves
<1>4. Continues(i, t)
  BY <1>1, <1>3 DEF Continues
<1>. QED  BY <1>3, <1>4

(* A navigation goes on to its stylesheets, or to its transition. *)
LEMMA WentNav ==
    ASSUME TypeOK, NEW i \in DOMAIN navs, modules_loaded(i) \/ start_transition(i)
    PROVE  \E t \in NavState : Continues(i, t) /\ t.crossed = navs[i].crossed
                               /\ t.added = navs[i].added
                               /\ t.pc = IF navs[i].pc = "modules" THEN "sheets" ELSE "transition"
<1>. DEFINE x == IF navs[i].pc = "modules" THEN "sheets" ELSE "transition"
<1>1. Running(i) /\ navs[i].pc \in {"modules", "sheets"} /\ active' = active /\ goes_to(i, x)
  BY DEF modules_loaded, start_transition, At
<1>2. x \in Steps /\ x # "fetch"
  BY DEF Steps
<1>. HIDE DEF x
<1>3. PICK t \in NavState : /\ Moves(i, t) /\ t.pc = x /\ SameCall(t, navs[i])
                            /\ t.crossed = navs[i].crossed
                            /\ t.added = navs[i].added /\ t.version = navs[i].version
  <2>1. \A y \in Steps : goes_to(i, y) =>
            \E t \in NavState : /\ Moves(i, t) /\ t.pc = y /\ SameCall(t, navs[i])
                                /\ t.crossed = navs[i].crossed
                                /\ t.added = navs[i].added /\ t.version = navs[i].version
    BY <1>1, GoMoves
  <2>. QED  BY <1>1, <1>2, <2>1
<1>4. Continues(i, t)
  BY <1>1, <1>2, <1>3 DEF Continues
<1>. QED  BY <1>3, <1>4 DEF x

(* A navigation goes on to its scripts. *)
LEMMA SwappedNav ==
    ASSUME TypeOK, NEW i \in DOMAIN navs, Swaps(i)
    PROVE  \E t \in NavState : Continues(i, t) /\ t.crossed = navs[i].crossed /\ ~t.added
                               /\ t.pc = "scripts"
<1>1. Running(i) /\ navs[i].pc \in {"sheets", "transition"} /\ active' = active /\ swap(i)
  BY DEF Swaps, swap
<1>2. PICK t \in NavState : /\ Moves(i, t) /\ t.pc = "scripts" /\ SameCall(t, navs[i])
                            /\ t.crossed = navs[i].crossed
                            /\ ~t.added /\ t.version = navs[i].version
  BY <1>1, SwapMoves
<1>3. Continues(i, t)
  BY <1>1, <1>2 DEF Continues
<1>. QED  BY <1>2, <1>3

(* A step leaves the navigations, starts one, ends one or moves one on. *)
LEMMA NavsCases ==
    ASSUME TypeOK, AwaitsFit, [Next]_vars
    PROVE  \/ SameNavs
           \/ \E p \in Pages : \E kind \in Kinds : \E pop \in Nat \cup {None} : Started(p, kind, pop)
           \/ \E i \in DOMAIN navs : Ended(i)
           \/ \E i \in DOMAIN navs : \E t \in NavState : Continues(i, t)
<1>1. ASSUME NEW p \in Pages, prefetch(p) PROVE SameNavs
  BY <1>1 DEF prefetch, SameNavs
<1>2. ASSUME Store \/ UNCHANGED vars PROVE SameNavs
  BY <1>2, StoreSteps DEF vars, SameNavs
<1>3. ASSUME NEW f \in DOMAIN fetches, answered(f) \/ network_fails(f) \/ expire(f)
      PROVE  SameNavs
  BY <1>3 DEF answered, network_fails, expire, SameNavs
<1>4. ASSUME NEW v \in unanswered, clearCache(v) PROVE SameNavs
  BY <1>4 DEF clearCache, SameNavs
<1>5. ASSUME mutate PROVE SameNavs
  BY <1>5 DEF mutate, SameNavs
<1>6. ASSUME Stayed
      PROVE  SameNavs \/ \E i \in DOMAIN navs : \E t \in NavState : Continues(i, t)
  <2>1. Running(active) => active \in DOMAIN navs
    BY DEF Running
  <2>. QED  BY <1>6, <2>1, StayedNavs
<1>7. ASSUME NEW i \in DOMAIN navs, superseded(i) \/ fails(i) \/ success(i) PROVE Ended(i)
  BY <1>7, EndedNav
<1>8. ASSUME NEW i \in DOMAIN navs,
             fetched(i) \/ modules_loaded(i) \/ start_transition(i) \/ Swaps(i)
      PROVE  \E t \in NavState : Continues(i, t)
  <2>1. CASE fetched(i)
    BY <2>1, FetchedNav
  <2>2. CASE modules_loaded(i) \/ start_transition(i)
    BY <2>2, WentNav
  <2>3. CASE Swaps(i)
    BY <2>3, SwappedNav
  <2>. QED  BY <1>8, <2>1, <2>2, <2>3
<1>. QED  BY <1>1, <1>2, <1>3, <1>4, <1>5, <1>6, <1>7, <1>8, StepCases
-----------------------------------------------------------------------------
(***************************************************************************)
(* Navigations and the fetches they await.                                 *)
(***************************************************************************)
LEMMA AwaitsServer ==
    ASSUME TypeOK, AwaitsFit, [Next]_vars
    PROVE  cleared' <= version' /\ unanswered' \subseteq 1..version'
<1>1. /\ version \in Nat /\ cleared \in Nat /\ cleared <= version /\ unanswered \subseteq 1..version
  BY PlainTypes DEF AwaitsFit
<1>2. CASE SameServer
  BY <1>1, <1>2 DEF SameServer
<1>3. CASE mutate
  <2>1. version' = version + 1 /\ unanswered' = unanswered \cup {version'} /\ cleared' = cleared
    BY <1>3 DEF mutate, ghosts
  <2>. QED  BY <1>1, <2>1
<1>4. ASSUME NEW v \in unanswered, clearCache(v)
      PROVE  cleared' <= version' /\ unanswered' \subseteq 1..version'
  <2>1. version' = version /\ unanswered' = unanswered \ {v}
        /\ cleared' = IF v > cleared THEN v ELSE cleared
    BY <1>4 DEF clearCache
  <2>. QED  BY <1>1, <2>1
<1>. QED  BY <1>2, <1>3, <1>4, ServerCases

(* A navigation that awaits what it awaited. *)
LEMMA FreshStays ==
    ASSUME Shelved(navs'), NEW j \in DOMAIN navs', NEW u \in NavState, Fresh(u, fetches),
           u.pc = "fetch", navs'[j].pc = "fetch", navs'[j].fetch = u.fetch, navs'[j].since = u.since
    PROVE  Fresh(navs'[j], fetches')
<1>. DEFINE g == u.fetch
<1>1. g \in DOMAIN fetches /\ fetches[g] \in FetchState /\ fetches[g].version >= u.since
  BY DEF Fresh
<1>2. Held(g, <<>>, navs')
  BY DEF Held
<1>3. fetches'[g] \in FetchState /\ fetches'[g].version >= fetches[g].version
      /\ g \in DOMAIN fetches'
  BY <1>1, <1>2 DEF Shelved
<1>4. u.since \in Nat /\ fetches[g].version \in Nat /\ fetches'[g].version \in Nat
  BY <1>1, <1>3, NavFields, VersionsAre, BoundsAssumption
<1>. HIDE DEF g
<1>5. fetches'[g].version >= u.since
  BY <1>1, <1>3, <1>4
<1>. QED  BY <1>3, <1>5 DEF Fresh, g

(* A navigation that does not move. *)
LEMMA FreshKept ==
    ASSUME TypeOK, Shelved(navs'), NEW j \in DOMAIN navs', j \in DOMAIN navs, navs'[j] = navs[j],
           Fresh(navs[j], fetches)
    PROVE  Fresh(navs'[j], fetches')
<1>1. CASE navs[j].pc = "fetch"
  BY <1>1, RunningNav, FreshStays
<1>2. CASE navs[j].pc # "fetch"
  BY <1>2 DEF Fresh
<1>. QED  BY <1>1, <1>2

(* Every navigation keeps what it awaits, and nothing gets too old. *)
LEMMA AwaitsNavs ==
    ASSUME TypeOK, CacheFits, AwaitsFit, [Next]_vars
    PROVE  \A j \in DOMAIN navs' : Fresh(navs'[j], fetches')
<1>1. Shelved(navs') /\ cleared <= version /\ \A j \in DOMAIN navs : Fresh(navs[j], fetches)
  BY Shelving DEF AwaitsFit
<1>2. CASE SameNavs
  BY <1>1, <1>2, FreshKept DEF SameNavs
<1>3. ASSUME NEW i \in DOMAIN navs, Ended(i), NEW j \in DOMAIN navs'
      PROVE  Fresh(navs'[j], fetches')
  <2>1. j \in DOMAIN navs /\ navs'[i] = Done /\ (j # i => navs'[j] = navs[j])
    BY <1>3 DEF Ended, Moves
  <2>2. CASE j = i
    BY <2>1, <2>2 DEF Fresh, Done
  <2>3. CASE j # i
    BY <1>1, <2>1, <2>3, FreshKept
  <2>. QED  BY <2>2, <2>3
<1>4. ASSUME NEW i \in DOMAIN navs, NEW t \in NavState, Continues(i, t), NEW j \in DOMAIN navs'
      PROVE  Fresh(navs'[j], fetches')
  <2>1. j \in DOMAIN navs /\ navs'[i] = t /\ (j # i => navs'[j] = navs[j]) /\ SameCall(t, navs[i])
        /\ Running(i)
    BY <1>4 DEF Continues, Moves
  <2>2. CASE j # i
    BY <1>1, <2>1, <2>2, FreshKept
  <2>3. CASE j = i /\ t.pc = "fetch"
    <3>1. navs[i].pc = "fetch" /\ navs[i] \in NavState /\ Fresh(navs[i], fetches)
      BY <1>1, <1>4, <2>1, <2>3, RunningOne DEF Continues
    <3>. QED  BY <1>1, <2>1, <2>3, <3>1, FreshStays DEF SameCall
  <2>4. CASE j = i /\ t.pc # "fetch"
    <3>1. t.version >= navs[i].since
      <4>1. CASE navs[i].pc = "fetch"
        BY <1>4, <2>1, <2>4, <4>1, AwaitedFetch DEF Continues
      <4>2. CASE navs[i].pc # "fetch"
        <5>1. navs[i].version >= navs[i].since
          BY <1>1, <2>1, <4>2 DEF Fresh, Running
        <5>. QED  BY <1>4, <4>2, <5>1 DEF Continues
      <4>. QED  BY <4>1, <4>2
    <3>2. t.since = navs[i].since
      BY <2>1 DEF SameCall
    <3>. QED  BY <2>1, <2>4, <3>1, <3>2 DEF Fresh
  <2>. QED  BY <2>2, <2>3, <2>4
<1>5. ASSUME NEW p \in Pages, NEW kind \in Kinds, NEW pop \in Nat \cup {None}, Started(p, kind, pop),
             NEW j \in DOMAIN navs'
      PROVE  Fresh(navs'[j], fetches')
  <2>1. PICK t \in NavState :
           Begun(t) /\ t.fetch = Fetch(p, kind = "popstate") /\ t.since = cleared
    BY <1>1, <1>5, StartedNav
  <2>2. CASE j \in DOMAIN navs
    BY <1>1, <2>1, <2>2, FreshKept DEF Begun
  <2>3. CASE j \notin DOMAIN navs
    <3>1. j = active' /\ navs'[j] = t /\ t.pc = "fetch"
      BY <2>1, <2>3 DEF Begun
    <3>. DEFINE f == Fetch(p, kind = "popstate")
    <3>2. Held(f, <<>>, navs')
      BY <2>1, <3>1 DEF Held
    <3>3. get(p, kind = "popstate", navs')
      BY <1>5 DEF Started, go
    <3>4. /\ f \in DOMAIN fetches' /\ fetches'[f] \in FetchState /\ fetches'[f].version >= cleared
      <4>1. (kind = "popstate") \in BOOLEAN
        OBVIOUS
      <4>2. \A any \in BOOLEAN : get(p, any, navs') =>
               /\ Fetch(p, any) \in DOMAIN fetches'
               /\ Held(Fetch(p, any), <<>>, navs') =>
                     /\ fetches'[Fetch(p, any)] \in FetchState
                     /\ fetches'[Fetch(p, any)].version >= cleared
        BY <1>1, Got
      <4>. QED  BY <3>2, <3>3, <4>1, <4>2
    <3>. HIDE DEF f
    <3>5. t.fetch = f
      BY <2>1 DEF f
    <3>. QED  BY <2>1, <3>1, <3>4, <3>5 DEF Fresh
  <2>. QED  BY <2>2, <2>3
<1>. QED  BY <1>2, <1>3, <1>4, <1>5, NavsCases

(* What is swapped in is not too old. *)
LEMMA AwaitsScreen ==
    ASSUME TypeOK, AwaitsFit, [Next]_vars
    PROVE  screen'.version >= screen'.since
<1>1. screen.version >= screen.since
  BY DEF AwaitsFit
<1>2. CASE SameAddress
  BY <1>1, <1>2 DEF SameAddress
<1>3. ASSUME NEW p \in Pages, NEW kind \in Kinds, NEW pop \in Nat \cup {None}, Started(p, kind, pop)
      PROVE  screen' = screen
  BY <1>3 DEF Started
<1>4. Stayed => screen' = screen
  BY DEF Stayed, dom
<1>5. ASSUME NEW i \in DOMAIN navs, Swaps(i) PROVE screen'.version >= screen'.since
  <2>1. /\ Running(i) /\ navs[i].pc \in {"sheets", "transition"}
        /\ screen' = [page |-> Final(i), version |-> navs[i].version, by |-> i,
                      since |-> navs[i].since]
    BY <1>5 DEF Swaps, swap, swapBody
  <2>2. navs[i].version >= navs[i].since
    BY <2>1 DEF AwaitsFit, Fresh
  <2>. QED  BY <2>1, <2>2
<1>. QED  BY <1>1, <1>2, <1>3, <1>4, <1>5, AddressCases

(* AwaitsFit is inductive. *)
LEMMA AwaitsStep ==
    ASSUME TypeOK, CacheFits, AwaitsFit, [Next]_vars
    PROVE  AwaitsFit'
  BY AwaitsServer, AwaitsNavs, AwaitsScreen DEF AwaitsFit
-----------------------------------------------------------------------------
(***************************************************************************)
(* Types of what is left.                                                  *)
(***************************************************************************)
SameFlags == UNCHANGED <<loading, left, store, slipped, cancelled>>

(* The flags change when a navigation starts, or when the newest one ends, *)
(* and the store when it is evaluated or read.                             *)
LEMMA FlagsCases ==
    ASSUME TypeOK, AwaitsFit, [Next]_vars
    PROVE  \/ SameFlags /\ SameNavs
           \/ Store
           \/ SameFlags /\ \E i \in DOMAIN navs : Ended(i) /\ ~Live(i)
           \/ SameFlags /\ \E i \in DOMAIN navs : \E t \in NavState : Continues(i, t) /\ t.pc # "done"
           \/ \E p \in Pages : \E kind \in Kinds : \E pop \in Nat \cup {None} : Started(p, kind, pop)
           \/ \E i \in DOMAIN navs : (fails(i) \/ success(i)) /\ Ended(i) /\ Live(i)
<1>0. \A t \in NavState : t.pc # "done"
  BY NavFields
<1>1. ASSUME NEW p \in Pages, prefetch(p) PROVE SameFlags /\ SameNavs
  BY <1>1 DEF prefetch, SameFlags, SameNavs, dom, ghosts
<1>2. ASSUME UNCHANGED vars \/ mutate PROVE SameFlags /\ SameNavs
  BY <1>2 DEF vars, mutate, SameFlags, SameNavs, dom, ghosts
<1>3. ASSUME NEW f \in DOMAIN fetches, answered(f) \/ network_fails(f) \/ expire(f)
      PROVE  SameFlags /\ SameNavs
  BY <1>3 DEF answered, network_fails, expire, SameFlags, SameNavs, dom, ghosts
<1>4. ASSUME NEW v \in unanswered, clearCache(v) PROVE SameFlags /\ SameNavs
  BY <1>4 DEF clearCache, SameFlags, SameNavs, dom
<1>5. ASSUME Stayed
      PROVE  SameFlags /\ (SameNavs \/ \E i \in DOMAIN navs : \E t \in NavState : Continues(i, t))
  <2>1. Running(active) => active \in DOMAIN navs
    BY DEF Running
  <2>2. SameFlags
    BY <1>5 DEF Stayed, SameFlags, dom, ghosts
  <2>. QED  BY <1>5, <2>1, <2>2, StayedNavs
<1>6. ASSUME NEW i \in DOMAIN navs, superseded(i) PROVE SameFlags /\ Ended(i) /\ ~Live(i)
  <2>1. SameFlags /\ ~Live(i)
    BY <1>6 DEF superseded, SameFlags, ghosts
  <2>. QED  BY <1>6, <2>1, EndedNav
<1>7. ASSUME NEW i \in DOMAIN navs,
             fetched(i) \/ modules_loaded(i) \/ start_transition(i) \/ Swaps(i)
      PROVE  SameFlags /\ \E t \in NavState : Continues(i, t)
  <2>1. CASE fetched(i)
    <3>1. SameFlags
      BY <2>1 DEF fetched, SameFlags, ghosts
    <3>. QED  BY <2>1, <3>1, FetchedNav
  <2>2. CASE modules_loaded(i) \/ start_transition(i)
    <3>1. SameFlags
      BY <2>2 DEF modules_loaded, start_transition, SameFlags, dom, ghosts
    <3>. QED  BY <2>2, <3>1, WentNav
  <2>3. CASE Swaps(i)
    <3>1. SameFlags
      BY <2>3 DEF Swaps, swap, SameFlags, ghosts
    <3>. QED  BY <2>3, <3>1, SwappedNav
  <2>. QED  BY <1>7, <2>1, <2>2, <2>3
<1>8. ASSUME NEW i \in DOMAIN navs, fails(i) \/ success(i) PROVE Ended(i) /\ Live(i)
  <2>1. Live(i)
    BY <1>8 DEF fails, success
  <2>. QED  BY <1>8, <2>1, EndedNav
<1>. QED  BY <1>0, <1>1, <1>2, <1>3, <1>4, <1>5, <1>6, <1>7, <1>8, StepCases

StoreState == [bound : Nat \cup {None}, state : {"idle", "loading"}, url : Pages \cup {None}]

(* What the store's record may be made with is a page. *)
LEMMA SeedsArePages ==
    ASSUME TypeOK, SheetsFit, NEW at \in Pages
    PROVE  Seeds(at) \subseteq Pages /\ Url(at) \subseteq Pages
<1>1. screen.page \in Pages /\ store.url \in Pages \cup {None}
  BY DEF TypeOK
<1>2. \A i \in tags : Final(i) \in Pages
  <2>1. \A i \in tags : Running(i)
    BY DEF SheetsFit, OfTag, Running
  <2>. QED  BY <2>1, FinalIsPage
<1>3. Seeds(at) \subseteq Pages
  BY <1>1, <1>2 DEF Seeds
<1>. QED  BY <1>1, <1>3 DEF Url

(* A listener that is there sets its state and its url. *)
LEMMA Hearing ==
    ASSUME TypeOK, NEW state \in {"idle", "loading"}, NEW urls \in SUBSET Pages, hears(state, urls)
    PROVE  /\ store' \in StoreState /\ store'.bound = store.bound
           /\ store.bound = None => store' = store
           /\ store.bound # None => store'.state = state /\ store'.url \in urls
<1>1. store \in StoreState
  BY DEF TypeOK, StoreState
<1>2. CASE store.bound = None
  BY <1>1, <1>2 DEF hears
<1>3. CASE store.bound # None
  <2>1. PICK u \in urls : store' = [store EXCEPT !.state = state, !.url = u]
    BY <1>3 DEF hears
  <2>2. u \in Pages
    OBVIOUS
  <2>. QED  BY <1>1, <1>3, <2>1, <2>2 DEF StoreState
<1>. QED  BY <1>2, <1>3

(* What becomes of the store when a navigation starts. *)
LEMMA StoreLoads ==
    ASSUME TypeOK, SheetsFit,
           NEW p \in Pages, NEW kind \in Kinds, NEW pop \in Nat \cup {None}, Started(p, kind, pop)
    PROVE  /\ store' \in StoreState /\ store'.bound = store.bound
           /\ store.bound = None => store' = store
           /\ store.bound # None => store'.state = "loading" /\ store'.url \in Pages
<1>. DEFINE at == IF kind = "popstate" THEN p ELSE Here
<1>1. hears("loading", Url(at)) /\ at \in Pages
  BY HereIsPage DEF Started, go, on_load
<1>2. Url(at) \in SUBSET Pages
  BY <1>1, SeedsArePages
<1>. HIDE DEF at
<1>. QED  BY <1>1, <1>2, Hearing

(* What becomes of the store when the newest navigation ends. *)
LEMMA StoreIdles ==
    ASSUME TypeOK, SheetsFit, NEW i \in DOMAIN navs, fails(i) \/ success(i)
    PROVE  /\ store' \in StoreState /\ store'.bound = store.bound
           /\ store.bound = None => store' = store
           /\ store.bound # None => store'.state = "idle" /\ store'.url \in Pages
           /\ store.bound # None /\ success(i) => store'.url = Final(i)
<1>1. CASE success(i)
  <2>1. hears("idle", {Final(i)}) /\ Running(i)
    BY <1>1 DEF success, At, on_success
  <2>2. {Final(i)} \in SUBSET Pages
    BY <2>1, FinalIsPage
  <2>. QED  BY <2>1, <2>2, Hearing
<1>2. CASE fails(i) /\ ~success(i)
  <2>1. hears("idle", Url(Here))
    BY <1>2 DEF fails, on_error
  <2>2. Url(Here) \in SUBSET Pages
    BY HereIsPage, SeedsArePages
  <2>. QED  BY <1>2, <2>1, <2>2, Hearing
<1>. QED  BY <1>1, <1>2

(* What becomes of it when its module is evaluated, and when it is read. *)
LEMMA StoreReads ==
    ASSUME TypeOK, SheetsFit, Store
    PROVE  /\ store' \in StoreState /\ store'.state = store.state
           /\ \/ store.bound = None /\ store'.bound = active /\ store'.url = store.url
              \/ /\ store.bound # None /\ store.url = None /\ store'.bound = store.bound
                 /\ store'.url \in Seeds(Here)
<1>1. store \in StoreState /\ active \in Nat
  BY DEF TypeOK, StoreState
<1>2. CASE evaluate
  BY <1>1, <1>2 DEF evaluate, StoreState
<1>3. CASE first_read
  <2>1. PICK u \in Seeds(Here) : store' = [store EXCEPT !.url = u]
    BY <1>3 DEF first_read
  <2>2. u \in Pages
    BY HereIsPage, SeedsArePages
  <2>. QED  BY <1>1, <1>3, <2>1, <2>2 DEF first_read, StoreState
<1>. QED  BY <1>2, <1>3 DEF Store

(* Types of the flags and of the store. *)
LEMMA TypesFlags ==
    ASSUME TypeOK, AwaitsFit, SheetsFit, [Next]_vars
    PROVE  /\ loading' \in BOOLEAN /\ left' \in BOOLEAN /\ store' \in StoreState
           /\ slipped' \in BOOLEAN /\ cancelled' \in BOOLEAN
<1>1. /\ loading \in BOOLEAN /\ left \in BOOLEAN /\ store \in StoreState
      /\ slipped \in BOOLEAN /\ cancelled \in BOOLEAN
  BY DEF TypeOK, StoreState
<1>2. CASE SameFlags
  BY <1>1, <1>2 DEF SameFlags
<1>3. ASSUME NEW p \in Pages, NEW kind \in Kinds, NEW pop \in Nat \cup {None}, Started(p, kind, pop)
      PROVE  /\ loading' \in BOOLEAN /\ left' \in BOOLEAN /\ store' \in StoreState
             /\ slipped' \in BOOLEAN /\ cancelled' \in BOOLEAN
  <2>1. loading' = TRUE /\ left' = left /\ slipped' = slipped /\ cancelled' = cancelled
    BY <1>3 DEF Started, go, ghosts
  <2>. QED  BY <1>1, <1>3, <2>1, StoreLoads
<1>4. ASSUME NEW i \in DOMAIN navs, fails(i)
      PROVE  /\ loading' \in BOOLEAN /\ left' \in BOOLEAN /\ store' \in StoreState
             /\ slipped' \in BOOLEAN /\ cancelled' \in BOOLEAN
  <2>1. /\ loading' = FALSE /\ slipped' = slipped
        /\ (cancelled' = TRUE /\ left' = left) \/ (left' = TRUE /\ cancelled' = cancelled)
    BY <1>4 DEF fails, stop_loading
  <2>. QED  BY <1>1, <1>4, <2>1, StoreIdles
<1>5. ASSUME NEW i \in DOMAIN navs, success(i)
      PROVE  /\ loading' \in BOOLEAN /\ left' \in BOOLEAN /\ store' \in StoreState
             /\ slipped' \in BOOLEAN /\ cancelled' \in BOOLEAN
  <2>1. /\ loading' = FALSE /\ slipped' = navs[i].crossed /\ cancelled' = FALSE /\ left' = left
        /\ Running(i)
    BY <1>5 DEF success, At, stop_loading
  <2>2. navs[i].crossed \in BOOLEAN
    BY <2>1, RunningOne, NavFields
  <2>. QED  BY <1>1, <1>5, <2>1, <2>2, StoreIdles
<1>6. CASE Store
  BY <1>1, <1>6, StoreReads, StoreSteps
<1>. QED  BY <1>2, <1>3, <1>4, <1>5, <1>6, FlagsCases

SameSheets == UNCHANGED <<sheets, tags>>

(* The stylesheets change with what becomes of a navigation. *)
LEMMA SheetsCases ==
    ASSUME TypeOK, [Next]_vars
    PROVE  \/ SameSheets /\ SameNavs /\ screen' = screen
           \/ \E p \in Pages : \E kind \in Kinds : \E pop \in Nat \cup {None} :
                 Started(p, kind, pop) /\ SameSheets
           \/ Stayed /\ SameSheets
           \/ \E i \in DOMAIN navs : start_transition(i) /\ SameSheets
           \/ \E i \in DOMAIN navs : (superseded(i) \/ fails(i) \/ success(i)) /\ finally(i)
           \/ \E i \in DOMAIN navs : fetched(i) \/ modules_loaded(i) \/ Swaps(i)
<1>1. ASSUME NEW p \in Pages, prefetch(p) PROVE SameSheets /\ SameNavs /\ screen' = screen
  BY <1>1 DEF prefetch, SameSheets, SameNavs, dom
<1>2. ASSUME NEW p \in Pages, NEW kind \in Kinds, NEW pop \in Nat \cup {None}, Started(p, kind, pop)
      PROVE  SameSheets
  BY <1>2 DEF Started, SameSheets
<1>3. ASSUME UNCHANGED vars \/ mutate \/ Store PROVE SameSheets /\ SameNavs /\ screen' = screen
  BY <1>3, StoreSteps DEF vars, mutate, SameSheets, SameNavs, dom
<1>4. ASSUME NEW f \in DOMAIN fetches, answered(f) \/ network_fails(f) \/ expire(f)
      PROVE  SameSheets /\ SameNavs /\ screen' = screen
  BY <1>4 DEF answered, network_fails, expire, SameSheets, SameNavs, dom
<1>5. ASSUME NEW v \in unanswered, clearCache(v)
      PROVE  SameSheets /\ SameNavs /\ screen' = screen
  BY <1>5 DEF clearCache, SameSheets, SameNavs, dom
<1>6. ASSUME NEW i \in DOMAIN navs, start_transition(i) PROVE SameSheets
  BY <1>6 DEF start_transition, SameSheets, dom
<1>7. ASSUME Stayed PROVE SameSheets
  BY <1>7 DEF Stayed, SameSheets, dom
<1>8. ASSUME NEW i \in DOMAIN navs, superseded(i) \/ fails(i) \/ success(i) PROVE finally(i)
  BY <1>8 DEF superseded, fails, success
<1>. QED  BY <1>1, <1>2, <1>3, <1>4, <1>5, <1>6, <1>7, <1>8, StepCases

(* Types of the head and of the tail of store tags. *)
LEMMA TypesSheets ==
    ASSUME TypeOK, [Next]_vars
    PROVE  sheets' \subseteq [page : Pages, by : Nat, on : BOOLEAN] /\ tags' \subseteq Nat
<1>. DEFINE S == [page : Pages, by : Nat, on : BOOLEAN]
<1>1. sheets \subseteq S /\ tags \subseteq Nat
  BY DEF TypeOK
<1>2. CASE SameSheets
  BY <1>1, <1>2 DEF SameSheets
<1>3. ASSUME NEW i \in DOMAIN navs, finally(i)
      PROVE  sheets' \subseteq S /\ tags' \subseteq Nat
  BY <1>1, <1>3 DEF finally
<1>4. ASSUME NEW i \in DOMAIN navs, fetched(i) PROVE sheets' \subseteq S /\ tags' \subseteq Nat
  <2>1. tags' = tags \cup {i} /\ sheets' = sheets /\ Running(i)
    BY <1>4 DEF fetched, At
  <2>. QED  BY <1>1, <2>1, RunningOne
<1>5. ASSUME NEW i \in DOMAIN navs, modules_loaded(i)
      PROVE  sheets' \subseteq S /\ tags' \subseteq Nat
  <2>1. tags' = tags /\ sheets' = planHead(i) /\ Running(i)
    BY <1>5 DEF modules_loaded, At
  <2>2. [page |-> Final(i), by |-> i, on |-> FALSE] \in S
    BY <2>1, RunningOne, FinalIsPage
  <2>. HIDE DEF S
  <2>. QED  BY <1>1, <2>1, <2>2 DEF planHead
<1>6. ASSUME NEW i \in DOMAIN navs, Swaps(i) PROVE sheets' \subseteq S /\ tags' \subseteq Nat
  <2>. DEFINE on(s) == IF s.by = i THEN [s EXCEPT !.on = TRUE] ELSE s
  <2>1. tags' = {} /\ sheets' \subseteq {on(s) : s \in sheets}
    BY <1>6 DEF Swaps, swap, swapBody, applyHead
  <2>2. \A s \in S : on(s) \in S
    OBVIOUS
  <2>. HIDE DEF S, on
  <2>. QED  BY <1>1, <2>1, <2>2
<1>. QED  BY <1>2, <1>3, <1>4, <1>5, <1>6, SheetsCases

(* Types of the navigations. *)
LEMMA TypesNavs ==
    ASSUME TypeOK, CacheFits, AwaitsFit, [Next]_vars
    PROVE  navs' \in Seq(NavState \cup {Done}) /\ active' = Len(navs')
<1>1. navs \in Seq(NavState \cup {Done}) /\ active = Len(navs) /\ cleared <= version
  BY DEF TypeOK, AwaitsFit
<1>2. CASE SameNavs
  BY <1>1, <1>2 DEF SameNavs
<1>3. ASSUME NEW i \in DOMAIN navs, Ended(i)
      PROVE  navs' \in Seq(NavState \cup {Done}) /\ active' = Len(navs')
  BY <1>1, <1>3 DEF Ended, Moves
<1>4. ASSUME NEW i \in DOMAIN navs, NEW t \in NavState, Continues(i, t)
      PROVE  navs' \in Seq(NavState \cup {Done}) /\ active' = Len(navs')
  BY <1>1, <1>4 DEF Continues, Moves
<1>5. ASSUME NEW p \in Pages, NEW kind \in Kinds, NEW pop \in Nat \cup {None}, Started(p, kind, pop)
      PROVE  navs' \in Seq(NavState \cup {Done}) /\ active' = Len(navs')
  <2>1. PICK t \in NavState : Begun(t)
    BY <1>1, <1>5, StartedNav
  <2>. QED  BY <2>1 DEF Begun
<1>. QED  BY <1>2, <1>3, <1>4, <1>5, NavsCases

(* Types, and the cache, after a step. *)
LEMMA TypesStep ==
    ASSUME TypeOK, CacheFits, AwaitsFit, SheetsFit, [Next]_vars
    PROVE  TypeOK' /\ CacheFits'
<1>1. Shelved(navs')
  BY Shelving DEF AwaitsFit
<1>2. /\ fetches' \in Seq(FetchState \cup {Gone}) /\ Len(cache') <= CACHE_SIZE
      /\ cache' \in Seq(Entries) /\ Fits(cache', fetches', cleared')
  BY <1>1 DEF Shelved
<1>3. cache' \in Seq([page : Pages, fetch : DOMAIN fetches'])
  BY <1>2, FitsTyped
<1>4. CacheFits'
  BY <1>2 DEF CacheFits
<1>5. /\ history' \in Seq([page : Pages, id : Nat \cup {None}]) /\ entry' \in DOMAIN history'
      /\ n' \in Nat /\ cur' \in Nat /\ shown' \in Pages
      /\ screen' \in [page : Pages, version : 0..MaxVersion, by : Nat, since : 0..MaxVersion]
  BY TypesAddress DEF Typed, HistoryEntry
<1>6. TypeOK'
  BY <1>2, <1>3, <1>5, TypesServer, TypesFlags, TypesSheets, TypesNavs DEF TypeOK, StoreState
<1>. QED  BY <1>4, <1>6

(* Types, cache and navigations at the start. *)
LEMMA AwaitsInit == Init => TypeOK /\ CacheFits /\ AwaitsFit
<1>. SUFFICES ASSUME Init PROVE TypeOK /\ CacheFits /\ AwaitsFit
  OBVIOUS
<1>1. /\ version = 0 /\ unanswered = {} /\ cleared = 0
      /\ history = <<[page |-> First, id |-> 0]>> /\ entry = 1 /\ n = 0
      /\ screen = [page |-> First, version |-> 0, by |-> 0, since |-> 0]
      /\ sheets = {[page |-> First, by |-> 0, on |-> TRUE]}
      /\ tags = {} /\ loading = FALSE /\ left = FALSE
      /\ cur = 0 /\ shown = First
      /\ active = 0 /\ cache = <<>> /\ fetches = <<>> /\ navs = <<>>
      /\ store = [bound |-> None, state |-> "idle", url |-> None]
      /\ slipped = FALSE /\ cancelled = FALSE
  BY DEF Init
<1>2. First \in Pages /\ 0 \in 0..MaxVersion /\ CACHE_SIZE \in Nat
  BY PagesAssumption, BoundsAssumption
<1>3. history \in Seq([page : Pages, id : Nat \cup {None}]) /\ entry \in DOMAIN history
  BY <1>1, <1>2
<1>4. /\ screen \in [page : Pages, version : 0..MaxVersion, by : Nat, since : 0..MaxVersion]
      /\ sheets \subseteq [page : Pages, by : Nat, on : BOOLEAN]
      /\ store \in StoreState
  BY <1>1, <1>2 DEF StoreState
<1>5. /\ navs \in Seq(NavState \cup {Done}) /\ active = Len(navs)
      /\ fetches \in Seq(FetchState \cup {Gone})
      /\ cache \in Seq([page : Pages, fetch : DOMAIN fetches]) /\ Len(cache) <= CACHE_SIZE
  BY <1>1, <1>2
<1>6. TypeOK
  BY <1>1, <1>2, <1>3, <1>4, <1>5 DEF TypeOK, StoreState
<1>7. CacheFits
  BY <1>1 DEF CacheFits, Fits, Distinct
<1>8. AwaitsFit
  BY <1>1 DEF AwaitsFit
<1>. QED  BY <1>6, <1>7, <1>8
-----------------------------------------------------------------------------
(***************************************************************************)
(* The newest navigation, and the loading state.                           *)
(***************************************************************************)
(* A navigation that begins is newer than the store's listeners. *)
LEMMA StoreStep ==
    ASSUME TypeOK, CacheFits, AwaitsFit, SheetsFit, StoreFits, [Next]_vars
    PROVE  StoreFits'
<1>1. active \in Nat /\ active = Len(navs) /\ store \in StoreState /\ None \notin Nat
  BY BoundsAssumption DEF TypeOK, StoreState
<1>2. ASSUME SameFlags, active' = active PROVE StoreFits'
  BY <1>2 DEF SameFlags, StoreFits
<1>3. CASE Store
  <2>1. active' = active
    BY <1>3, StoreSteps
  <2>. QED  BY <1>1, <1>3, <2>1, StoreReads DEF StoreFits
<1>4. ASSUME NEW p \in Pages, NEW kind \in Kinds, NEW pop \in Nat \cup {None}, Started(p, kind, pop)
      PROVE  StoreFits'
  <2>1. active' = active + 1
    BY <1>4 DEF Started, go
  <2>2. store.bound # None => store.bound \in Nat
    BY <1>1 DEF StoreState
  <2>. QED  BY <1>1, <1>4, <2>1, <2>2, StoreLoads DEF StoreFits
<1>5. ASSUME NEW i \in DOMAIN navs, fails(i) \/ success(i), Ended(i) PROVE StoreFits'
  <2>1. active' = active
    BY <1>5 DEF Ended
  <2>. QED  BY <1>5, <2>1, StoreIdles DEF StoreFits
<1>. QED  BY <1>2, <1>3, <1>4, <1>5, FlagsCases DEF SameNavs, Ended, Continues

(* The loading state follows the newest navigation. *)
LEMMA LoadingStep ==
    ASSUME TypeOK, CacheFits, AwaitsFit, SheetsFit, StoreFits, LoadingShown, [Next]_vars
    PROVE  LoadingShown'
<1>. DEFINE Shown == /\ loading' = Running(active)'
                     /\ store'.state = "loading" <=> Running(active)' /\ Heard(active)'
<1>1. SUFFICES ASSUME ~left' PROVE Shown
  BY DEF LoadingShown
<1>2. /\ active \in Nat /\ active = Len(navs) /\ loading \in BOOLEAN /\ cleared <= version
      /\ store \in StoreState /\ None \notin Nat
  BY BoundsAssumption DEF TypeOK, AwaitsFit, StoreState
<1>3. ASSUME SameFlags, active' = active, Running(active)' = Running(active) PROVE Shown
  <2>1. ~left /\ loading' = loading /\ store' = store
    BY <1>1, <1>3 DEF SameFlags
  <2>2. Heard(active)' = Heard(active)
    BY <1>3, <2>1 DEF Heard
  <2>. QED  BY <1>3, <2>1, <2>2 DEF LoadingShown
<1>4. ASSUME SameNavs PROVE active' = active /\ Running(active)' = Running(active)
  BY <1>4 DEF SameNavs, Running
<1>5. ASSUME NEW i \in DOMAIN navs, Ended(i), ~Live(i)
      PROVE  active' = active /\ Running(active)' = Running(active)
  <2>1. active' = active /\ active # i /\ DOMAIN navs' = DOMAIN navs
        /\ (active \in DOMAIN navs => navs'[active] = navs[active])
    BY <1>5 DEF Ended, Moves, Live
  <2>. QED  BY <2>1 DEF Running
<1>6. ASSUME NEW i \in DOMAIN navs, NEW t \in NavState, Continues(i, t), t.pc # "done"
      PROVE  active' = active /\ Running(active)' = Running(active)
  <2>1. /\ active' = active /\ DOMAIN navs' = DOMAIN navs /\ navs'[i] = t /\ Running(i)
        /\ (active \in DOMAIN navs /\ active # i => navs'[active] = navs[active])
    BY <1>6 DEF Continues, Moves
  <2>. QED  BY <1>6, <2>1 DEF Running
<1>7. ASSUME NEW p \in Pages, NEW kind \in Kinds, NEW pop \in Nat \cup {None}, Started(p, kind, pop)
      PROVE  Shown
  <2>1. loading' = TRUE /\ active' = active + 1
    BY <1>7 DEF Started, go
  <2>2. PICK t \in NavState : Begun(t)
    BY <1>2, <1>7, StartedNav
  <2>3. active' \in DOMAIN navs' /\ navs'[active'].pc # "done"
    BY <2>2 DEF Begun
  <2>4. Running(active)'
    BY <2>3 DEF Running
  <2>5. CASE store.bound = None
    <3>1. store'.bound = None /\ store'.state = "idle"
      BY <1>7, <2>5, StoreLoads DEF StoreFits
    <3>. QED  BY <2>1, <2>4, <3>1 DEF Heard
  <2>6. CASE store.bound # None
    <3>1. store'.bound = store.bound /\ store'.state = "loading"
      BY <1>7, <2>6, StoreLoads
    <3>2. store.bound \in Nat /\ store.bound <= active
      BY <1>2, <2>6 DEF StoreState, StoreFits
    <3>3. Heard(active)'
      BY <1>2, <2>1, <2>6, <3>1, <3>2 DEF Heard
    <3>. QED  BY <2>1, <2>4, <3>1, <3>3
  <2>. QED  BY <2>5, <2>6
<1>8. ASSUME NEW i \in DOMAIN navs, fails(i) \/ success(i), Ended(i), Live(i)
      PROVE  Shown
  <2>1. loading' = FALSE /\ store'.state = "idle"
    <3>1. loading' = FALSE
      BY <1>8 DEF fails, success, stop_loading
    <3>2. store'.state = "idle"
      BY <1>8, StoreIdles DEF StoreFits
    <3>. QED  BY <3>1, <3>2
  <2>2. active' = i /\ navs'[i] = Done
    BY <1>8 DEF Ended, Moves, Live
  <2>3. Running(active)' = FALSE
    BY <2>2 DEF Running, Done
  <2>. QED  BY <2>1, <2>3
<1>9. CASE Store
  <2>1. /\ ~left /\ loading' = loading /\ active' = active
        /\ Running(active)' = Running(active)
    BY <1>9, StoreSteps DEF Running
  <2>2. CASE store.bound = None
    <3>1. store'.bound = active /\ store'.state = "idle"
      BY <1>9, <2>2, StoreReads DEF StoreFits
    <3>2. ~Heard(active)'
      BY <1>2, <2>1, <3>1 DEF Heard
    <3>. QED  BY <2>1, <3>1, <3>2 DEF LoadingShown
  <2>3. CASE store.bound # None
    <3>1. store'.bound = store.bound /\ store'.state = store.state
      BY <1>9, <2>3, StoreReads
    <3>2. Heard(active)' = Heard(active)
      BY <2>1, <3>1 DEF Heard
    <3>. QED  BY <2>1, <3>1, <3>2 DEF LoadingShown
  <2>. QED  BY <2>2, <2>3
<1>. HIDE DEF Shown
<1>. QED  BY <1>3, <1>4, <1>5, <1>6, <1>7, <1>8, <1>9, FlagsCases

(* Only the newest navigation swaps or ends the loading state. *)
LEMMA NewestStep ==
    ASSUME TypeOK, AwaitsFit, [Next]_vars
    PROVE  /\ screen' # screen => screen'.by = active
           /\ (loading /\ ~loading') => navs'[active].pc = "done"
<1>1. ASSUME screen' # screen PROVE screen'.by = active
  <2>1. SameAddress => screen' = screen
    BY DEF SameAddress
  <2>2. ASSUME NEW p \in Pages, NEW kind \in Kinds, NEW pop \in Nat \cup {None}, Started(p, kind, pop)
        PROVE  screen' = screen
    BY <2>2 DEF Started
  <2>3. Stayed => screen' = screen
    BY DEF Stayed, dom
  <2>4. ASSUME NEW i \in DOMAIN navs, Swaps(i) PROVE screen'.by = active
    BY <2>4 DEF Swaps, swap, swapBody, Live
  <2>. QED  BY <1>1, <2>1, <2>2, <2>3, <2>4, AddressCases
<1>2. ASSUME loading, ~loading' PROVE navs'[active].pc = "done"
  <2>1. ~SameFlags
    BY <1>2 DEF SameFlags
  <2>2. ASSUME NEW p \in Pages, NEW kind \in Kinds, NEW pop \in Nat \cup {None}, Started(p, kind, pop)
        PROVE  FALSE
    BY <1>2, <2>2 DEF Started, go
  <2>3. ASSUME NEW i \in DOMAIN navs, Ended(i), Live(i) PROVE navs'[active].pc = "done"
    BY <2>3 DEF Ended, Moves, Live, Done
  <2>4. ~Store
    BY <1>2, StoreSteps
  <2>. QED  BY <2>1, <2>2, <2>3, <2>4, FlagsCases
<1>. QED  BY <1>1, <1>2

(* What go() found of a page that is not for keeping was in flight. *)
LEMMA NoStoreStep ==
    ASSUME TypeOK, CacheFits, AwaitsFit, NoStoreRefetched, [Next]_vars
    PROVE  NoStoreRefetched'
<1>. DEFINE P(j) == navs[j].pc # "done" /\ Redirect[navs[j].req] \in NoStore =>
                       navs[j].found = "flying"
            Q(j) == navs'[j].pc # "done" /\ Redirect[navs'[j].req] \in NoStore =>
                       navs'[j].found = "flying"
<1>1. \A j \in DOMAIN navs : P(j)
  BY DEF NoStoreRefetched, Running, Final
<1>2. SUFFICES ASSUME NEW j \in DOMAIN navs' PROVE Q(j)
  BY DEF NoStoreRefetched, Running, Final
<1>3. CASE SameNavs
  BY <1>1, <1>3 DEF SameNavs
<1>4. ASSUME NEW i \in DOMAIN navs, Ended(i) PROVE Q(j)
  <2>1. j \in DOMAIN navs /\ navs'[i] = Done /\ (j # i => navs'[j] = navs[j])
    BY <1>4 DEF Ended, Moves
  <2>. QED  BY <1>1, <2>1 DEF Done
<1>5. ASSUME NEW i \in DOMAIN navs, NEW t \in NavState, Continues(i, t) PROVE Q(j)
  <2>1. /\ j \in DOMAIN navs /\ navs'[i] = t /\ (j # i => navs'[j] = navs[j])
        /\ t.req = navs[i].req /\ t.found = navs[i].found /\ navs[i].pc # "done"
    BY <1>5 DEF Continues, Moves, SameCall, Running
  <2>. QED  BY <1>1, <2>1
<1>6. ASSUME NEW p \in Pages, NEW kind \in Kinds, NEW pop \in Nat \cup {None}, Started(p, kind, pop)
      PROVE  Q(j)
  <2>0. cleared <= version
    BY DEF AwaitsFit
  <2>1. PICK t \in NavState :
           Begun(t) /\ t.req = p /\ (Redirect[p] \in NoStore => t.found = "flying")
    BY <1>6, <2>0, StartedNav
  <2>2. (j \in DOMAIN navs /\ navs'[j] = navs[j]) \/ navs'[j] = t
    BY <2>1 DEF Begun
  <2>. QED  BY <1>1, <2>1, <2>2
<1>. HIDE DEF Q
<1>. QED  BY <1>3, <1>4, <1>5, <1>6, NavsCases
-----------------------------------------------------------------------------
(***************************************************************************)
(* Stylesheets and store tags.                                             *)
(***************************************************************************)
SheetRecord == [page : Pages, by : Nat, on : BOOLEAN]

(* The fields of a stylesheet element. *)
LEMMA SheetFields ==
    ASSUME TypeOK
    PROVE  /\ \A s \in sheets : /\ s \in SheetRecord
                                /\ s.page \in Pages /\ s.by \in Nat /\ s.on \in BOOLEAN
           /\ Len(navs) \in Nat /\ DOMAIN navs = 1..Len(navs) /\ active = Len(navs)
  BY DEF TypeOK, SheetRecord

(* What a navigation that stays keeps. *)
Alike(t, u) == t.pc = u.pc /\ t.req = u.req /\ t.added = u.added

(* Another navigation's stylesheet does not change. *)
LEMMA OthersKeepSheets ==
    ASSUME NEW i, NEW t, Moves(i, t), NEW p, NEW s, OfSheet(s, navs, p), s.by # i
    PROVE  OfSheet(s, navs', p)
  BY DEF OfSheet, Moves

(* Another navigation's store tags do not change. *)
LEMMA OthersKeepTags ==
    ASSUME NEW i, NEW t, Moves(i, t), NEW j, OfTag(j, navs), j # i
    PROVE  OfTag(j, navs')
  BY DEF OfTag, Moves

(* A step that changes no await. *)
LEMMA SheetsAlike ==
    ASSUME SheetsFit, SameSheets, screen' = screen, active' = active,
           DOMAIN navs' = DOMAIN navs, Len(navs') = Len(navs),
           \A j \in DOMAIN navs : Alike(navs'[j], navs[j])
    PROVE  SheetsFit'
<1>1. /\ \A j \in DOMAIN navs : AddsWhile(navs[j])
      /\ \A s \in sheets : OfSheet(s, navs, screen.page)
      /\ \E s \in sheets : s.on /\ s.page = screen.page
      /\ Dressed(sheets, navs, active)
      /\ \A j \in tags : OfTag(j, navs)
  BY DEF SheetsFit
<1>2. sheets' = sheets /\ tags' = tags
  BY DEF SameSheets
<1>3. \A j \in DOMAIN navs' : AddsWhile(navs'[j])
  BY <1>1 DEF AddsWhile, Alike
<1>4. \A s \in sheets' : OfSheet(s, navs', screen'.page)
  BY <1>1, <1>2 DEF OfSheet, Alike
<1>5. Dressed(sheets', navs', active')
  BY <1>1, <1>2 DEF Dressed, Alike
<1>6. \A j \in tags' : OfTag(j, navs')
  BY <1>1, <1>2 DEF OfTag, Alike
<1>. QED  BY <1>1, <1>2, <1>3, <1>4, <1>5, <1>6 DEF SheetsFit

(* A navigation that starts has added nothing. *)
LEMMA SheetsStarted ==
    ASSUME TypeOK, SheetsFit, SameSheets, screen' = screen, NEW t \in NavState, Begun(t), ~t.added
    PROVE  SheetsFit'
<1>1. /\ \A j \in DOMAIN navs : AddsWhile(navs[j])
      /\ \A s \in sheets : OfSheet(s, navs, screen.page)
      /\ \E s \in sheets : s.on /\ s.page = screen.page
      /\ \A j \in tags : OfTag(j, navs)
  BY DEF SheetsFit
<1>2. sheets' = sheets /\ tags' = tags
  BY DEF SameSheets
<1>3. /\ Len(navs) \in Nat /\ Len(navs') = Len(navs) + 1 /\ DOMAIN navs = 1..Len(navs)
      /\ DOMAIN navs' = 1..(Len(navs) + 1) /\ active' = Len(navs) + 1
      /\ navs'[active'] = t /\ t.pc = "fetch" /\ \A j \in DOMAIN navs : navs'[j] = navs[j]
  BY DEF Begun
<1>4. \A j \in DOMAIN navs' : j \in DOMAIN navs \/ j = active'
  BY <1>3
<1>5. \A j \in DOMAIN navs' : AddsWhile(navs'[j])
  <2>1. AddsWhile(t)
    BY <1>3 DEF AddsWhile, Adding
  <2>. QED  BY <1>1, <1>3, <1>4, <2>1
<1>6. ASSUME NEW s \in sheets' PROVE OfSheet(s, navs', screen'.page)
  <2>1. OfSheet(s, navs, screen.page) /\ s.by \in Nat /\ s.by <= Len(navs)
    BY <1>1, <1>2, SheetFields DEF OfSheet
  <2>2. s.by \in DOMAIN navs' <=> s.by \in DOMAIN navs
    BY <1>3, <2>1
  <2>3. s.by <= Len(navs')
    BY <1>3, <2>1
  <2>. QED  BY <1>3, <2>1, <2>2, <2>3 DEF OfSheet
<1>7. Dressed(sheets', navs', active')
  BY <1>3 DEF Dressed
<1>8. \A j \in tags' : OfTag(j, navs')
  <2>1. DOMAIN navs \subseteq DOMAIN navs'
    BY <1>3
  <2>. QED  BY <1>1, <1>2, <1>3, <2>1 DEF OfTag
<1>. QED  BY <1>1, <1>2, <1>5, <1>6, <1>7, <1>8 DEF SheetsFit

(* A navigation ends: what it added goes, what it swapped in stays. *)
LEMMA SheetsEnded ==
    ASSUME TypeOK, SheetsFit, NEW i \in DOMAIN navs, Ended(i), finally(i), screen' = screen
    PROVE  SheetsFit'
<1>1. /\ \A j \in DOMAIN navs : AddsWhile(navs[j])
      /\ \A s \in sheets : OfSheet(s, navs, screen.page)
      /\ \E s \in sheets : s.on /\ s.page = screen.page
      /\ Dressed(sheets, navs, active)
      /\ \A j \in tags : OfTag(j, navs)
  BY DEF SheetsFit
<1>2. /\ active' = active /\ navs[i].pc # "done" /\ DOMAIN navs' = DOMAIN navs
      /\ Len(navs') = Len(navs) /\ navs'[i] = Done /\ Moves(i, Done)
      /\ \A j \in DOMAIN navs : j # i => navs'[j] = navs[j]
  BY DEF Ended, Moves, Running
<1>3. navs[i].added <=> navs[i].pc \in Adding
  BY <1>1, <1>2 DEF AddsWhile
<1>4. \A j \in DOMAIN navs' : AddsWhile(navs'[j])
  BY <1>1, <1>2 DEF AddsWhile, Done
<1>5. CASE navs[i].added
  <2>1. tags' = tags \ {i} /\ sheets' = {s \in sheets : s.by # i}
    BY <1>5 DEF finally
  <2>2. \A s \in sheets : s.on => s.by # i
    BY <1>1, <1>2, <1>3, <1>5 DEF OfSheet, Adding
  <2>3. \A s \in sheets' : OfSheet(s, navs', screen'.page)
    BY <1>1, <1>2, <2>1, OthersKeepSheets
  <2>4. \A j \in tags' : OfTag(j, navs')
    BY <1>1, <1>2, <2>1, OthersKeepTags
  <2>5. \E s \in sheets' : s.on /\ s.page = screen'.page
    BY <1>1, <2>1, <2>2
  <2>6. Dressed(sheets', navs', active')
    <3>1. CASE active = i
      BY <1>2, <3>1 DEF Dressed, Done
    <3>2. CASE active # i
      BY <1>1, <1>2, <2>1, <2>2, <3>2 DEF Dressed
    <3>. QED  BY <3>1, <3>2
  <2>. QED  BY <1>4, <2>3, <2>4, <2>5, <2>6 DEF SheetsFit
<1>6. CASE ~navs[i].added
  <2>1. tags' = tags /\ sheets' = sheets
    BY <1>6 DEF finally
  <2>2. ASSUME NEW s \in sheets' PROVE OfSheet(s, navs', screen'.page)
    <3>1. OfSheet(s, navs, screen.page)
      BY <1>1, <2>1
    <3>2. CASE s.by = i
      <4>1. s.on
        BY <1>3, <1>6, <3>1, <3>2 DEF OfSheet, Adding
      <4>. QED  BY <1>2, <3>1, <3>2, <4>1 DEF OfSheet, Done
    <3>3. CASE s.by # i
      BY <1>2, <3>1, <3>3, OthersKeepSheets
    <3>. QED  BY <3>2, <3>3
  <2>3. \A j \in tags' : OfTag(j, navs')
    <3>1. \A j \in tags : j # i
      BY <1>1, <1>6 DEF OfTag
    <3>. QED  BY <1>1, <1>2, <2>1, <3>1, OthersKeepTags
  <2>4. Dressed(sheets', navs', active')
    BY <1>1, <1>2, <2>1 DEF Dressed, Done
  <2>. QED  BY <1>1, <1>4, <2>1, <2>2, <2>3, <2>4 DEF SheetsFit
<1>. QED  BY <1>5, <1>6
-----------------------------------------------------------------------------
(* The document is there: store tags are added. *)
LEMMA SheetsFetched ==
    ASSUME TypeOK, AwaitsFit, SheetsFit, NEW i \in DOMAIN navs, fetched(i)
    PROVE  SheetsFit'
<1>1. /\ \A j \in DOMAIN navs : AddsWhile(navs[j])
      /\ \A s \in sheets : OfSheet(s, navs, screen.page)
      /\ \E s \in sheets : s.on /\ s.page = screen.page
      /\ Dressed(sheets, navs, active)
      /\ \A j \in tags : OfTag(j, navs)
  BY DEF SheetsFit
<1>2. PICK t \in NavState : Continues(i, t) /\ t.pc = "modules" /\ t.added
  BY FetchedNav
<1>3. /\ active' = active /\ DOMAIN navs' = DOMAIN navs /\ Len(navs') = Len(navs)
      /\ navs'[i] = t /\ Moves(i, t)
      /\ \A j \in DOMAIN navs : j # i => navs'[j] = navs[j]
  BY <1>2 DEF Continues, Moves
<1>4. navs[i].pc = "fetch" /\ sheets' = sheets /\ screen' = screen /\ tags' = tags \cup {i}
  BY DEF fetched, At
<1>5. \A j \in DOMAIN navs' : AddsWhile(navs'[j])
  BY <1>1, <1>2, <1>3 DEF AddsWhile, Adding
<1>6. ASSUME NEW s \in sheets' PROVE OfSheet(s, navs', screen'.page)
  <2>1. OfSheet(s, navs, screen.page)
    BY <1>1, <1>4
  <2>2. s.by # i
    BY <1>4, <2>1 DEF OfSheet
  <2>. QED  BY <1>3, <1>4, <2>1, <2>2, OthersKeepSheets
<1>7. Dressed(sheets', navs', active')
  BY <1>1, <1>2, <1>3, <1>4 DEF Dressed
<1>8. ASSUME NEW j \in tags' PROVE OfTag(j, navs')
  <2>1. CASE j = i
    BY <1>2, <1>3, <2>1 DEF OfTag
  <2>2. CASE j # i
    BY <1>1, <1>3, <1>4, <2>2, OthersKeepTags
  <2>. QED  BY <2>1, <2>2
<1>. QED  BY <1>1, <1>4, <1>5, <1>6, <1>7, <1>8 DEF SheetsFit

(* The modules are loaded: a stylesheet is added, if there is none. *)
LEMMA SheetsLoaded ==
    ASSUME TypeOK, SheetsFit, NEW i \in DOMAIN navs, modules_loaded(i)
    PROVE  SheetsFit'
<1>. DEFINE new == [page |-> Final(i), by |-> i, on |-> FALSE]
<1>1. /\ \A j \in DOMAIN navs : AddsWhile(navs[j])
      /\ \A s \in sheets : OfSheet(s, navs, screen.page)
      /\ \E s \in sheets : s.on /\ s.page = screen.page
      /\ \A j \in tags : OfTag(j, navs)
  BY DEF SheetsFit
<1>2. navs[i].pc = "modules" /\ sheets' = planHead(i) /\ screen' = screen /\ tags' = tags /\ Live(i)
  BY DEF modules_loaded, At
<1>3. PICK t \in NavState : Continues(i, t) /\ t.added = navs[i].added /\ t.pc = "sheets"
  BY <1>2, WentNav
<1>4. /\ active' = i /\ DOMAIN navs' = DOMAIN navs /\ Len(navs') = Len(navs)
      /\ navs'[i] = t /\ Moves(i, t) /\ t.req = navs[i].req
      /\ \A j \in DOMAIN navs : j # i => navs'[j] = navs[j]
  BY <1>2, <1>3 DEF Continues, Moves, SameCall, Live
<1>5. \A j \in DOMAIN navs' : AddsWhile(navs'[j])
  BY <1>1, <1>2, <1>3, <1>4 DEF AddsWhile, Adding
<1>6. ASSUME NEW s \in sheets PROVE OfSheet(s, navs', screen'.page)
  <2>1. OfSheet(s, navs, screen.page)
    BY <1>1
  <2>2. s.by # i
    BY <1>2, <2>1 DEF OfSheet
  <2>. QED  BY <1>2, <1>4, <2>1, <2>2, OthersKeepSheets
<1>7. OfSheet(new, navs', screen'.page)
  <2>1. new.by = i /\ ~new.on /\ new.page = Redirect[navs[i].req]
    BY DEF Final
  <2>2. i <= Len(navs')
    BY <1>4, SheetFields
  <2>. HIDE DEF new
  <2>. QED  BY <1>3, <1>4, <2>1, <2>2 DEF OfSheet
<1>8. /\ sheets \subseteq sheets' /\ sheets' \subseteq sheets \cup {new}
      /\ \E s \in sheets' : s.page = Final(i) /\ (s.on \/ s.by = i)
  <2>1. CASE \E s \in sheets : s.on /\ s.page = Final(i)
    BY <1>2, <2>1 DEF planHead
  <2>2. CASE ~\E s \in sheets : s.on /\ s.page = Final(i)
    <3>1. sheets' = sheets \cup {new}
      BY <1>2, <2>2 DEF planHead
    <3>2. new.page = Final(i) /\ new.by = i
      OBVIOUS
    <3>. HIDE DEF new
    <3>. QED  BY <3>1, <3>2
  <2>. QED  BY <2>1, <2>2
<1>. HIDE DEF new
<1>9. \A s \in sheets' : OfSheet(s, navs', screen'.page)
  BY <1>6, <1>7, <1>8
<1>10. Dressed(sheets', navs', active')
  BY <1>4, <1>8 DEF Dressed, Final
<1>11. ASSUME NEW j \in tags' PROVE OfTag(j, navs')
  <2>1. CASE j = i
    BY <1>1, <1>2, <1>3, <1>4, <2>1 DEF OfTag
  <2>2. CASE j # i
    BY <1>1, <1>2, <1>4, <2>2, OthersKeepTags
  <2>. QED  BY <2>1, <2>2
<1>. QED  BY <1>1, <1>2, <1>5, <1>8, <1>9, <1>10, <1>11 DEF SheetsFit

(* The transition starts. *)
LEMMA SheetsTransition ==
    ASSUME TypeOK, SheetsFit, NEW i \in DOMAIN navs, start_transition(i)
    PROVE  SheetsFit'
<1>1. /\ \A j \in DOMAIN navs : AddsWhile(navs[j])
      /\ \A s \in sheets : OfSheet(s, navs, screen.page)
      /\ \E s \in sheets : s.on /\ s.page = screen.page
      /\ Dressed(sheets, navs, active)
      /\ \A j \in tags : OfTag(j, navs)
  BY DEF SheetsFit
<1>2. navs[i].pc = "sheets" /\ sheets' = sheets /\ screen' = screen /\ tags' = tags
  BY DEF start_transition, At, dom
<1>3. PICK t \in NavState : Continues(i, t) /\ t.added = navs[i].added /\ t.pc = "transition"
  BY <1>2, WentNav
<1>4. /\ active' = active /\ DOMAIN navs' = DOMAIN navs /\ Len(navs') = Len(navs)
      /\ navs'[i] = t /\ Moves(i, t) /\ t.req = navs[i].req
      /\ \A j \in DOMAIN navs : j # i => navs'[j] = navs[j]
  BY <1>3 DEF Continues, Moves, SameCall
<1>5. \A j \in DOMAIN navs' : AddsWhile(navs'[j])
  BY <1>1, <1>2, <1>3, <1>4 DEF AddsWhile, Adding
<1>6. ASSUME NEW s \in sheets' PROVE OfSheet(s, navs', screen'.page)
  <2>1. OfSheet(s, navs, screen.page)
    BY <1>1, <1>2
  <2>2. CASE s.by = i
    BY <1>2, <1>3, <1>4, <2>1, <2>2 DEF OfSheet
  <2>3. CASE s.by # i
    BY <1>2, <1>4, <2>1, <2>3, OthersKeepSheets
  <2>. QED  BY <2>2, <2>3
<1>7. Dressed(sheets', navs', active')
  BY <1>1, <1>2, <1>3, <1>4 DEF Dressed
<1>8. ASSUME NEW j \in tags' PROVE OfTag(j, navs')
  <2>1. CASE j = i
    BY <1>1, <1>2, <1>3, <1>4, <2>1 DEF OfTag
  <2>2. CASE j # i
    BY <1>1, <1>2, <1>4, <2>2, OthersKeepTags
  <2>. QED  BY <2>1, <2>2
<1>. QED  BY <1>1, <1>2, <1>5, <1>6, <1>7, <1>8 DEF SheetsFit

(* The document is swapped in: what is applied is its page's. *)
LEMMA SheetsSwapped ==
    ASSUME TypeOK, SheetsFit, NEW i \in DOMAIN navs, Swaps(i)
    PROVE  SheetsFit'
<1>. DEFINE on(s) == IF s.by = i THEN [s EXCEPT !.on = TRUE] ELSE s
<1>1. /\ \A j \in DOMAIN navs : AddsWhile(navs[j])
      /\ \A s \in sheets : OfSheet(s, navs, screen.page)
      /\ Dressed(sheets, navs, active)
  BY DEF SheetsFit
<1>2. /\ navs[i].pc \in {"sheets", "transition"} /\ i = active
      /\ sheets' = applyHead(i, {on(s) : s \in sheets}) /\ tags' = {} /\ screen'.page = Final(i)
  BY DEF Swaps, swap, swapBody, Live
<1>3. PICK t \in NavState : Continues(i, t) /\ ~t.added /\ t.pc = "scripts"
  BY SwappedNav
<1>4. /\ active' = active /\ DOMAIN navs' = DOMAIN navs /\ Len(navs') = Len(navs)
      /\ navs'[i] = t /\ Moves(i, t)
      /\ \A j \in DOMAIN navs : j # i => navs'[j] = navs[j]
  BY <1>3 DEF Continues, Moves
<1>5. \A j \in DOMAIN navs' : AddsWhile(navs'[j])
  BY <1>1, <1>3, <1>4 DEF AddsWhile, Adding
<1>6. \A s \in sheets : /\ on(s).by = s.by /\ on(s).page = s.page
                        /\ (on(s).on <=> s.on \/ s.by = i)
  <2>1. \A s \in SheetRecord : /\ on(s).by = s.by /\ on(s).page = s.page
                               /\ (on(s).on <=> s.on \/ s.by = i)
    BY DEF SheetRecord
  <2>. HIDE DEF on
  <2>. QED  BY <2>1, SheetFields
<1>. HIDE DEF on
<1>7. sheets' = {q \in {on(s) : s \in sheets} : q.on => q.page = Final(i)}
  BY <1>2 DEF applyHead
<1>8. ASSUME NEW q \in sheets' PROVE OfSheet(q, navs', screen'.page)
  <2>1. PICK s \in sheets : q = on(s)
    BY <1>7
  <2>2. OfSheet(s, navs, screen.page) /\ (q.on => q.page = Final(i))
    BY <1>1, <1>7
  <2>3. q.by = s.by /\ q.page = s.page /\ (q.on <=> s.on \/ s.by = i)
    BY <1>6, <2>1
  <2>4. q.by <= Len(navs')
    BY <1>4, <2>2, <2>3 DEF OfSheet
  <2>5. CASE s.by = i
    BY <1>2, <1>3, <1>4, <2>2, <2>3, <2>4, <2>5 DEF OfSheet
  <2>6. CASE s.by # i
    BY <1>2, <1>4, <2>2, <2>3, <2>4, <2>6 DEF OfSheet
  <2>. QED  BY <2>5, <2>6
<1>9. \E q \in sheets' : q.on /\ q.page = screen'.page
  <2>1. PICK s \in sheets : s.page = Final(i) /\ (s.on \/ s.by = i)
    BY <1>1, <1>2 DEF Dressed, Final
  <2>2. on(s).on /\ on(s).page = Final(i)
    BY <1>6, <2>1
  <2>3. on(s) \in sheets'
    BY <1>7, <2>2
  <2>. QED  BY <1>2, <2>2, <2>3
<1>10. Dressed(sheets', navs', active')
  BY <1>2, <1>3, <1>4 DEF Dressed
<1>. QED  BY <1>2, <1>5, <1>8, <1>9, <1>10 DEF SheetsFit

(* SheetsFit is inductive. *)
LEMMA SheetsStep ==
    ASSUME TypeOK, CacheFits, AwaitsFit, SheetsFit, [Next]_vars
    PROVE  SheetsFit'
<1>0. cleared <= version
  BY DEF AwaitsFit
<1>1. ASSUME SameSheets, SameNavs, screen' = screen PROVE SheetsFit'
  BY <1>1, SheetsAlike DEF SameNavs, Alike
<1>2. ASSUME NEW p \in Pages, NEW kind \in Kinds, NEW pop \in Nat \cup {None},
             Started(p, kind, pop), SameSheets
      PROVE  SheetsFit'
  <2>1. PICK t \in NavState : Begun(t) /\ ~t.added
    BY <1>0, <1>2, StartedNav
  <2>2. screen' = screen
    BY <1>2 DEF Started
  <2>. QED  BY <1>2, <2>1, <2>2, SheetsStarted
<1>3. ASSUME Stayed, SameSheets PROVE SheetsFit'
  <2>1. screen' = screen
    BY <1>3 DEF Stayed, dom
  <2>2. ASSUME NEW t \in NavState, Continues(active, t), t.pc = navs[active].pc,
               t.added = navs[active].added
        PROVE  SheetsFit'
    <3>1. /\ active' = active /\ DOMAIN navs' = DOMAIN navs /\ Len(navs') = Len(navs)
          /\ \A j \in DOMAIN navs : Alike(navs'[j], navs[j])
      BY <2>2 DEF Continues, Moves, SameCall, Alike
    <3>. QED  BY <1>3, <2>1, <3>1, SheetsAlike
  <2>. QED  BY <1>1, <1>3, <2>1, <2>2, StayedNavs
<1>4. ASSUME NEW i \in DOMAIN navs, superseded(i) \/ fails(i) \/ success(i), finally(i)
      PROVE  SheetsFit'
  <2>1. screen' = screen
    BY <1>4 DEF superseded, fails, success
  <2>. QED  BY <1>4, <2>1, EndedNav, SheetsEnded
<1>. QED  BY <1>1, <1>2, <1>3, <1>4, SheetsCases, SheetsFetched, SheetsLoaded, SheetsTransition,
             SheetsSwapped

(* The served page has its stylesheet. *)
LEMMA SheetsInit == Init => SheetsFit
<1>. SUFFICES ASSUME Init PROVE SheetsFit
  OBVIOUS
<1>1. /\ navs = <<>> /\ tags = {} /\ sheets = {[page |-> First, by |-> 0, on |-> TRUE]}
      /\ screen = [page |-> First, version |-> 0, by |-> 0, since |-> 0] /\ active = 0
  BY DEF Init
<1>2. DOMAIN navs = {} /\ Len(navs) = 0
  BY <1>1
<1>3. \A s \in sheets : OfSheet(s, navs, screen.page)
  BY <1>1, <1>2 DEF OfSheet
<1>. QED  BY <1>1, <1>2, <1>3 DEF SheetsFit, Dressed

(* The invariant says what the property does. *)
LEMMA SheetsStyle == SheetsFit => StyledPage
  BY DEF SheetsFit, StyledPage, OfSheet, OfTag, Running
-----------------------------------------------------------------------------
(***************************************************************************)
(* The current entry and the page on screen.                               *)
(***************************************************************************)
LEMMA EntryCases ==
    ASSUME TypeOK, AwaitsFit, [Next]_vars
    PROVE  \/ SameAddress /\ SameFlags /\ SameNavs /\ tags' = tags
           \/ Store
           \/ \E i \in DOMAIN navs :
                 SameAddress /\ SameFlags /\ Ended(i) /\ ~Live(i) /\ tags' \subseteq tags
           \/ \E i \in DOMAIN navs : \E t \in NavState :
                 /\ SameAddress /\ SameFlags /\ Continues(i, t) /\ Live(i)
                 /\ navs[i].pc # "scripts" /\ t.pc # "scripts" /\ t.crossed = navs[i].crossed
           \/ \E i \in DOMAIN navs : Swaps(i) /\ SameFlags
           \/ \E i \in DOMAIN navs : fails(i) \/ (success(i) /\ SameAddress)
           \/ \E p \in Pages : \E kind \in Kinds : \E pop \in Nat \cup {None} : Started(p, kind, pop)
           \/ Stayed /\ SameFlags
<1>1. ASSUME NEW p \in Pages, prefetch(p) PROVE SameAddress /\ SameFlags /\ SameNavs /\ tags' = tags
  BY <1>1 DEF prefetch, SameAddress, SameFlags, SameNavs, tab, dom, ghosts
<1>2. ASSUME UNCHANGED vars \/ mutate PROVE SameAddress /\ SameFlags /\ SameNavs /\ tags' = tags
  BY <1>2 DEF vars, mutate, SameAddress, SameFlags, SameNavs, tab, dom, ghosts
<1>3. ASSUME NEW f \in DOMAIN fetches, answered(f) \/ network_fails(f) \/ expire(f)
      PROVE  SameAddress /\ SameFlags /\ SameNavs /\ tags' = tags
  BY <1>3 DEF answered, network_fails, expire, SameAddress, SameFlags, SameNavs, tab, dom, ghosts
<1>4. ASSUME NEW v \in unanswered, clearCache(v) PROVE SameAddress /\ SameFlags /\ SameNavs /\ tags' = tags
  BY <1>4 DEF clearCache, SameAddress, SameFlags, SameNavs, tab, dom
<1>5. ASSUME NEW i \in DOMAIN navs, superseded(i)
      PROVE  SameAddress /\ SameFlags /\ Ended(i) /\ ~Live(i) /\ tags' \subseteq tags
  <2>1. SameAddress /\ SameFlags /\ ~Live(i)
    BY <1>5 DEF superseded, SameAddress, SameFlags, tab, ghosts
  <2>2. tags' \subseteq tags
    BY <1>5 DEF superseded, finally
  <2>. QED  BY <1>5, <2>1, <2>2, EndedNav
<1>6. ASSUME NEW i \in DOMAIN navs, fetched(i) \/ modules_loaded(i) \/ start_transition(i)
      PROVE  \E t \in NavState :
                 /\ SameAddress /\ SameFlags /\ Continues(i, t) /\ Live(i)
                 /\ navs[i].pc # "scripts" /\ t.pc # "scripts" /\ t.crossed = navs[i].crossed
  <2>1. CASE fetched(i)
    <3>1. SameAddress /\ SameFlags /\ Live(i) /\ navs[i].pc # "scripts"
      BY <2>1 DEF fetched, At, SameAddress, SameFlags, tab, ghosts
    <3>. QED  BY <2>1, <3>1, FetchedNav
  <2>2. CASE modules_loaded(i) \/ start_transition(i)
    <3>1. SameAddress /\ SameFlags /\ Live(i) /\ navs[i].pc # "scripts"
      BY <2>2 DEF modules_loaded, start_transition, At, SameAddress, SameFlags, tab, dom, ghosts
    <3>2. PICK t \in NavState : /\ Continues(i, t) /\ t.crossed = navs[i].crossed
                                /\ t.pc = IF navs[i].pc = "modules" THEN "sheets" ELSE "transition"
      BY <2>2, WentNav
    <3>. QED  BY <3>1, <3>2
  <2>. QED  BY <1>6, <2>1, <2>2
<1>7. ASSUME NEW i \in DOMAIN navs, Swaps(i) PROVE SameFlags
  BY <1>7 DEF Swaps, swap, SameFlags, ghosts
<1>8. ASSUME NEW i \in DOMAIN navs, success(i) PROVE SameAddress
  BY <1>8 DEF success, SameAddress, tab
<1>9. ASSUME Stayed PROVE SameFlags
  BY <1>9 DEF Stayed, SameFlags, dom, ghosts
<1>. QED  BY <1>1, <1>2, <1>3, <1>4, <1>5, <1>6, <1>7, <1>8, <1>9, StepCases

(* The newest navigation is what it was, at the entry that it was at. *)
LEMMA EntryAlike ==
    ASSUME EntryFits, SameAddress, SameFlags, active' = active, Running(active)' = Running(active),
           Running(active) => /\ SameCall(Newest', Newest) /\ Newest'.crossed = Newest.crossed
                              /\ Newest'.pc = "scripts" <=> Newest.pc = "scripts",
           SwappedIn \/ Settled => tags' \subseteq tags
    PROVE  EntryFits'
<1>1. /\ history' = history /\ entry' = entry /\ cur' = cur /\ shown' = shown /\ screen' = screen
      /\ left' = left /\ store' = store /\ slipped' = slipped /\ cancelled' = cancelled
  BY DEF SameAddress, SameFlags
<1>2. Here' = Here /\ (Matches' <=> Matches)
  BY <1>1 DEF Here, Matches
<1>3. /\ Pending' <=> Pending
      /\ SwappedIn' <=> SwappedIn
      /\ Settled' <=> Settled
  BY <1>1 DEF Pending, SwappedIn, Settled, SameCall
<1>4. Running(active) => /\ Newest'.req = Newest.req /\ Newest'.pop = Newest.pop
                         /\ Final(active)' = Final(active)
  BY DEF SameCall, Final, Newest
<1>5. Pending \/ SwappedIn => Running(active)
  BY DEF Pending, SwappedIn
<1>6. SwappedIn \/ Settled => (tags = {} => tags' = {})
  OBVIOUS
<1>. QED  BY <1>1, <1>2, <1>3, <1>4, <1>5, <1>6 DEF EntryFits

(* swap: the page is shown at the entry it was navigated to for. *)
LEMMA EntrySwapped ==
    ASSUME TypeOK, EntryFits, NEW i \in DOMAIN navs, Swaps(i), SameFlags
    PROVE  EntryFits'
<1>1. /\ ~left /\ Running(i) /\ i = active /\ navs[i].pc \in {"sheets", "transition"}
      /\ tag_entry(i) /\ shown' = history'[entry'].page /\ screen'.page = Final(i) /\ tags' = {}
  BY DEF Swaps, swap, swapBody, Live
<1>2. PICK t \in NavState : Continues(i, t) /\ t.crossed = navs[i].crossed /\ t.pc = "scripts"
  BY SwappedNav
<1>3. active' = i /\ Newest' = t /\ SameCall(t, navs[i]) /\ i \in DOMAIN navs'
  BY <1>1, <1>2 DEF Continues, Moves, Newest
<1>4. Running(active)'
  BY <1>2, <1>3 DEF Running, Newest
<1>5. ~Pending' /\ ~Settled'
  BY <1>2, <1>3, <1>4 DEF Pending, Settled
<1>6. ASSUME ~navs[i].crossed PROVE Matches' /\ screen'.page = Final(active)'
  <2>1. Final(active)' = Final(i)
    BY <1>3 DEF Final, SameCall, Newest
  <2>2. /\ navs[i].kind # "popstate" =>
                 history'[entry'].page = Final(i) /\ history'[entry'].id = cur'
        /\ navs[i].kind = "popstate" =>
                 /\ history'[entry'].page = Here
                 /\ history[entry].id = navs[i].pop => history'[entry'].id = cur'
    BY <1>1, SwappedTab
  <2>3. Redirect[Final(i)] = Final(i)
    BY <1>1, FinalIsPage
  <2>4. navs[i].kind = "popstate" => Here = navs[i].req /\ history[entry].id = navs[i].pop
    BY <1>1, <1>6 DEF EntryFits, Pending, Newest
  <2>5. Redirect[history'[entry'].page] = Final(i) /\ history'[entry'].id = cur'
    BY <2>2, <2>3, <2>4 DEF Final
  <2>. QED  BY <1>1, <2>1, <2>5 DEF Matches, Here
<1>7. SwappedIn' => ~navs[i].crossed
  BY <1>2, <1>3 DEF SwappedIn
<1>. QED  BY <1>1, <1>5, <1>6, <1>7 DEF EntryFits

(* A failure leaves the page or is cancelled, a success settles. *)
LEMMA EntryEnded ==
    ASSUME TypeOK, SheetsFit, StoreFits, EntryFits, NEW i \in DOMAIN navs,
           fails(i) \/ (success(i) /\ SameAddress)
    PROVE  EntryFits'
<1>1. Ended(i) /\ i = active
  BY EndedNav DEF fails, success, Live
<1>2. active' = i /\ navs'[i] = Done
  BY <1>1 DEF Ended, Moves
<1>3. ~Running(active)'
  BY <1>2 DEF Running, Done
<1>4. ~Pending' /\ ~SwappedIn'
  BY <1>3 DEF Pending, SwappedIn
<1>5. CASE fails(i)
  <2>1. left' = TRUE \/ cancelled' = TRUE
    BY <1>5 DEF fails
  <2>. QED  BY <1>4, <2>1 DEF EntryFits, Settled
<1>6. CASE success(i) /\ SameAddress
  <2>1. /\ ~left /\ Running(i) /\ navs[i].pc = "scripts" /\ slipped' = navs[i].crossed
        /\ finally(i)
    BY <1>6 DEF success, At
  <2>2. ASSUME Settled' PROVE Matches' /\ store'.url \in {None, screen'.page} /\ tags' = {}
    <3>1. ~navs[i].crossed
      BY <2>1, <2>2 DEF Settled
    <3>2. Matches /\ screen.page = Final(i) /\ tags = {}
      BY <1>1, <2>1, <3>1 DEF EntryFits, SwappedIn, Newest
    <3>3. /\ history' = history /\ entry' = entry /\ cur' = cur /\ shown' = shown
          /\ screen' = screen
      BY <1>6 DEF SameAddress
    <3>4. store'.url \in {None, Final(i)}
      BY <1>6, StoreIdles DEF StoreFits
    <3>5. tags' = {}
      BY <2>1, <3>2 DEF finally
    <3>. QED  BY <3>2, <3>3, <3>4, <3>5 DEF Matches, Here
  <2>. QED  BY <1>4, <2>2 DEF EntryFits
<1>. QED  BY <1>5, <1>6

(* A back/forward navigation starts at the entry it is for. *)
LEMMA EntryStarted ==
    ASSUME TypeOK, CacheFits, AwaitsFit, EntryFits,
           NEW p \in Pages, NEW kind \in Kinds, NEW pop \in Nat \cup {None}, Started(p, kind, pop)
    PROVE  EntryFits'
<1>0. cleared <= version
  BY DEF AwaitsFit
<1>1. PICK t \in NavState : Begun(t) /\ t.req = p /\ t.kind = kind /\ t.pop = pop
  BY <1>0, StartedNav
<1>2. Newest' = t /\ t.pc = "fetch" /\ active' \in DOMAIN navs'
  BY <1>1 DEF Begun, Newest
<1>3. Running(active)'
  BY <1>2 DEF Running, Newest
<1>4. ~SwappedIn' /\ ~Settled'
  BY <1>2, <1>3 DEF SwappedIn, Settled
<1>5. ASSUME Pending' PROVE Here' = Newest'.req /\ history'[entry'].id = Newest'.pop
  <2>1. kind = "popstate"
    BY <1>1, <1>2, <1>5 DEF Pending
  <2>2. p = history'[entry'].page /\ pop = history'[entry'].id
    BY <2>1 DEF Started
  <2>. QED  BY <1>1, <1>2, <2>2 DEF Here
<1>. QED  BY <1>4, <1>5 DEF EntryFits

(* Another entry of the page on screen matches as well. *)
LEMMA EntryStayed ==
    ASSUME TypeOK, EntryFits, Stayed, SameFlags
    PROVE  EntryFits'
<1>1. /\ ~left /\ active' = active /\ shown' = shown /\ screen' = screen
      /\ history'[entry'].page = shown /\ history'[entry'].id = cur'
      /\ store' = store /\ slipped' = slipped /\ cancelled' = cancelled /\ tags' = tags
  BY DEF Stayed, dom, SameFlags
<1>2. Matches => Matches'
  BY <1>1 DEF Matches, Here
<1>3. CASE SameNavs /\ ~(Running(active) /\ Newest.kind = "popstate")
  <2>1. Newest' = Newest /\ Running(active)' = Running(active) /\ Final(active)' = Final(active)
    BY <1>3 DEF SameNavs, Newest, Running, Final
  <2>2. ~Pending'
    BY <1>3, <2>1 DEF Pending
  <2>3. (SwappedIn' <=> SwappedIn) /\ (Settled' <=> Settled)
    BY <1>1, <2>1 DEF SwappedIn, Settled
  <2>. QED  BY <1>1, <1>2, <2>1, <2>2, <2>3 DEF EntryFits
<1>4. ASSUME NEW t \in NavState, Continues(active, t), t.pc = navs[active].pc, t.crossed
      PROVE  EntryFits'
  <2>1. Newest' = t /\ active' \in DOMAIN navs' /\ t.pc # "done"
    BY <1>1, <1>4, NavFields DEF Continues, Moves, Newest, Running
  <2>2. Running(active)'
    BY <2>1 DEF Running, Newest
  <2>3. ~Pending' /\ ~SwappedIn' /\ ~Settled'
    BY <1>4, <2>1, <2>2 DEF Pending, SwappedIn, Settled
  <2>. QED  BY <2>3 DEF EntryFits
<1>5. SameNavs /\ ~(Running(active) /\ navs[active].kind = "popstate") => EntryFits'
  BY <1>3 DEF Newest
<1>. QED  BY <1>4, <1>5, StayedNavs

(* Whatever the record is made from, it has the page on screen when nothing runs. *)
LEMMA EntryRead ==
    ASSUME TypeOK, SheetsFit, Plain(history), EntryFits, Store
    PROVE  EntryFits'
<1>1. /\ ~left /\ Here' = Here /\ (Matches' <=> Matches) /\ tags' = tags /\ screen' = screen
      /\ history' = history /\ entry' = entry
  BY StoreSteps DEF Here, Matches
<1>2. /\ Newest' = Newest /\ Final(active)' = Final(active)
      /\ (Pending' <=> Pending) /\ (SwappedIn' <=> SwappedIn) /\ (Settled' <=> Settled)
  BY StoreSteps DEF Newest, Final, Running, Pending, SwappedIn, Settled
<1>3. ASSUME Settled PROVE store'.url \in {None, screen.page}
  <2>1. Matches /\ store.url \in {None, screen.page} /\ tags = {}
    BY <1>1, <1>3 DEF EntryFits
  <2>2. Redirect[Here] = Here
    BY HereIsPage DEF Plain, Here
  <2>3. Seeds(Here) = {screen.page}
    BY <2>1, <2>2 DEF Seeds, Matches
  <2>. QED  BY <2>1, <2>3, StoreReads
<1>. QED  BY <1>1, <1>2, <1>3 DEF EntryFits

(* What is put in the history redirects no further. *)
LEMMA PlainStep ==
    ASSUME TypeOK, Plain(history), [Next]_vars
    PROVE  Plain(history')
<1>1. SameAddress => history' = history
  BY DEF SameAddress
<1>2. ASSUME NEW i \in DOMAIN navs, Swaps(i) PROVE Plain(history')
  BY <1>2, SwappedTab DEF Swaps, swap
<1>. QED  BY <1>1, <1>2, AddressCases DEF Started, Stayed

(* EntryFits is inductive. *)
LEMMA EntryStep ==
    ASSUME TypeOK, CacheFits, AwaitsFit, SheetsFit, StoreFits, Plain(history), EntryFits,
           [Next]_vars
    PROVE  EntryFits'
<1>1. ASSUME SameAddress, SameFlags, SameNavs, tags' = tags PROVE EntryFits'
  <2>1. active' = active /\ Running(active)' = Running(active) /\ Newest' = Newest
    BY <1>1 DEF SameNavs, Running, Newest
  <2>. QED  BY <1>1, <2>1, EntryAlike DEF SameCall
<1>2. ASSUME NEW i \in DOMAIN navs, SameAddress, SameFlags, Ended(i), ~Live(i),
             tags' \subseteq tags
      PROVE  EntryFits'
  <2>1. active' = active /\ active # i /\ DOMAIN navs' = DOMAIN navs
        /\ (active \in DOMAIN navs => navs'[active] = navs[active])
    BY <1>2 DEF Ended, Moves, Live
  <2>2. Running(active)' = Running(active) /\ (Running(active) => Newest' = Newest)
    BY <2>1 DEF Running, Newest
  <2>. QED  BY <1>2, <2>1, <2>2, EntryAlike DEF SameCall
<1>3. ASSUME NEW i \in DOMAIN navs, NEW t \in NavState, SameAddress, SameFlags, Continues(i, t),
             Live(i), navs[i].pc # "scripts", t.pc # "scripts", t.crossed = navs[i].crossed
      PROVE  EntryFits'
  <2>1. /\ active' = active /\ active = i /\ DOMAIN navs' = DOMAIN navs /\ navs'[i] = t
        /\ SameCall(t, navs[i]) /\ Running(i)
    BY <1>3 DEF Continues, Moves, Live
  <2>2. t.pc # "done"
    BY NavFields
  <2>3. Running(active)' = Running(active) /\ Newest' = t /\ Newest = navs[i]
    BY <2>1, <2>2 DEF Running, Newest
  <2>4. ~SwappedIn /\ ~Settled
    BY <1>3, <2>1, <2>3 DEF SwappedIn, Settled
  <2>. QED  BY <1>3, <2>1, <2>3, <2>4, EntryAlike
<1>. QED  BY <1>1, <1>2, <1>3, EntryCases, EntrySwapped, EntryEnded, EntryStarted, EntryStayed,
             EntryRead

(* The page of the first load is at its entry. *)
LEMMA EntryInit == Init => EntryFits
<1>. SUFFICES ASSUME Init PROVE EntryFits
  OBVIOUS
<1>1. /\ history = <<[page |-> First, id |-> 0]>> /\ entry = 1 /\ cur = 0 /\ shown = First
      /\ screen = [page |-> First, version |-> 0, by |-> 0, since |-> 0]
      /\ active = 0 /\ navs = <<>> /\ tags = {}
      /\ store = [bound |-> None, state |-> "idle", url |-> None]
  BY DEF Init
<1>2. history[entry].page = First /\ history[entry].id = 0 /\ Redirect[First] = First
  BY <1>1, PagesAssumption
<1>3. Matches /\ store.url = None /\ tags = {}
  BY <1>1, <1>2 DEF Matches, Here
<1>4. ~Running(active)
  BY <1>1 DEF Running
<1>. QED  BY <1>3, <1>4 DEF EntryFits, Pending, SwappedIn

(* Nothing loads: the newest navigation is over. *)
LEMMA EntrySettled == EntryFits /\ LoadingShown => SettledOnEntry
<1>. SUFFICES ASSUME EntryFits, LoadingShown, Idle, ~cancelled, ~slipped
              PROVE  /\ screen.page = FullLoad(Here) /\ history[entry].id = cur
                     /\ store.url \in {None, screen.page}
  BY DEF SettledOnEntry
<1>1. ~left /\ ~Running(active)
  BY DEF Idle, LoadingShown
<1>2. Matches /\ store.url \in {None, screen.page}
  BY <1>1 DEF EntryFits, Settled
<1>. QED  BY <1>2 DEF Matches, FullLoad
-----------------------------------------------------------------------------
(***************************************************************************)
(* The results.                                                            *)
(***************************************************************************)
(* The inductive invariant: types, a page cache whose entries are good,    *)
(* fetches that are there for the navigations that await them, elements in *)
(* the document whose navigations run or have swapped, a store bound to no *)
(* navigation to come, and the loading state of the newest navigation.     *)
NavInv ==
  TypeOK /\ CacheFits /\ AwaitsFit /\ SheetsFit /\ Plain(history) /\ StoreFits /\ LoadingShown

(* The invariant holds at the start. *)
LEMMA NavInvInit == Init => NavInv
<1>. SUFFICES ASSUME Init PROVE NavInv
  OBVIOUS
<1>1. /\ loading = FALSE /\ store = [bound |-> None, state |-> "idle", url |-> None]
      /\ DOMAIN navs = {} /\ history = <<[page |-> First, id |-> 0]>>
  BY DEF Init
<1>2. LoadingShown
  BY <1>1 DEF LoadingShown, Running
<1>3. StoreFits
  BY <1>1 DEF StoreFits
<1>4. Plain(history)
  BY <1>1, PagesAssumption DEF Plain
<1>. QED  BY <1>2, <1>3, <1>4, AwaitsInit, SheetsInit DEF NavInv

(* The invariant is inductive. *)
LEMMA NavInvStep == NavInv /\ [Next]_vars => NavInv'
  BY TypesStep, AwaitsStep, SheetsStep, PlainStep, StoreStep, LoadingStep DEF NavInv

(* The invariant holds. *)
LEMMA NavInvariant == Spec => []NavInv
  BY NavInvInit, NavInvStep, PTL DEF Spec

(* Every variable of the client has its type; the page cache stays within  *)
(* its limit and holds fetches there are (the cache of nav.ts's boot).     *)
THEOREM NavTypes == Spec => []TypeOK
<1>1. NavInv => TypeOK
  BY DEF NavInv
<1>. QED  BY <1>1, NavInvariant, PTL

(* go() and its finally: data-brust-loading shows whether the newest       *)
(* navigation runs, in whatever order the others end, and the store's      *)
(* state whether one that began after its module was evaluated does.       *)
THEOREM LoadingIsShown == Spec => []LoadingShown
<1>1. NavInv => LoadingShown
  BY DEF NavInv
<1>. QED  BY <1>1, NavInvariant, PTL

(* clearCache after a mutation: a page navigated to from then on is never  *)
(* one from before it, whatever was in flight or kept.                     *)
THEOREM WritesAreRead == Spec => []ReadsItsWrites
<1>1. NavInv => ReadsItsWrites
  BY DEF NavInv, AwaitsFit, ReadsItsWrites
<1>. QED  BY <1>1, NavInvariant, PTL

(* The cache's drop: a page that is not for keeping is not shown from      *)
(* memory.                                                                 *)
THEOREM NoStoreIsRefetched == Spec => []NoStoreRefetched
<1>1. Init => NoStoreRefetched
  BY DEF Init, NoStoreRefetched
<1>2. NavInv /\ NoStoreRefetched /\ [Next]_vars => NoStoreRefetched'
  BY NoStoreStep DEF NavInv
<1>. QED  BY <1>1, <1>2, NavInvariant, PTL DEF Spec

(* live(): only the newest navigation changes the page on screen or ends   *)
(* the loading state.                                                      *)
THEOREM NewestNavigationWins == Spec => NewestWins
<1>1. NavInv /\ [Next]_vars
      => [/\ screen' # screen => screen'.by = active
          /\ (loading /\ ~loading') => navs'[active].pc = "done"]_vars
  BY NewestStep DEF NavInv
<1>. QED  BY <1>1, NavInvariant, PTL DEF Spec, NewestWins

(* planHead, applyHead, swapBody and the finally of go(): the page on      *)
(* screen has its stylesheet and no other's, and nothing of a navigation   *)
(* that has ended is left in the head or the body.                         *)
THEOREM PageIsStyled == Spec => []StyledPage
<1>1. NavInv => StyledPage
  BY SheetsStyle DEF NavInv
<1>. QED  BY <1>1, NavInvariant, PTL

(* The history code of swap() and the popstate handler: whenever nothing   *)
(* loads, the page on screen is that of the address, under the id of its   *)
(* entry, and the store's record, if there is one, names it, outside the   *)
(* one race that breaks it.                                                *)
THEOREM EntryIsSettled == Spec => []SettledOnEntry
<1>1. NavInv /\ EntryFits /\ [Next]_vars => EntryFits'
  BY EntryStep DEF NavInv
<1>2. Spec => []EntryFits
  BY <1>1, EntryInit, NavInvariant, PTL DEF Spec
<1>3. NavInv /\ EntryFits => SettledOnEntry
  BY EntrySettled DEF NavInv
<1>. QED  BY <1>2, <1>3, NavInvariant, PTL
=============================================================================
