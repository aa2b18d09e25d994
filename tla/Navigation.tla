----------------------------- MODULE Navigation -----------------------------
(***************************************************************************)
(* Client-side navigation: runtime-dom/src/nav/nav.ts with the DOM half in *)
(* nav/swap.ts, and the navigation store of brust/src/navigation.ts.       *)
(*                                                                         *)
(* A click, navigate() or back/forward starts go(), which fetches the real *)
(* document (through a page cache that shares fetches in flight), loads    *)
(* what it needs and swaps it in.  go() is cut at every await: between two *)
(* of its steps the user, the network, the browser's history and other     *)
(* navigations act.  A newer navigation supersedes the older ones, which   *)
(* find out at their next step.                                            *)
(*                                                                         *)
(* A page is a URL without its hash; a fragment entry is one more history  *)
(* entry of the same page.  A document is the page it was fetched as and   *)
(* the version of the server's data it shows.  Scroll positions, focus,    *)
(* the progress bar, scripts, layout levels and persisted elements are     *)
(* left out.  So is `seen`: a prefetch may be declined at any time.  A     *)
(* full load ends the document and with it the behaviour.                  *)
(***************************************************************************)
EXTENDS Naturals, Sequences, FiniteSets, SequencesExt

CONSTANTS Pages,        \* URLs without their hash
          First,        \* the page of the first load
          Redirect,     \* [Pages -> Pages]: the page a fetch of a URL ends at
          NoStore,      \* pages sent with no-store, or with a status of 400 or more
          CACHE_SIZE,   \* documents the page cache holds
          MaxNavs,      \* how many times go() may run
          MaxFetches,   \* how many fetches may be made
          MaxIds,       \* ids given before no more fragments are visited
          MaxVersion,   \* mutations of the server's data
          None

ASSUME PagesAssumption == /\ First \in Pages /\ NoStore \subseteq Pages /\ None \notin Pages
                          /\ Redirect \in [Pages -> Pages]
                          /\ \A p \in Pages : Redirect[Redirect[p]] = Redirect[p]
                          /\ Redirect[First] = First
ASSUME BoundsAssumption == /\ CACHE_SIZE \in Nat \ {0} /\ MaxNavs \in Nat /\ MaxFetches \in Nat
                           /\ MaxIds \in Nat /\ MaxVersion \in Nat
                           /\ None \notin Nat

VARIABLES
  \* the server's data, and the mutations whose response has not reached the tab
  version, unanswered,
  \* the browser's history: entries [page, id], the current one, and the last id given
  history, entry, n,
  \* the document: what it shows, stylesheet elements navigations put in its head, navigations
  \* whose store tags are in its body, data-brust-loading, and whether it was left
  screen, sheets, tags, loading, left,
  \* boot()'s variables
  cur, shown, active, cache, fetches,
  \* one go() each: where it is, what it was called with, the fetch it awaits
  navs,
  \* the navigation store: how many navigations had begun when its module was evaluated, and the
  \* record its first reader makes
  store,
  \* history: the last mutation the cache was cleared for; whether the navigation that ended last
  \* was crossed (the user came back to the page on screen while it was pending) and whether its
  \* full load was cancelled
  cleared, slipped, cancelled

server == <<version, unanswered>>
tab    == <<history, entry, n>>
dom    == <<screen, sheets, tags, loading, left>>
ghosts == <<cleared, slipped, cancelled>>
vars   == <<server, tab, dom, cur, shown, active, cache, fetches, navs, store, ghosts>>

Here == history[entry].page
\* What a full load of a URL shows.
FullLoad(p) == Redirect[p]

\* The await a navigation is in, and how it ends in the history.
Steps == {"fetch", "modules", "sheets", "transition", "scripts"}
Kinds == {"push", "replace", "popstate"}
Done == [pc |-> "done"]
Live(i) == i = active
Running(i) == i \in DOMAIN navs /\ navs[i].pc # "done"
Final(i) == Redirect[navs[i].req]

Init ==
  /\ version = 0 /\ unanswered = {}
  /\ history = <<[page |-> First, id |-> 0]>> /\ entry = 1 /\ n = 0
  /\ screen = [page |-> First, version |-> 0, by |-> 0, since |-> 0]
  /\ sheets = {[page |-> First, by |-> 0, on |-> TRUE]}
  /\ tags = {} /\ loading = FALSE /\ left = FALSE
  /\ cur = 0 /\ shown = First
  /\ active = 0 /\ cache = <<>> /\ fetches = <<>> /\ navs = <<>>
  /\ store = [bound |-> None, state |-> "idle", url |-> None]
  /\ cleared = 0 /\ slipped = FALSE /\ cancelled = FALSE
-----------------------------------------------------------------------------
(***************************************************************************)
(* The page cache: a Map in insertion order of [promise, time] by URL.  A  *)
(* fetch is "flying" (time Infinity: shared), "kept" (fresh), "stale" (its *)
(* ttl is over), "dropped" (not for keeping) or "failed"; its version is   *)
(* the oldest data the response can show, and once it is there the data it *)
(* shows.  A fetch that neither the cache nor a navigation holds is Gone.  *)
(***************************************************************************)
Cached(p) == {i \in DOMAIN cache : cache[i].page = p}
CachedFetch(p) == cache[CHOOSE i \in Cached(p) : TRUE].fetch

\* A URL has one entry at most; drop removes it if it still is this fetch.
delete(I) == IF I = {} THEN cache ELSE RemoveAt(cache, CHOOSE i \in I : TRUE)
Without(p) == delete(Cached(p))
Drop(f) == delete({i \in Cached(fetches[f].page) : cache[i].fetch = f})

Gone == [state |-> "gone"]
Held(f, c, ns) == \/ \E i \in DOMAIN c : c[i].fetch = f
                  \/ \E i \in DOMAIN ns : ns[i].pc = "fetch" /\ ns[i].fetch = f
Collected(fs, c, ns) == [f \in DOMAIN fs |-> IF Held(f, c, ns) THEN fs[f] ELSE Gone]

\* get: the entry is used when there is one and it is in flight, fresh or of any age on request;
\* else a new fetch.  Either way it becomes the youngest entry, and the oldest goes.
Usable(p, any) == Cached(p) # {} /\ (any \/ fetches[CachedFetch(p)].state # "stale")
Fetch(p, any) == IF Usable(p, any) THEN CachedFetch(p) ELSE Len(fetches) + 1

\* Mutant: nothing is evicted.
get_unbounded(p, any, ns) ==
  LET f == Fetch(p, any)
      new == [page |-> p, state |-> "flying", version |-> version]
  IN /\ f <= MaxFetches
     /\ cache' = Append(Without(p), [page |-> p, fetch |-> f])
     /\ fetches' = Collected(IF f \in DOMAIN fetches THEN fetches ELSE Append(fetches, new),
                             cache', ns)

get(p, any, ns) ==
  LET f == Fetch(p, any)
      c == Append(Without(p), [page |-> p, fetch |-> f])
      new == [page |-> p, state |-> "flying", version |-> version]
  IN /\ f <= MaxFetches
     /\ cache' = IF Len(c) > CACHE_SIZE THEN Tail(c) ELSE c
     /\ fetches' = Collected(IF f \in DOMAIN fetches THEN fetches ELSE Append(fetches, new),
                             cache', ns)

\* Mutant: a response is kept whatever it says.
settle_keeps(f) ==
  /\ \E v \in fetches[f].version..version :
       fetches' = [fetches EXCEPT ![f].state = "kept", ![f].version = v]
  /\ cache' = cache

\* The response is there: the fetch is kept, or dropped from the cache while it is still the
\* entry of its URL.
settle(f) ==
  LET keep == Redirect[fetches[f].page] \notin NoStore IN
  /\ cache' = IF keep THEN cache ELSE Drop(f)
  /\ \E v \in fetches[f].version..version :
       fetches' = Collected([fetches EXCEPT ![f].state = IF keep THEN "kept" ELSE "dropped",
                                            ![f].version = v], cache', navs)

answered(f) ==
  /\ ~left /\ fetches[f].state = "flying"
  /\ settle(f)
  /\ UNCHANGED <<server, tab, dom, cur, shown, active, navs, store, ghosts>>

network_fails(f) ==
  /\ ~left /\ fetches[f].state = "flying"
  /\ cache' = Drop(f)
  /\ fetches' = Collected([fetches EXCEPT ![f].state = "failed"], cache', navs)
  /\ UNCHANGED <<server, tab, dom, cur, shown, active, navs, store, ghosts>>

expire(f) ==
  /\ ~left /\ fetches[f].state = "kept"
  /\ fetches' = [fetches EXCEPT ![f].state = "stale"]
  /\ UNCHANGED <<server, tab, dom, cur, shown, active, cache, navs, store, ghosts>>

prefetch(p) ==
  /\ ~left /\ p # Here
  /\ get(p, FALSE, navs)
  /\ UNCHANGED <<server, tab, dom, cur, shown, active, navs, store, ghosts>>

\* A call of the actions client changes the data; its response clears the cache.
mutate ==
  /\ ~left /\ version < MaxVersion
  /\ version' = version + 1
  /\ unanswered' = unanswered \cup {version'}
  /\ UNCHANGED <<tab, dom, cur, shown, active, cache, fetches, navs, store, ghosts>>

\* Mutant: fetches in flight stay in the cache.
clear_settled == SelectSeq(cache, LAMBDA e : fetches[e.fetch].state = "flying")

clear_cache == <<>>

clearCache(v) ==
  /\ ~left /\ v \in unanswered
  /\ unanswered' = unanswered \ {v}
  /\ cache' = clear_cache
  /\ fetches' = Collected(fetches, cache', navs)
  /\ cleared' = IF v > cleared THEN v ELSE cleared
  /\ UNCHANGED <<version, tab, dom, cur, shown, active, navs, store, slipped, cancelled>>
-----------------------------------------------------------------------------
(***************************************************************************)
(* The navigation store.  Its module adds the listeners of brust:nav:load, *)
(* success (and the error of a page that was swapped in all the same) and  *)
(* error when the first chunk that imports it is evaluated, at any moment; *)
(* a navigation under way is heard of at its end only.  The record is made *)
(* when it is first read: its url is the location (at), or what the first  *)
(* store tag in the document says, of the page on screen or of one that is *)
(* about to be swapped in.  Which pages read the store is left open.       *)
(***************************************************************************)
Seeds(at) == {at, screen.page} \cup {Final(i) : i \in tags}
Url(at) == IF store.url = None THEN Seeds(at) ELSE {store.url}

evaluate ==
  /\ ~left /\ store.bound = None
  /\ store' = [store EXCEPT !.bound = active]
  /\ UNCHANGED <<server, tab, dom, cur, shown, active, cache, fetches, navs, ghosts>>

first_read ==
  /\ ~left /\ store.bound # None /\ store.url = None
  /\ \E u \in Seeds(Here) : store' = [store EXCEPT !.url = u]
  /\ UNCHANGED <<server, tab, dom, cur, shown, active, cache, fetches, navs, ghosts>>

\* A listener, once there is one: the state it sets, and the url if it sets one.
hears(state, urls) ==
  IF store.bound = None THEN store' = store
  ELSE \E u \in urls : store' = [store EXCEPT !.state = state, !.url = u]

on_load(at) == hears("loading", Url(at))
on_success(url) == hears("idle", {url})
on_error == hears("idle", Url(Here))

-----------------------------------------------------------------------------
(***************************************************************************)
(* go(): the part before the first await.                                  *)
(***************************************************************************)
go(p, kind, pop) ==
  LET any == kind = "popstate" IN
  /\ Len(navs) < MaxNavs
  /\ active' = active + 1
  /\ loading' = TRUE
  /\ navs' = Append(navs, [pc |-> "fetch", req |-> p, kind |-> kind, pop |-> pop,
                           fetch |-> Fetch(p, any), version |-> 0, added |-> FALSE,
                           found |-> IF Usable(p, any) THEN fetches[CachedFetch(p)].state ELSE "flying",
                           since |-> cleared, crossed |-> FALSE])
  /\ get(p, any, navs')
  /\ on_load(IF any THEN p ELSE Here)

\* A click on a link, or a call of navigate() for a page of this app.
link(p) ==
  /\ ~left
  /\ go(p, IF p = Here THEN "replace" ELSE "push", None)
  /\ UNCHANGED <<server, tab, screen, sheets, tags, left, cur, shown, ghosts>>

navigate(p, replace) ==
  /\ ~left
  /\ go(p, IF replace \/ p = Here THEN "replace" ELSE "push", None)
  /\ UNCHANGED <<server, tab, screen, sheets, tags, left, cur, shown, ghosts>>

\* The popstate handler, called with the entry the browser has moved to already.  Another entry
\* of the page on screen is the browser's; any other one is navigated to.
tagged(h, e) == IF h[e].id = None THEN [h EXCEPT ![e].id = n + 1] ELSE h

popstate(h, e) ==
  /\ entry' = e
  /\ IF h[e].page = shown
     THEN /\ history' = tagged(h, e)
          /\ n' = IF h[e].id = None THEN n + 1 ELSE n
          /\ cur' = history'[e].id
          /\ navs' = IF Running(active) /\ navs[active].kind = "popstate"
                     THEN [navs EXCEPT ![active].crossed = TRUE] ELSE navs
          /\ UNCHANGED <<loading, active, cache, fetches, store>>
     ELSE /\ history' = h
          /\ go(h[e].page, "popstate", h[e].id)
          /\ UNCHANGED <<n, cur>>

\* Back and forward, by any number of entries.
traverse(e) ==
  /\ ~left /\ e # entry
  /\ popstate(history, e)
  /\ UNCHANGED <<server, screen, sheets, tags, left, shown, ghosts>>

\* A link to a fragment of the current URL: the browser adds an entry and fires popstate.
fragment ==
  /\ ~left /\ n < MaxIds
  /\ popstate(Append(SubSeq(history, 1, entry), [page |-> Here, id |-> None]), entry + 1)
  /\ UNCHANGED <<server, screen, sheets, tags, left, shown, ghosts>>

-----------------------------------------------------------------------------
(***************************************************************************)
(* go() after its first await.  Every step looks whether it is still live. *)
(***************************************************************************)
\* The finally block: what was added to the document and not swapped in is removed.
finally(i) ==
  /\ tags' = IF navs[i].added THEN tags \ {i} ELSE tags
  /\ sheets' = IF navs[i].added THEN {s \in sheets : s.by # i} ELSE sheets

\* Mutant: the attribute stays.
stop_loading_keeps == loading' = loading

stop_loading == loading' = FALSE

At(i, pc) == ~left /\ Running(i) /\ navs[i].pc = pc
Response(i) == fetches[navs[i].fetch]
goes_to(i, pc) == navs' = [navs EXCEPT ![i].pc = pc]
ends(i) == navs' = [navs EXCEPT ![i] = Done]

\* A superseded navigation returns at the end of the await it is in.
superseded(i) ==
  /\ ~left /\ Running(i) /\ ~Live(i)
  /\ navs[i].pc = "fetch" => Response(i).state # "flying"
  /\ ends(i) /\ finally(i)
  /\ cache' = cache /\ fetches' = Collected(fetches, cache', navs')
  /\ UNCHANGED <<server, tab, screen, loading, left, cur, shown, active, store, ghosts>>

\* The catch block, for a fetch that failed or is not a page of this build, and for a module
\* that does not load.  The error event's default action, a full load, may be cancelled.
fails(i) ==
  /\ Live(i)
  /\ \/ At(i, "fetch") /\ Response(i).state # "flying"
     \/ At(i, "modules")
  /\ stop_loading
  /\ ends(i) /\ finally(i)
  /\ cache' = Without(navs[i].req) /\ fetches' = Collected(fetches, cache', navs')
  /\ on_error
  /\ \/ cancelled' = TRUE /\ left' = left
     \/ left' = TRUE /\ cancelled' = cancelled
  /\ UNCHANGED <<server, tab, screen, cur, shown, active, cleared, slipped>>

\* The document is a page of this build: its store tags go to the end of the body.
fetched(i) ==
  /\ At(i, "fetch") /\ Live(i)
  /\ Response(i).state \notin {"flying", "failed"}
  /\ tags' = tags \cup {i}
  /\ navs' = [navs EXCEPT ![i].pc = "modules", ![i].added = TRUE,
                          ![i].version = Response(i).version]
  /\ cache' = cache /\ fetches' = Collected(fetches, cache', navs')
  /\ UNCHANGED <<server, tab, screen, sheets, loading, left, cur, shown, active, store, ghosts>>

\* planHead puts its stylesheet in the head, applied to nothing, unless the page on screen has
\* the same one.
planHead(i) ==
  IF \E s \in sheets : s.on /\ s.page = Final(i) THEN sheets
  ELSE sheets \cup {[page |-> Final(i), by |-> i, on |-> FALSE]}

\* Its modules are loaded.
modules_loaded(i) ==
  /\ At(i, "modules") /\ Live(i)
  /\ sheets' = planHead(i)
  /\ goes_to(i, "sheets")
  /\ UNCHANGED <<server, tab, screen, tags, loading, left, cur, shown, active, cache, fetches,
                 store, ghosts>>

\* Mutant: what was swapped in stays in `added`.
swapped_keeps_added(i) == [navs[i] EXCEPT !.pc = "scripts"]

swapped(i) == [navs[i] EXCEPT !.pc = "scripts", !.added = FALSE]

\* Mutant: the id of the entry that was gone back to is not taken over.
shown_id_stays(i) ==
  IF navs[i].kind = "push" THEN n + 1 ELSE cur

shown_id(i) ==
  CASE navs[i].kind = "replace" -> cur
    [] navs[i].kind = "popstate" /\ navs[i].pop # None -> navs[i].pop
    [] OTHER -> n + 1

\* The entry the page is shown in: its own for back/forward (which is given an id if it has none
\* yet), the current one, or a new one.
tag_entry(i) ==
  LET untagged == navs[i].kind = "popstate" /\ navs[i].pop = None
      page == [page |-> Final(i), id |-> IF navs[i].kind = "push" THEN n + 1 ELSE cur]
  IN /\ n' = IF untagged \/ navs[i].kind = "push" THEN n + 1 ELSE n
     /\ entry' = IF navs[i].kind = "push" THEN entry + 1 ELSE entry
     /\ history' = CASE navs[i].kind = "push" -> Append(SubSeq(history, 1, entry), page)
                     [] navs[i].kind = "replace" -> [history EXCEPT ![entry] = page]
                     [] untagged -> [history EXCEPT ![entry].id = n + 1]
                     [] OTHER -> history
     /\ cur' = shown_id(i)

\* applyHead removes the served elements that are not wanted; those of a navigation that has not
\* swapped are not served yet.
applyHead(i, head) == {s \in head : s.on => s.page = Final(i)}

\* swapBody replaces the body, with the tail of store tags, whoever put them there.
swapBody(i) ==
  /\ tags' = {}
  /\ screen' = [page |-> Final(i), version |-> navs[i].version, by |-> i, since |-> navs[i].since]

\* The new stylesheet is switched on, head and body are swapped; then the history.
swap(i) ==
  /\ sheets' = applyHead(i, {IF s.by = i THEN [s EXCEPT !.on = TRUE] ELSE s : s \in sheets})
  /\ swapBody(i)
  /\ navs' = [navs EXCEPT ![i] = swapped(i)]
  /\ tag_entry(i)
  /\ shown' = history'[entry'].page
  /\ UNCHANGED <<server, loading, left, active, cache, fetches, store, ghosts>>

\* The stylesheets are loaded and the images had their time: a swap in place (no transitions, or
\* startViewTransition throws), or a transition, which calls the update back later.
swap_now(i) ==
  /\ At(i, "sheets") /\ Live(i)
  /\ swap(i)

start_transition(i) ==
  /\ At(i, "sheets") /\ Live(i)
  /\ goes_to(i, "transition")
  /\ UNCHANGED <<server, tab, dom, cur, shown, active, cache, fetches, store, ghosts>>

\* Mutant: the update does not look whether it is live.
update_any(i) == At(i, "transition") /\ swap(i)

update_callback(i) ==
  /\ At(i, "transition") /\ Live(i)
  /\ swap(i)

\* Its scripts have run: success, or the error event of a page that was swapped in all the same.
success(i) ==
  /\ At(i, "scripts") /\ Live(i)
  /\ stop_loading
  /\ on_success(Final(i))
  /\ slipped' = navs[i].crossed /\ cancelled' = FALSE
  /\ ends(i) /\ finally(i)
  /\ UNCHANGED <<server, tab, screen, left, cur, shown, active, cache, fetches, cleared>>
-----------------------------------------------------------------------------
User == \/ \E p \in Pages : prefetch(p) \/ link(p) \/ \E b \in BOOLEAN : navigate(p, b)
        \/ \E e \in DOMAIN history : traverse(e)
        \/ fragment

Store == evaluate \/ first_read

Network == \/ \E f \in DOMAIN fetches : answered(f) \/ network_fails(f) \/ expire(f)
           \/ mutate \/ \E v \in unanswered : clearCache(v)

Navigating(i) == \/ superseded(i) \/ fails(i) \/ fetched(i) \/ modules_loaded(i) \/ swap_now(i)
                 \/ start_transition(i) \/ update_callback(i) \/ success(i)

Next == User \/ Network \/ Store \/ \E i \in DOMAIN navs : Navigating(i)

Spec == Init /\ [][Next]_vars
-----------------------------------------------------------------------------
NavState == [pc : Steps, req : Pages, kind : Kinds, pop : Nat \cup {None}, fetch : Nat,
             version : 0..MaxVersion, added : BOOLEAN, found : {"flying", "kept", "stale"},
             since : 0..MaxVersion, crossed : BOOLEAN]
FetchState == [page : Pages, state : {"flying", "kept", "stale", "dropped", "failed"},
               version : 0..MaxVersion]

TypeOK ==
  /\ version \in 0..MaxVersion /\ unanswered \subseteq 1..MaxVersion /\ cleared \in 0..MaxVersion
  /\ history \in Seq([page : Pages, id : Nat \cup {None}]) /\ entry \in DOMAIN history
  /\ n \in Nat /\ cur \in Nat /\ shown \in Pages
  /\ screen \in [page : Pages, version : 0..MaxVersion, by : Nat, since : 0..MaxVersion]
  /\ sheets \subseteq [page : Pages, by : Nat, on : BOOLEAN] /\ tags \subseteq Nat
  /\ loading \in BOOLEAN /\ left \in BOOLEAN
  /\ navs \in Seq(NavState \cup {Done}) /\ active = Len(navs)
  /\ fetches \in Seq(FetchState \cup {Gone})
  /\ cache \in Seq([page : Pages, fetch : DOMAIN fetches]) /\ Len(cache) <= CACHE_SIZE
  /\ store \in [bound : Nat \cup {None}, state : {"idle", "loading"}, url : Pages \cup {None}]
  /\ slipped \in BOOLEAN /\ cancelled \in BOOLEAN

Idle == ~left /\ ~loading

(***************************************************************************)
(* The one rule: when no navigation is loading, the page on screen is what *)
(* a full load of the address shows, unless the application cancelled the  *)
(* full load of a navigation that failed.                                  *)
(***************************************************************************)
ShowsAddress == (Idle /\ ~cancelled) => screen.page = FullLoad(Here)

(***************************************************************************)
(* Outside the one race that breaks the rule (the user returns to the page *)
(* on screen while a back/forward navigation is pending): the page on      *)
(* screen is that of the address, the scroll positions are kept under the  *)
(* id of the current entry, and the store, whenever it was made, names the *)
(* page on screen.                                                         *)
(***************************************************************************)
SettledOnEntry ==
  (Idle /\ ~cancelled /\ ~slipped) => /\ screen.page = FullLoad(Here)
                                      /\ history[entry].id = cur
                                      /\ store.url \in {None, screen.page}

(***************************************************************************)
(* data-brust-loading is set exactly while the newest navigation is        *)
(* running, however many were superseded and in whatever order they end.   *)
(* The store says loading exactly while that navigation began after the    *)
(* store's module was evaluated: one already under way then shows idle.    *)
(***************************************************************************)
Heard(i) == store.bound # None /\ i > store.bound

LoadingShown ==
  ~left => /\ loading = Running(active)
           /\ store.state = "loading" <=> Running(active) /\ Heard(active)

(***************************************************************************)
(* The page on screen has its stylesheet and no other page's, and what a   *)
(* navigation added and did not swap in goes when it ends.                 *)
(***************************************************************************)
StyledPage ==
  ~left => /\ \E s \in sheets : s.on /\ s.page = screen.page
           /\ \A s \in sheets : IF s.on THEN s.page = screen.page ELSE Running(s.by)
           /\ \A i \in tags : Running(i)

(***************************************************************************)
(* A page navigated to after the cache was cleared for a mutation is never *)
(* one from before it, whatever fetches were in flight at the clear.       *)
(***************************************************************************)
ReadsItsWrites == screen.version >= screen.since

(***************************************************************************)
(* A page that is not for keeping is never shown from memory: a navigation *)
(* to it uses a request that was in flight when it began, or its own.      *)
(***************************************************************************)
NoStoreRefetched ==
  \A i \in DOMAIN navs : (Running(i) /\ Final(i) \in NoStore) => navs[i].found = "flying"

(***************************************************************************)
(* A superseded navigation does nothing more: only the newest one changes  *)
(* the page on screen or ends the loading state.                           *)
(***************************************************************************)
NewestWins ==
  [][/\ screen' # screen => screen'.by = active
     /\ (loading /\ ~loading') => navs'[active].pc = "done"]_vars
=============================================================================
