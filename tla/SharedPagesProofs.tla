------------------------- MODULE SharedPagesProofs -------------------------
(***************************************************************************)
(* Proofs about SharedPages, for any processes, pages, calls and bounds.   *)
(*                                                                         *)
(* StampInv says what a stamp vouches for, ReplayInv what a replay has     *)
(* achieved in its process, StoreInv what the store still holds while      *)
(* Redis fails no call.  What depends on a floor is proved while the floor *)
(* drops no name, FloorHolds: beyond FLOOR_NAMES names it may forget the   *)
(* only name that rejects an old page of the store.                        *)
(***************************************************************************)
EXTENDS SharedPages, L2FloorProofs, FiniteSetTheorems, NaturalsInduction, SequenceTheorems,
        WellFoundedInduction, TLAPS

-----------------------------------------------------------------------------
(* The invariants                                                          *)

(* What is proved of the floor holds while it never drops a name.          *)
AllNames == UNION {FloorNames(c) : c \in Calls}
FloorHolds == IsFiniteSet(AllNames) /\ Cardinality(AllNames) <= FLOOR_NAMES

(* The calls of cache.invalidate a floor knows of: it has a name of the    *)
(* call with the call's number, or a later one.                            *)
Above(f, n, s) == \E k \in DOMAIN f : f[k].name = n /\ f[k].seq >= s

(* A floor has a name once.                                                *)
FloorOnce == \A p \in Procs : Once(floor[p])

Known(p, i) ==
  FloorHolds /\ adapter =>
      \E s \in DOMAIN log :
          log[s] = i /\ \A n \in FloorNames(task[i].call) : Above(floor[p], n, s)

(* The halves a replay has still to make, and whose they are.              *)
CallHalves == {"key", "tags", "jobs", "path"}

HalvesFit ==
  /\ \A i \in DOMAIN task : /\ task[i].halves \in Seq(CallHalves)
                            /\ task[i].step \in {"local", "replay"} => task[i].halves # <<>>
  /\ \A p \in Procs : /\ remote[p].halves = <<>> => remote[p].id = 0
                      /\ remote[p].id # 0 => /\ remote[p].halves \in Seq(CallHalves)
                                             /\ remote[p].id \in DOMAIN task
                      /\ remote[p].id = 0 => remote[p].halves \in Seq({"clear_l1", "clear_jobs"})

(* No call of cache.invalidate was made after data it does not know of,    *)
(* and each has one number.                                                *)
CallsFit ==
  \A i \in DOMAIN task :
     /\ task[i].data <= data
     /\ task[i].seq # None => task[i].seq \in DOMAIN log /\ log[task[i].seq] = i
     /\ ~adapter => task[i].step \in {"local", "done"}

(* The loader of the request has read the application's data.              *)
Loaded(r) == req[r].step \in {"jobs", "call", "apply", "insert", "set"}

(* A page of the store, or read from it, is as new as every call whose     *)
(* number its stamp has reached; so is what a request has loaded.          *)
Stamped(e) ==
  /\ e.stamp \in 0..Len(log)
  /\ \A n \in 1..e.stamp : e.loader >= task[log[n]].data

StampsMatch ==
  /\ \A e \in store : Stamped(e)
  /\ \A r \in Requests : \A e \in req[r].found : Stamped(e) /\ e.page = req[r].page
  /\ \A r \in Requests : Loaded(r) => \A n \in 1..req[r].stamp : req[r].loader >= task[log[n]].data
  /\ \A r \in Requests : req[r].step = "set" => req[r].stamp # None
  /\ ~adapter => /\ store = {}
                 /\ \A r \in Requests : /\ req[r].step \notin {"get", "seq", "reply"}
                                         /\ req[r].stamp = None

(* Of page g nothing older than version d is in the L1 of p, nor in a      *)
(* request whose insert the L1 would still take.                           *)
FreshPage(p, g, d) ==
  /\ FloorHolds => \A e \in l1[p] : e.page = g => e.loader >= d
  /\ \A r \in Requests :
        r[1] = p /\ req[r].page = g /\ l1_accepts(p, g, req[r].since) =>
           /\ Loaded(r) => req[r].loader >= d
           /\ req[r].step \in {"apply", "insert"} /\ ~req[r].hit /\ g \in planned => req[r].job >= d

FreshJob(p, d) ==
  /\ job[p] # None => job[p] >= d
  /\ \A r \in Requests :
        r[1] = p /\ jobs_accept(p, req[r].since) /\ req[r].step = "apply" => req[r].job >= d

(* What a replay of call i by p has achieved while the halves H are left.  *)
Purged(p, i, H) ==
  LET c == task[i].call
      d == task[i].data
  IN  /\ \A g \in Pages :
            \/ "tags" \notin H /\ CoversTags(c, g)
            \/ "path" \notin H /\ CoversPath(c, g)
            => FreshPage(p, g, d)
      /\ \/ "key" \notin H /\ c.key
         \/ "jobs" \notin H /\ c.prefix = Wild /\ c.tags \cap JobTags # {}
         => FreshJob(p, d)

Left(s) == {s[k] : k \in DOMAIN s}

ReplaysFit ==
  \A p \in Procs :
     /\ \A i \in applied[p] : Known(p, i) /\ Purged(p, i, {})
     /\ remote[p].id # 0 => /\ Known(p, remote[p].id)
                            /\ Purged(p, remote[p].id, Left(remote[p].halves))
     /\ \A i \in DOMAIN task :
           /\ task[i].proc = p
           /\ \/ task[i].step = "replay" /\ task[i].seq # None
              \/ task[i].step = "local" /\ ~adapter
           => Known(p, i) /\ Purged(p, i, Left(task[i].halves))

(* While Redis fails no call: every page of the store is filed under all   *)
(* its names, or another call is about to unlink it; and what covers a     *)
(* page whose markers are set is never stored again from older data.       *)
Doomed(g) == \E j \in DOMAIN task : g \in task[j].members

Swept(i) == adapter /\ task[i].step \in {"unlink", "publish", "published", "replay", "done"}

StoreFits ==
  faults = 0 =>
     /\ \A e \in store : Doomed(e.page) \/ \A n \in PageNames(e.page) : <<n, e.page>> \in index
     /\ \A i \in DOMAIN task :
           Swept(i) =>
              /\ \A n \in CallNames(task[i].call), r \in Requests :
                    Loaded(r) /\ marks[n] <= req[r].stamp => req[r].loader >= task[i].data
              /\ \A e \in store :
                    CoversPage(task[i].call, e.page) => e.loader >= task[i].data \/ Doomed(e.page)

(* ... and only a call that is about to unlink remembers members.          *)
MembersFit == faults = 0 => \A i \in DOMAIN task : task[i].members # {} => task[i].step = "unlink"

-----------------------------------------------------------------------------
(* Floors                                                                  *)

(* Floor::raise is a recursion over the names: it has a solution.          *)
Body(F, f, S, s) ==
  IF S = {} THEN f
  ELSE raise_name(F[S \ {CHOOSE x \in S : TRUE}], CHOOSE x \in S : TRUE, s)

Solves(F, D, f, s) == F = [S \in D |-> Body(F, f, S, s)]

(* FoldSet over a finite set of names is well defined: one function solves *)
(* its recursion.                                                          *)
LEMMA RaiseSolved ==
    ASSUME NEW U, IsFiniteSet(U), NEW f, NEW s
    PROVE  \E F : Solves(F, SUBSET U, f, s)
<1>. DEFINE D(k) == {S \in SUBSET U : Cardinality(S) <= k}
            T == {k \in Nat : \E F : Solves(F, D(k), f, s)}
<1>1. \A S \in SUBSET U : /\ IsFiniteSet(S) /\ Cardinality(S) \in Nat
                          /\ Cardinality(S) <= Cardinality(U)
                          /\ Cardinality(S) = 0 <=> S = {}
  BY FS_Subset, FS_CardinalityType, FS_EmptySet
<1>2. \A S \in SUBSET U : S # {} => LET x == CHOOSE x \in S : TRUE
                                    IN  /\ x \in S /\ S \ {x} \in SUBSET U
                                        /\ Cardinality(S \ {x}) = Cardinality(S) - 1
  BY <1>1, FS_RemoveElement
<1>3. 0 \in T
  <2>. DEFINE F == [S \in D(0) |-> f]
  <2>1. \A S \in D(0) : S = {}
    BY <1>1
  <2>2. Solves(F, D(0), f, s)
    BY <2>1 DEF Solves, Body
  <2>. QED  BY <2>2
<1>4. ASSUME NEW k \in Nat, k \in T PROVE k + 1 \in T
  <2>1. PICK G : Solves(G, D(k), f, s)
    BY <1>4
  <2>. DEFINE F == [S \in D(k + 1) |-> Body(G, f, S, s)]
  <2>2. \A S \in D(k) : S \in D(k + 1) /\ F[S] = G[S]
    <3>1. \A S \in D(k) : S \in D(k + 1)
      BY <1>1
    <3>2. \A S \in D(k) : G[S] = Body(G, f, S, s)
      BY <2>1 DEF Solves
    <3>. QED  BY <3>1, <3>2
  <2>3. ASSUME NEW S \in D(k + 1) PROVE Body(G, f, S, s) = Body(F, f, S, s)
    <3>1. CASE S = {}
      BY <3>1 DEF Body
    <3>2. CASE S # {}
      <4>. DEFINE x == CHOOSE x \in S : TRUE
      <4>1. S \ {x} \in D(k)
        BY <1>1, <1>2, <3>2
      <4>2. F[S \ {x}] = G[S \ {x}]
        BY <2>2, <4>1
      <4>. HIDE DEF F
      <4>. QED  BY <3>2, <4>2 DEF Body
    <3>. QED  BY <3>1, <3>2
  <2>4. Solves(F, D(k + 1), f, s)
    <3>1. F = [S \in D(k + 1) |-> Body(F, f, S, s)]
      BY <2>3
    <3>. QED  BY <3>1 DEF Solves
  <2>. HIDE DEF F
  <2>5. \E H : Solves(H, D(k + 1), f, s)
    BY <2>4
  <2>. HIDE DEF D
  <2>. QED  BY <2>5
<1>5. Cardinality(U) \in T
  <2>. HIDE DEF T
  <2>1. Nat \subseteq T
    <3>1. T = T
      OBVIOUS
    <3>. QED  BY <1>3, <1>4, NatSet
  <2>. QED  BY <2>1, <1>1
<1>6. D(Cardinality(U)) = SUBSET U
  BY <1>1
<1>. QED  BY <1>5, <1>6

(* What one name after the other keeps, the raise keeps: W relates the     *)
(* names raised so far to the floor.                                       *)
LEMMA RaiseAll ==
    ASSUME NEW U, IsFiniteSet(U), NEW f, NEW s, NEW W, <<{}, f>> \in W,
           \A S \in SUBSET U : \A g : \A n \in U \ S :
              <<S, g>> \in W => <<S \cup {n}, raise_name(g, n, s)>> \in W,
           NEW F, Solves(F, SUBSET U, f, s)
    PROVE  <<U, F[U]>> \in W
<1>. DEFINE D(k) == {S \in SUBSET U : Cardinality(S) <= k}
            T == {k \in Nat : \A S \in D(k) : <<S, F[S]>> \in W}
<1>1. \A S \in SUBSET U : /\ IsFiniteSet(S) /\ Cardinality(S) \in Nat
                          /\ Cardinality(S) <= Cardinality(U)
                          /\ Cardinality(S) = 0 <=> S = {}
  BY FS_Subset, FS_CardinalityType, FS_EmptySet
<1>2. \A S \in SUBSET U : S # {} => LET x == CHOOSE x \in S : TRUE
                                    IN  /\ x \in S /\ S \ {x} \in SUBSET U
                                        /\ Cardinality(S \ {x}) = Cardinality(S) - 1
  BY <1>1, FS_RemoveElement
<1>3. \A S \in SUBSET U : F[S] = Body(F, f, S, s)
  BY DEF Solves
<1>4. 0 \in T
  <2>1. \A S \in D(0) : S = {}
    BY <1>1
  <2>2. F[{}] = f
    BY <1>3 DEF Body
  <2>. QED  BY <2>1, <2>2
<1>5. ASSUME NEW k \in Nat, k \in T PROVE k + 1 \in T
  <2>1. ASSUME NEW S \in D(k + 1) PROVE <<S, F[S]>> \in W
    <3>1. CASE S = {}
      BY <1>3, <3>1 DEF Body
    <3>2. CASE S # {}
      <4>1. PICK x \in S : x = CHOOSE y \in S : TRUE
        BY <3>2
      <4>2. S \ {x} \in D(k)
        BY <1>1, <1>2, <3>2, <4>1
      <4>3. <<S \ {x}, F[S \ {x}]>> \in W
        BY <1>5, <4>2
      <4>4. F[S] = raise_name(F[S \ {x}], x, s)
        BY <1>3, <3>2, <4>1 DEF Body
      <4>5. <<(S \ {x}) \cup {x}, raise_name(F[S \ {x}], x, s)>> \in W
        BY <4>2, <4>3
      <4>6. (S \ {x}) \cup {x} = S
        OBVIOUS
      <4>. QED  BY <4>4, <4>5, <4>6
    <3>. QED  BY <3>1, <3>2
  <2>. HIDE DEF D
  <2>. QED  BY <2>1
<1>6. Cardinality(U) \in T
  <2>. HIDE DEF T
  <2>1. Nat \subseteq T
    BY <1>4, <1>5, NatSet
  <2>. QED  BY <2>1, <1>1
<1>. QED  BY <1>1, <1>6

(* Floor::raise takes the names one after the other, in some order.        *)
LEMMA RaiseFolds ==
    ASSUME NEW f, NEW c, NEW s, NEW W, IsFiniteSet(FloorNames(c)), <<{}, f>> \in W,
           \A S \in SUBSET FloorNames(c) : \A g : \A n \in FloorNames(c) \ S :
              <<S, g>> \in W => <<S \cup {n}, raise_name(g, n, s)>> \in W
    PROVE  <<FloorNames(c), raise(f, c, s)>> \in W
<1>. DEFINE U == FloorNames(c)
            G == CHOOSE G : Solves(G, SUBSET U, f, s)
<1>1. raise(f, c, s) = G[U]
  BY DEF raise, FoldSet, MapThenFoldSet, Solves, Body
<1>2. Solves(G, SUBSET U, f, s)
  BY RaiseSolved
<1>. HIDE DEF G
<1>. QED  BY <1>1, <1>2, RaiseAll

(* A call has finitely many floor names.                                   *)
LEMMA NamesFinite ==
    ASSUME NEW c \in Calls
    PROVE  IsFiniteSet(FloorNames(c))
<1>1. IsFiniteSet({Tag(t) : t \in c.tags})
  <2>. DEFINE f == [t \in c.tags |-> Tag(t)]
  <2>1. IsFiniteSet(DOMAIN f)
    BY PagesAssumption
  <2>2. IsFiniteSet({f[t] : t \in DOMAIN f})
    <3>. HIDE DEF f
    <3>. QED  BY <2>1, Image
  <2>3. {f[t] : t \in DOMAIN f} = {Tag(t) : t \in c.tags}
    OBVIOUS
  <2>. QED  BY <2>2, <2>3
<1>2. IsFiniteSet({}) /\ IsFiniteSet({Path(c.path)}) /\ IsFiniteSet({Prefix(c.prefix)})
  BY FS_EmptySet, FS_Singleton
<1>3. IsFiniteSet(IF c.path = Wild THEN {} ELSE {Path(c.path)})
  BY <1>2
<1>4. IsFiniteSet(IF PrefixAlone(c) THEN {Prefix(c.prefix)} ELSE {})
  BY <1>2
<1>5. IsFiniteSet(CallNames(c))
  BY <1>1, <1>3, <1>4, FS_Union DEF CallNames
<1>. DEFINE h == [n \in CallNames(c) |-> Scoped(c, n)]
<1>6. IsFiniteSet(DOMAIN h)
  BY <1>5
<1>7. IsFiniteSet({h[n] : n \in DOMAIN h})
  <2>. HIDE DEF h
  <2>. QED  BY <1>6, Image
<1>8. {h[n] : n \in DOMAIN h} = FloorNames(c)
  BY DEF FloorNames
<1>. QED  BY <1>7, <1>8

(* raise_name keeps a name once; while the floor holds, what was known     *)
(* stays known and the raised name is at its number or above.              *)
LEMMA RaiseName ==
    ASSUME NEW f \in Floors(AllNames), Once(f), NEW n \in AllNames, NEW s \in Nat
    PROVE  /\ raise_name(f, n, s) \in Floors(AllNames)
           /\ Once(raise_name(f, n, s))
           /\ FloorHolds => /\ Above(raise_name(f, n, s), n, s)
                            /\ \A m : \A x \in Nat :
                                 Above(f, m, x) => Above(raise_name(f, n, s), m, x)
<1>. DEFINE r == raise_name(f, n, s)
<1>1. /\ r \in Floors(AllNames) /\ Once(r) /\ Len(r) \in Nat \ {0}
      /\ r[Len(r)].name = n /\ r[Len(r)].seq >= s
      /\ \A i \in 1 .. Len(r) - 1 : r[i].name # n
      /\ \A a \in DOMAIN f :
             \/ f[a].name = n /\ r[Len(r)].seq >= f[a].seq
             \/ \E i \in 1 .. Len(r) - 1 : r[i] = f[a]
             \/ /\ f[a].name # n /\ Len(r) >= FLOOR_NAMES
                /\ \A i \in 1 .. Len(r) - 1 : \E b \in DOMAIN f : a < b /\ r[i] = f[b]
  BY RaiseOne
<1>. HIDE DEF r
<1>2. /\ DOMAIN r = 1 .. Len(r) /\ Len(r) \in DOMAIN r
      /\ \A i \in DOMAIN r : r[i].name \in AllNames /\ r[i].seq \in Nat
      /\ \A i \in DOMAIN f : f[i].name \in AllNames /\ f[i].seq \in Nat
      /\ DOMAIN f = 1 .. Len(f) /\ Len(f) \in Nat
  BY <1>1, FloorEntry
<1>3. ASSUME FloorHolds, NEW a \in DOMAIN f, f[a].name # n, Len(r) >= FLOOR_NAMES,
             \A i \in 1 .. Len(r) - 1 : \E b \in DOMAIN f : a < b /\ r[i] = f[b]
      PROVE  FALSE
  <2>. DEFINE h == [i \in 0 .. Len(r) |-> IF i = 0 THEN f[a].name ELSE r[i].name]
  <2>1. h \in [0 .. Len(r) -> AllNames]
    BY <1>1, <1>2
  <2>2. \A i \in DOMAIN r : r[i].name # f[a].name
    <3>. SUFFICES ASSUME NEW i \in DOMAIN r, i # Len(r) PROVE r[i].name # f[a].name
      BY <1>1, <1>3
    <3>1. i \in 1 .. Len(r) - 1
      BY <1>1, <1>2
    <3>2. PICK b \in DOMAIN f : a < b /\ r[i] = f[b]
      BY <1>3, <3>1
    <3>. QED  BY <1>2, <3>2 DEF Once
  <2>3. \A i, j \in 0 .. Len(r) : h[i] = h[j] => i = j
    BY <1>1, <1>2, <2>2 DEF Once
  <2>. HIDE DEF h
  <2>4. h \in Injection(0 .. Len(r), AllNames)
    BY <2>1, <2>3 DEF Injection, IsInjective
  <2>5. Cardinality(0 .. Len(r)) <= Cardinality(AllNames)
    BY <2>4, <1>3, FS_Injection DEF FloorHolds
  <2>6. Cardinality(0 .. Len(r)) = Len(r) + 1
    BY <1>1, FS_Interval
  <2>7. Cardinality(AllNames) \in Nat
    BY <1>3, FS_CardinalityType DEF FloorHolds
  <2>. QED  BY <1>1, <1>3, <2>5, <2>6, <2>7, FloorAssumption DEF FloorHolds
<1>4. Above(r, n, s)
  BY <1>1, <1>2 DEF Above
<1>5. ASSUME FloorHolds, NEW m, NEW x \in Nat, Above(f, m, x) PROVE Above(r, m, x)
  <2>1. PICK a \in DOMAIN f : f[a].name = m /\ f[a].seq >= x
    BY <1>5 DEF Above
  <2>2. CASE f[a].name = n /\ r[Len(r)].seq >= f[a].seq
    BY <1>1, <1>2, <2>1, <2>2 DEF Above
  <2>3. CASE \E i \in 1 .. Len(r) - 1 : r[i] = f[a]
    BY <1>1, <1>2, <2>1, <2>3 DEF Above
  <2>. QED  BY <1>1, <1>3, <1>5, <2>2, <2>3
<1>. QED  BY <1>1, <1>4, <1>5 DEF r

(* Floor::raise: the names of the call are at its number or above.         *)
LEMMA Raise ==
    ASSUME NEW f \in Floors(AllNames), Once(f), NEW c \in Calls, NEW s \in Nat
    PROVE  /\ raise(f, c, s) \in Floors(AllNames)
           /\ Once(raise(f, c, s))
           /\ FloorHolds => /\ \A n \in FloorNames(c) : Above(raise(f, c, s), n, s)
                            /\ \A m : \A x \in Nat :
                                 Above(f, m, x) => Above(raise(f, c, s), m, x)
<1>. DEFINE U == FloorNames(c)
            W == {w \in (SUBSET U) \X Floors(AllNames) :
                    /\ Once(w[2])
                    /\ FloorHolds => /\ \A n \in w[1] : Above(w[2], n, s)
                                     /\ \A m \in AllNames : \A x \in Nat : Above(f, m, x) => Above(w[2], m, x)}
<1>1. U \subseteq AllNames
  BY DEF AllNames
<1>2. IsFiniteSet(U)
  BY NamesFinite
<1>3. <<{}, f>> \in W
  OBVIOUS
<1>4. ASSUME NEW S \in SUBSET U, NEW g, NEW n \in U \ S, <<S, g>> \in W
      PROVE  <<S \cup {n}, raise_name(g, n, s)>> \in W
  <2>1. /\ g \in Floors(AllNames) /\ Once(g)
        /\ FloorHolds => /\ \A k \in S : Above(g, k, s)
                         /\ \A m \in AllNames : \A x \in Nat : Above(f, m, x) => Above(g, m, x)
    BY <1>4
  <2>2. /\ raise_name(g, n, s) \in Floors(AllNames)
        /\ Once(raise_name(g, n, s))
        /\ FloorHolds => /\ Above(raise_name(g, n, s), n, s)
                         /\ \A m : \A x \in Nat :
                              Above(g, m, x) => Above(raise_name(g, n, s), m, x)
    BY <1>1, <2>1, RaiseName
  <2>. QED  BY <1>1, <2>1, <2>2
<1>. HIDE DEF W
<1>5. <<U, raise(f, c, s)>> \in W
  BY <1>2, <1>3, <1>4, RaiseFolds
<1>6. \A m : \A x : Above(f, m, x) => m \in AllNames
  BY FloorEntry DEF Above
<1>. QED  BY <1>5, <1>6 DEF W

-----------------------------------------------------------------------------
(* The halves of a call *)

(* What is left of two sequences of halves.                                *)
LEMMA LeftConcat ==
    ASSUME NEW S, NEW s \in Seq(S), NEW t \in Seq(S)
    PROVE  s \o t \in Seq(S) /\ Left(s \o t) = Left(s) \cup Left(t)
<1>1. /\ s \o t \in Seq(S) /\ Len(s \o t) = Len(s) + Len(t)
      /\ Len(s) \in Nat /\ Len(t) \in Nat
      /\ \A i \in 1..(Len(s) + Len(t)) :
             (s \o t)[i] = IF i <= Len(s) THEN s[i] ELSE t[i - Len(s)]
  BY ConcatProperties
<1>2. /\ DOMAIN s = 1..Len(s) /\ DOMAIN t = 1..Len(t)
      /\ DOMAIN (s \o t) = 1..(Len(s) + Len(t))
  BY <1>1
<1>3. \A x \in Left(s) : x \in Left(s \o t)
  BY <1>1, <1>2 DEF Left
<1>4. \A x \in Left(t) : x \in Left(s \o t)
  <2>. SUFFICES ASSUME NEW k \in DOMAIN t PROVE t[k] \in Left(s \o t)
    BY DEF Left
  <2>1. k + Len(s) \in DOMAIN (s \o t) /\ (s \o t)[k + Len(s)] = t[k]
    BY <1>1, <1>2
  <2>. QED  BY <2>1 DEF Left
<1>5. \A x \in Left(s \o t) : x \in Left(s) \cup Left(t)
  <2>. SUFFICES ASSUME NEW k \in DOMAIN (s \o t) PROVE (s \o t)[k] \in Left(s) \cup Left(t)
    BY DEF Left
  <2>1. CASE k <= Len(s)
    BY <1>1, <1>2, <2>1 DEF Left
  <2>2. CASE ~(k <= Len(s))
    <3>1. k - Len(s) \in DOMAIN t /\ (s \o t)[k] = t[k - Len(s)]
      BY <1>1, <1>2, <2>2
    <3>. QED  BY <3>1 DEF Left
  <2>. QED  BY <2>1, <2>2
<1>. QED  BY <1>1, <1>3, <1>4, <1>5

(* A half occurs in a call's halves when its condition holds.              *)
LEMMA HalfLeft ==
    ASSUME NEW S, NEW h \in S, NEW b
    PROVE  Half(b, h) \in Seq(S) /\ (b => h \in Left(Half(b, h)))
<1>1. <<h>> \in Seq(S) /\ <<>> \in Seq(S) /\ 1 \in DOMAIN <<h>> /\ <<h>>[1] = h
  OBVIOUS
<1>. QED  BY <1>1 DEF Half, Left

(* Core::invalidate makes the calls that the arguments ask for.            *)
LEMMA HalvesOf ==
    ASSUME NEW c \in Calls
    PROVE  /\ Halves(c) \in Seq(CallHalves) /\ Halves(c) # <<>>
           /\ c.key => "key" \in Left(Halves(c))
           /\ c.tags # {} => "tags" \in Left(Halves(c))
           /\ c.tags # {} /\ c.prefix = Wild => "jobs" \in Left(Halves(c))
           /\ c.path # Wild \/ PrefixAlone(c) => "path" \in Left(Halves(c))
<1>. DEFINE k == Half(c.key, "key")
            t == Half(c.tags # {}, "tags")
            j == Half(c.tags # {} /\ c.prefix = Wild, "jobs")
            a == Half(c.path # Wild \/ PrefixAlone(c), "path")
<1>1. k \in Seq(CallHalves) /\ (c.key => "key" \in Left(k))
  BY HalfLeft DEF CallHalves
<1>2. t \in Seq(CallHalves) /\ (c.tags # {} => "tags" \in Left(t))
  BY HalfLeft DEF CallHalves
<1>3. j \in Seq(CallHalves) /\ (c.tags # {} /\ c.prefix = Wild => "jobs" \in Left(j))
  BY HalfLeft DEF CallHalves
<1>4. a \in Seq(CallHalves) /\ (c.path # Wild \/ PrefixAlone(c) => "path" \in Left(a))
  BY HalfLeft DEF CallHalves
<1>5. Halves(c) = k \o t \o j \o a /\ Halves(c) # <<>>
  BY PagesAssumption DEF Halves
<1>. HIDE DEF k, t, j, a
<1>. DEFINE kt == k \o t
            ktj == kt \o j
<1>6. kt \in Seq(CallHalves) /\ Left(kt) = Left(k) \cup Left(t)
  BY <1>1, <1>2, LeftConcat
<1>. HIDE DEF kt
<1>7. ktj \in Seq(CallHalves) /\ Left(ktj) = Left(kt) \cup Left(j)
  BY <1>3, <1>6, LeftConcat
<1>. HIDE DEF ktj
<1>8. ktj \o a \in Seq(CallHalves) /\ Left(ktj \o a) = Left(ktj) \cup Left(a)
  BY <1>4, <1>7, LeftConcat
<1>9. Halves(c) = ktj \o a
  BY <1>5 DEF kt, ktj
<1>. QED  BY <1>1, <1>2, <1>3, <1>4, <1>5, <1>6, <1>7, <1>8, <1>9

(* The next half and the ones after it.                                    *)
LEMMA NextHalf ==
    ASSUME NEW S, NEW s \in Seq(S), s # <<>>
    PROVE  /\ Head(s) \in S /\ Tail(s) \in Seq(S)
           /\ \A h \in Left(s) : h = Head(s) \/ h \in Left(Tail(s))
           /\ Tail(s) = <<>> => Left(Tail(s)) = {}
<1>1. /\ Len(s) \in Nat /\ Len(s) > 0 /\ DOMAIN s = 1..Len(s) /\ Head(s) = s[1] /\ 1 \in DOMAIN s
      /\ Tail(s) \in Seq(S) /\ DOMAIN Tail(s) = 1..(Len(s) - 1)
      /\ \A i \in 1..(Len(s) - 1) : Tail(s)[i] = s[i + 1]
  OBVIOUS
<1>2. Head(s) \in S
  BY <1>1
<1>3. ASSUME NEW k \in DOMAIN s PROVE s[k] = Head(s) \/ s[k] \in Left(Tail(s))
  <2>1. CASE k = 1
    BY <1>1, <2>1
  <2>2. CASE k # 1
    <3>1. k - 1 \in DOMAIN Tail(s) /\ Tail(s)[k - 1] = s[k]
      BY <1>1, <2>2
    <3>. QED  BY <3>1 DEF Left
  <2>. QED  BY <2>1, <2>2
<1>4. Left(<<>>) = {}
  BY DEF Left
<1>. QED  BY <1>1, <1>2, <1>3, <1>4 DEF Left

-----------------------------------------------------------------------------
(* Types *)

(* The request of a free slot.                                             *)
LEMMA IdleTyped == Idle \in Request /\ APage \in Pages
<1>1. APage \in Pages
  BY PagesAssumption DEF APage
<1>. QED  BY <1>1 DEF Idle, Request, None, Page

(* The initial state is well typed.                                        *)
LEMMA TypeInit ==
    ASSUME Init
    PROVE  TypeOK /\ FloorOnce /\ HalvesFit
<1>1. /\ adapter \in BOOLEAN /\ planned \subseteq Pages
      /\ data \in Nat /\ begun \in Nat /\ faults \in Nat
      /\ marks \in [Names -> Nat]
      /\ index \subseteq Names \X Pages
      /\ store \subseteq Page
  BY DEF Init
<1>2. /\ clock \in [Procs -> Nat]
      /\ l1 \in [Procs -> SUBSET Page]
      /\ l1_inval \in [Procs -> [Pages -> Nat]]
      /\ job \in [Procs -> Nat \cup {None}]
      /\ job_inval \in [Procs -> Nat]
  BY DEF Init
<1>3. task \in Seq(Task) /\ log \in Seq(DOMAIN task) /\ Len(log) = 0
  BY DEF Init
<1>4. pos \in [Procs -> 0 .. Len(log)] /\ applied \in [Procs -> SUBSET DOMAIN task]
  BY <1>3 DEF Init
<1>5. remote \in [Procs -> Replay]
  <2>1. NoReplay \in Replay
    BY DEF NoReplay, Replay
  <2>. QED  BY <2>1 DEF Init
<1>6. \A p \in Procs : floor[p] = <<>>
  BY DEF Init
<1>7. floor \in [Procs -> Floors(AllNames)]
  <2>1. <<>> \in Floors(AllNames)
    BY DEF Floors
  <2>. QED  BY <2>1 DEF Init
<1>8. req \in [Requests -> Request]
      /\ \A r \in Requests : req[r].since <= clock[r[1]] /\ req[r].stamp <= Len(log)
  <2>1. req = [r \in Requests |-> Idle] /\ log = <<>> /\ clock = [p \in Procs |-> 0]
    BY DEF Init
  <2>2. Idle.since = 0 /\ Idle.stamp = -1
    BY DEF Idle, None
  <2>3. \A r \in Requests : req[r] = Idle /\ clock[r[1]] = 0
    BY <2>1 DEF Requests
  <2>. QED  BY <1>3, <2>1, <2>2, <2>3, IdleTyped
<1>9. TypeOK
  BY <1>1, <1>2, <1>3, <1>4, <1>5, <1>7, <1>8 DEF TypeOK, Floors, FloorName, AllNames
<1>10. FloorOnce
  BY <1>6 DEF FloorOnce, Once
<1>11. HalvesFit
  <2>1. task = <<>> /\ \A p \in Procs : remote[p] = NoReplay
    BY DEF Init
  <2>2. NoReplay.id = 0 /\ NoReplay.halves = <<>>
    BY DEF NoReplay
  <2>3. <<>> \in Seq({"clear_l1", "clear_jobs"})
    OBVIOUS
  <2>4. DOMAIN task = {}
    BY <2>1
  <2>5. \A p \in Procs : remote[p].id = 0 /\ remote[p].halves = <<>>
    BY <2>1, <2>2
  <2>. QED  BY <2>3, <2>4, <2>5 DEF HalvesFit
<1>. QED  BY <1>9, <1>10, <1>11

(* Every step of a request leaves a request.                               *)
LEMMA ReqStep ==
    ASSUME TypeOK, NEW r \in Requests, Page_(r)
    PROVE  \E q \in Request : /\ req' = [req EXCEPT ![r] = q]
                              /\ q.since <= clock[r[1]] /\ q.stamp <= Len(log)
<1>1. /\ req \in [Requests -> Request] /\ req[r] \in Request
      /\ req[r].since <= clock[r[1]] /\ req[r].stamp <= Len(log)
      /\ clock[r[1]] \in Nat /\ Len(log) \in Nat /\ data \in Nat
  BY DEF TypeOK, Requests
<1>2. Idle \in Request /\ Idle.since <= clock[r[1]] /\ Idle.stamp <= Len(log)
  BY <1>1, IdleTyped DEF Idle, None
<1>. DEFINE Fits(q) == q \in Request /\ q.since <= clock[r[1]] /\ q.stamp <= Len(log)
<1>3. ASSUME begin(r) PROVE \E q : Fits(q) /\ req' = [req EXCEPT ![r] = q]
  <2>1. PICK g \in Pages :
          req' = [req EXCEPT ![r] = [Idle EXCEPT !.step = IF adapter THEN "get" ELSE "load",
                                                 !.page = g, !.since = clock[r[1]]]]
    BY <1>3 DEF begin
  <2>. DEFINE q == [Idle EXCEPT !.step = IF adapter THEN "get" ELSE "load",
                                !.page = g, !.since = clock[r[1]]]
  <2>2. q \in Request
    BY <1>1, <1>2 DEF Request
  <2>3. q.since = clock[r[1]] /\ q.stamp = None
    BY DEF Idle
  <2>4. req' = [req EXCEPT ![r] = q]
    BY <2>1
  <2>. HIDE DEF q
  <2>5. q.since <= clock[r[1]] /\ q.stamp <= Len(log)
    BY <1>1, <2>3 DEF None
  <2>. QED  BY <2>2, <2>4, <2>5
<1>4. ASSUME get_page(r) PROVE \E q : Fits(q) /\ req' = [req EXCEPT ![r] = q]
  <2>. DEFINE q == [req[r] EXCEPT !.step = "seq", !.found = {e \in store : e.page = req[r].page}]
  <2>1. req' = [req EXCEPT ![r] = q]
    BY <1>1, <1>4 DEF get_page
  <2>2. q \in Request /\ q.since = req[r].since /\ q.stamp = req[r].stamp
    BY <1>1 DEF Request, TypeOK
  <2>. HIDE DEF q
  <2>. QED  BY <1>1, <2>1, <2>2
<1>5. ASSUME get_seq(r) PROVE \E q : Fits(q) /\ req' = [req EXCEPT ![r] = q]
  <2>. DEFINE q == [req[r] EXCEPT !.step = "reply", !.stamp = Len(log)]
  <2>1. req' = [req EXCEPT ![r] = q]
    BY <1>1, <1>5 DEF get_seq
  <2>2. q \in Request /\ q.since = req[r].since /\ q.stamp = Len(log)
    BY <1>1 DEF Request
  <2>. HIDE DEF q
  <2>3. q.since <= clock[r[1]] /\ q.stamp <= Len(log)
    BY <1>1, <2>2
  <2>. QED  BY <2>1, <2>2, <2>3
<1>6. ASSUME get_failed(r) PROVE \E q : Fits(q) /\ req' = [req EXCEPT ![r] = q]
  <2>. DEFINE q == [req[r] EXCEPT !.step = "load", !.found = {}, !.stamp = None]
  <2>1. req' = [req EXCEPT ![r] = q]
    BY <1>1, <1>6 DEF get_failed
  <2>2. q \in Request /\ q.since = req[r].since /\ q.stamp = None
    BY <1>1 DEF Request
  <2>. HIDE DEF q
  <2>3. q.since <= clock[r[1]] /\ q.stamp <= Len(log)
    BY <1>1, <2>2 DEF None
  <2>. QED  BY <2>1, <2>2, <2>3
<1>7. ASSUME l2_miss(r) PROVE \E q : Fits(q) /\ req' = [req EXCEPT ![r] = q]
  <2>. DEFINE q == [req[r] EXCEPT !.step = "load", !.found = {}]
  <2>1. req' = [req EXCEPT ![r] = q]
    BY <1>1, <1>7 DEF l2_miss
  <2>2. q \in Request /\ q.since = req[r].since /\ q.stamp = req[r].stamp
    BY <1>1 DEF Request
  <2>. HIDE DEF q
  <2>. QED  BY <1>1, <2>1, <2>2
<1>8. ASSUME loader(r) PROVE \E q : Fits(q) /\ req' = [req EXCEPT ![r] = q]
  <2>. DEFINE q == [req[r] EXCEPT !.step = "jobs", !.loader = data]
  <2>1. req' = [req EXCEPT ![r] = q]
    BY <1>1, <1>8 DEF loader
  <2>2. q \in Request /\ q.since = req[r].since /\ q.stamp = req[r].stamp
    BY <1>1 DEF Request
  <2>. HIDE DEF q
  <2>. QED  BY <1>1, <2>1, <2>2
<1>9. ASSUME NEW step \in {"call", "insert", "set"}, Goto(r, step)
      PROVE  \E q : Fits(q) /\ req' = [req EXCEPT ![r] = q]
  <2>. DEFINE q == [req[r] EXCEPT !.step = step]
  <2>1. req' = [req EXCEPT ![r] = q]
    BY <1>1, <1>9 DEF Goto
  <2>2. q \in Request /\ q.since = req[r].since /\ q.stamp = req[r].stamp
    BY <1>1 DEF Request
  <2>. HIDE DEF q
  <2>. QED  BY <1>1, <2>1, <2>2
<1>10. ASSUME lookup_jobs(r) PROVE \E q : Fits(q) /\ req' = [req EXCEPT ![r] = q]
  <2>1. CASE Goto(r, "insert") \/ Goto(r, "call")
    BY <1>9, <2>1
  <2>2. CASE /\ job[r[1]] # None
             /\ req' = [req EXCEPT ![r].step = "insert", ![r].job = job[r[1]], ![r].hit = TRUE]
    <3>. DEFINE q == [req[r] EXCEPT !.step = "insert", !.job = job[r[1]], !.hit = TRUE]
    <3>1. req' = [req EXCEPT ![r] = q]
      BY <1>1, <2>2
    <3>2. job[r[1]] \in Nat \cup {None}
      BY DEF TypeOK, Requests
    <3>3. q \in Request /\ q.since = req[r].since /\ q.stamp = req[r].stamp
      BY <1>1, <3>2 DEF Request
    <3>. QED  BY <1>1, <3>1, <3>3
  <2>. QED  BY <1>10, <2>1, <2>2 DEF lookup_jobs
<1>11. ASSUME jobs_call(r) PROVE \E q : Fits(q) /\ req' = [req EXCEPT ![r] = q]
  <2>. DEFINE q == [req[r] EXCEPT !.step = "apply", !.job = data]
  <2>1. req' = [req EXCEPT ![r] = q]
    BY <1>1, <1>11 DEF jobs_call
  <2>2. q \in Request /\ q.since = req[r].since /\ q.stamp = req[r].stamp
    BY <1>1 DEF Request
  <2>. HIDE DEF q
  <2>. QED  BY <1>1, <2>1, <2>2
<1>12. ASSUME req' = [req EXCEPT ![r] = Idle] PROVE \E q : Fits(q) /\ req' = [req EXCEPT ![r] = q]
  BY <1>2, <1>12
<1>13. ASSUME apply_job_results(r) PROVE \E q : Fits(q) /\ req' = [req EXCEPT ![r] = q]
  BY <1>9, <1>12, <1>13 DEF apply_job_results
<1>14. ASSUME insert(r) PROVE \E q : Fits(q) /\ req' = [req EXCEPT ![r] = q]
  BY <1>9, <1>12, <1>14 DEF insert
<1>15. ASSUME l2_hit(r) \/ SET_LUA(r) \/ abandon(r)
       PROVE  \E q : Fits(q) /\ req' = [req EXCEPT ![r] = q]
  BY <1>12, <1>15 DEF l2_hit, SET_LUA, abandon
<1>16. \E q : Fits(q) /\ req' = [req EXCEPT ![r] = q]
  <2>. HIDE DEF Fits
  <2>. QED  BY <1>3, <1>4, <1>5, <1>6, <1>7, <1>8, <1>10, <1>11, <1>13, <1>14, <1>15 DEF Page_
<1>. QED  BY <1>16

(* What the steps of a request leave alone.                                *)
Reads(r) == \/ begin(r) \/ get_page(r) \/ get_seq(r) \/ get_failed(r) \/ l2_miss(r)
            \/ loader(r) \/ lookup_jobs(r) \/ jobs_call(r) \/ abandon(r)

Lands(r) == l2_hit(r) \/ apply_job_results(r) \/ insert(r)

(* ... by a step of a request,                                             *)
LEMMA PageFrame ==
    ASSUME NEW r \in Requests, Page_(r)
    PROVE  /\ Reads(r) \/ Lands(r) \/ SET_LUA(r)
           /\ UNCHANGED <<data, log, marks, clock, l1_inval, job_inval, floor, task, remote, pos, applied>>
           /\ Reads(r) \/ Lands(r) => UNCHANGED <<index, store>>
           /\ Reads(r) \/ SET_LUA(r) => UNCHANGED <<l1, job>>
           /\ begun' = begun + 1 \/ begun' = begun
           /\ faults' = faults + 1 \/ faults' = faults
<1>1. Reads(r) \/ Lands(r) \/ SET_LUA(r)
  BY DEF Page_, Reads, Lands
<1>2. ASSUME begin(r) \/ get_page(r) \/ get_seq(r) \/ get_failed(r) \/ l2_miss(r)
      PROVE  /\ UNCHANGED <<data, log, marks, clock, l1_inval, job_inval, floor, task, remote, pos, applied>>
             /\ UNCHANGED <<index, store, l1, job>>
             /\ begun' = begun + 1 \/ begun' = begun
             /\ faults' = faults + 1 \/ faults' = faults
  BY <1>2 DEF begin, get_page, get_seq, get_failed, l2_miss, Quiet, Fault, redis, tier1, calls
<1>3. ASSUME loader(r) \/ lookup_jobs(r) \/ jobs_call(r) \/ abandon(r)
      PROVE  /\ UNCHANGED <<data, log, marks, clock, l1_inval, job_inval, floor, task, remote, pos, applied>>
             /\ UNCHANGED <<index, store, l1, job>>
             /\ begun' = begun + 1 \/ begun' = begun
             /\ faults' = faults + 1 \/ faults' = faults
  BY <1>3 DEF loader, lookup_jobs, jobs_call, abandon, Quiet, redis, tier1, calls
<1>4. ASSUME Lands(r)
      PROVE  /\ UNCHANGED <<data, log, marks, clock, l1_inval, job_inval, floor, task, remote, pos, applied>>
             /\ UNCHANGED <<index, store>>
             /\ begun' = begun /\ faults' = faults
  BY <1>4 DEF Lands, l2_hit, apply_job_results, insert, redis, calls
<1>5. ASSUME SET_LUA(r)
      PROVE  /\ UNCHANGED <<data, log, marks, clock, l1_inval, job_inval, floor, task, remote, pos, applied>>
             /\ UNCHANGED <<l1, job>>
             /\ begun' = begun /\ faults' = faults
  BY <1>5 DEF SET_LUA, tier1, calls
<1>6. Reads(r) => \/ begin(r) \/ get_page(r) \/ get_seq(r) \/ get_failed(r) \/ l2_miss(r)
                  \/ loader(r) \/ lookup_jobs(r) \/ jobs_call(r) \/ abandon(r)
  BY DEF Reads
<1>7. Reads(r) => /\ UNCHANGED <<data, log, marks, clock, l1_inval, job_inval, floor, task, remote, pos, applied>>
                  /\ UNCHANGED <<index, store, l1, job>>
                  /\ begun' = begun + 1 \/ begun' = begun
                  /\ faults' = faults + 1 \/ faults' = faults
  BY <1>2, <1>3, <1>6
<1>8. Reads(r) => UNCHANGED <<index, store, l1, job>>
  BY <1>7
<1>9. /\ UNCHANGED <<data, log, marks, clock, l1_inval, job_inval, floor, task, remote, pos, applied>>
      /\ begun' = begun + 1 \/ begun' = begun
      /\ faults' = faults + 1 \/ faults' = faults
  BY <1>1, <1>4, <1>5, <1>7
<1>. QED  BY <1>1, <1>4, <1>5, <1>8, <1>9

(* What the steps of a call and of worker 0 leave alone.                   *)
InRedis(i) == delete(i) \/ delete_failed(i) \/ unlink(i) \/ publish(i) \/ publish_failed(i)

Purges(i) == invalidate_own(i) \/ invalidate_again(i)

(* ... by a step of a call,                                                *)
LEMMA CallFrame ==
    ASSUME NEW i \in DOMAIN task, Call_(i)
    PROVE  /\ InRedis(i) \/ Purges(i) \/ replay_own(i)
           /\ UNCHANGED <<data, req, begun, remote, pos>>
           /\ ~Purges(i) => UNCHANGED <<clock, l1, l1_inval, job, job_inval, applied>>
           /\ ~InRedis(i) => UNCHANGED <<log, marks, index, store, faults>>
           /\ ~replay_own(i) => UNCHANGED floor
           /\ ~publish(i) => UNCHANGED log
           /\ ~publish(i) /\ ~delete(i) => UNCHANGED marks
           /\ ~delete(i) => UNCHANGED index
           /\ ~unlink(i) => UNCHANGED store
           /\ faults' = faults + 1 \/ faults' = faults
<1>1. InRedis(i) \/ Purges(i) \/ replay_own(i)
  BY DEF Call_, InRedis, Purges
<1>2. ASSUME Purges(i)
      PROVE  UNCHANGED <<data, req, begun, remote, pos, log, marks, index, store, faults, floor>>
  BY <1>2 DEF Purges, invalidate_own, invalidate_again, redis
<1>3. ASSUME replay_own(i)
      PROVE  UNCHANGED <<data, req, begun, remote, pos, log, marks, index, store, faults,
                         clock, l1, l1_inval, job, job_inval, applied>>
  BY <1>3 DEF replay_own, redis, tier1
<1>4. ASSUME delete(i) \/ delete_failed(i)
      PROVE  /\ UNCHANGED <<data, req, begun, remote, pos, clock, l1, l1_inval, job, job_inval, applied,
                            log, store, floor>>
             /\ ~delete(i) => UNCHANGED <<marks, index>>
             /\ faults' = faults + 1 \/ faults' = faults
  BY <1>4 DEF delete, delete_failed, Fault, redis, tier1
<1>5. ASSUME unlink(i)
      PROVE  UNCHANGED <<data, req, begun, remote, pos, clock, l1, l1_inval, job, job_inval, applied,
                         log, marks, index, floor, faults>>
  BY <1>5 DEF unlink, tier1
<1>6. ASSUME publish(i) \/ publish_failed(i)
      PROVE  /\ UNCHANGED <<data, req, begun, remote, pos, clock, l1, l1_inval, job, job_inval, applied,
                            index, store, floor>>
             /\ ~publish(i) => UNCHANGED <<log, marks>>
             /\ faults' = faults + 1 \/ faults' = faults
  BY <1>6 DEF publish, publish_failed, Fault, redis, tier1
<1>. QED  BY <1>1, <1>2, <1>3, <1>4, <1>5, <1>6 DEF InRedis

(* ... by a step of a process,                                             *)
LEMMA ProcessFrame ==
    ASSUME NEW p \in Procs, Process_(p)
    PROVE  /\ UNCHANGED <<data, req, log, marks, index, store>>
           /\ ~invalidate_remote(p) => UNCHANGED <<clock, l1, l1_inval, job, job_inval, applied>>
           /\ ~receive(p) => UNCHANGED floor
           /\ ~Invalidate(p) => UNCHANGED task
           /\ Invalidate(p) => UNCHANGED <<remote, pos>>
           /\ begun' = begun
           /\ faults' = faults + 1 \/ faults' = faults
<1>1. ASSUME Invalidate(p)
      PROVE  UNCHANGED <<data, req, log, marks, index, store, clock, l1, l1_inval, job, job_inval,
                         applied, floor, remote, pos, begun, faults>>
  BY <1>1 DEF Invalidate, redis, tier1
<1>2. ASSUME receive(p)
      PROVE  UNCHANGED <<data, req, log, marks, index, store, clock, l1, l1_inval, job, job_inval,
                         applied, task, begun, faults>>
  BY <1>2 DEF receive, redis, tier1
<1>3. ASSUME gap(p)
      PROVE  /\ UNCHANGED <<data, req, log, marks, index, store, clock, l1, l1_inval, job, job_inval,
                            applied, task, begun, floor>>
             /\ faults' = faults + 1
  BY <1>3 DEF gap, Fault, redis, tier1
<1>4. ASSUME invalidate_remote(p)
      PROVE  UNCHANGED <<data, req, log, marks, index, store, task, begun, floor, pos, faults>>
  BY <1>4 DEF invalidate_remote, redis
<1>. QED  BY <1>1, <1>2, <1>3, <1>4 DEF Process_

(* ... and by a write of the application.                                  *)
LEMMA DataFrame ==
    ASSUME WriteData
    PROVE  /\ data' = data + 1
           /\ UNCHANGED <<req, log, marks, index, store, clock, l1, l1_inval, job, job_inval, floor,
                          task, remote, pos, applied, begun, faults>>
<1>. QED  BY DEF WriteData, redis, tier1, calls

(* Every step of a call leaves a call, of the same process with the same   *)
(* arguments.                                                              *)
Same(t, u) == t.proc = u.proc /\ t.call = u.call /\ t.data = u.data

HalvesLeft(t) == /\ t.halves \in Seq(CallHalves)
                 /\ t.step \in {"local", "replay"} => t.halves # <<>>

(* The fields of a call.                                                   *)
LEMMA TaskFields ==
    ASSUME NEW t \in Task
    PROVE  /\ t.proc \in Procs /\ t.call \in Calls /\ t.data \in Nat /\ t.members \in SUBSET Pages
           /\ t.seq \in Nat \cup {None} /\ t.halves \in Seq(HalfNames)
           /\ t.step \in {"local", "delete", "unlink", "publish", "published", "replay", "done"}
<1>. QED  BY DEF Task

(* Every call in the list is one.                                          *)
LEMMA TaskTyped ==
    ASSUME TypeOK, NEW i \in DOMAIN task
    PROVE  task[i] \in Task
<1>. QED  BY DEF TypeOK

(* The step with one half less.                                            *)
LEMMA TaskPurged ==
    ASSUME NEW t \in Task, HalvesLeft(t), t.step \in {"local", "replay"},
           NEW s \in {"delete", "publish", "done"}
    PROVE  LET u == [t EXCEPT !.halves = Tail(@), !.step = IF Tail(t.halves) = <<>> THEN s ELSE @]
           IN  u \in Task /\ Same(u, t) /\ HalvesLeft(u) /\ u.seq = t.seq /\ u.members = t.members
<1>1. Tail(t.halves) \in Seq(CallHalves)
  BY NextHalf DEF HalvesLeft
<1>2. Tail(t.halves) \in Seq(HalfNames)
  <2>1. CallHalves \subseteq HalfNames
    BY DEF CallHalves, HalfNames
  <2>. QED  BY <1>1, <2>1
<1>. DEFINE H == Tail(t.halves)
            w == IF H = <<>> THEN s ELSE t.step
            v == [t EXCEPT !.halves = H, !.step = w]
<1>3. w \in {"local", "replay", "delete", "publish", "done"} /\ (w \in {"local", "replay"} => H # <<>>)
  OBVIOUS
<1>. HIDE DEF H, w
<1>4. v \in Task
  BY <1>2, <1>3 DEF Task, H
<1>5. v.halves = H /\ v.step = w /\ Same(v, t) /\ v.seq = t.seq /\ v.members = t.members
  BY DEF Task, Same
<1>6. HalvesLeft(v)
  BY <1>1, <1>3, <1>5 DEF HalvesLeft, H
<1>. QED  BY <1>4, <1>5, <1>6 DEF v, H, w

(* A step of a call replaces that call alone; publish gives it its number. *)
LEMMA CallStep ==
    ASSUME TypeOK, HalvesFit, NEW i \in DOMAIN task, Call_(i)
    PROVE  \E t \in Task : /\ task' = [task EXCEPT ![i] = t]
                           /\ Same(t, task[i]) /\ HalvesLeft(t)
                           /\ \/ t.seq = task[i].seq
                              \/ publish(i) /\ t.seq = Len(log) + 1
<1>1. task[i] \in Task /\ HalvesLeft(task[i]) /\ task \in Seq(Task)
  BY TaskTyped DEF HalvesFit, HalvesLeft, TypeOK
<1>. DEFINE t0 == task[i]
            Fits(t) == t \in Task /\ Same(t, t0) /\ HalvesLeft(t)
            Goal(t) == Fits(t) /\ task' = [task EXCEPT ![i] = t]
                       /\ (t.seq = t0.seq \/ (publish(i) /\ t.seq = Len(log) + 1))
<1>3. t0.members \in SUBSET Pages /\ t0.seq \in Nat \cup {None} /\ Len(log) + 1 \in Nat
      /\ t0.call \in Calls
  <2>1. Len(log) \in Nat
    BY DEF TypeOK
  <2>. QED  BY <1>1, <2>1, TaskFields
<1>4. ASSUME invalidate_own(i) PROVE \E t : Goal(t)
  <2>1. t0.step = "local"
    BY <1>4 DEF invalidate_own
  <2>2. AfterTier1(t0.call) \in {"delete", "publish", "done"}
    BY DEF AfterTier1
  <2>. DEFINE s == AfterTier1(t0.call)
              u == [t0 EXCEPT !.halves = Tail(@), !.step = IF Tail(t0.halves) = <<>> THEN s ELSE @]
  <2>3. u \in Task /\ Same(u, t0) /\ HalvesLeft(u) /\ u.seq = t0.seq
    BY <1>1, <2>1, <2>2, TaskPurged
  <2>4. task' = [task EXCEPT ![i] = u]
    BY <1>1, <1>4 DEF invalidate_own, Final
  <2>. HIDE DEF u
  <2>. QED  BY <2>3, <2>4
<1>5. ASSUME invalidate_again(i) PROVE \E t : Goal(t)
  <2>1. t0.step = "replay"
    BY <1>5 DEF invalidate_again
  <2>. DEFINE u == [t0 EXCEPT !.halves = Tail(@), !.step = IF Tail(t0.halves) = <<>> THEN "done" ELSE @]
  <2>3. u \in Task /\ Same(u, t0) /\ HalvesLeft(u) /\ u.seq = t0.seq
    BY <1>1, <2>1, TaskPurged
  <2>4. task' = [task EXCEPT ![i] = u]
    BY <1>1, <1>5 DEF invalidate_again, Final
  <2>. HIDE DEF u
  <2>. QED  BY <2>3, <2>4
<1>6. ASSUME NEW s \in {"publish", "published", "unlink"},
             task' = [task EXCEPT ![i].step = s]
      PROVE  \E t : Goal(t)
  <2>. DEFINE u == [t0 EXCEPT !.step = s]
  <2>1. task' = [task EXCEPT ![i] = u]
    BY <1>1, <1>6
  <2>2. u \in Task /\ u.seq = t0.seq /\ Same(u, t0) /\ u.halves = t0.halves /\ u.step = s
    BY <1>1 DEF Task, Same
  <2>. HIDE DEF u
  <2>3. HalvesLeft(u)
    BY <1>1, <2>2 DEF HalvesLeft
  <2>. QED  BY <2>1, <2>2, <2>3
<1>7. ASSUME NEW s \in {"publish", "published", "unlink"}, NEW m \in SUBSET Pages,
             task' = [task EXCEPT ![i].step = s, ![i].members = m]
      PROVE  \E t : Goal(t)
  <2>. DEFINE u == [t0 EXCEPT !.step = s, !.members = m]
  <2>1. task' = [task EXCEPT ![i] = u]
    BY <1>1, <1>7
  <2>2. u \in Task /\ u.seq = t0.seq /\ Same(u, t0) /\ u.halves = t0.halves /\ u.step = s
    BY <1>1 DEF Task, Same
  <2>. HIDE DEF u
  <2>3. HalvesLeft(u)
    BY <1>1, <2>2 DEF HalvesLeft
  <2>. QED  BY <2>1, <2>2, <2>3
<1>8. ASSUME NEW s \in {"publish", "published", "unlink"}, NEW n \in Nat,
             task' = [task EXCEPT ![i].step = s, ![i].seq = n],
             publish(i) /\ n = Len(log) + 1
      PROVE  \E t : Goal(t)
  <2>. DEFINE u == [t0 EXCEPT !.step = s, !.seq = n]
  <2>1. task' = [task EXCEPT ![i] = u]
    BY <1>1, <1>8
  <2>2. u \in Task /\ u.seq = n /\ Same(u, t0) /\ u.halves = t0.halves /\ u.step = s
    BY <1>1 DEF Task, Same
  <2>. HIDE DEF u
  <2>3. HalvesLeft(u)
    BY <1>1, <2>2 DEF HalvesLeft
  <2>. QED  BY <2>1, <2>2, <2>3, <1>8
<1>10. ASSUME delete(i) PROVE \E t : Goal(t)
  <2>1. Members(t0.call) \in SUBSET Pages
    BY DEF Members, Filed
  <2>2. \/ task' = [task EXCEPT ![i].step = "unlink", ![i].members = Members(t0.call)]
        \/ task' = [task EXCEPT ![i].step = "publish"]
    BY <1>10 DEF delete
  <2>. HIDE DEF Goal
  <2>. QED  BY <1>6, <1>7, <2>1, <2>2
<1>11. ASSUME delete_failed(i) \/ publish_failed(i) PROVE \E t : Goal(t)
  <2>1. \/ task' = [task EXCEPT ![i].step = "publish"]
        \/ task' = [task EXCEPT ![i].step = "published"]
    BY <1>11 DEF delete_failed, publish_failed
  <2>. HIDE DEF Goal
  <2>. QED  BY <1>6, <2>1
<1>12. ASSUME publish(i) PROVE \E t : Goal(t)
  <2>1. log' = Append(log, i)
    BY <1>12 DEF publish
  <2>2. Len(log') = Len(log) + 1
    BY <2>1 DEF TypeOK
  <2>3. \/ task' = [task EXCEPT ![i].step = "published", ![i].seq = Len(log) + 1]
        \/ task' = [task EXCEPT ![i].step = "published"]
    BY <1>12, <2>2 DEF publish
  <2>. HIDE DEF Goal
  <2>. QED  BY <1>3, <1>6, <1>8, <1>12, <2>3
<1>13. ASSUME unlink(i) PROVE \E t : Goal(t)
  <2>. DEFINE t == [t0 EXCEPT !.step = IF @ = "unlink" THEN "publish" ELSE @, !.members = {}]
  <2>1. task' = [task EXCEPT ![i] = t]
    BY <1>1, <1>13 DEF unlink
  <2>2. t \in Task /\ t.seq = t0.seq /\ Same(t, t0) /\ t.halves = t0.halves
        /\ t.step = IF t0.step = "unlink" THEN "publish" ELSE t0.step
    BY <1>1 DEF Task, Same
  <2>. HIDE DEF t
  <2>3. HalvesLeft(t)
    BY <1>1, <2>2 DEF HalvesLeft
  <2>. QED  BY <2>1, <2>2, <2>3
<1>14. ASSUME replay_own(i) PROVE \E t : Goal(t)
  <2>. DEFINE t == [t0 EXCEPT !.step = "replay", !.halves = Halves(t0.call)]
  <2>1. task' = [task EXCEPT ![i] = t]
    BY <1>1, <1>14 DEF replay_own
  <2>2. Halves(t0.call) \in Seq(CallHalves) /\ Halves(t0.call) # <<>>
    BY <1>3, HalvesOf
  <2>3. Halves(t0.call) \in Seq(HalfNames)
    <3>1. CallHalves \subseteq HalfNames
      BY DEF CallHalves, HalfNames
    <3>. QED  BY <2>2, <3>1
  <2>4. t \in Task /\ t.seq = t0.seq /\ Same(t, t0) /\ t.halves = Halves(t0.call)
    BY <1>1, <2>3 DEF Task, Same
  <2>. HIDE DEF t
  <2>5. HalvesLeft(t)
    BY <2>2, <2>4 DEF HalvesLeft
  <2>. QED  BY <2>1, <2>4, <2>5
<1>15. \E t : Goal(t)
  <2>. HIDE DEF Goal
  <2>. QED  BY <1>4, <1>5, <1>10, <1>11, <1>12, <1>13, <1>14 DEF Call_
<1>. QED  BY <1>15

(* No step forgets a call or an event, or changes what a call is about.    *)
LEMMA CallsKept ==
    ASSUME TypeOK, HalvesFit, Next
    PROVE  /\ task' \in Seq(Task) /\ log' \in Seq(DOMAIN task')
           /\ \A i \in DOMAIN task : i \in DOMAIN task' /\ Same(task'[i], task[i])
           /\ Len(log) <= Len(log')
           /\ \A n \in DOMAIN log : n \in DOMAIN log' /\ log'[n] = log[n]
           /\ \A i \in DOMAIN task' : HalvesLeft(task'[i])
<1>1. /\ task \in Seq(Task) /\ log \in Seq(DOMAIN task) /\ Len(log) \in Nat
      /\ \A i \in DOMAIN task : HalvesLeft(task[i])
      /\ data \in Nat
  BY DEF TypeOK, HalvesFit, HalvesLeft
<1>. DEFINE K == /\ task' \in Seq(Task) /\ log' \in Seq(DOMAIN task')
                 /\ \A i \in DOMAIN task : i \in DOMAIN task' /\ Same(task'[i], task[i])
                 /\ Len(log) <= Len(log')
                 /\ \A n \in DOMAIN log : n \in DOMAIN log' /\ log'[n] = log[n]
                 /\ \A i \in DOMAIN task' : HalvesLeft(task'[i])
<1>2. ASSUME UNCHANGED <<task, log>> PROVE K
  BY <1>1, <1>2 DEF Same
<1>3. ASSUME NEW i \in DOMAIN task, Call_(i) PROVE K
  <2>1. PICK t \in Task : /\ task' = [task EXCEPT ![i] = t]
                          /\ Same(t, task[i]) /\ HalvesLeft(t)
    BY <1>3, CallStep
  <2>2. /\ task' \in Seq(Task) /\ DOMAIN task' = DOMAIN task
        /\ \A j \in DOMAIN task : task'[j] = IF j = i THEN t ELSE task[j]
    BY <1>1, <2>1
  <2>3. \/ log' = log
        \/ log' = Append(log, i)
    BY <1>3, CallFrame DEF publish
  <2>a. \A D : \A s \in Seq(D) : \A x \in D :
           /\ Append(s, x) \in Seq(D) /\ Len(s) <= Len(Append(s, x))
           /\ \A n \in DOMAIN s : n \in DOMAIN Append(s, x) /\ Append(s, x)[n] = s[n]
    OBVIOUS
  <2>4. log' \in Seq(DOMAIN task)
    BY <1>1, <1>3, <2>3, <2>a
  <2>5. /\ Len(log) <= Len(log')
        /\ \A n \in DOMAIN log : n \in DOMAIN log' /\ log'[n] = log[n]
    <3>1. CASE log' = log
      BY <1>1, <3>1
    <3>2. CASE log' = Append(log, i)
      BY <1>1, <3>2, <2>a
    <3>. QED  BY <2>3, <3>1, <3>2
  <2>6. \A j \in DOMAIN task : j \in DOMAIN task' /\ Same(task'[j], task[j]) /\ HalvesLeft(task'[j])
    BY <1>1, <2>1, <2>2 DEF Same
  <2>. QED  BY <2>2, <2>4, <2>5, <2>6
<1>4. ASSUME NEW p \in Procs, Invalidate(p) PROVE K
  <2>1. PICK c \in Calls :
          task' = Append(task, [step |-> "local", proc |-> p, call |-> c, data |-> data,
                                halves |-> Halves(c), members |-> {}, seq |-> None])
    BY <1>4 DEF Invalidate
  <2>. DEFINE t == [step |-> "local", proc |-> p, call |-> c, data |-> data,
                    halves |-> Halves(c), members |-> {}, seq |-> None]
  <2>2. Halves(c) \in Seq(CallHalves) /\ Halves(c) # <<>>
    BY HalvesOf
  <2>3. Halves(c) \in Seq(HalfNames)
    <3>1. CallHalves \subseteq HalfNames
      BY DEF CallHalves, HalfNames
    <3>. QED  BY <2>2, <3>1
  <2>4. t \in Task /\ HalvesLeft(t)
    <3>1. t \in Task
      BY <1>1, <2>3 DEF Task
    <3>2. t.halves = Halves(c)
      OBVIOUS
    <3>. QED  BY <2>2, <3>1, <3>2 DEF HalvesLeft
  <2>5. task' = Append(task, t)
    BY <2>1
  <2>. HIDE DEF t
  <2>6. /\ task' \in Seq(Task) /\ DOMAIN task' = 1..(Len(task) + 1) /\ DOMAIN task = 1..Len(task)
        /\ Len(task) \in Nat
        /\ \A j \in DOMAIN task : j \in DOMAIN task' /\ task'[j] = task[j]
        /\ task'[Len(task) + 1] = t
    BY <1>1, <2>4, <2>5
  <2>7. log' = log
    BY <1>4 DEF Invalidate, redis
  <2>8. log' \in Seq(DOMAIN task')
    BY <1>1, <2>6, <2>7
  <2>9. \A j \in DOMAIN task' : HalvesLeft(task'[j])
    BY <1>1, <2>4, <2>6
  <2>. QED  BY <1>1, <2>6, <2>7, <2>8, <2>9 DEF Same
<1>5. ASSUME NEW p \in Procs, Process_(p) PROVE K
  <2>1. ~Invalidate(p) => UNCHANGED <<task, log>>
    BY <1>5, ProcessFrame
  <2>. QED  BY <1>2, <1>4, <2>1
<1>6. ASSUME NEW r \in Requests, Page_(r) PROVE K
  BY <1>2, <1>6, PageFrame
<1>7. ASSUME WriteData PROVE K
  BY <1>2, <1>7, DataFrame
<1>8. K
  <2>. HIDE DEF K
  <2>. QED  BY <1>3, <1>5, <1>6, <1>7 DEF Next
<1>. QED  BY <1>8

(* An invalidation in a process's caches.                                  *)
LEMMA HalfKinds ==
    ASSUME NEW p, NEW c, NEW h \in CallHalves, invalidate(p, c, h)
    PROVE  (\E G \in SUBSET Pages : DropPages(p, G)) \/ (\E b \in BOOLEAN : DropJob(p, b))
<1>1. CASE h = "key"
  BY <1>1 DEF invalidate
<1>2. CASE h = "jobs"
  <2>1. (c.tags \cap JobTags # {}) \in BOOLEAN
    OBVIOUS
  <2>. QED  BY <1>2, <2>1 DEF invalidate
<1>3. CASE h = "tags"
  <2>1. {g \in Pages : CoversTags(c, g)} \in SUBSET Pages
    OBVIOUS
  <2>. QED  BY <1>3, <2>1 DEF invalidate
<1>4. CASE h = "path"
  <2>1. {g \in Pages : CoversPath(c, g)} \in SUBSET Pages
    OBVIOUS
  <2>. QED  BY <1>4, <2>1 DEF invalidate
<1>. QED  BY <1>1, <1>2, <1>3, <1>4 DEF CallHalves

(* One cache call of an invalidation drops what it covers.                 *)
LEMMA DropStep ==
    ASSUME TypeOK, NEW p \in Procs,
           (\E G \in SUBSET Pages : DropPages(p, G)) \/ (\E b \in BOOLEAN : DropJob(p, b))
    PROVE  /\ clock' = [clock EXCEPT ![p] = @ + 1]
           /\ clock' \in [Procs -> Nat]
           /\ l1' \in [Procs -> SUBSET Page]
           /\ l1_inval' \in [Procs -> [Pages -> Nat]]
           /\ job' \in [Procs -> Nat \cup {None}]
           /\ job_inval' \in [Procs -> Nat]
<1>1. clock' = [clock EXCEPT ![p] = @ + 1]
  BY DEF DropPages, DropJob
<1>2. clock \in [Procs -> Nat]
  BY DEF TypeOK
<1>3. clock' \in [Procs -> Nat]
  BY <1>1, <1>2
<1>4. ASSUME NEW G \in SUBSET Pages, DropPages(p, G)
      PROVE  l1' \in [Procs -> SUBSET Page] /\ l1_inval' \in [Procs -> [Pages -> Nat]]
  <2>1. l1 \in [Procs -> SUBSET Page] /\ l1_inval \in [Procs -> [Pages -> Nat]] /\ clock'[p] \in Nat
    BY <1>3 DEF TypeOK
  <2>2. l1' \in [Procs -> SUBSET Page]
    BY <1>4, <2>1 DEF DropPages
  <2>3. l1_inval' = [l1_inval EXCEPT ![p] = [g \in Pages |-> IF g \in G THEN clock'[p] ELSE @[g]]]
    BY <1>4 DEF DropPages
  <2>4. [g \in Pages |-> IF g \in G THEN clock'[p] ELSE l1_inval[p][g]] \in [Pages -> Nat]
    BY <2>1
  <2>. QED  BY <2>1, <2>2, <2>3, <2>4
<1>5. ASSUME NEW b \in BOOLEAN, DropJob(p, b)
      PROVE  job' \in [Procs -> Nat \cup {None}] /\ job_inval' \in [Procs -> Nat]
  <2>1. job \in [Procs -> Nat \cup {None}] /\ job_inval \in [Procs -> Nat] /\ clock'[p] \in Nat
    BY <1>3 DEF TypeOK
  <2>. QED  BY <1>5, <2>1 DEF DropJob
<1>6. ASSUME NEW G \in SUBSET Pages, DropPages(p, G) PROVE job' = job /\ job_inval' = job_inval
  BY <1>6 DEF DropPages
<1>7. ASSUME NEW b \in BOOLEAN, DropJob(p, b) PROVE l1' = l1 /\ l1_inval' = l1_inval
  BY <1>7 DEF DropJob
<1>8. l1 \in [Procs -> SUBSET Page] /\ l1_inval \in [Procs -> [Pages -> Nat]]
      /\ job \in [Procs -> Nat \cup {None}] /\ job_inval \in [Procs -> Nat]
  BY DEF TypeOK
<1>. QED  BY <1>1, <1>3, <1>4, <1>5, <1>6, <1>7, <1>8

(* The half a call or worker 0 makes next.                                 *)
ClearHalves == {"clear_l1", "clear_jobs"}

(* ... in the part of an invalidation a process makes itself,              *)
LEMMA PurgeStep ==
    ASSUME TypeOK, HalvesFit, NEW i \in DOMAIN task, Purges(i)
    PROVE  /\ task[i].proc \in Procs /\ task[i].call \in Calls
           /\ task[i].halves \in Seq(CallHalves) /\ task[i].halves # <<>>
           /\ Head(task[i].halves) \in CallHalves
           /\ invalidate(task[i].proc, task[i].call, Head(task[i].halves))
           /\ task' = [task EXCEPT ![i].halves = Tail(@), ![i].step = task'[i].step]
           /\ applied' = applied \/ applied' = [applied EXCEPT ![task[i].proc] = @ \cup {i}]
<1>1. task[i] \in Task /\ task \in Seq(Task)
  BY TaskTyped DEF TypeOK
<1>2. task[i].proc \in Procs /\ task[i].call \in Calls
  BY <1>1, TaskFields
<1>3. task[i].step \in {"local", "replay"}
  BY DEF Purges, invalidate_own, invalidate_again
<1>4. task[i].halves \in Seq(CallHalves) /\ task[i].halves # <<>>
  BY <1>3 DEF HalvesFit
<1>5. Head(task[i].halves) \in CallHalves
  BY <1>4, NextHalf
<1>6. invalidate(task[i].proc, task[i].call, Head(task[i].halves))
  BY DEF Purges, invalidate_own, invalidate_again
<1>7. task' = [task EXCEPT ![i].halves = Tail(@), ![i].step = task'[i].step]
  BY <1>1 DEF Purges, invalidate_own, invalidate_again
<1>8. applied' = applied \/ applied' = [applied EXCEPT ![task[i].proc] = @ \cup {i}]
  BY DEF Purges, invalidate_own, invalidate_again
<1>. QED  BY <1>2, <1>4, <1>5, <1>6, <1>7, <1>8

(* The event worker 0 is replaying.                                        *)
LEMMA RemoteTyped ==
    ASSUME TypeOK, NEW p \in Procs
    PROVE  /\ remote[p] \in Replay /\ remote[p].id \in Nat /\ remote[p].halves \in Seq(HalfNames)
           /\ DOMAIN remote = Procs /\ remote \in [Procs -> Replay]
<1>1. remote[p] \in Replay
  BY DEF TypeOK
<1>. QED  BY <1>1 DEF Replay, TypeOK

(* ... and in the part worker 0 replays.                                   *)
LEMMA RemoteStep ==
    ASSUME TypeOK, HalvesFit, NEW p \in Procs, invalidate_remote(p)
    PROVE  /\ remote[p].halves # <<>>
           /\ remote[p].id # 0 => /\ remote[p].id \in DOMAIN task
                                  /\ remote[p].halves \in Seq(CallHalves)
                                  /\ Head(remote[p].halves) \in CallHalves
                                  /\ invalidate(p, task[remote[p].id].call, Head(remote[p].halves))
           /\ remote[p].id = 0 => /\ remote[p].halves \in Seq(ClearHalves)
                                  /\ clear_local(p, Head(remote[p].halves))
           /\ remote' = [remote EXCEPT ![p] = IF Tail(remote[p].halves) = <<>> THEN NoReplay
                                              ELSE [remote[p] EXCEPT !.halves = Tail(remote[p].halves)]]
<1>1. remote[p].halves # <<>>
  BY DEF invalidate_remote, Receiving
<1>2. remote[p].id # 0 => /\ remote[p].id \in DOMAIN task
                          /\ remote[p].halves \in Seq(CallHalves)
  BY DEF HalvesFit
<1>3. remote[p].id # 0 => Head(remote[p].halves) \in CallHalves
  BY <1>1, <1>2, NextHalf
<1>4. remote[p].id # 0 => invalidate(p, task[remote[p].id].call, Head(remote[p].halves))
  BY DEF invalidate_remote
<1>5. remote[p].id = 0 => /\ remote[p].halves \in Seq(ClearHalves)
                          /\ clear_local(p, Head(remote[p].halves))
  BY DEF invalidate_remote, HalvesFit, ClearHalves
<1>6. remote' = [remote EXCEPT ![p] = IF Tail(remote[p].halves) = <<>> THEN NoReplay
                                      ELSE [remote[p] EXCEPT !.halves = Tail(remote[p].halves)]]
  <2>1. remote' = IF Final(remote[p].halves) THEN [remote EXCEPT ![p] = NoReplay]
                  ELSE [remote EXCEPT ![p].halves = Tail(@)]
    BY DEF invalidate_remote
  <2>2. Final(remote[p].halves) <=> Tail(remote[p].halves) = <<>>
    BY DEF Final
  <2>3. CASE Final(remote[p].halves)
    BY <2>1, <2>2, <2>3
  <2>4. CASE ~Final(remote[p].halves)
    BY <2>1, <2>2, <2>4
  <2>. QED  BY <2>3, <2>4
<1>. QED  BY <1>1, <1>2, <1>3, <1>4, <1>5, <1>6

(* What a step does to the caches of a process: nothing, the landing of a  *)
(* request, or an invalidation.                                            *)
Drops(p) == (\E G \in SUBSET Pages : DropPages(p, G)) \/ (\E b \in BOOLEAN : DropJob(p, b))

(* Whatever the step, a cache of tier 1 loses entries or takes one.        *)
LEMMA Tier1Step ==
    ASSUME TypeOK, HalvesFit, Next
    PROVE  \/ UNCHANGED <<clock, l1, l1_inval, job, job_inval>>
           \/ \E r \in Requests : Lands(r)
           \/ \E p \in Procs : Drops(p) /\ UNCHANGED <<req, data>>
<1>1. ASSUME NEW i \in DOMAIN task, Call_(i)
      PROVE  \/ UNCHANGED <<clock, l1, l1_inval, job, job_inval>>
             \/ \E p \in Procs : Drops(p) /\ UNCHANGED <<req, data>>
  <2>1. CASE Purges(i)
    <3>1. /\ task[i].proc \in Procs /\ Head(task[i].halves) \in CallHalves
          /\ invalidate(task[i].proc, task[i].call, Head(task[i].halves))
      BY <2>1, PurgeStep
    <3>2. Drops(task[i].proc)
      BY <3>1, HalfKinds DEF Drops
    <3>. QED  BY <1>1, <3>1, <3>2, CallFrame
  <2>2. CASE ~Purges(i)
    BY <1>1, <2>2, CallFrame
  <2>. QED  BY <2>1, <2>2
<1>2. ASSUME NEW p \in Procs, Process_(p)
      PROVE  \/ UNCHANGED <<clock, l1, l1_inval, job, job_inval>>
             \/ Drops(p) /\ UNCHANGED <<req, data>>
  <2>1. CASE invalidate_remote(p)
    <3>1. CASE remote[p].id # 0
      <4>1. /\ Head(remote[p].halves) \in CallHalves
            /\ invalidate(p, task[remote[p].id].call, Head(remote[p].halves))
        BY <2>1, <3>1, RemoteStep
      <4>2. Drops(p)
        BY <4>1, HalfKinds DEF Drops
      <4>. QED  BY <1>2, <4>2, ProcessFrame
    <3>2. CASE remote[p].id = 0
      <4>1. clear_local(p, Head(remote[p].halves))
        BY <2>1, <3>2, RemoteStep
      <4>2. DropPages(p, Pages) \/ DropJob(p, TRUE)
        BY <4>1 DEF clear_local
      <4>3. Drops(p)
        BY <4>2 DEF Drops
      <4>. QED  BY <1>2, <4>3, ProcessFrame
    <3>. QED  BY <3>1, <3>2
  <2>2. CASE ~invalidate_remote(p)
    BY <1>2, <2>2, ProcessFrame
  <2>. QED  BY <2>1, <2>2
<1>3. ASSUME NEW r \in Requests, Page_(r)
      PROVE  UNCHANGED <<clock, l1, l1_inval, job, job_inval>> \/ Lands(r)
  BY <1>3, PageFrame
<1>4. ASSUME WriteData PROVE UNCHANGED <<clock, l1, l1_inval, job, job_inval>>
  BY <1>4, DataFrame
<1>. QED  BY <1>1, <1>2, <1>3, <1>4 DEF Next

(* The landing of a request.                                               *)
LEMMA LandStep ==
    ASSUME TypeOK, NEW r \in Requests, Lands(r)
    PROVE  /\ UNCHANGED <<clock, l1_inval, job_inval>>
           /\ \/ l1' = l1
              \/ \E e \in Page : /\ Put(r[1], e) /\ l1_accepts(r[1], e.page, req[r].since)
                                 /\ \/ req[r].step = "reply" /\ e \in Served(r)
                                    \/ req[r].step = "insert" /\ e = Rendered(r)
           /\ \/ job' = job
              \/ /\ job' = [job EXCEPT ![r[1]] = req[r].job]
                 /\ jobs_accept(r[1], req[r].since) /\ req[r].step = "apply"
<1>1. req[r] \in Request /\ r[1] \in Procs
  BY DEF TypeOK, Requests
<1>2. UNCHANGED <<clock, l1_inval, job_inval>>
  BY DEF Lands, l2_hit, apply_job_results, insert
<1>3. CASE l2_hit(r)
  <2>1. job' = job /\ req[r].step = "reply"
    BY <1>3 DEF l2_hit
  <2>2. PICK e \in Served(r) : \/ l1_accepts(r[1], e.page, req[r].since) /\ Put(r[1], e)
                               \/ UNCHANGED l1
    BY <1>3 DEF l2_hit
  <2>3. e \in Page
    <3>1. req[r].found \in SUBSET Page
      BY <1>1 DEF Request
    <3>. QED  BY <3>1, <2>2 DEF Served
  <2>. QED  BY <1>2, <2>1, <2>2, <2>3
<1>4. CASE apply_job_results(r)
  BY <1>2, <1>4 DEF apply_job_results
<1>5. CASE insert(r)
  <2>1. job' = job /\ req[r].step = "insert" /\ Put(r[1], Rendered(r))
        /\ l1_accepts(r[1], req[r].page, req[r].since)
    BY <1>5 DEF insert
  <2>2. Rendered(r) \in Page /\ Rendered(r).page = req[r].page
    BY <1>1 DEF Rendered, Page, Request
  <2>. QED  BY <1>2, <2>1, <2>2
<1>. QED  BY <1>3, <1>4, <1>5 DEF Lands

TypeTier1 == /\ clock \in [Procs -> Nat]
             /\ l1 \in [Procs -> SUBSET Page]
             /\ l1_inval \in [Procs -> [Pages -> Nat]]
             /\ job \in [Procs -> Nat \cup {None}]
             /\ job_inval \in [Procs -> Nat]

(* What an insert leaves is a cache again.                                 *)
LEMMA PutTyped ==
    ASSUME TypeOK, NEW p \in Procs, NEW e \in Page, Put(p, e)
    PROVE  l1' \in [Procs -> SUBSET Page]
<1>1. [e EXCEPT !.stamp = None] \in Page
  BY DEF Page
<1>2. l1 \in [Procs -> SUBSET Page]
  BY DEF TypeOK
<1>. QED  BY <1>1, <1>2 DEF Put

(* The caches and their clock keep their types; the clock only rises.      *)
LEMMA Tier1Typed ==
    ASSUME TypeOK, HalvesFit, Next
    PROVE  /\ clock' \in [Procs -> Nat]
           /\ l1' \in [Procs -> SUBSET Page]
           /\ l1_inval' \in [Procs -> [Pages -> Nat]]
           /\ job' \in [Procs -> Nat \cup {None}]
           /\ job_inval' \in [Procs -> Nat]
           /\ \A p \in Procs : clock[p] <= clock'[p]
<1>1. TypeTier1
  BY DEF TypeOK, TypeTier1
<1>2. CASE UNCHANGED <<clock, l1, l1_inval, job, job_inval>>
  BY <1>1, <1>2 DEF TypeTier1
<1>3. ASSUME NEW r \in Requests, Lands(r)
      PROVE  /\ UNCHANGED <<clock, l1_inval, job_inval>>
             /\ l1' \in [Procs -> SUBSET Page]
             /\ job' \in [Procs -> Nat \cup {None}]
  <2>1. r[1] \in Procs /\ req[r].job \in Nat \cup {None}
    BY DEF TypeOK, Request, Requests
  <2>2. /\ UNCHANGED <<clock, l1_inval, job_inval>>
        /\ l1' = l1 \/ \E e \in Page : Put(r[1], e)
        /\ job' = job \/ job' = [job EXCEPT ![r[1]] = req[r].job]
    BY <1>3, LandStep
  <2>3. l1' \in [Procs -> SUBSET Page]
    BY <1>1, <2>1, <2>2, PutTyped DEF TypeTier1
  <2>4. job' \in [Procs -> Nat \cup {None}]
    BY <1>1, <2>1, <2>2 DEF TypeTier1
  <2>. QED  BY <2>2, <2>3, <2>4
<1>4. ASSUME NEW r \in Requests, Lands(r)
      PROVE  /\ clock' \in [Procs -> Nat]
             /\ l1' \in [Procs -> SUBSET Page]
             /\ l1_inval' \in [Procs -> [Pages -> Nat]]
             /\ job' \in [Procs -> Nat \cup {None}]
             /\ job_inval' \in [Procs -> Nat]
             /\ \A p \in Procs : clock[p] <= clock'[p]
  BY <1>1, <1>3, <1>4 DEF TypeTier1
<1>5. ASSUME NEW p \in Procs, Drops(p)
      PROVE  /\ clock' \in [Procs -> Nat]
             /\ l1' \in [Procs -> SUBSET Page]
             /\ l1_inval' \in [Procs -> [Pages -> Nat]]
             /\ job' \in [Procs -> Nat \cup {None}]
             /\ job_inval' \in [Procs -> Nat]
             /\ \A q \in Procs : clock[q] <= clock'[q]
  <2>1. /\ clock' = [clock EXCEPT ![p] = @ + 1]
        /\ clock' \in [Procs -> Nat]
        /\ l1' \in [Procs -> SUBSET Page]
        /\ l1_inval' \in [Procs -> [Pages -> Nat]]
        /\ job' \in [Procs -> Nat \cup {None}]
        /\ job_inval' \in [Procs -> Nat]
    BY <1>5, DropStep DEF Drops
  <2>. QED  BY <1>1, <2>1 DEF TypeTier1
<1>6. CASE \E r \in Requests : Lands(r)
  BY <1>4, <1>6
<1>7. CASE \E p \in Procs : Drops(p)
  BY <1>5, <1>7
<1>. QED  BY <1>2, <1>6, <1>7, Tier1Step

(* The store and its index.                                                *)
LEMMA MarkedTyped ==
    ASSUME TypeOK, NEW c \in Calls, NEW v \in Nat
    PROVE  Marked(c, v) \in [Names -> Nat]
<1>. QED  BY DEF TypeOK, Marked

(* What Redis holds keeps its types.                                       *)
LEMMA RedisTyped ==
    ASSUME TypeOK, Next
    PROVE  marks' \in [Names -> Nat] /\ index' \subseteq Names \X Pages /\ store' \subseteq Page
<1>1. marks \in [Names -> Nat] /\ index \subseteq Names \X Pages /\ store \subseteq Page
      /\ Len(log) \in Nat
  BY DEF TypeOK
<1>2. ASSUME NEW r \in Requests, SET_LUA(r)
      PROVE  marks' = marks /\ index' \subseteq Names \X Pages /\ store' \subseteq Page
  <2>1. req[r] \in Request
    BY DEF TypeOK
  <2>2. Rendered(r) \in Page /\ req[r].page \in Pages
    BY <2>1 DEF Rendered, Page, Request
  <2>3. PageNames(req[r].page) \subseteq Names
    BY <2>2 DEF Names
  <2>. QED  BY <1>1, <1>2, <2>2, <2>3 DEF SET_LUA
<1>3. ASSUME NEW i \in DOMAIN task, delete(i) \/ publish(i) PROVE marks' \in [Names -> Nat]
  <2>1. task[i].call \in Calls
    BY TaskTyped, TaskFields
  <2>2. \E v \in Nat : marks' = Marked(task[i].call, v)
    <3>1. CASE delete(i)
      BY <1>1, <3>1 DEF delete
    <3>2. CASE publish(i)
      <4>1. log' = Append(log, i)
        BY <3>2 DEF publish
      <4>2. Len(log') \in Nat
        BY <4>1 DEF TypeOK
      <4>. QED  BY <3>2, <4>2 DEF publish
    <3>. QED  BY <1>3, <3>1, <3>2
  <2>. QED  BY <2>1, <2>2, MarkedTyped
<1>4. ASSUME NEW i \in DOMAIN task, delete(i) PROVE index' \subseteq Names \X Pages
  BY <1>1, <1>4 DEF delete
<1>5. ASSUME NEW i \in DOMAIN task, unlink(i) PROVE store' \subseteq Page
  BY <1>1, <1>5 DEF unlink
<1>6. ASSUME NEW i \in DOMAIN task, Call_(i)
      PROVE  marks' \in [Names -> Nat] /\ index' \subseteq Names \X Pages /\ store' \subseteq Page
  BY <1>1, <1>3, <1>4, <1>5, <1>6, CallFrame
<1>7. ASSUME NEW r \in Requests, Page_(r)
      PROVE  marks' \in [Names -> Nat] /\ index' \subseteq Names \X Pages /\ store' \subseteq Page
  BY <1>1, <1>2, <1>7, PageFrame
<1>8. ASSUME NEW p \in Procs, Process_(p) PROVE marks' = marks /\ index' = index /\ store' = store
  BY <1>8, ProcessFrame
<1>9. ASSUME WriteData PROVE marks' = marks /\ index' = index /\ store' = store
  BY <1>9, DataFrame
<1>. QED  BY <1>1, <1>6, <1>7, <1>8, <1>9 DEF Next

(* The floors: only a replay raises one.                                   *)
LEMMA FloorTyped ==
    TypeOK => floor \in [Procs -> Floors(AllNames)]
<1>. QED  BY DEF TypeOK, Floors, FloorName, AllNames

(* Only a replay with a number raises a floor.                             *)
LEMMA FloorStep ==
    ASSUME TypeOK, HalvesFit, Next
    PROVE  \/ UNCHANGED floor
           \/ \E p \in Procs, i \in DOMAIN task, s \in DOMAIN log \cup Nat :
                 /\ Raised(p, task[i].call, s)
                 /\ \/ s = task[i].seq /\ p = task[i].proc /\ replay_own(i)
                    \/ receive(p) /\ s = pos[p] + 1 /\ i = log[s] /\ task[i].proc # p
<1>1. ASSUME NEW i \in DOMAIN task, replay_own(i), ~UNCHANGED floor
      PROVE  /\ Raised(task[i].proc, task[i].call, task[i].seq)
             /\ task[i].proc \in Procs /\ task[i].seq \in Nat
  <2>1. task[i].seq # None /\ Raised(task[i].proc, task[i].call, task[i].seq)
    BY <1>1 DEF replay_own
  <2>2. task[i].seq \in Nat \cup {None} /\ task[i].proc \in Procs
    BY TaskTyped, TaskFields
  <2>. QED  BY <2>1, <2>2
<1>2. ASSUME NEW p \in Procs, receive(p), ~UNCHANGED floor
      PROVE  /\ Raised(p, task[log[pos[p] + 1]].call, pos[p] + 1)
             /\ log[pos[p] + 1] \in DOMAIN task /\ pos[p] + 1 \in Nat
             /\ task[log[pos[p] + 1]].proc # p
  <2>1. Raised(p, task[log[pos[p] + 1]].call, pos[p] + 1) /\ task[log[pos[p] + 1]].proc # p
        /\ pos[p] < Len(log)
    BY <1>2 DEF receive
  <2>2. pos[p] \in Nat /\ Len(log) \in Nat /\ log \in Seq(DOMAIN task)
    BY DEF TypeOK
  <2>3. log[pos[p] + 1] \in DOMAIN task
    BY <2>1, <2>2
  <2>. QED  BY <2>1, <2>2, <2>3
<1>3. ASSUME NEW i \in DOMAIN task, Call_(i) PROVE UNCHANGED floor \/ replay_own(i)
  BY <1>3, CallFrame
<1>4. ASSUME NEW p \in Procs, Process_(p) PROVE UNCHANGED floor \/ receive(p)
  BY <1>4, ProcessFrame
<1>5. ASSUME NEW r \in Requests, Page_(r) PROVE UNCHANGED floor
  BY <1>5, PageFrame
<1>6. ASSUME WriteData PROVE UNCHANGED floor
  BY <1>6, DataFrame
<1>. QED  BY <1>1, <1>2, <1>3, <1>4, <1>5, <1>6 DEF Next

(* One floor of a raise, and the others.                                   *)
LEMMA RaisedFloor ==
    ASSUME TypeOK, FloorOnce, NEW p \in Procs, NEW i \in DOMAIN task, NEW s \in Nat,
           Raised(p, task[i].call, s)
    PROVE  /\ floor' \in [Procs -> Floors(AllNames)]
           /\ \A q \in Procs : Once(floor'[q])
           /\ FloorHolds =>
                /\ \A n \in FloorNames(task[i].call) : Above(floor'[p], n, s)
                /\ \A q \in Procs : \A m : \A x \in Nat :
                     Above(floor[q], m, x) => Above(floor'[q], m, x)
<1>. DEFINE c == task[i].call
            f == floor[p]
            g == raise(f, c, s)
<1>1. c \in Calls /\ f \in Floors(AllNames) /\ Once(f) /\ floor \in [Procs -> Floors(AllNames)]
  BY TaskTyped, TaskFields, FloorTyped DEF FloorOnce
<1>. HIDE DEF c
<1>2. /\ g \in Floors(AllNames) /\ Once(g)
      /\ FloorHolds => /\ \A n \in FloorNames(c) : Above(g, n, s)
                       /\ \A m : \A x \in Nat : Above(f, m, x) => Above(g, m, x)
  BY <1>1, Raise
<1>3. floor' = [floor EXCEPT ![p] = g]
  BY DEF Raised, c
<1>. HIDE DEF g
<1>4. floor' \in [Procs -> Floors(AllNames)] /\ floor'[p] = g /\ \A q \in Procs : q # p => floor'[q] = floor[q]
  BY <1>1, <1>2, <1>3
<1>5. \A q \in Procs : Once(floor'[q])
  BY <1>2, <1>4 DEF FloorOnce
<1>6. ASSUME FloorHolds, NEW q \in Procs, NEW m, NEW x \in Nat, Above(floor[q], m, x)
      PROVE  Above(floor'[q], m, x)
  BY <1>2, <1>4, <1>6
<1>7. ASSUME FloorHolds, NEW n \in FloorNames(task[i].call) PROVE Above(floor'[p], n, s)
  BY <1>2, <1>4, <1>7 DEF c
<1>. QED  BY <1>4, <1>5, <1>6, <1>7

(* A floor that holds all its names forgets nothing it rejected.           *)
LEMMA FloorKept ==
    ASSUME TypeOK, FloorOnce, HalvesFit, Next
    PROVE  /\ floor' \in [Procs -> Floors(AllNames)]
           /\ \A q \in Procs : Once(floor'[q])
           /\ FloorHolds => \A q \in Procs : \A m : \A x \in Nat :
                              Above(floor[q], m, x) => Above(floor'[q], m, x)
<1>1. CASE UNCHANGED floor
  BY <1>1, FloorTyped DEF FloorOnce
<1>2. CASE \E p \in Procs, i \in DOMAIN task, s \in DOMAIN log \cup Nat : Raised(p, task[i].call, s)
  <2>1. DOMAIN log \subseteq Nat
    BY DEF TypeOK
  <2>2. PICK p \in Procs, i \in DOMAIN task, s \in Nat : Raised(p, task[i].call, s)
    BY <1>2, <2>1
  <2>. QED  BY <2>2, RaisedFloor
<1>. QED  BY <1>1, <1>2, FloorStep

(* Worker 0 and its place in the channel.                                  *)
LEMMA RemoteKept ==
    ASSUME TypeOK, HalvesFit, Next
    PROVE  /\ remote' \in [Procs -> Replay]
           /\ pos' \in [Procs -> 0 .. Len(log')]
           /\ applied' \in [Procs -> SUBSET DOMAIN task']
           /\ \A p \in Procs :
                /\ remote'[p].halves = <<>> => remote'[p].id = 0
                /\ remote'[p].id # 0 => /\ remote'[p].halves \in Seq(CallHalves)
                                        /\ remote'[p].id \in DOMAIN task'
                /\ remote'[p].id = 0 => remote'[p].halves \in Seq(ClearHalves)
<1>1. /\ remote \in [Procs -> Replay] /\ pos \in [Procs -> 0 .. Len(log)]
      /\ applied \in [Procs -> SUBSET DOMAIN task]
      /\ Len(log) \in Nat /\ log \in Seq(DOMAIN task) /\ task \in Seq(Task)
  BY DEF TypeOK
<1>2. /\ DOMAIN task \subseteq DOMAIN task' /\ Len(log) <= Len(log') /\ Len(log') \in Nat
      /\ log' \in Seq(DOMAIN task')
  BY CallsKept
<1>. DEFINE RemFits(m) == /\ m.halves = <<>> => m.id = 0
                          /\ m.id # 0 => m.halves \in Seq(CallHalves) /\ m.id \in DOMAIN task'
                          /\ m.id = 0 => m.halves \in Seq(ClearHalves)
<1>3. \A p \in Procs : RemFits(remote[p])
  BY <1>2 DEF HalvesFit, ClearHalves
<1>4. pos \in [Procs -> 0 .. Len(log')]
  BY <1>1, <1>2
<1>5. applied \in [Procs -> SUBSET DOMAIN task']
  BY <1>1, <1>2
<1>6. NoReplay \in Replay /\ RemFits(NoReplay)
  <2>1. NoReplay.id = 0 /\ NoReplay.halves = <<>> /\ NoReplay \in Replay
    BY DEF NoReplay, Replay
  <2>. QED  BY <2>1
<1>7. CallHalves \subseteq HalfNames /\ ClearHalves \subseteq HalfNames
  BY DEF CallHalves, ClearHalves, HalfNames
<1>. DEFINE Rem(m) == m \in [Procs -> Replay] /\ \A p \in Procs : RemFits(m[p])
<1>8. ASSUME NEW p \in Procs, NEW m \in Replay, RemFits(m), remote' = [remote EXCEPT ![p] = m]
      PROVE  Rem(remote')
  <2>. HIDE DEF RemFits
  <2>. QED  BY <1>1, <1>3, <1>8
<1>9. UNCHANGED remote => Rem(remote')
  <2>. HIDE DEF RemFits
  <2>. QED  BY <1>1, <1>3
<1>10. ASSUME NEW p \in Procs, receive(p) PROVE Rem(remote') /\ pos' \in [Procs -> 0 .. Len(log')]
  <2>. DEFINE i == log[pos[p] + 1]
  <2>1. pos[p] < Len(log) /\ pos' = [pos EXCEPT ![p] = @ + 1] /\ Len(log') = Len(log)
    BY <1>10, ProcessFrame DEF receive, Process_
  <2>2. pos' \in [Procs -> 0 .. Len(log')]
    BY <1>1, <2>1
  <2>3. i \in DOMAIN task /\ i # 0
    BY <1>1, <2>1
  <2>4. CASE task[i].proc = p
    BY <1>9, <1>10, <2>2, <2>4 DEF receive
  <2>5. CASE task[i].proc # p
    <3>. DEFINE m == [id |-> i, halves |-> Halves(task[i].call)]
    <3>1. remote' = [remote EXCEPT ![p] = m]
      BY <1>10, <2>5 DEF receive
    <3>2. task[i].call \in Calls /\ i \in Nat
      BY <1>1, <2>3, TaskTyped, TaskFields
    <3>3. Halves(task[i].call) \in Seq(CallHalves) /\ Halves(task[i].call) # <<>>
      BY <3>2, HalvesOf
    <3>4. Halves(task[i].call) \in Seq(HalfNames)
      BY <1>7, <3>3
    <3>5. m \in Replay
      BY <3>2, <3>4 DEF Replay
    <3>6. m.id = i /\ m.halves = Halves(task[i].call)
      OBVIOUS
    <3>7. RemFits(m)
      <4>. HIDE DEF m, i
      <4>. QED  BY <1>2, <2>3, <3>3, <3>6
    <3>. HIDE DEF m
    <3>. QED  BY <1>8, <2>2, <3>1, <3>5, <3>7
  <2>. QED  BY <2>4, <2>5
<1>11. ASSUME NEW p \in Procs, gap(p) PROVE Rem(remote') /\ pos' \in [Procs -> 0 .. Len(log')]
  <2>. DEFINE m == [remote[p] EXCEPT !.halves = <<"clear_l1", "clear_jobs">>]
  <2>1. remote[p].halves = <<>> /\ remote[p] \in Replay
    BY <1>11, RemoteTyped DEF gap, Receiving
  <2>2. remote[p].id = 0
    BY <2>1 DEF HalvesFit
  <2>3. remote' = [remote EXCEPT ![p] = m]
    BY <1>1, <1>11 DEF gap
  <2>4. m \in Replay /\ m.id = 0 /\ m.halves = <<"clear_l1", "clear_jobs">>
    <3>1. <<"clear_l1", "clear_jobs">> \in Seq(HalfNames)
      BY DEF HalfNames
    <3>. QED  BY <2>1, <2>2, <3>1 DEF Replay
  <2>5. m.halves \in Seq(ClearHalves)
    BY <2>4 DEF ClearHalves
  <2>6. RemFits(m)
    <3>. HIDE DEF m
    <3>. QED  BY <2>4, <2>5
  <2>7. Rem(remote')
    <3>. HIDE DEF m, RemFits
    <3>. QED  BY <1>8, <2>3, <2>4, <2>6
  <2>8. PICK n \in pos[p] + 1 .. Len(log) : pos' = [pos EXCEPT ![p] = n]
    BY <1>11 DEF gap
  <2>9. n \in 0 .. Len(log')
    BY <1>1, <1>2, <2>8
  <2>. QED  BY <1>4, <2>7, <2>8, <2>9
<1>12. ASSUME NEW p \in Procs, invalidate_remote(p)
       PROVE  Rem(remote') /\ pos' = pos /\ applied' \in [Procs -> SUBSET DOMAIN task']
  <2>1. /\ remote[p] \in Replay /\ remote[p].id \in Nat /\ remote[p].halves \in Seq(HalfNames)
        /\ remote[p].halves # <<>>
        /\ remote[p].id # 0 => remote[p].id \in DOMAIN task /\ remote[p].halves \in Seq(CallHalves)
        /\ remote[p].id = 0 => remote[p].halves \in Seq(ClearHalves)
        /\ remote' = [remote EXCEPT ![p] = IF Tail(remote[p].halves) = <<>> THEN NoReplay
                                           ELSE [remote[p] EXCEPT !.halves = Tail(remote[p].halves)]]
    BY <1>12, RemoteTyped, RemoteStep
  <2>. DEFINE H == Tail(remote[p].halves)
              m == [remote[p] EXCEPT !.halves = H]
  <2>2. /\ H \in Seq(HalfNames)
        /\ remote[p].id # 0 => H \in Seq(CallHalves)
        /\ remote[p].id = 0 => H \in Seq(ClearHalves)
    BY <2>1
  <2>3. m \in Replay /\ m.id = remote[p].id /\ m.halves = H
    BY <2>1, <2>2 DEF Replay
  <2>4. CASE H = <<>>
    <3>1. remote' = [remote EXCEPT ![p] = NoReplay]
      BY <2>1, <2>4
    <3>2. Rem(remote')
      <4>. HIDE DEF RemFits
      <4>. QED  BY <1>6, <1>8, <3>1
    <3>3. pos' = pos
      BY <1>12 DEF invalidate_remote
    <3>4. \/ applied' = applied
          \/ applied' = [applied EXCEPT ![p] = @ \cup {remote[p].id}] /\ remote[p].id # 0
      BY <1>12 DEF invalidate_remote
    <3>5. remote[p].id # 0 => remote[p].id \in DOMAIN task'
      BY <1>2, <2>1
    <3>6. applied' \in [Procs -> SUBSET DOMAIN task']
      BY <1>5, <3>4, <3>5
    <3>. HIDE DEF Rem
    <3>. QED  BY <3>2, <3>3, <3>6
  <2>5. CASE H # <<>>
    <3>1. remote' = [remote EXCEPT ![p] = m]
      BY <2>1, <2>5
    <3>. HIDE DEF H, m
    <3>2. RemFits(m)
      BY <1>2, <2>1, <2>2, <2>3, <2>5
    <3>. HIDE DEF RemFits
    <3>3. Rem(remote')
      BY <1>8, <2>3, <3>1, <3>2
    <3>. QED  BY <1>5, <1>12, <2>5, <3>3 DEF invalidate_remote, Final, H
  <2>. QED  BY <2>4, <2>5
<1>13. ASSUME NEW i \in DOMAIN task, Call_(i)
       PROVE  UNCHANGED <<remote, pos>> /\ applied' \in [Procs -> SUBSET DOMAIN task']
  <2>1. applied' = applied \/ applied' = [applied EXCEPT ![task[i].proc] = @ \cup {i}]
    BY <1>13, CallFrame, PurgeStep
  <2>2. task[i].proc \in Procs /\ i \in DOMAIN task'
    BY <1>2, TaskTyped, TaskFields
  <2>. QED  BY <1>5, <1>13, <2>1, <2>2, CallFrame
<1>14. ASSUME NEW p \in Procs, Process_(p)
       PROVE  /\ Rem(remote') /\ pos' \in [Procs -> 0 .. Len(log')]
              /\ applied' \in [Procs -> SUBSET DOMAIN task']
  <2>. HIDE DEF Rem
  <2>1. CASE Invalidate(p)
    BY <1>4, <1>5, <1>9, <1>14, <2>1, ProcessFrame DEF Invalidate
  <2>2. CASE receive(p)
    BY <1>5, <1>10, <2>2 DEF receive
  <2>3. CASE gap(p)
    BY <1>5, <1>11, <2>3 DEF gap
  <2>4. CASE invalidate_remote(p)
    BY <1>4, <1>12, <2>4
  <2>. QED  BY <1>14, <2>1, <2>2, <2>3, <2>4 DEF Process_
<1>15. ASSUME NEW r \in Requests, Page_(r) PROVE UNCHANGED <<remote, pos, applied>>
  BY <1>15, PageFrame
<1>16. ASSUME WriteData PROVE UNCHANGED <<remote, pos, applied>>
  BY <1>16, DataFrame
<1>17. /\ Rem(remote') /\ pos' \in [Procs -> 0 .. Len(log')]
       /\ applied' \in [Procs -> SUBSET DOMAIN task']
  <2>. HIDE DEF Rem
  <2>. QED  BY <1>4, <1>5, <1>9, <1>13, <1>14, <1>15, <1>16 DEF Next
<1>. QED  BY <1>17

(* Requests keep their types and their stamps stay behind the counters.    *)
LEMMA ReqKept ==
    ASSUME TypeOK, HalvesFit, Next
    PROVE  /\ req' \in [Requests -> Request]
           /\ \A r \in Requests : req'[r].since <= clock'[r[1]] /\ req'[r].stamp <= Len(log')
<1>1. /\ req \in [Requests -> Request] /\ Len(log) \in Nat /\ clock \in [Procs -> Nat]
      /\ \A r \in Requests : req[r].since <= clock[r[1]] /\ req[r].stamp <= Len(log)
  BY DEF TypeOK
<1>2. /\ Len(log) <= Len(log') /\ Len(log') \in Nat
      /\ \A p \in Procs : clock[p] <= clock'[p] /\ clock'[p] \in Nat
  BY CallsKept, Tier1Typed
<1>3. \E f \in [Requests -> Request] :
         /\ req' = f
         /\ \A r \in Requests : f[r].since <= clock[r[1]] /\ f[r].stamp <= Len(log)
  <2>1. CASE req' = req
    BY <1>1, <2>1
  <2>2. ASSUME NEW r \in Requests, Page_(r)
        PROVE  \E f \in [Requests -> Request] :
                  /\ req' = f
                  /\ \A q \in Requests : f[q].since <= clock[q[1]] /\ f[q].stamp <= Len(log)
    <3>1. PICK q \in Request : /\ req' = [req EXCEPT ![r] = q]
                               /\ q.since <= clock[r[1]] /\ q.stamp <= Len(log)
      BY <2>2, ReqStep
    <3>2. PICK f : f = [req EXCEPT ![r] = q]
      OBVIOUS
    <3>3. f \in [Requests -> Request] /\ f[r] = q /\ \A x \in Requests : x # r => f[x] = req[x]
      BY <1>1, <3>2
    <3>. QED  BY <1>1, <3>1, <3>2, <3>3
  <2>3. ASSUME NEW i \in DOMAIN task, Call_(i) PROVE req' = req
    BY <2>3, CallFrame
  <2>4. ASSUME NEW p \in Procs, Process_(p) PROVE req' = req
    BY <2>4, ProcessFrame
  <2>5. ASSUME WriteData PROVE req' = req
    BY <2>5, DataFrame
  <2>. QED  BY <2>1, <2>2, <2>3, <2>4, <2>5 DEF Next
<1>4. PICK f \in [Requests -> Request] :
         /\ req' = f
         /\ \A r \in Requests : f[r].since <= clock[r[1]] /\ f[r].stamp <= Len(log)
  BY <1>3
<1>5. ASSUME NEW r \in Requests PROVE f[r].since <= clock'[r[1]] /\ f[r].stamp <= Len(log')
  <2>1. r[1] \in Procs /\ f[r] \in Request
    BY DEF Requests
  <2>2. f[r].since \in Nat /\ f[r].stamp \in Nat \cup {-1}
    BY <2>1 DEF Request, None
  <2>3. clock[r[1]] \in Nat /\ clock'[r[1]] \in Nat /\ clock[r[1]] <= clock'[r[1]]
    BY <1>1, <1>2, <2>1
  <2>4. f[r].since <= clock[r[1]] /\ f[r].stamp <= Len(log)
    BY <1>4
  <2>. QED  BY <1>1, <1>2, <2>2, <2>3, <2>4
<1>. QED  BY <1>4, <1>5

(* The bounded counters only rise.                                         *)
LEMMA CountersKept ==
    ASSUME TypeOK, Next
    PROVE  data' \in Nat /\ data <= data' /\ begun' \in Nat /\ faults' \in Nat /\ faults <= faults'
<1>1. data \in Nat /\ begun \in Nat /\ faults \in Nat
  BY DEF TypeOK
<1>2. ASSUME NEW r \in Requests, Page_(r)
      PROVE  /\ data' = data
             /\ begun' = begun + 1 \/ begun' = begun
             /\ faults' = faults + 1 \/ faults' = faults
  BY <1>2, PageFrame
<1>3. ASSUME NEW i \in DOMAIN task, Call_(i)
      PROVE  data' = data /\ begun' = begun /\ (faults' = faults + 1 \/ faults' = faults)
  BY <1>3, CallFrame
<1>4. ASSUME NEW p \in Procs, Process_(p)
      PROVE  data' = data /\ begun' = begun /\ (faults' = faults + 1 \/ faults' = faults)
  BY <1>4, ProcessFrame
<1>5. ASSUME WriteData PROVE data' = data + 1 /\ begun' = begun /\ faults' = faults
  BY <1>5, DataFrame
<1>6. /\ data' = data \/ data' = data + 1
      /\ begun' = begun \/ begun' = begun + 1
      /\ faults' = faults + 1 \/ faults' = faults
  BY <1>2, <1>3, <1>4, <1>5 DEF Next
<1>. QED  BY <1>1, <1>6

(* The typed states are closed under every step,                           *)
LEMMA TypeStep ==
    ASSUME TypeOK, FloorOnce, HalvesFit, Next, UNCHANGED app
    PROVE  TypeOK' /\ FloorOnce' /\ HalvesFit'
<1>1. adapter' \in BOOLEAN /\ planned' \subseteq Pages
  BY DEF TypeOK, app
<1>2. data' \in Nat /\ begun' \in Nat /\ faults' \in Nat
  BY CountersKept
<1>3. marks' \in [Names -> Nat] /\ index' \subseteq Names \X Pages /\ store' \subseteq Page
  BY RedisTyped
<1>4. /\ clock' \in [Procs -> Nat]
      /\ l1' \in [Procs -> SUBSET Page]
      /\ l1_inval' \in [Procs -> [Pages -> Nat]]
      /\ job' \in [Procs -> Nat \cup {None}]
      /\ job_inval' \in [Procs -> Nat]
  BY Tier1Typed
<1>5. floor' \in [Procs -> Floors(AllNames)] /\ \A q \in Procs : Once(floor'[q])
  BY FloorKept
<1>6. floor' \in [Procs -> Seq([name : UNION {FloorNames(c) : c \in Calls}, seq : Nat])]
  BY <1>5 DEF Floors, FloorName, AllNames
<1>7. /\ req' \in [Requests -> Request]
      /\ \A r \in Requests : req'[r].since <= clock'[r[1]] /\ req'[r].stamp <= Len(log')
  BY ReqKept
<1>8. /\ task' \in Seq(Task) /\ log' \in Seq(DOMAIN task')
      /\ \A i \in DOMAIN task' : HalvesLeft(task'[i])
  BY CallsKept
<1>9. /\ remote' \in [Procs -> Replay]
      /\ pos' \in [Procs -> 0 .. Len(log')]
      /\ applied' \in [Procs -> SUBSET DOMAIN task']
      /\ \A p \in Procs :
           /\ remote'[p].halves = <<>> => remote'[p].id = 0
           /\ remote'[p].id # 0 => /\ remote'[p].halves \in Seq(CallHalves)
                                   /\ remote'[p].id \in DOMAIN task'
           /\ remote'[p].id = 0 => remote'[p].halves \in Seq(ClearHalves)
  BY RemoteKept
<1>10. TypeOK'
  BY <1>1, <1>2, <1>3, <1>4, <1>6, <1>7, <1>8, <1>9 DEF TypeOK
<1>11. FloorOnce'
  BY <1>5 DEF FloorOnce, Once
<1>12. HalvesFit'
  BY <1>8, <1>9 DEF HalvesFit, HalvesLeft, ClearHalves
<1>. QED  BY <1>10, <1>11, <1>12

PagesTypeInv == TypeOK /\ FloorOnce /\ HalvesFit

(* ... and under stuttering.                                               *)
LEMMA TypeStutter ==
    ASSUME PagesTypeInv, UNCHANGED vars
    PROVE  PagesTypeInv'
<1>. QED  BY DEF PagesTypeInv, TypeOK, FloorOnce, Once, HalvesFit, vars, app, redis, tier1, calls

(* Every variable keeps its type; no stamp and no position is ahead of the *)
(* log.                                                                    *)
THEOREM PagesTypes == Spec => []TypeOK
<1>1. Init => PagesTypeInv
  BY TypeInit DEF PagesTypeInv
<1>2. PagesTypeInv /\ [Next /\ UNCHANGED app]_vars => PagesTypeInv'
  BY TypeStep, TypeStutter DEF PagesTypeInv
<1>3. PagesTypeInv => TypeOK
  BY DEF PagesTypeInv
<1>. QED  BY <1>1, <1>2, <1>3, PTL DEF Spec

-----------------------------------------------------------------------------
(* Calls, stamps and what a stamp says                                     *)

(* What a step does to a call.                                             *)
NewCall(p, c) == [step |-> "local", proc |-> p, call |-> c, data |-> data,
                  halves |-> Halves(c), members |-> {}, seq |-> None]

(* A call of the next state is one of this state, one that took a step, or *)
(* new.                                                                    *)
LEMMA TaskChange ==
    ASSUME TypeOK, HalvesFit, Next
    PROVE  \A j \in DOMAIN task' :
              \/ j \in DOMAIN task /\ task'[j] = task[j]
              \/ j \in DOMAIN task /\ Call_(j)
              \/ /\ j \notin DOMAIN task /\ UNCHANGED <<log, data>>
                 /\ \E p \in Procs, c \in Calls : Invalidate(p) /\ task'[j] = NewCall(p, c)
<1>1. task \in Seq(Task)
  BY DEF TypeOK
<1>2. ASSUME NEW i \in DOMAIN task, Call_(i), NEW j \in DOMAIN task'
      PROVE  j \in DOMAIN task /\ (task'[j] = task[j] \/ Call_(j))
  <2>1. PICK t \in Task : task' = [task EXCEPT ![i] = t]
    BY <1>2, CallStep
  <2>2. DOMAIN task' = DOMAIN task /\ \A k \in DOMAIN task : k # i => task'[k] = task[k]
    BY <1>1, <2>1
  <2>. QED  BY <1>2, <2>2
<1>3. ASSUME NEW p \in Procs, Invalidate(p), NEW j \in DOMAIN task'
      PROVE  \/ j \in DOMAIN task /\ task'[j] = task[j]
             \/ /\ j \notin DOMAIN task /\ UNCHANGED <<log, data>>
                /\ \E c \in Calls : task'[j] = NewCall(p, c)
  <2>1. PICK c \in Calls : task' = Append(task, NewCall(p, c))
    BY <1>3 DEF Invalidate, NewCall
  <2>. DEFINE t == NewCall(p, c)
  <2>2. task' = Append(task, t)
    BY <2>1
  <2>. HIDE DEF t
  <2>3. \/ j \in DOMAIN task /\ task'[j] = task[j]
        \/ j \notin DOMAIN task /\ task'[j] = t
    BY <1>1, <1>3, <2>2
  <2>4. UNCHANGED <<log, data>>
    BY <1>3 DEF Invalidate, redis
  <2>. QED  BY <2>3, <2>4 DEF t
<1>4. ASSUME NEW p \in Procs, Process_(p) PROVE Invalidate(p) \/ task' = task
  BY <1>4, ProcessFrame
<1>5. ASSUME NEW r \in Requests, Page_(r) PROVE task' = task
  BY <1>5, PageFrame
<1>6. ASSUME WriteData PROVE task' = task
  BY <1>6, DataFrame
<1>. QED  BY <1>2, <1>3, <1>4, <1>5, <1>6 DEF Next

(* No step gives a call data from the future or a second number.           *)
LEMMA CallsFitStep ==
    ASSUME TypeOK, HalvesFit, CallsFit, Next, UNCHANGED app
    PROVE  CallsFit'
<1>1. data \in Nat /\ data' \in Nat /\ data <= data' /\ adapter' = adapter
      /\ log \in Seq(DOMAIN task) /\ Len(log) \in Nat
      /\ \A n \in DOMAIN log : n \in DOMAIN log' /\ log'[n] = log[n]
  <2>1. data \in Nat /\ adapter' = adapter /\ log \in Seq(DOMAIN task) /\ Len(log) \in Nat
    BY DEF TypeOK, app
  <2>2. data' \in Nat /\ data <= data'
    BY CountersKept
  <2>3. \A n \in DOMAIN log : n \in DOMAIN log' /\ log'[n] = log[n]
    BY CallsKept
  <2>. QED  BY <2>1, <2>2, <2>3
<1>2. ASSUME NEW j \in DOMAIN task, j \in DOMAIN task', task'[j] = task[j]
      PROVE  /\ task'[j].data <= data'
             /\ task'[j].seq # None => task'[j].seq \in DOMAIN log' /\ log'[task'[j].seq] = j
             /\ ~adapter => task'[j].step \in {"local", "done"}
  <2>1. task[j].data \in Nat
    BY TaskTyped, TaskFields
  <2>. QED  BY <1>1, <1>2, <2>1 DEF CallsFit
<1>3. ASSUME NEW j \in DOMAIN task, Call_(j)
      PROVE  /\ task'[j].data <= data'
             /\ task'[j].seq # None => task'[j].seq \in DOMAIN log' /\ log'[task'[j].seq] = j
             /\ ~adapter => task'[j].step \in {"local", "done"}
  <2>1. PICK t \in Task : /\ task' = [task EXCEPT ![j] = t]
                          /\ Same(t, task[j])
                          /\ \/ t.seq = task[j].seq
                             \/ publish(j) /\ t.seq = Len(log) + 1
    BY <1>3, CallStep
  <2>2. task'[j] = t
    BY <2>1 DEF TypeOK
  <2>3. t.data = task[j].data /\ t.data \in Nat
    BY <2>1, TaskFields DEF Same
  <2>4. t.data <= data'
    BY <1>1, <2>3 DEF CallsFit
  <2>5. t.seq # None => t.seq \in DOMAIN log' /\ log'[t.seq] = j
    <3>1. CASE t.seq = task[j].seq
      BY <1>1, <3>1 DEF CallsFit
    <3>2. CASE publish(j) /\ t.seq = Len(log) + 1
      <4>1. log' = Append(log, j)
        BY <3>2 DEF publish
      <4>. QED  BY <1>1, <3>2, <4>1
    <3>. QED  BY <2>1, <3>1, <3>2
  <2>6. ASSUME ~adapter PROVE t.step \in {"local", "done"}
    <3>1. task[j].step \in {"local", "done"} /\ task[j] \in Task
      BY <2>6, TaskTyped DEF CallsFit
    <3>2. invalidate_own(j) \/ unlink(j)
      BY <1>3, <3>1 DEF Call_, delete, delete_failed, publish, publish_failed, replay_own, invalidate_again
    <3>3. CASE invalidate_own(j)
      <4>1. /\ task[j].step = "local"
            /\ task' = [task EXCEPT ![j].halves = Tail(@),
                                    ![j].step = IF Final(task[j].halves) THEN AfterTier1(task[j].call)
                                                ELSE @]
        BY <3>3 DEF invalidate_own
      <4>2. AfterTier1(task[j].call) = "done"
        BY <2>6 DEF AfterTier1
      <4>3. task'[j].step \in {"local", "done"}
        BY <4>1, <4>2, <3>1 DEF TypeOK, Task
      <4>. QED  BY <2>2, <4>3
    <3>4. CASE unlink(j)
      <4>1. task' = [task EXCEPT ![j].step = IF @ = "unlink" THEN "publish" ELSE @, ![j].members = {}]
        BY <3>4 DEF unlink
      <4>2. task'[j].step = task[j].step
        BY <4>1, <3>1 DEF TypeOK, Task
      <4>. QED  BY <2>2, <3>1, <4>2
    <3>. QED  BY <3>2, <3>3, <3>4
  <2>. QED  BY <2>2, <2>4, <2>5, <2>6
<1>4. ASSUME NEW p \in Procs, NEW c \in Calls, NEW j, task'[j] = NewCall(p, c)
      PROVE  task'[j].data <= data' /\ task'[j].seq = None /\ task'[j].step = "local"
  BY <1>1, <1>4 DEF NewCall
<1>5. \A j \in DOMAIN task' :
             /\ task'[j].data <= data'
             /\ task'[j].seq # None => task'[j].seq \in DOMAIN log' /\ log'[task'[j].seq] = j
             /\ ~adapter => task'[j].step \in {"local", "done"}
  BY <1>2, <1>3, <1>4, TaskChange
<1>. QED  BY <1>1, <1>5 DEF CallsFit

(* The requests: the fields the invariants speak of.                       *)
LEMMA ReqTyped ==
    ASSUME TypeOK, NEW r \in Requests
    PROVE  /\ req[r] \in Request /\ req \in [Requests -> Request]
           /\ req[r].since \in Nat /\ req[r].loader \in Nat /\ req[r].page \in Pages
           /\ req[r].stamp \in Nat \cup {None} /\ req[r].job \in Nat \cup {None}
           /\ req[r].found \in SUBSET Page /\ req[r].hit \in BOOLEAN
           /\ r[1] \in Procs
<1>1. req[r] \in Request /\ req \in [Requests -> Request]
  BY DEF TypeOK
<1>. QED  BY <1>1 DEF Request, Requests

(* What a step of a request makes of it: `o` before, `q` after.            *)
On(q, o) == q.page = o.page /\ q.since = o.since /\ q.stamp = o.stamp

Effect(q, o) ==
    \/ /\ q.step \in {"idle", "get", "load"} /\ q.found = {} /\ (q.step = "get" => adapter)
       /\ q.stamp \in {None, o.stamp}
    \/ /\ o.step = "get" /\ q.step = "seq" /\ On(q, o)
       /\ q.found = {e \in store : e.page = q.page}
    \/ /\ o.step = "seq" /\ q.step = "reply" /\ q.page = o.page /\ q.since = o.since
       /\ q.found = o.found
    \/ o.step = "load" /\ q.step = "jobs" /\ q.loader = data /\ q.found = o.found /\ On(q, o)
    \/ /\ o.step \in {"jobs", "call", "apply", "insert"} /\ On(q, o) /\ q.found = o.found
       /\ q.loader = o.loader
       /\ \/ q.step = "call"
          \/ q.step = "apply" /\ q.job = data
          \/ q.step = "set" /\ o.stamp # None
          \/ /\ q.step = "insert"
             /\ \/ o.page \notin planned
                \/ q.hit
                \/ o.step = "apply" /\ q.job = o.job /\ q.hit = o.hit

(* Every step of a request is one of the effects.                          *)
LEMMA ReqEffect ==
    ASSUME TypeOK, NEW r \in Requests, Page_(r)
    PROVE  Effect(req'[r], req[r]) /\ \A x \in Requests : x # r => req'[x] = req[x]
<1>. DEFINE o == req[r]
<1>1. o \in Request /\ req \in [Requests -> Request]
  BY ReqTyped
<1>2. ASSUME NEW q, req' = [req EXCEPT ![r] = q], Effect(q, o)
      PROVE  Effect(req'[r], o) /\ \A x \in Requests : x # r => req'[x] = req[x]
  <2>1. req'[r] = q /\ \A x \in Requests : x # r => req'[x] = req[x]
    BY <1>1, <1>2
  <2>. QED  BY <1>2, <2>1
<1>. DEFINE G == Effect(req'[r], o) /\ \A x \in Requests : x # r => req'[x] = req[x]
<1>3. CASE req' = [req EXCEPT ![r] = Idle]
  <2>1. Idle.step = "idle" /\ Idle.found = {} /\ Idle.stamp = None
    BY DEF Idle
  <2>2. Effect(Idle, o)
    BY <2>1 DEF Effect
  <2>. QED  BY <1>2, <1>3, <2>2
<1>4. ASSUME begin(r) PROVE G
  <2>1. PICK g \in Pages :
          req' = [req EXCEPT ![r] = [Idle EXCEPT !.step = IF adapter THEN "get" ELSE "load",
                                                 !.page = g, !.since = clock[r[1]]]]
    BY <1>4 DEF begin
  <2>. DEFINE q == [Idle EXCEPT !.step = IF adapter THEN "get" ELSE "load",
                                !.page = g, !.since = clock[r[1]]]
  <2>2. q.step \in {"get", "load"} /\ q.found = {} /\ (q.step = "get" => adapter)
        /\ q.stamp = None
    BY DEF Idle
  <2>3. req' = [req EXCEPT ![r] = q]
    BY <2>1
  <2>. HIDE DEF q
  <2>4. Effect(q, o)
    BY <2>2 DEF Effect
  <2>. QED  BY <1>2, <2>3, <2>4
<1>5. ASSUME get_page(r) PROVE G
  <2>. DEFINE q == [o EXCEPT !.step = "seq", !.found = {e \in store : e.page = o.page}]
  <2>1. req' = [req EXCEPT ![r] = q] /\ o.step = "get"
    BY <1>1, <1>5 DEF get_page
  <2>2. q.step = "seq" /\ On(q, o) /\ q.found = {e \in store : e.page = q.page}
    BY <1>1 DEF Request, On
  <2>. HIDE DEF q
  <2>3. Effect(q, o)
    BY <2>1, <2>2 DEF Effect
  <2>. QED  BY <1>2, <2>1, <2>3
<1>6. ASSUME get_seq(r) PROVE G
  <2>. DEFINE q == [o EXCEPT !.step = "reply", !.stamp = Len(log)]
  <2>1. req' = [req EXCEPT ![r] = q] /\ o.step = "seq"
    BY <1>1, <1>6 DEF get_seq
  <2>2. q.step = "reply" /\ q.page = o.page /\ q.since = o.since /\ q.found = o.found
    BY <1>1 DEF Request
  <2>. HIDE DEF q
  <2>3. Effect(q, o)
    BY <2>1, <2>2 DEF Effect
  <2>. QED  BY <1>2, <2>1, <2>3
<1>7. ASSUME get_failed(r) PROVE G
  <2>. DEFINE q == [o EXCEPT !.step = "load", !.found = {}, !.stamp = None]
  <2>1. req' = [req EXCEPT ![r] = q]
    BY <1>1, <1>7 DEF get_failed
  <2>2. q.step = "load" /\ q.found = {} /\ q.stamp = None
    BY <1>1 DEF Request
  <2>. HIDE DEF q
  <2>3. Effect(q, o)
    BY <2>2 DEF Effect
  <2>. QED  BY <1>2, <2>1, <2>3
<1>8. ASSUME l2_miss(r) PROVE G
  <2>. DEFINE q == [o EXCEPT !.step = "load", !.found = {}]
  <2>1. req' = [req EXCEPT ![r] = q]
    BY <1>1, <1>8 DEF l2_miss
  <2>2. q.step = "load" /\ q.found = {} /\ q.stamp = o.stamp
    BY <1>1 DEF Request
  <2>. HIDE DEF q
  <2>3. Effect(q, o)
    BY <2>2 DEF Effect
  <2>. QED  BY <1>2, <2>1, <2>3
<1>9. ASSUME loader(r) PROVE G
  <2>. DEFINE q == [o EXCEPT !.step = "jobs", !.loader = data]
  <2>1. req' = [req EXCEPT ![r] = q] /\ o.step = "load"
    BY <1>1, <1>9 DEF loader
  <2>2. q.step = "jobs" /\ q.loader = data /\ q.found = o.found /\ On(q, o)
    BY <1>1 DEF Request, On
  <2>. HIDE DEF q
  <2>3. Effect(q, o)
    BY <2>1, <2>2 DEF Effect
  <2>. QED  BY <1>2, <2>1, <2>3
<1>10. ASSUME NEW s \in {"call", "insert", "set"}, Goto(r, s),
              o.step \in {"jobs", "call", "apply", "insert"},
              s = "insert" => o.page \notin planned \/ o.step = "apply",
              s = "set" => o.stamp # None
       PROVE  G
  <2>. DEFINE q == [o EXCEPT !.step = s]
  <2>1. req' = [req EXCEPT ![r] = q]
    BY <1>1, <1>10 DEF Goto
  <2>2. q.step = s /\ On(q, o) /\ q.found = o.found /\ q.loader = o.loader /\ q.job = o.job
        /\ q.hit = o.hit
    BY <1>1 DEF Request, On
  <2>. HIDE DEF q
  <2>3. Effect(q, o)
    BY <1>10, <2>2 DEF Effect
  <2>. QED  BY <1>2, <2>1, <2>3
<1>11. ASSUME lookup_jobs(r) PROVE G
  <2>. HIDE DEF G
  <2>0. o.step = "jobs"
    BY <1>11 DEF lookup_jobs
  <2>1. CASE o.page \notin planned /\ Goto(r, "insert")
    BY <1>10, <2>0, <2>1
  <2>2. CASE Goto(r, "call")
    BY <1>10, <2>0, <2>2
  <2>3. CASE req' = [req EXCEPT ![r].step = "insert", ![r].job = job[r[1]], ![r].hit = TRUE]
    <3>. DEFINE q == [o EXCEPT !.step = "insert", !.job = job[r[1]], !.hit = TRUE]
    <3>1. req' = [req EXCEPT ![r] = q]
      BY <1>1, <2>3
    <3>2. q.step = "insert" /\ On(q, o) /\ q.found = o.found /\ q.loader = o.loader /\ q.hit
      BY <1>1 DEF Request, On
    <3>. HIDE DEF q
    <3>3. Effect(q, o)
      BY <2>0, <3>2 DEF Effect
    <3>. QED  BY <1>2, <3>1, <3>3 DEF G
  <2>. QED  BY <1>11, <2>1, <2>2, <2>3 DEF lookup_jobs
<1>12. ASSUME jobs_call(r) PROVE G
  <2>. DEFINE q == [o EXCEPT !.step = "apply", !.job = data]
  <2>1. req' = [req EXCEPT ![r] = q] /\ o.step = "call"
    BY <1>1, <1>12 DEF jobs_call
  <2>2. q.step = "apply" /\ On(q, o) /\ q.found = o.found /\ q.loader = o.loader /\ q.job = data
    BY <1>1 DEF Request, On
  <2>. HIDE DEF q
  <2>3. Effect(q, o)
    BY <2>1, <2>2 DEF Effect
  <2>. QED  BY <1>2, <2>1, <2>3
<1>13. ASSUME apply_job_results(r) PROVE G
  <2>. HIDE DEF G
  <2>0. o.step = "apply" /\ (Goto(r, "insert") \/ req' = [req EXCEPT ![r] = Idle])
    BY <1>13 DEF apply_job_results
  <2>. QED  BY <1>3, <1>10, <2>0 DEF G
<1>14. ASSUME insert(r) PROVE G
  <2>. HIDE DEF G
  <2>0. o.step = "insert"
        /\ (IF o.stamp = None THEN req' = [req EXCEPT ![r] = Idle] ELSE Goto(r, "set"))
    BY <1>14 DEF insert
  <2>. QED  BY <1>3, <1>10, <2>0 DEF G
<1>15. ASSUME l2_hit(r) \/ SET_LUA(r) \/ abandon(r) PROVE G
  BY <1>3, <1>15 DEF l2_hit, SET_LUA, abandon
<1>16. G
  <2>. HIDE DEF G
  <2>. QED  BY <1>4, <1>5, <1>6, <1>7, <1>8, <1>9, <1>11, <1>12, <1>13, <1>14, <1>15 DEF Page_
<1>. QED  BY <1>16

(* The data of the calls a stamp has reached does not change.              *)
Upto(s, v) == \A n \in 1..s : v >= task[log[n]].data

(* Neither the calls a stamp has reached nor their data change,            *)
LEMMA UptoKept ==
    ASSUME TypeOK, HalvesFit, Next, NEW s \in Int, s <= Len(log), NEW v, Upto(s, v)
    PROVE  Upto(s, v)'
<1>1. log \in Seq(DOMAIN task) /\ Len(log) \in Nat
  BY DEF TypeOK
<1>2. /\ \A i \in DOMAIN task : Same(task'[i], task[i])
      /\ \A n \in DOMAIN log : log'[n] = log[n]
  BY CallsKept
<1>3. ASSUME NEW n \in 1..s PROVE v >= task'[log'[n]].data
  <2>1. n \in DOMAIN log /\ log[n] \in DOMAIN task
    BY <1>1
  <2>2. task'[log'[n]].data = task[log[n]].data
    BY <1>2, <2>1 DEF Same
  <2>. QED  BY <2>2 DEF Upto
<1>. QED  BY <1>3 DEF Upto

(* ... so what a stamp says stays true.                                    *)
LEMMA StampKept ==
    ASSUME TypeOK, HalvesFit, Next, NEW e, Stamped(e)
    PROVE  Stamped(e)'
<1>1. e.stamp \in Int /\ e.stamp <= Len(log) /\ e.stamp >= 0 /\ Upto(e.stamp, e.loader) /\ Len(log) \in Nat
  BY DEF Stamped, Upto, TypeOK
<1>2. Upto(e.stamp, e.loader)'
  BY <1>1, UptoKept
<1>3. Len(log') \in Nat /\ Len(log) <= Len(log')
  BY CallsKept
<1>. QED  BY <1>1, <1>2, <1>3 DEF Stamped, Upto

(* What was read now is as new as every call.                              *)
LEMMA UptoData ==
    ASSUME TypeOK, CallsFit, NEW s \in Int, s <= Len(log)
    PROVE  Upto(s, data)
<1>. SUFFICES ASSUME NEW n \in 1..s PROVE data >= task[log[n]].data
  BY DEF Upto
<1>1. log \in Seq(DOMAIN task) /\ Len(log) \in Nat /\ data \in Nat
  BY DEF TypeOK
<1>2. log[n] \in DOMAIN task
  BY <1>1
<1>3. task[log[n]].data \in Nat
  BY <1>2, TaskTyped, TaskFields
<1>4. task[log[n]].data <= data
  BY <1>2 DEF CallsFit
<1>. QED  BY <1>1, <1>3, <1>4

StampOf(r) == /\ \A e \in req[r].found : Stamped(e) /\ e.page = req[r].page
              /\ Loaded(r) => Upto(req[r].stamp, req[r].loader)
              /\ req[r].step = "set" => req[r].stamp # None
              /\ ~adapter => req[r].step \notin {"get", "seq", "reply"} /\ req[r].stamp = None

(* The stamps, request by request.                                         *)
LEMMA StampsOf ==
    StampsMatch <=> /\ \A e \in store : Stamped(e)
                    /\ \A r \in Requests : StampOf(r)
                    /\ ~adapter => store = {}
<1>. QED  BY DEF StampsMatch, StampOf, Upto

(* Stamps keep matching: one is read before the data it vouches for.       *)
LEMMA StampsMatchStep ==
    ASSUME TypeOK, HalvesFit, CallsFit, StampsMatch, Next, UNCHANGED app
    PROVE  StampsMatch'
<1>1. /\ \A e \in store : Stamped(e)
      /\ \A r \in Requests : StampOf(r)
      /\ ~adapter => store = {}
      /\ adapter' = adapter
  BY StampsOf DEF app
<1>2. \A e : Stamped(e) => Stamped(e)'
  BY StampKept
<1>3. ASSUME NEW r \in Requests
      PROVE  /\ req[r].stamp \in Int /\ req[r].stamp <= Len(log)
             /\ \A v : Upto(req[r].stamp, v) => \A s : s = req[r].stamp => Upto(s, v)'
  <2>1. req[r].stamp \in Int /\ req[r].stamp <= Len(log)
    <3>1. req[r].stamp \in Nat \cup {-1}
      BY ReqTyped DEF None
    <3>. QED  BY <3>1 DEF TypeOK
  <2>2. ASSUME NEW v, Upto(req[r].stamp, v), NEW s, s = req[r].stamp PROVE Upto(s, v)'
    <3>1. s \in Int /\ s <= Len(log) /\ Upto(s, v)
      BY <2>1, <2>2
    <3>. QED  BY <3>1, UptoKept
  <2>. QED  BY <2>1, <2>2
<1>4. \A s, v : Upto(s, v)' <=> \A n \in 1..s : v >= task'[log'[n]].data
  BY DEF Upto
<1>5. ASSUME NEW r \in Requests, req'[r] = req[r] PROVE StampOf(r)'
  <2>1. \A e \in req'[r].found : Stamped(e)' /\ e.page = req'[r].page
    BY <1>1, <1>2, <1>5 DEF StampOf
  <2>2. Loaded(r)' => \A n \in 1..req'[r].stamp : req'[r].loader >= task'[log'[n]].data
    BY <1>1, <1>3, <1>4, <1>5 DEF StampOf, Loaded
  <2>. QED  BY <1>1, <1>5, <2>1, <2>2 DEF StampOf, Upto
<1>6. ASSUME NEW r \in Requests, Page_(r) PROVE StampOf(r)'
  <2>. DEFINE o == req[r]
              q == req'[r]
  <2>1. Effect(q, o)
    BY <1>6, ReqEffect
  <2>2. UNCHANGED <<data, log, task>>
    BY <1>6, PageFrame
  <2>3. CASE /\ q.step \in {"idle", "get", "load"} /\ q.found = {} /\ (q.step = "get" => adapter)
             /\ q.stamp \in {None, o.stamp}
    BY <1>1, <2>3 DEF StampOf, Loaded
  <2>4. CASE /\ o.step = "get" /\ q.step = "seq" /\ On(q, o)
             /\ q.found = {e \in store : e.page = q.page}
    <3>1. adapter
      BY <1>1, <2>4 DEF StampOf
    <3>2. \A e \in q.found : Stamped(e)' /\ e.page = q.page
      BY <1>1, <1>2, <2>4
    <3>. QED  BY <1>1, <2>4, <3>1, <3>2 DEF StampOf, Loaded
  <2>5. CASE /\ o.step = "seq" /\ q.step = "reply" /\ q.page = o.page /\ q.since = o.since
             /\ q.found = o.found
    <3>1. adapter
      BY <1>1, <2>5 DEF StampOf
    <3>2. \A e \in q.found : Stamped(e)' /\ e.page = q.page
      BY <1>1, <1>2, <2>5 DEF StampOf
    <3>. QED  BY <1>1, <2>5, <3>1, <3>2 DEF StampOf, Loaded
  <2>6. CASE o.step = "load" /\ q.step = "jobs" /\ q.loader = data /\ q.found = o.found /\ On(q, o)
    <3>1. \A e \in q.found : Stamped(e)' /\ e.page = q.page
      BY <1>1, <1>2, <2>6 DEF StampOf, On
    <3>2. Upto(o.stamp, data)
      BY <1>3, UptoData
    <3>3. \A n \in 1..q.stamp : q.loader >= task'[log'[n]].data
      BY <1>3, <1>4, <2>6, <3>2 DEF On
    <3>. QED  BY <1>1, <2>6, <3>1, <3>3 DEF StampOf, Upto, On
  <2>7. CASE /\ o.step \in {"jobs", "call", "apply", "insert"} /\ On(q, o) /\ q.found = o.found
             /\ q.loader = o.loader
             /\ q.step \in {"call", "apply", "insert"} \/ (q.step = "set" /\ o.stamp # None)
    <3>1. \A e \in q.found : Stamped(e)' /\ e.page = q.page
      BY <1>1, <1>2, <2>7 DEF StampOf, On
    <3>2. Upto(o.stamp, o.loader)
      BY <1>1, <2>7 DEF StampOf, Loaded
    <3>3. \A n \in 1..q.stamp : q.loader >= task'[log'[n]].data
      BY <1>3, <1>4, <2>7, <3>2 DEF On
    <3>. QED  BY <1>1, <2>7, <3>1, <3>3 DEF StampOf, Upto, On
  <2>. QED  BY <2>1, <2>3, <2>4, <2>5, <2>6, <2>7 DEF Effect
<1>7. \A r \in Requests : StampOf(r)'
  <2>1. ASSUME NEW r \in Requests, Page_(r), NEW x \in Requests PROVE StampOf(x)'
    BY <1>5, <1>6, <2>1, ReqEffect
  <2>2. ASSUME req' = req, NEW x \in Requests PROVE StampOf(x)'
    BY <1>5, <2>2
  <2>3. ASSUME NEW i \in DOMAIN task, Call_(i) PROVE req' = req
    BY <2>3, CallFrame
  <2>4. ASSUME NEW p \in Procs, Process_(p) PROVE req' = req
    BY <2>4, ProcessFrame
  <2>5. ASSUME WriteData PROVE req' = req
    BY <2>5, DataFrame
  <2>. QED  BY <2>1, <2>2, <2>3, <2>4, <2>5 DEF Next
<1>8. (\A e \in store' : Stamped(e)') /\ (~adapter => store' = {})
  <2>1. CASE store' = store
    BY <1>1, <1>2, <2>1
  <2>2. ASSUME NEW r \in Requests, SET_LUA(r)
        PROVE  (\A e \in store' : Stamped(e)') /\ (~adapter => store' = {})
    <3>1. /\ store' = {e \in store : e.page # req[r].page} \cup {Rendered(r)}
          /\ req[r].step = "set"
      BY <2>2 DEF SET_LUA
    <3>2. req[r].stamp # None /\ Upto(req[r].stamp, req[r].loader)
      BY <1>1, <3>1 DEF StampOf, Loaded
    <3>3. Len(log) \in Nat /\ req[r].stamp \in Nat
      <4>1. req[r].stamp \in Nat \cup {None}
        BY ReqTyped
      <4>2. Len(log) \in Nat
        BY DEF TypeOK
      <4>. QED  BY <3>2, <4>1, <4>2
    <3>4. PICK e : e = Rendered(r)
      OBVIOUS
    <3>5. e.stamp = req[r].stamp /\ e.loader = req[r].loader
      BY <3>4 DEF Rendered
    <3>6. Stamped(e)
      BY <1>3, <3>2, <3>3, <3>5 DEF Stamped, Upto
    <3>7. Stamped(e)'
      BY <1>2, <3>6
    <3>8. adapter
      BY <1>1, <3>2 DEF StampOf
    <3>9. store' = {x \in store : x.page # req[r].page} \cup {e}
      BY <3>1, <3>4
    <3>. QED  BY <1>1, <1>2, <3>7, <3>8, <3>9
  <2>3. ASSUME NEW i \in DOMAIN task, Call_(i) PROVE store' \subseteq store
    BY <2>3, CallFrame DEF unlink
  <2>4. ASSUME NEW p \in Procs, Process_(p) PROVE store' = store
    BY <2>4, ProcessFrame
  <2>5. ASSUME NEW r \in Requests, Page_(r) PROVE store' = store \/ SET_LUA(r)
    BY <2>5, PageFrame
  <2>6. ASSUME WriteData PROVE store' = store
    BY <2>6, DataFrame
  <2>. QED  BY <1>1, <1>2, <2>1, <2>2, <2>3, <2>4, <2>5, <2>6 DEF Next
<1>9. /\ \A e \in store' : Stamped(e)'
      /\ \A r \in Requests : StampOf(r)'
      /\ ~adapter' => store' = {}
  BY <1>1, <1>7, <1>8
<1>. QED  BY <1>9 DEF StampsMatch, StampOf, Upto

-----------------------------------------------------------------------------
(* What a replay has achieved stays achieved                               *)

(* The types the lemmas on tier 1 use.                                     *)
LEMMA Tier1TypeOf == TypeOK => TypeTier1
<1>. QED  BY DEF TypeOK, TypeTier1

(* A request's part of FreshPage and FreshJob.                             *)
ReqFresh(p, r, g, d) ==
    r[1] = p /\ req[r].page = g /\ l1_accepts(p, g, req[r].since) =>
       /\ Loaded(r) => req[r].loader >= d
       /\ req[r].step \in {"apply", "insert"} /\ ~req[r].hit /\ g \in planned => req[r].job >= d

ReqJobFresh(p, r, d) ==
    r[1] = p /\ jobs_accept(p, req[r].since) /\ req[r].step = "apply" => req[r].job >= d

(* FloorHolds speaks of constants.                                         *)
LEMMA FloorConstant == FloorHolds' <=> FloorHolds
<1>. QED  BY DEF FloorHolds

(* Freshness of tier 1 splits into the cache's and each request's,         *)
LEMMA FreshParts ==
    /\ \A p, g, d : FreshPage(p, g, d) <=>
                      /\ FloorHolds => \A e \in l1[p] : e.page = g => e.loader >= d
                      /\ \A r \in Requests : ReqFresh(p, r, g, d)
    /\ \A p, d : FreshJob(p, d) <=> /\ job[p] # None => job[p] >= d
                                    /\ \A r \in Requests : ReqJobFresh(p, r, d)
<1>1. \A p, g, d : FreshPage(p, g, d) <=>
                      /\ FloorHolds => \A e \in l1[p] : e.page = g => e.loader >= d
                      /\ \A r \in Requests : ReqFresh(p, r, g, d)
  BY DEF FreshPage, ReqFresh
<1>2. \A p, d : FreshJob(p, d) <=> /\ job[p] # None => job[p] >= d
                                   /\ \A r \in Requests : ReqJobFresh(p, r, d)
  BY DEF FreshJob, ReqJobFresh
<1>. QED  BY <1>1, <1>2

(* ... in the next state as well.                                          *)
LEMMA FreshPartsNext ==
    /\ \A p, g, d : FreshPage(p, g, d)' <=>
                      /\ FloorHolds => \A e \in l1'[p] : e.page = g => e.loader >= d
                      /\ \A r \in Requests : ReqFresh(p, r, g, d)'
    /\ \A p, d : FreshJob(p, d)' <=> /\ job'[p] # None => job'[p] >= d
                                     /\ \A r \in Requests : ReqJobFresh(p, r, d)'
<1>1. \A p, g, d : FreshPage(p, g, d)' <=>
                      /\ FloorHolds => \A e \in l1'[p] : e.page = g => e.loader >= d
                      /\ \A r \in Requests : ReqFresh(p, r, g, d)'
  BY FloorConstant DEF FreshPage, ReqFresh
<1>2. \A p, d : FreshJob(p, d)' <=> /\ job'[p] # None => job'[p] >= d
                                    /\ \A r \in Requests : ReqJobFresh(p, r, d)'
  BY DEF FreshJob, ReqJobFresh
<1>. QED  BY <1>1, <1>2

(* An invalidation leaves nothing of what it covers, and no request that   *)
(* could still bring it back.                                              *)
LEMMA PagePurged ==
    ASSUME TypeOK, UNCHANGED req, NEW p \in Procs, NEW G \in SUBSET Pages, DropPages(p, G),
           NEW g \in G, NEW d
    PROVE  FreshPage(p, g, d)'
<1>1. clock[p] \in Nat /\ clock'[p] = clock[p] + 1 /\ l1_inval'[p][g] = clock'[p]
      /\ \A e \in l1'[p] : e.page # g
  BY Tier1TypeOf DEF DropPages, TypeTier1
<1>2. ASSUME NEW r \in Requests, r[1] = p PROVE ~(l1_inval'[p][g] <= req[r].since)
  <2>1. req[r].since \in Nat /\ req[r].since <= clock[p]
    BY <1>2, ReqTyped DEF TypeOK
  <2>. QED  BY <1>1, <2>1
<1>3. \A r \in Requests : ReqFresh(p, r, g, d)'
  BY <1>2 DEF ReqFresh, l1_accepts
<1>. QED  BY <1>1, <1>3, FreshPartsNext

(* An invalidation of the job leaves its value fresh.                      *)
LEMMA JobPurged ==
    ASSUME TypeOK, UNCHANGED req, NEW p \in Procs, DropJob(p, TRUE), NEW d
    PROVE  FreshJob(p, d)'
<1>1. clock[p] \in Nat /\ clock'[p] = clock[p] + 1 /\ job_inval'[p] = clock'[p] /\ job'[p] = None
  BY Tier1TypeOf DEF DropJob, TypeTier1
<1>2. ASSUME NEW r \in Requests, r[1] = p PROVE ~(job_inval'[p] <= req[r].since)
  <2>1. req[r].since \in Nat /\ req[r].since <= clock[p]
    BY <1>2, ReqTyped DEF TypeOK
  <2>. QED  BY <1>1, <2>1
<1>3. \A r \in Requests : ReqJobFresh(p, r, d)'
  BY <1>2 DEF ReqJobFresh, jobs_accept
<1>. QED  BY <1>1, <1>3, FreshPartsNext

(* A request stays fresh through its own step.                             *)
LEMMA ReqFreshStep ==
    ASSUME TypeOK, NEW r \in Requests, Page_(r), UNCHANGED app,
           NEW p \in Procs, NEW g \in Pages, NEW d \in Nat, d <= data, ReqFresh(p, r, g, d)
    PROVE  ReqFresh(p, r, g, d)'
<1>. DEFINE o == req[r]
            q == req'[r]
<1>1. Effect(q, o)
  BY ReqEffect
<1>2. l1_inval' = l1_inval /\ planned' = planned /\ data \in Nat
  BY PageFrame DEF app, TypeOK
<1>. SUFFICES ASSUME r[1] = p, q.page = g, l1_inval[p][g] <= q.since
              PROVE  /\ q.step \in {"jobs", "call", "apply", "insert", "set"} => q.loader >= d
                     /\ q.step \in {"apply", "insert"} /\ ~q.hit /\ g \in planned => q.job >= d
  BY <1>2 DEF ReqFresh, Loaded, l1_accepts
<1>3. CASE q.step \in {"idle", "get", "load", "seq", "reply"}
  BY <1>3
<1>4. CASE o.step = "load" /\ q.step = "jobs" /\ q.loader = data
  BY <1>4
<1>5. CASE /\ o.step \in {"jobs", "call", "apply", "insert"} /\ On(q, o)
           /\ q.loader = o.loader
           /\ \/ q.step = "call"
              \/ q.step = "apply" /\ q.job = data
              \/ q.step = "set" /\ o.stamp # None
              \/ /\ q.step = "insert"
                 /\ \/ o.page \notin planned
                    \/ q.hit
                    \/ o.step = "apply" /\ q.job = o.job /\ q.hit = o.hit
  <2>1. o.loader >= d
    BY <1>5 DEF ReqFresh, Loaded, l1_accepts, On
  <2>2. o.step = "apply" /\ ~o.hit /\ g \in planned => o.job >= d
    BY <1>5 DEF ReqFresh, Loaded, l1_accepts, On
  <2>. QED  BY <1>5, <2>1, <2>2 DEF On
<1>. QED  BY <1>1, <1>3, <1>4, <1>5 DEF Effect

(* A request's own job value keeps what was promised of it.                *)
LEMMA ReqJobFreshStep ==
    ASSUME TypeOK, NEW r \in Requests, Page_(r),
           NEW p \in Procs, NEW d \in Nat, d <= data, ReqJobFresh(p, r, d)
    PROVE  ReqJobFresh(p, r, d)'
<1>. DEFINE o == req[r]
            q == req'[r]
<1>1. Effect(q, o)
  BY ReqEffect
<1>2. data \in Nat
  BY DEF TypeOK
<1>3. q.step = "apply" => q.job = data
  BY <1>1 DEF Effect
<1>. QED  BY <1>2, <1>3 DEF ReqJobFresh

(* The caches' part, through any step.                                     *)
Refuses(p, g, d) == \A r \in Requests : r[1] = p /\ req[r].step = "reply" =>
                       \A e \in Served(r) : e.page = g => e.loader >= d

(* A step of a call or a process touches no request.                       *)
LEMMA ReqUnchanged ==
    ASSUME TypeOK, HalvesFit, Next
    PROVE  req' = req \/ \E r \in Requests : Page_(r)
<1>1. ASSUME NEW i \in DOMAIN task, Call_(i) PROVE req' = req
  BY <1>1, CallFrame
<1>2. ASSUME NEW p \in Procs, Process_(p) PROVE req' = req
  BY <1>2, ProcessFrame
<1>3. ASSUME WriteData PROVE req' = req
  BY <1>3, DataFrame
<1>. QED  BY <1>1, <1>2, <1>3 DEF Next

(* An invalidation that leaves a page or the job alone.                    *)
LEMMA PageSpared ==
    ASSUME TypeOK, NEW q \in Procs, Drops(q), UNCHANGED req, UNCHANGED app,
           NEW p \in Procs, NEW g \in Pages, NEW d, FreshPage(p, g, d)
    PROVE  FreshPage(p, g, d)'
<1>1. TypeTier1
  BY Tier1TypeOf
<1>2. CASE l1' = l1 /\ l1_inval' = l1_inval
  <2>1. planned' = planned
    BY DEF app
  <2>. QED  BY <1>2, <2>1, FloorConstant DEF FreshPage, Loaded, l1_accepts
<1>3. ASSUME NEW G \in SUBSET Pages, DropPages(q, G) PROVE FreshPage(p, g, d)'
  <2>1. CASE q = p /\ g \in G
    BY <1>3, <2>1, PagePurged
  <2>2. CASE ~(q = p /\ g \in G)
    <3>1. l1_inval'[p][g] = l1_inval[p][g] /\ l1'[p] \subseteq l1[p] /\ planned' = planned
      BY <1>1, <1>3, <2>2 DEF DropPages, TypeTier1, app
    <3>. QED  BY <3>1, FloorConstant DEF FreshPage, Loaded, l1_accepts
  <2>. QED  BY <2>1, <2>2
<1>4. ASSUME NEW b \in BOOLEAN, DropJob(q, b) PROVE l1' = l1 /\ l1_inval' = l1_inval
  BY <1>4 DEF DropJob
<1>. QED  BY <1>2, <1>3, <1>4 DEF Drops

(* An invalidation that does not cover the job removes no guard.           *)
LEMMA JobSpared ==
    ASSUME TypeOK, NEW q \in Procs, Drops(q), UNCHANGED req,
           NEW p \in Procs, NEW d, FreshJob(p, d)
    PROVE  FreshJob(p, d)'
<1>1. TypeTier1
  BY Tier1TypeOf
<1>2. CASE job' = job /\ job_inval' = job_inval
  BY <1>2 DEF FreshJob, jobs_accept
<1>3. ASSUME DropJob(q, TRUE) PROVE FreshJob(p, d)'
  <2>1. CASE q = p
    BY <1>3, <2>1, JobPurged
  <2>2. CASE q # p
    <3>1. job'[p] = job[p] /\ job_inval'[p] = job_inval[p]
      BY <1>1, <1>3, <2>2 DEF DropJob, TypeTier1
    <3>. QED  BY <3>1 DEF FreshJob, jobs_accept
  <2>. QED  BY <2>1, <2>2
<1>4. ASSUME DropJob(q, FALSE) PROVE job' = job /\ job_inval' = job_inval
  BY <1>1, <1>4 DEF DropJob, TypeTier1
<1>5. ASSUME NEW G \in SUBSET Pages, DropPages(q, G) PROVE job' = job /\ job_inval' = job_inval
  BY <1>5 DEF DropPages
<1>. QED  BY <1>2, <1>3, <1>4, <1>5 DEF Drops

(* Once fresh, a page stays fresh: what lands later was stamped later, or is*)
(* as new.                                                                 *)
LEMMA PageKept ==
    ASSUME TypeOK, HalvesFit, Next, UNCHANGED app,
           NEW p \in Procs, NEW g \in Pages, NEW d \in Nat, d <= data,
           FreshPage(p, g, d), FloorHolds => Refuses(p, g, d)
    PROVE  FreshPage(p, g, d)'
<1>1. TypeTier1
  BY Tier1TypeOf
<1>2. ASSUME NEW q \in Procs, Drops(q) /\ UNCHANGED <<req, data>> PROVE FreshPage(p, g, d)'
  BY <1>2, PageSpared
<1>3. /\ FloorHolds => \A e \in l1[p] : e.page = g => e.loader >= d
      /\ \A r \in Requests : ReqFresh(p, r, g, d)
  BY FreshParts
<1>4. CASE UNCHANGED <<clock, l1, l1_inval, job, job_inval>> \/ \E r \in Requests : Lands(r)
  <2>1. l1_inval' = l1_inval
    BY <1>4, LandStep
  <2>2. \A r \in Requests : ReqFresh(p, r, g, d)'
    <3>1. ASSUME NEW r \in Requests, req'[r] = req[r] PROVE ReqFresh(p, r, g, d)'
      BY <1>3, <2>1, <3>1 DEF ReqFresh, Loaded, l1_accepts, app
    <3>2. ASSUME NEW r \in Requests, Page_(r), NEW x \in Requests PROVE ReqFresh(p, x, g, d)'
      <4>1. CASE x = r
        BY <1>3, <3>2, <4>1, ReqFreshStep
      <4>2. CASE x # r
        BY <3>1, <3>2, <4>2, ReqEffect
      <4>. QED  BY <4>1, <4>2
    <3>. QED  BY <3>1, <3>2, ReqUnchanged
  <2>3. ASSUME FloorHolds, NEW r \in Requests, Lands(r)
        PROVE  \A e \in l1'[p] : e.page = g => e.loader >= d
    <3>1. CASE l1' = l1
      BY <1>3, <2>3, <3>1
    <3>2. ASSUME NEW e \in Page, Put(r[1], e), l1_accepts(r[1], e.page, req[r].since),
                 \/ req[r].step = "reply" /\ e \in Served(r)
                 \/ req[r].step = "insert" /\ e = Rendered(r)
          PROVE  \A x \in l1'[p] : x.page = g => x.loader >= d
      <4>1. ASSUME r[1] = p, e.page = g PROVE e.loader >= d
        <5>1. CASE req[r].step = "reply" /\ e \in Served(r)
          BY <2>3, <4>1, <5>1 DEF Refuses
        <5>2. CASE req[r].step = "insert" /\ e = Rendered(r)
          <6>1. e.page = req[r].page /\ e.loader = req[r].loader
            BY <5>2 DEF Rendered
          <6>. QED  BY <1>3, <3>2, <4>1, <5>2, <6>1 DEF ReqFresh, Loaded
        <5>. QED  BY <3>2, <5>1, <5>2
      <4>2. CASE r[1] = p
        <5>1. l1'[p] = {x \in l1[p] : x.page # e.page} \cup {[e EXCEPT !.stamp = None]}
          BY <1>1, <3>2, <4>2 DEF Put, TypeTier1
        <5>2. [e EXCEPT !.stamp = None].page = e.page /\ [e EXCEPT !.stamp = None].loader = e.loader
          BY DEF Page
        <5>. QED  BY <1>3, <2>3, <4>1, <4>2, <5>1, <5>2
      <4>3. CASE r[1] # p
        BY <1>1, <1>3, <2>3, <3>2, <4>3 DEF Put, TypeTier1
      <4>. QED  BY <4>2, <4>3
    <3>. QED  BY <2>3, <3>1, <3>2, LandStep
  <2>4. FloorHolds => \A e \in l1'[p] : e.page = g => e.loader >= d
    BY <1>3, <1>4, <2>3
  <2>. QED  BY <2>2, <2>4, FreshPartsNext
<1>. QED  BY <1>2, <1>4, Tier1Step

(* So does the job value.                                                  *)
LEMMA JobKept ==
    ASSUME TypeOK, HalvesFit, Next,
           NEW p \in Procs, NEW d \in Nat, d <= data, FreshJob(p, d)
    PROVE  FreshJob(p, d)'
<1>1. TypeTier1
  BY Tier1TypeOf
<1>2. ASSUME NEW q \in Procs, Drops(q) /\ UNCHANGED <<req, data>> PROVE FreshJob(p, d)'
  BY <1>2, JobSpared
<1>3. /\ job[p] # None => job[p] >= d
      /\ \A r \in Requests : ReqJobFresh(p, r, d)
  BY FreshParts
<1>4. CASE UNCHANGED <<clock, l1, l1_inval, job, job_inval>> \/ \E r \in Requests : Lands(r)
  <2>1. job_inval' = job_inval
    BY <1>4, LandStep
  <2>2. \A r \in Requests : ReqJobFresh(p, r, d)'
    <3>1. ASSUME NEW r \in Requests, req'[r] = req[r] PROVE ReqJobFresh(p, r, d)'
      BY <1>3, <2>1, <3>1 DEF ReqJobFresh, jobs_accept
    <3>2. ASSUME NEW r \in Requests, Page_(r), NEW x \in Requests PROVE ReqJobFresh(p, x, d)'
      <4>1. CASE x = r
        BY <1>3, <3>2, <4>1, ReqJobFreshStep
      <4>2. CASE x # r
        BY <3>1, <3>2, <4>2, ReqEffect
      <4>. QED  BY <4>1, <4>2
    <3>. QED  BY <3>1, <3>2, ReqUnchanged
  <2>3. ASSUME NEW r \in Requests, Lands(r) PROVE job'[p] # None => job'[p] >= d
    <3>1. CASE job' = job
      BY <1>3, <3>1
    <3>2. ASSUME job' = [job EXCEPT ![r[1]] = req[r].job],
                 jobs_accept(r[1], req[r].since), req[r].step = "apply"
          PROVE  job'[p] # None => job'[p] >= d
      <4>1. CASE r[1] = p
        BY <1>1, <1>3, <3>2, <4>1 DEF ReqJobFresh, TypeTier1
      <4>2. CASE r[1] # p
        BY <1>1, <1>3, <3>2, <4>2 DEF TypeTier1
      <4>. QED  BY <4>1, <4>2
    <3>. QED  BY <2>3, <3>1, <3>2, LandStep
  <2>4. job'[p] # None => job'[p] >= d
    BY <1>3, <1>4, <2>3
  <2>. QED  BY <2>2, <2>4, FreshPartsNext
<1>. QED  BY <1>2, <1>4, Tier1Step

(* A call raises a name that the floor looks up for every page it covers.  *)
LEMMA NamedPage ==
    ASSUME NEW c \in Calls, NEW g \in Pages, CoversPage(c, g)
    PROVE  \E n \in FloorNames(c) : n \in PageFloors(g)
<1>1. g.path # Wild /\ g.prefix # Wild
  BY PagesAssumption
<1>2. \A n \in CallNames(c) : Scoped(c, n) \in FloorNames(c)
  BY DEF FloorNames
<1>3. CASE PrefixAlone(c) /\ c.prefix = g.prefix
  <2>1. Prefix(g.prefix) \in CallNames(c) /\ Prefix(g.prefix) \in PageFloors(g)
    BY <1>3 DEF CallNames, PageFloors
  <2>2. Scoped(c, Prefix(g.prefix)) = Prefix(g.prefix)
    BY <1>3 DEF Scoped
  <2>. QED  BY <1>2, <2>1, <2>2
<1>4. ASSUME NEW n \in CallNames(c), n \in {Tag(t) : t \in g.tags} \cup {Path(g.path)}, InPrefix(c, g)
      PROVE  \E m \in FloorNames(c) : m \in PageFloors(g)
  <2>1. CASE c.prefix = Wild \/ PrefixAlone(c)
    <3>1. Scoped(c, n) = n
      BY <2>1 DEF Scoped
    <3>2. n \in PageFloors(g)
      BY <1>4 DEF PageFloors
    <3>. QED  BY <1>2, <1>4, <3>1, <3>2
  <2>2. CASE ~(c.prefix = Wild \/ PrefixAlone(c))
    <3>1. Scoped(c, n) = <<g.prefix, n>>
      BY <1>4, <2>2 DEF Scoped, InPrefix
    <3>2. <<g.prefix, n>> \in PageFloors(g)
      BY <1>4 DEF PageFloors
    <3>. QED  BY <1>2, <1>4, <3>1, <3>2
  <2>. QED  BY <2>1, <2>2
<1>5. CASE CoversTags(c, g)
  <2>1. PICK t \in c.tags \cap g.tags : InPrefix(c, g)
    BY <1>5 DEF CoversTags
  <2>2. Tag(t) \in CallNames(c)
    BY <2>1 DEF CallNames
  <2>. QED  BY <1>4, <2>1, <2>2
<1>6. CASE c.path = g.path /\ InPrefix(c, g)
  <2>1. Path(g.path) \in CallNames(c)
    BY <1>1, <1>6 DEF CallNames
  <2>. QED  BY <1>4, <1>6, <2>1
<1>7. CASE PrefixAlone(c) /\ InPrefix(c, g)
  <2>1. c.prefix = g.prefix
    BY <1>7 DEF PrefixAlone, InPrefix
  <2>. QED  BY <1>3, <1>7, <2>1
<1>. QED  BY <1>5, <1>6, <1>7 DEF CoversPage, CoversPath

(* A floor that knows of a call refuses a page the call covers, unless its *)
(* loader read data as new as the call.                                    *)
LEMMA Refused ==
    ASSUME FloorHolds, TypeOK, adapter, NEW p \in Procs, NEW i \in DOMAIN task, Known(p, i),
           NEW e, Stamped(e), e.page \in Pages, CoversPage(task[i].call, e.page),
           ~rejects(floor[p], e.stamp, e.page)
    PROVE  e.loader >= task[i].data
<1>1. PICK s \in DOMAIN log :
         log[s] = i /\ \A n \in FloorNames(task[i].call) : Above(floor[p], n, s)
  BY DEF Known
<1>2. PICK n \in FloorNames(task[i].call) : n \in PageFloors(e.page)
  BY TaskTyped, TaskFields, NamedPage
<1>3. PICK k \in DOMAIN floor[p] : floor[p][k].name = n /\ floor[p][k].seq >= s
  BY <1>1, <1>2 DEF Above
<1>4. e.stamp # None /\ e.stamp \in Nat
  BY DEF Stamped, None, TypeOK
<1>5. ~(e.stamp < floor[p][k].seq)
  BY <1>2, <1>3, <1>4 DEF rejects
<1>6. floor[p][k].seq \in Nat /\ s \in Nat /\ s >= 1
  <2>1. floor[p] \in Floors(AllNames) /\ log \in Seq(DOMAIN task)
    BY FloorTyped DEF TypeOK
  <2>. QED  BY <1>1, <1>3, <2>1, FloorEntry
<1>7. s \in 1..e.stamp
  BY <1>3, <1>4, <1>5, <1>6
<1>. QED  BY <1>1, <1>7 DEF Stamped

(* A floor that knows a call rejects every page it covers with a stamp     *)
(* below the call's number.                                                *)
LEMMA RefusesKnown ==
    ASSUME FloorHolds, TypeOK, StampsMatch, NEW p \in Procs, NEW i \in DOMAIN task, Known(p, i),
           NEW g \in Pages, CoversPage(task[i].call, g)
    PROVE  Refuses(p, g, task[i].data)
<1>. SUFFICES ASSUME NEW r \in Requests, r[1] = p, req[r].step = "reply",
                     NEW e \in Served(r), e.page = g
              PROVE  e.loader >= task[i].data
  BY DEF Refuses
<1>1. adapter /\ Stamped(e)
  BY DEF StampsMatch, Served
<1>2. ~rejects(floor[p], e.stamp, e.page)
  BY DEF Served
<1>. QED  BY <1>1, <1>2, Refused

(* What a process knows it does not forget.                                *)
LEMMA CallSame ==
    ASSUME TypeOK, HalvesFit, Next, NEW i \in DOMAIN task
    PROVE  /\ i \in DOMAIN task' /\ task'[i].call = task[i].call /\ task'[i].data = task[i].data
           /\ task'[i].proc = task[i].proc
           /\ task[i].call \in Calls /\ task[i].data \in Nat /\ task[i].proc \in Procs
<1>1. i \in DOMAIN task' /\ Same(task'[i], task[i])
  BY CallsKept
<1>2. task[i].call \in Calls /\ task[i].data \in Nat /\ task[i].proc \in Procs
  BY TaskTyped, TaskFields
<1>. QED  BY <1>1, <1>2 DEF Same

(* A call a floor knows of stays known.                                    *)
LEMMA KnownKept ==
    ASSUME TypeOK, FloorOnce, HalvesFit, Next, UNCHANGED app,
           NEW p \in Procs, NEW i \in DOMAIN task, Known(p, i)
    PROVE  Known(p, i)'
<1>1. adapter' = adapter /\ task'[i].call = task[i].call
  BY CallSame DEF app
<1>2. ASSUME FloorHolds, adapter
      PROVE  \E s \in DOMAIN log' :
                log'[s] = i /\ \A n \in FloorNames(task[i].call) : Above(floor'[p], n, s)
  <2>1. PICK s \in DOMAIN log :
           log[s] = i /\ \A n \in FloorNames(task[i].call) : Above(floor[p], n, s)
    BY <1>2 DEF Known
  <2>2. s \in DOMAIN log' /\ log'[s] = i /\ s \in Nat
    <3>1. log \in Seq(DOMAIN task)
      BY DEF TypeOK
    <3>2. s \in Nat
      BY <2>1, <3>1
    <3>. QED  BY <2>1, <3>2, CallsKept
  <2>3. \A n : Above(floor[p], n, s) => Above(floor'[p], n, s)
    BY <1>2, <2>2, FloorKept
  <2>. QED  BY <2>1, <2>2, <2>3
<1>. QED  BY <1>1, <1>2, FloorConstant DEF Known, Above

PurgedPages(p, c, d, H) ==
    \A g \in Pages : \/ "tags" \notin H /\ CoversTags(c, g)
                     \/ "path" \notin H /\ CoversPath(c, g)
                     => FreshPage(p, g, d)

PurgedJob(p, c, d, H) ==
    \/ "key" \notin H /\ c.key
    \/ "jobs" \notin H /\ c.prefix = Wild /\ c.tags \cap JobTags # {}
    => FreshJob(p, d)

(* What a replay has achieved, for the pages and for the job,              *)
LEMMA PurgedParts ==
    \A p, i, H : Purged(p, i, H) <=> /\ PurgedPages(p, task[i].call, task[i].data, H)
                                     /\ PurgedJob(p, task[i].call, task[i].data, H)
<1>. QED  BY DEF Purged, PurgedPages, PurgedJob

(* ... in the next state as well.                                          *)
LEMMA PurgedPartsNext ==
    \A p, i, H, c, d : c = task'[i].call /\ d = task'[i].data =>
        (Purged(p, i, H)' <=> PurgedPages(p, c, d, H)' /\ PurgedJob(p, c, d, H)')
<1>. QED  BY DEF Purged, PurgedPages, PurgedJob

(* No step undoes what a replay has achieved.                              *)
LEMMA ReplayKept ==
    ASSUME TypeOK, FloorOnce, HalvesFit, CallsFit, StampsMatch, Next, UNCHANGED app,
           NEW p \in Procs, NEW i \in DOMAIN task, NEW H, Known(p, i), Purged(p, i, H)
    PROVE  Known(p, i)' /\ Purged(p, i, H)'
<1>1. Known(p, i)'
  BY KnownKept
<1>2. PICK c, d : c = task[i].call /\ d = task[i].data
  OBVIOUS
<1>3. d \in Nat /\ d <= data /\ c = task'[i].call /\ d = task'[i].data
  BY <1>2, CallSame DEF CallsFit
<1>4. PurgedPages(p, c, d, H) /\ PurgedJob(p, c, d, H)
  BY <1>2, PurgedParts
<1>5. PurgedPages(p, c, d, H)'
  <2>. SUFFICES ASSUME NEW g \in Pages, \/ "tags" \notin H /\ CoversTags(c, g)
                                        \/ "path" \notin H /\ CoversPath(c, g)
                PROVE  FreshPage(p, g, d)'
    BY DEF PurgedPages
  <2>1. FreshPage(p, g, d)
    BY <1>4 DEF PurgedPages
  <2>2. FloorHolds => Refuses(p, g, d)
    BY <1>2, RefusesKnown DEF CoversPage
  <2>. QED  BY <1>3, <2>1, <2>2, PageKept
<1>6. PurgedJob(p, c, d, H)'
  BY <1>3, <1>4, JobKept DEF PurgedJob
<1>. QED  BY <1>1, <1>3, <1>5, <1>6, PurgedPartsNext

(* One half more.                                                          *)
LEMMA ReplayNext ==
    ASSUME TypeOK, FloorOnce, HalvesFit, CallsFit, StampsMatch, Next, UNCHANGED app,
           NEW p \in Procs, NEW i \in DOMAIN task, NEW H, Known(p, i), Purged(p, i, H),
           NEW h \in CallHalves, invalidate(p, task[i].call, h), UNCHANGED req,
           NEW H2, \A x \in H : x = h \/ x \in H2
    PROVE  Known(p, i)' /\ Purged(p, i, H2)'
<1>1. Known(p, i)' /\ Purged(p, i, H)'
  BY ReplayKept
<1>2. PICK c, d : c = task[i].call /\ d = task[i].data
  OBVIOUS
<1>3. c = task'[i].call /\ d = task'[i].data /\ invalidate(p, c, h)
  BY <1>2, CallSame
<1>4. PurgedPages(p, c, d, H)' /\ PurgedJob(p, c, d, H)'
  BY <1>1, <1>3, PurgedPartsNext
<1>5. PurgedPages(p, c, d, H2)'
  <2>. SUFFICES ASSUME NEW g \in Pages, \/ "tags" \notin H2 /\ CoversTags(c, g)
                                        \/ "path" \notin H2 /\ CoversPath(c, g)
                PROVE  FreshPage(p, g, d)'
    BY DEF PurgedPages
  <2>1. CASE h = "tags" /\ CoversTags(c, g)
    <3>1. DropPages(p, {x \in Pages : CoversTags(c, x)})
      BY <1>3, <2>1 DEF invalidate
    <3>2. g \in {x \in Pages : CoversTags(c, x)} /\ {x \in Pages : CoversTags(c, x)} \in SUBSET Pages
      BY <2>1
    <3>. QED  BY <3>1, <3>2, PagePurged
  <2>2. CASE h = "path" /\ CoversPath(c, g)
    <3>1. DropPages(p, {x \in Pages : CoversPath(c, x)})
      BY <1>3, <2>2 DEF invalidate
    <3>2. g \in {x \in Pages : CoversPath(c, x)} /\ {x \in Pages : CoversPath(c, x)} \in SUBSET Pages
      BY <2>2
    <3>. QED  BY <3>1, <3>2, PagePurged
  <2>. QED  BY <1>4, <2>1, <2>2 DEF PurgedPages
<1>6. PurgedJob(p, c, d, H2)'
  <2>1. CASE h = "key"
    <3>1. DropJob(p, TRUE)
      BY <1>3, <2>1 DEF invalidate
    <3>2. FreshJob(p, d)'
      BY <3>1, JobPurged
    <3>. QED  BY <3>2 DEF PurgedJob
  <2>2. CASE h = "jobs" /\ c.tags \cap JobTags # {}
    <3>1. DropJob(p, TRUE)
      BY <1>3, <2>2 DEF invalidate
    <3>2. FreshJob(p, d)'
      BY <3>1, JobPurged
    <3>. QED  BY <3>2 DEF PurgedJob
  <2>. QED  BY <1>4, <2>1, <2>2 DEF PurgedJob
<1>. QED  BY <1>1, <1>3, <1>5, <1>6, PurgedPartsNext

(* No half yet.                                                            *)
LEMMA ReplayStart ==
    ASSUME NEW p, NEW i, NEW c \in Calls, c = task'[i].call
    PROVE  Purged(p, i, Left(Halves(c)))'
<1>1. PICK d, H : d = task'[i].data /\ H = Left(Halves(c))
  OBVIOUS
<1>2. /\ c.key => "key" \in H
      /\ c.tags # {} => "tags" \in H
      /\ c.tags # {} /\ c.prefix = Wild => "jobs" \in H
      /\ c.path # Wild \/ PrefixAlone(c) => "path" \in H
  BY <1>1, HalvesOf
<1>3. PurgedPages(p, c, d, H)'
  BY <1>2, PagesAssumption DEF PurgedPages, CoversTags, CoversPath
<1>4. PurgedJob(p, c, d, H)'
  BY <1>2 DEF PurgedJob
<1>5. Purged(p, i, H)'
  BY <1>1, <1>3, <1>4, PurgedPartsNext
<1>. QED  BY <1>1, <1>5

(* The halves a call has still to make, through any step.                  *)
As(t, u) == t.step = u.step /\ t.halves = u.halves /\ t.seq = u.seq

(* What a step does to the replay a call makes.                            *)
LEMMA TaskReplays ==
    ASSUME TypeOK, HalvesFit, Next, NEW j \in DOMAIN task'
    PROVE  \/ task'[j].step \notin {"local", "replay"}
           \/ j \in DOMAIN task /\ As(task'[j], task[j])
           \/ /\ j \in DOMAIN task /\ Purges(j)
              /\ task'[j].step = task[j].step /\ task'[j].seq = task[j].seq
              /\ task'[j].halves = Tail(task[j].halves)
           \/ /\ j \in DOMAIN task /\ replay_own(j) /\ task'[j].seq = task[j].seq
              /\ task'[j].step = "replay" /\ task'[j].halves = Halves(task[j].call)
           \/ /\ j \notin DOMAIN task /\ task'[j].step = "local"
              /\ task'[j].call \in Calls /\ task'[j].halves = Halves(task'[j].call)
<1>1. CASE j \in DOMAIN task /\ task'[j] = task[j]
  BY <1>1 DEF As
<1>2. CASE j \notin DOMAIN task /\ \E p \in Procs, c \in Calls : task'[j] = NewCall(p, c)
  BY <1>2 DEF NewCall
<1>3. ASSUME j \in DOMAIN task, Call_(j)
      PROVE  \/ task'[j].step \notin {"local", "replay"}
             \/ As(task'[j], task[j])
             \/ /\ Purges(j)
                /\ task'[j].step = task[j].step /\ task'[j].seq = task[j].seq
                /\ task'[j].halves = Tail(task[j].halves)
             \/ /\ replay_own(j) /\ task'[j].seq = task[j].seq
                /\ task'[j].step = "replay" /\ task'[j].halves = Halves(task[j].call)
  <2>1. task \in Seq(Task) /\ task[j] \in Task
    BY <1>3, TaskTyped DEF TypeOK
  <2>2. CASE invalidate_own(j)
    <3>1. /\ task[j].step = "local"
          /\ task' = [task EXCEPT ![j].halves = Tail(@),
                                  ![j].step = IF Final(task[j].halves) THEN AfterTier1(task[j].call)
                                              ELSE @]
      BY <2>2 DEF invalidate_own
    <3>2. /\ task'[j].halves = Tail(task[j].halves) /\ task'[j].seq = task[j].seq
          /\ task'[j].step = IF Final(task[j].halves) THEN AfterTier1(task[j].call) ELSE task[j].step
      BY <1>3, <2>1, <3>1 DEF Task
    <3>3. AfterTier1(task[j].call) \notin {"local", "replay"}
      BY DEF AfterTier1
    <3>. QED  BY <2>2, <3>2, <3>3 DEF Purges
  <2>3. CASE invalidate_again(j)
    <3>1. task' = [task EXCEPT ![j].halves = Tail(@),
                               ![j].step = IF Final(task[j].halves) THEN "done" ELSE @]
      BY <2>3 DEF invalidate_again
    <3>2. /\ task'[j].halves = Tail(task[j].halves) /\ task'[j].seq = task[j].seq
          /\ task'[j].step = IF Final(task[j].halves) THEN "done" ELSE task[j].step
      BY <1>3, <2>1, <3>1 DEF Task
    <3>. QED  BY <2>3, <3>2 DEF Purges
  <2>4. CASE replay_own(j)
    <3>1. task' = [task EXCEPT ![j].step = "replay", ![j].halves = Halves(task[j].call)]
      BY <2>4 DEF replay_own
    <3>2. /\ task'[j].seq = task[j].seq /\ task'[j].step = "replay"
          /\ task'[j].halves = Halves(task[j].call)
      BY <1>3, <2>1, <3>1 DEF Task
    <3>. QED  BY <2>4, <3>2
  <2>5. CASE unlink(j)
    <3>1. task' = [task EXCEPT ![j].step = IF @ = "unlink" THEN "publish" ELSE @, ![j].members = {}]
      BY <2>5 DEF unlink
    <3>2. /\ task'[j].halves = task[j].halves /\ task'[j].seq = task[j].seq
          /\ task'[j].step = IF task[j].step = "unlink" THEN "publish" ELSE task[j].step
      BY <1>3, <2>1, <3>1 DEF Task
    <3>. QED  BY <3>2 DEF As
  <2>6. CASE delete(j) \/ delete_failed(j) \/ publish(j) \/ publish_failed(j)
    <3>1. \/ \E m : task' = [task EXCEPT ![j].step = "unlink", ![j].members = m]
          \/ task' = [task EXCEPT ![j].step = "publish"]
          \/ \E m : task' = [task EXCEPT ![j].step = "published", ![j].seq = m]
          \/ task' = [task EXCEPT ![j].step = "published"]
      BY <2>6 DEF delete, delete_failed, publish, publish_failed
    <3>2. ASSUME NEW m, task' = [task EXCEPT ![j].step = "unlink", ![j].members = m]
          PROVE  task'[j].step = "unlink"
      BY <1>3, <2>1, <3>2 DEF Task
    <3>3. ASSUME NEW m, task' = [task EXCEPT ![j].step = "published", ![j].seq = m]
          PROVE  task'[j].step = "published"
      BY <1>3, <2>1, <3>3 DEF Task
    <3>4. ASSUME NEW s \in {"publish", "published"}, task' = [task EXCEPT ![j].step = s]
          PROVE  task'[j].step = s
      BY <1>3, <2>1, <3>4 DEF Task
    <3>. QED  BY <3>1, <3>2, <3>3, <3>4
  <2>. QED  BY <1>3, <2>2, <2>3, <2>4, <2>5, <2>6 DEF Call_
<1>. QED  BY <1>1, <1>2, <1>3, TaskChange

(* A cache call of an invalidation leaves floor and log alone.             *)
LEMMA PurgesFrame ==
    ASSUME TypeOK, HalvesFit, Next, NEW j \in DOMAIN task, Purges(j)
    PROVE  UNCHANGED req
<1>. QED  BY DEF Purges, invalidate_own, invalidate_again

(* The halves of a call of this process that still counts.                 *)
Counts(i) == \/ task[i].step = "replay" /\ task[i].seq # None
             \/ task[i].step = "local" /\ ~adapter

(* The three kinds of replay, process by process.                          *)
LEMMA ReplaysOf ==
    ReplaysFit <=>
      \A p \in Procs :
         /\ \A i \in applied[p] : Known(p, i) /\ Purged(p, i, {})
         /\ remote[p].id # 0 => /\ Known(p, remote[p].id)
                                /\ Purged(p, remote[p].id, Left(remote[p].halves))
         /\ \A i \in DOMAIN task : task[i].proc = p /\ Counts(i) =>
               Known(p, i) /\ Purged(p, i, Left(task[i].halves))
<1>. QED  BY DEF ReplaysFit, Counts

(* A call of this process.                                                 *)
LEMMA OwnReplays ==
    ASSUME TypeOK, FloorOnce, HalvesFit, CallsFit, StampsMatch, ReplaysFit,
           Next, UNCHANGED app, NEW j \in DOMAIN task', Counts(j)'
    PROVE  \E p, H : /\ p = task'[j].proc /\ H = Left(task'[j].halves)
                     /\ Known(p, j)' /\ Purged(p, j, H)'
<1>. DEFINE t == task'[j]
<1>1. PICK p, H : p = t.proc /\ H = Left(t.halves)
  OBVIOUS
<1>2. \/ t.step = "replay" /\ t.seq # None
      \/ t.step = "local" /\ ~adapter
  BY DEF Counts, app
<1>. SUFFICES Known(p, j)' /\ Purged(p, j, H)'
  BY <1>1
<1>3. ASSUME j \in DOMAIN task
      PROVE  /\ p = task[j].proc /\ p \in Procs /\ t.call = task[j].call /\ task[j].call \in Calls
             /\ Counts(j) => Known(p, j) /\ Purged(p, j, Left(task[j].halves))
  BY <1>1, <1>3, CallSame, ReplaysOf
<1>4. CASE j \in DOMAIN task /\ As(t, task[j])
  <2>1. Counts(j)
    BY <1>2, <1>4 DEF Counts, As
  <2>2. H = Left(task[j].halves)
    BY <1>1, <1>4 DEF As
  <2>. QED  BY <1>3, <1>4, <2>1, <2>2, ReplayKept
<1>5. CASE /\ j \in DOMAIN task /\ Purges(j)
           /\ t.step = task[j].step /\ t.seq = task[j].seq
           /\ t.halves = Tail(task[j].halves)
  <2>1. Counts(j)
    BY <1>2, <1>5 DEF Counts
  <2>2. /\ task[j].halves \in Seq(CallHalves) /\ task[j].halves # <<>>
        /\ Head(task[j].halves) \in CallHalves
        /\ invalidate(task[j].proc, task[j].call, Head(task[j].halves))
    BY <1>5, PurgeStep
  <2>3. PICK h, G : h = Head(task[j].halves) /\ G = Left(task[j].halves)
    OBVIOUS
  <2>4. h \in CallHalves /\ invalidate(p, task[j].call, h) /\ \A x \in G : x = h \/ x \in H
    BY <1>1, <1>3, <1>5, <2>2, <2>3, NextHalf
  <2>5. Known(p, j) /\ Purged(p, j, G)
    BY <1>3, <1>5, <2>1, <2>3
  <2>6. UNCHANGED req
    BY <1>5, PurgesFrame
  <2>. QED  BY <1>3, <1>5, <2>4, <2>5, <2>6, ReplayNext
<1>6. CASE /\ j \in DOMAIN task /\ replay_own(j) /\ t.seq = task[j].seq
           /\ t.step = "replay" /\ t.halves = Halves(task[j].call)
  <2>1. t.seq # None
    BY <1>2, <1>6
  <2>2. PICK s, c : s = task[j].seq /\ c = task[j].call
    OBVIOUS
  <2>3. s # None /\ s \in DOMAIN log /\ log[s] = j /\ Raised(p, c, s) /\ c \in Calls
    BY <1>3, <1>6, <2>1, <2>2 DEF CallsFit, replay_own
  <2>4. s \in Nat
    <3>1. log \in Seq(DOMAIN task)
      BY DEF TypeOK
    <3>. QED  BY <2>3, <3>1
  <2>5. FloorHolds => \A n \in FloorNames(c) : Above(floor'[p], n, s)
    BY <1>3, <1>6, <2>2, <2>3, <2>4, RaisedFloor
  <2>6. s \in DOMAIN log' /\ log'[s] = j /\ task'[j].call = c
    BY <1>3, <1>6, <2>2, <2>3, CallsKept
  <2>7. Known(p, j)'
    BY <2>5, <2>6, FloorConstant DEF Known, Above
  <2>8. Purged(p, j, H)'
    <3>1. H = Left(Halves(c))
      BY <1>1, <1>6, <2>2
    <3>2. Purged(p, j, Left(Halves(c)))'
      BY <2>3, <2>6, ReplayStart
    <3>. QED  BY <3>1, <3>2
  <2>. QED  BY <2>7, <2>8
<1>7. CASE /\ j \notin DOMAIN task /\ t.step = "local"
           /\ t.call \in Calls /\ t.halves = Halves(t.call)
  <2>1. PICK c : c = t.call
    OBVIOUS
  <2>2. Known(p, j)'
    BY <1>2, <1>7 DEF Known, app
  <2>3. Purged(p, j, Left(Halves(c)))'
    BY <1>7, <2>1, ReplayStart
  <2>4. H = Left(Halves(c))
    BY <1>1, <1>7, <2>1
  <2>. QED  BY <2>2, <2>3, <2>4
<1>. QED  BY <1>2, <1>4, <1>5, <1>6, <1>7, TaskReplays

(* Worker 0's replay.                                                      *)
LEMMA RemoteReplays ==
    ASSUME TypeOK, FloorOnce, HalvesFit, CallsFit, StampsMatch, ReplaysFit,
           Next, UNCHANGED app, NEW p \in Procs, remote'[p].id # 0
    PROVE  \E i, H : /\ i = remote'[p].id /\ H = Left(remote'[p].halves)
                     /\ Known(p, i)' /\ Purged(p, i, H)'
<1>1. PICK i, H : i = remote'[p].id /\ H = Left(remote'[p].halves)
  OBVIOUS
<1>. SUFFICES Known(p, i)' /\ Purged(p, i, H)'
  BY <1>1
<1>2. remote[p].id # 0 => /\ remote[p].id \in DOMAIN task
                          /\ Known(p, remote[p].id)
                          /\ Purged(p, remote[p].id, Left(remote[p].halves))
  BY ReplaysOf DEF HalvesFit
<1>3. remote \in [Procs -> Replay] /\ remote[p] \in Replay
  BY RemoteTyped
<1>4. CASE remote'[p] = remote[p]
  <2>1. i \in DOMAIN task /\ Known(p, i) /\ Purged(p, i, H)
    BY <1>1, <1>2, <1>4
  <2>. QED  BY <2>1, ReplayKept
<1>5. CASE receive(p) /\ remote'[p] # remote[p]
  <2>1. PICK s, k : s = pos[p] + 1 /\ k = log[s]
    OBVIOUS
  <2>2. /\ pos[p] < Len(log)
        /\ remote' = [remote EXCEPT ![p] = [id |-> k, halves |-> Halves(task[k].call)]]
        /\ Raised(p, task[k].call, s)
    BY <1>5, <2>1 DEF receive
  <2>3. s \in Nat /\ s \in DOMAIN log /\ k \in DOMAIN task
    BY <2>1, <2>2 DEF TypeOK
  <2>4. i = k /\ H = Left(Halves(task[k].call))
    BY <1>1, <1>3, <2>2
  <2>5. PICK c : c = task[k].call
    OBVIOUS
  <2>6. FloorHolds => \A n \in FloorNames(c) : Above(floor'[p], n, s)
    BY <2>2, <2>3, <2>5, RaisedFloor
  <2>7. s \in DOMAIN log' /\ log'[s] = k /\ task'[k].call = c /\ c \in Calls
    BY <2>1, <2>3, <2>5, CallsKept, CallSame
  <2>8. Known(p, k)'
    BY <2>6, <2>7, FloorConstant DEF Known, Above
  <2>9. Purged(p, k, Left(Halves(c)))'
    BY <2>7, ReplayStart
  <2>10. H = Left(Halves(c))
    BY <2>4, <2>5
  <2>. QED  BY <2>4, <2>8, <2>9, <2>10
<1>6. CASE invalidate_remote(p)
  <2>1. /\ remote[p].halves # <<>>
        /\ remote[p].id # 0 => /\ remote[p].id \in DOMAIN task
                               /\ remote[p].halves \in Seq(CallHalves)
                               /\ Head(remote[p].halves) \in CallHalves
                               /\ invalidate(p, task[remote[p].id].call, Head(remote[p].halves))
        /\ remote' = [remote EXCEPT ![p] = IF Tail(remote[p].halves) = <<>> THEN NoReplay
                                           ELSE [remote[p] EXCEPT !.halves = Tail(remote[p].halves)]]
    BY <1>6, RemoteStep
  <2>2. NoReplay.id = 0
    BY DEF NoReplay
  <2>3. Tail(remote[p].halves) # <<>>
    BY <1>3, <2>1, <2>2
  <2>4. remote'[p].id = remote[p].id /\ remote'[p].halves = Tail(remote[p].halves)
    BY <1>3, <2>1, <2>3 DEF Replay
  <2>5. PICK h, G : h = Head(remote[p].halves) /\ G = Left(remote[p].halves)
    OBVIOUS
  <2>6. /\ i \in DOMAIN task /\ h \in CallHalves /\ invalidate(p, task[i].call, h)
        /\ \A x \in G : x = h \/ x \in H
    BY <1>1, <2>1, <2>4, <2>5, NextHalf
  <2>7. Known(p, i) /\ Purged(p, i, G)
    BY <1>1, <1>2, <2>4, <2>5
  <2>8. UNCHANGED req
    BY <1>6 DEF invalidate_remote
  <2>. QED  BY <2>6, <2>7, <2>8, ReplayNext
<1>7. CASE gap(p)
  <2>1. remote[p].id = 0
    BY <1>7, RemoteTyped DEF gap, Receiving, HalvesFit
  <2>2. remote' = [remote EXCEPT ![p].halves = <<"clear_l1", "clear_jobs">>]
    BY <1>7 DEF gap
  <2>3. remote'[p].id = 0
    BY <1>3, <2>1, <2>2 DEF Replay
  <2>. QED  BY <2>3
<1>8. ASSUME NEW q \in Procs, Process_(q), q # p PROVE remote'[p] = remote[p]
  BY <1>3, <1>8 DEF Process_, Invalidate, receive, gap, invalidate_remote
<1>9. ASSUME Process_(p) PROVE remote'[p] = remote[p] \/ receive(p) \/ invalidate_remote(p) \/ gap(p)
  BY <1>9 DEF Process_, Invalidate
<1>10. ASSUME NEW j \in DOMAIN task, Call_(j) PROVE remote' = remote
  BY <1>10, CallFrame
<1>11. ASSUME NEW r \in Requests, Page_(r) PROVE remote' = remote
  BY <1>11, PageFrame
<1>12. ASSUME WriteData PROVE remote' = remote
  BY <1>12, DataFrame
<1>. QED  BY <1>4, <1>5, <1>6, <1>7, <1>8, <1>9, <1>10, <1>11, <1>12 DEF Next

(* What has been replayed.                                                 *)
LEMMA AppliedReplays ==
    ASSUME TypeOK, FloorOnce, HalvesFit, CallsFit, StampsMatch, ReplaysFit,
           Next, UNCHANGED app, NEW p \in Procs, NEW i \in applied'[p]
    PROVE  Known(p, i)' /\ Purged(p, i, {})'
<1>1. applied \in [Procs -> SUBSET DOMAIN task]
  BY DEF TypeOK
<1>2. CASE i \in applied[p]
  <2>1. i \in DOMAIN task /\ Known(p, i) /\ Purged(p, i, {})
    BY <1>1, <1>2, ReplaysOf
  <2>. QED  BY <2>1, ReplayKept
<1>3. ASSUME NEW G, NEW h \in CallHalves, i \in DOMAIN task, Known(p, i), Purged(p, i, G),
             invalidate(p, task[i].call, h), UNCHANGED req, \A x \in G : x = h
      PROVE  Known(p, i)' /\ Purged(p, i, {})'
  BY <1>3, ReplayNext
<1>4. CASE i \notin applied[p] /\ invalidate_remote(p)
  <2>1. /\ Final(remote[p].halves) /\ remote[p].id # 0
        /\ applied' = [applied EXCEPT ![p] = @ \cup {remote[p].id}]
    BY <1>4 DEF invalidate_remote
  <2>2. i = remote[p].id
    BY <1>1, <1>4, <2>1
  <2>3. /\ remote[p].halves # <<>> /\ i \in DOMAIN task
        /\ remote[p].halves \in Seq(CallHalves)
        /\ Head(remote[p].halves) \in CallHalves
        /\ invalidate(p, task[i].call, Head(remote[p].halves))
    BY <1>4, <2>1, <2>2, RemoteStep
  <2>4. PICK h, G : h = Head(remote[p].halves) /\ G = Left(remote[p].halves)
    OBVIOUS
  <2>5. \A x \in G : x = h
    BY <2>1, <2>3, <2>4, NextHalf DEF Final
  <2>6. Known(p, i) /\ Purged(p, i, G)
    BY <2>1, <2>2, <2>4, ReplaysOf
  <2>7. UNCHANGED req
    BY <1>4 DEF invalidate_remote
  <2>. QED  BY <1>3, <2>3, <2>4, <2>5, <2>6, <2>7
<1>5. ASSUME i \notin applied[p], NEW j \in DOMAIN task, Call_(j)
      PROVE  Known(p, i)' /\ Purged(p, i, {})'
  <2>1. Purges(j)
    BY <1>5, CallFrame
  <2>2. applied' = [applied EXCEPT ![task[j].proc] = @ \cup {j}] /\ Final(task[j].halves) /\ Counts(j)
    BY <1>5, <2>1 DEF Purges, invalidate_own, invalidate_again, Counts
  <2>3. i = j /\ p = task[j].proc
    BY <1>1, <1>5, <2>2
  <2>4. /\ task[j].halves \in Seq(CallHalves) /\ task[j].halves # <<>>
        /\ Head(task[j].halves) \in CallHalves
        /\ invalidate(p, task[j].call, Head(task[j].halves))
    BY <2>1, <2>3, PurgeStep
  <2>5. PICK h, G : h = Head(task[j].halves) /\ G = Left(task[j].halves)
    OBVIOUS
  <2>6. \A x \in G : x = h
    BY <2>2, <2>4, <2>5, NextHalf DEF Final
  <2>7. Known(p, i) /\ Purged(p, i, G)
    BY <2>2, <2>3, <2>5, ReplaysOf
  <2>8. UNCHANGED req
    BY <2>1, PurgesFrame
  <2>. QED  BY <1>3, <2>3, <2>4, <2>5, <2>6, <2>7, <2>8
<1>6. ASSUME i \notin applied[p], NEW q \in Procs, Process_(q) PROVE invalidate_remote(p)
  <2>1. invalidate_remote(q)
    BY <1>6, ProcessFrame
  <2>2. q = p
    BY <1>1, <1>6, <2>1 DEF invalidate_remote
  <2>. QED  BY <2>1, <2>2
<1>7. ASSUME NEW r \in Requests, Page_(r) PROVE applied' = applied
  BY <1>7, PageFrame
<1>8. ASSUME WriteData PROVE applied' = applied
  BY <1>8, DataFrame
<1>. QED  BY <1>2, <1>4, <1>5, <1>6, <1>7, <1>8 DEF Next

(* All of them keep their promise.                                         *)
LEMMA ReplaysFitStep ==
    ASSUME TypeOK, FloorOnce, HalvesFit, CallsFit, StampsMatch, ReplaysFit,
           Next, UNCHANGED app
    PROVE  ReplaysFit'
<1>1. ASSUME NEW p \in Procs, remote'[p].id # 0
      PROVE  Known(p, remote[p].id)' /\ Purged(p, remote[p].id, Left(remote[p].halves))'
  <2>1. PICK i, H : /\ i = remote'[p].id /\ H = Left(remote'[p].halves)
                    /\ Known(p, i)' /\ Purged(p, i, H)'
    BY <1>1, RemoteReplays
  <2>. QED  BY <2>1 DEF Known, Purged, Left
<1>2. ASSUME NEW j \in DOMAIN task', Counts(j)', NEW p \in Procs, task'[j].proc = p
      PROVE  Known(p, j)' /\ Purged(p, j, Left(task[j].halves))'
  <2>1. PICK H : /\ H = Left(task'[j].halves)
                 /\ Known(p, j)' /\ Purged(p, j, H)'
    BY <1>2, OwnReplays
  <2>. QED  BY <2>1 DEF Purged, Left
<1>. QED  BY <1>1, <1>2, AppliedReplays DEF ReplaysFit, Counts

-----------------------------------------------------------------------------
(* What the runs check                                                     *)

StampInv == PagesTypeInv /\ CallsFit /\ StampsMatch

(* Stamps match initially,                                                 *)
LEMMA StampInit == Init => StampInv
<1>. SUFFICES ASSUME Init PROVE StampInv
  OBVIOUS
<1>1. PagesTypeInv
  BY TypeInit DEF PagesTypeInv
<1>2. task = <<>> /\ store = {} /\ \A r \in Requests : req[r] = Idle
  BY DEF Init
<1>3. CallsFit
  BY <1>2 DEF CallsFit
<1>4. Idle.step = "idle" /\ Idle.found = {} /\ Idle.stamp = None
  BY DEF Idle
<1>5. StampsMatch
  BY <1>2, <1>4 DEF StampsMatch, Loaded
<1>. QED  BY <1>1, <1>3, <1>5 DEF StampInv

(* ... and after every step.                                               *)
LEMMA StampStep == StampInv /\ [Next /\ UNCHANGED app]_vars => StampInv'
<1>1. StampInv /\ Next /\ UNCHANGED app => StampInv'
  BY TypeStep, CallsFitStep, StampsMatchStep DEF StampInv, PagesTypeInv
<1>2. StampInv /\ UNCHANGED vars => StampInv'
  <2>. SUFFICES ASSUME StampInv, UNCHANGED vars PROVE StampInv'
    OBVIOUS
  <2>1. PagesTypeInv'
    BY TypeStutter DEF StampInv
  <2>2. CallsFit' /\ StampsMatch'
    BY DEF StampInv, CallsFit, StampsMatch, Stamped, Loaded, vars, app, redis, tier1, calls
  <2>. QED  BY <2>1, <2>2 DEF StampInv
<1>. QED  BY <1>1, <1>2

(* Every process that has replayed an invalidation can tell an older page  *)
(* of the store by its stamp: SET_LUA stores a page under the number the   *)
(* request read before it rendered.                                        *)
THEOREM StoreIsGuarded == Spec => []StoreGuarded
<1>1. StampInv => StoreGuarded
  <2>. SUFFICES ASSUME StampInv, NEW e \in store, NEW n \in DOMAIN log,
                       e.loader < task[log[n]].data
                PROVE  e.stamp < n
    BY DEF StoreGuarded
  <2>1. Stamped(e) /\ TypeOK
    BY DEF StampInv, PagesTypeInv, StampsMatch
  <2>2. e \in Page /\ log \in Seq(DOMAIN task) /\ log[n] \in DOMAIN task /\ Len(log) \in Nat
    BY <2>1 DEF TypeOK
  <2>3. e.loader \in Nat /\ task[log[n]].data \in Nat
    BY <2>1, <2>2, TaskTyped, TaskFields DEF Page
  <2>4. e.stamp \in 0..Len(log) /\ \A m \in 1..e.stamp : e.loader >= task[log[m]].data
    BY <2>1 DEF Stamped
  <2>5. n \in Nat /\ n >= 1
    BY <2>2
  <2>. QED  BY <2>2, <2>3, <2>4, <2>5
<1>. QED  BY <1>1, StampInit, StampStep, PTL DEF Spec

ReplayInv == StampInv /\ ReplaysFit

(* Replays fit initially,                                                  *)
LEMMA ReplayInit == Init => ReplayInv
<1>. SUFFICES ASSUME Init PROVE ReplayInv
  OBVIOUS
<1>1. StampInv
  BY StampInit
<1>2. task = <<>> /\ \A p \in Procs : applied[p] = {} /\ remote[p] = NoReplay
  BY DEF Init
<1>3. NoReplay.id = 0
  BY DEF NoReplay
<1>4. ReplaysFit
  BY <1>2, <1>3 DEF ReplaysFit
<1>. QED  BY <1>1, <1>4 DEF ReplayInv

(* ... and after every step.                                               *)
LEMMA ReplayStep == ReplayInv /\ [Next /\ UNCHANGED app]_vars => ReplayInv'
<1>1. ReplayInv /\ Next /\ UNCHANGED app => ReplaysFit'
  BY ReplaysFitStep DEF ReplayInv, StampInv, PagesTypeInv
<1>2. ReplayInv /\ UNCHANGED vars => ReplaysFit'
  <2>. SUFFICES ASSUME ReplaysFit, UNCHANGED vars PROVE ReplaysFit'
    BY DEF ReplayInv
  <2>1. /\ adapter' = adapter /\ planned' = planned /\ log' = log /\ task' = task /\ floor' = floor
        /\ l1' = l1 /\ l1_inval' = l1_inval /\ job' = job /\ job_inval' = job_inval
        /\ req' = req /\ remote' = remote /\ applied' = applied
    BY DEF vars, app, redis, tier1, calls
  <2>2. \A p, i : Known(p, i)' <=> Known(p, i)
    BY <2>1, FloorConstant DEF Known, Above
  <2>3. \A p, g, d : FreshPage(p, g, d)' <=> FreshPage(p, g, d)
    BY <2>1, FloorConstant DEF FreshPage, Loaded, l1_accepts
  <2>4. \A p, d : FreshJob(p, d)' <=> FreshJob(p, d)
    BY <2>1 DEF FreshJob, jobs_accept
  <2>5. \A p, i, H : Purged(p, i, H)' <=> Purged(p, i, H)
    BY <2>1, FloorConstant DEF Purged, FreshPage, FreshJob, Loaded, l1_accepts, jobs_accept
  <2>. QED  BY <2>1, <2>2, <2>5 DEF ReplaysFit
<1>3. ReplayInv => StampInv
  BY DEF ReplayInv
<1>. QED  BY <1>1, <1>2, <1>3, StampStep DEF ReplayInv

(* What an applied call leaves.                                            *)
LEMMA AppliedCall ==
    ASSUME ReplayInv, NEW p \in Procs, NEW i \in applied[p]
    PROVE  /\ i \in DOMAIN task /\ Known(p, i) /\ Purged(p, i, {})
           /\ TypeOK /\ StampsMatch /\ task[i].data \in Nat /\ task[i].call \in Calls
<1>1. TypeOK /\ StampsMatch /\ ReplaysFit
  BY DEF ReplayInv, StampInv, PagesTypeInv
<1>2. i \in DOMAIN task
  BY <1>1 DEF TypeOK
<1>. QED  BY <1>1, <1>2, TaskTyped, TaskFields DEF ReplaysFit

(* A process that has replayed an invalidation serves no older page from   *)
(* L1: none stayed, none comes back from a request that was under way, and *)
(* none from the store while the floor drops no name.                      *)
THEOREM LoadersStayFresh == FloorHolds /\ Spec => []LoaderFresh
<1>1. FloorHolds /\ ReplayInv => LoaderFresh
  <2>. SUFFICES ASSUME FloorHolds, ReplayInv, NEW p \in Procs, NEW i \in applied[p], NEW e \in l1[p],
                       CoversPage(task[i].call, e.page)
                PROVE  e.loader >= task[i].data
    BY DEF LoaderFresh
  <2>1. TypeOK /\ Purged(p, i, {})
    BY AppliedCall
  <2>2. e.page \in Pages
    BY <2>1 DEF TypeOK, Page
  <2>3. FreshPage(p, e.page, task[i].data)
    BY <2>1, <2>2 DEF Purged, CoversPage
  <2>. QED  BY <2>3 DEF FreshPage
<1>2. FloorHolds => FloorHolds'
  BY FloorConstant
<1>. QED  BY <1>1, <1>2, ReplayInit, ReplayStep, PTL DEF Spec

(* Nor does its job cache hold an older value.                             *)
THEOREM JobsStayFresh == Spec => []JobFresh
<1>1. ReplayInv => JobFresh
  <2>. SUFFICES ASSUME ReplayInv, NEW p \in Procs, NEW i \in applied[p],
                       CoversJob(task[i].call), job[p] # None
                PROVE  job[p] >= task[i].data
    BY DEF JobFresh
  <2>1. Purged(p, i, {})
    BY AppliedCall
  <2>2. FreshJob(p, task[i].data)
    BY <2>1 DEF Purged, CoversJob
  <2>. QED  BY <2>2 DEF FreshJob
<1>. QED  BY <1>1, ReplayInit, ReplayStep, PTL DEF Spec

(* A job value a request computed itself is fresh when its page may land:  *)
(* the page's own stamp is older than the invalidation otherwise.          *)
THEOREM ComputedStaysFresh == Spec => []ComputedFresh
<1>1. ReplayInv => ComputedFresh
  <2>. SUFFICES ASSUME ReplayInv, NEW r \in Requests, NEW i \in applied[r[1]],
                       req[r].step = "insert", ~req[r].hit,
                       l1_accepts(r[1], req[r].page, req[r].since),
                       CoversBoth(task[i].call, req[r].page)
                PROVE  req[r].job >= task[i].data
    BY DEF ComputedFresh
  <2>1. r[1] \in Procs
    BY DEF Requests
  <2>2. TypeOK /\ Purged(r[1], i, {})
    BY <2>1, AppliedCall
  <2>3. req[r].page \in Pages
    BY <2>2, ReqTyped
  <2>4. FreshPage(r[1], req[r].page, task[i].data)
    BY <2>2, <2>3 DEF Purged, CoversPage, CoversBoth
  <2>. QED  BY <2>4 DEF FreshPage, CoversBoth
<1>. QED  BY <1>1, ReplayInit, ReplayStep, PTL DEF Spec

(* "Instances that replayed the event reject them through the invalidation *)
(* floor": an older page of the store is refused by Floor::rejects, while  *)
(* the floor drops no name.                                                *)
THEOREM OldPagesAreRejected == FloorHolds /\ Spec => []ReplayedRejected
<1>1. FloorHolds /\ ReplayInv => ReplayedRejected
  <2>. SUFFICES ASSUME FloorHolds, ReplayInv, NEW p \in Procs, NEW i \in applied[p], NEW e \in store,
                       CoversPage(task[i].call, e.page), e.loader < task[i].data,
                       ~rejects(floor[p], e.stamp, e.page)
                PROVE  FALSE
    BY DEF ReplayedRejected
  <2>1. TypeOK /\ StampsMatch /\ i \in DOMAIN task /\ Known(p, i) /\ task[i].data \in Nat
    BY AppliedCall
  <2>2. e.page \in Pages /\ e.loader \in Nat
    BY <2>1 DEF TypeOK, Page
  <2>3. Stamped(e) /\ adapter
    BY <2>1 DEF StampsMatch
  <2>4. e.loader >= task[i].data
    BY <2>1, <2>2, <2>3, Refused
  <2>. QED  BY <2>1, <2>2, <2>4
<1>2. FloorHolds => FloorHolds'
  BY FloorConstant
<1>. QED  BY <1>1, <1>2, ReplayInit, ReplayStep, PTL DEF Spec

-----------------------------------------------------------------------------
(* The store while Redis fails no call                                     *)

(* Every name of a page or a call is one.                                  *)
LEMMA NamesTyped ==
    /\ \A c \in Calls : CallNames(c) \subseteq Names
    /\ \A g \in Pages : PageNames(g) \subseteq Names
<1>1. ASSUME NEW c \in Calls, NEW n \in CallNames(c) PROVE n \in Names
  <2>1. n \in UNION {CallNames(d) : d \in Calls}
    OBVIOUS
  <2>. QED  BY <2>1 DEF Names
<1>2. ASSUME NEW g \in Pages, NEW n \in PageNames(g) PROVE n \in Names
  <2>1. n \in UNION {PageNames(h) : h \in Pages}
    OBVIOUS
  <2>. QED  BY <2>1 DEF Names
<1>. QED  BY <1>1, <1>2

(* A page is filed under a name of every call that covers it.              *)
LEMMA CoveredName ==
    ASSUME NEW c \in Calls, NEW g \in Pages, CoversPage(c, g)
    PROVE  /\ \E n \in CallNames(c) : n \in PageNames(g)
           /\ Filtered(c) => Prefix(c.prefix) \in PageNames(g)
           /\ HasStoreWork(c)
<1>1. g.path # Wild /\ g.prefix # Wild
  BY PagesAssumption
<1>2. CASE CoversTags(c, g)
  <2>1. PICK t \in c.tags \cap g.tags : InPrefix(c, g)
    BY <1>2 DEF CoversTags
  <2>2. Tag(t) \in CallNames(c) /\ Tag(t) \in PageNames(g)
    BY <2>1 DEF CallNames, PageNames
  <2>. QED  BY <2>1, <2>2 DEF Filtered, InPrefix, PageNames, HasStoreWork
<1>3. CASE c.path = g.path /\ InPrefix(c, g)
  <2>1. Path(g.path) \in CallNames(c) /\ Path(g.path) \in PageNames(g)
    BY <1>1, <1>3 DEF CallNames, PageNames
  <2>. QED  BY <1>1, <1>3, <2>1 DEF Filtered, InPrefix, PageNames, HasStoreWork
<1>4. CASE PrefixAlone(c) /\ InPrefix(c, g)
  <2>1. c.prefix = g.prefix
    BY <1>4 DEF PrefixAlone, InPrefix
  <2>2. Prefix(c.prefix) \in CallNames(c) /\ Prefix(c.prefix) \in PageNames(g)
    BY <1>4, <2>1 DEF CallNames, PageNames
  <2>. QED  BY <1>4, <2>2 DEF Filtered, HasStoreWork, PrefixAlone
<1>. QED  BY <1>2, <1>3, <1>4 DEF CoversPage, CoversPath

(* Such a page is a member, and only members are unfiled.                  *)
LEMMA MemberOf ==
    ASSUME NEW c \in Calls, NEW g \in Pages
    PROVE  /\ CoversPage(c, g) /\ (\A n \in PageNames(g) : <<n, g>> \in index) => g \in Members(c)
           /\ \A n : <<n, g>> \in index /\ <<n, g>> \in Unfiled(c) => g \in Members(c)
<1>1. ASSUME CoversPage(c, g), \A n \in PageNames(g) : <<n, g>> \in index PROVE g \in Members(c)
  <2>1. PICK n \in CallNames(c) : n \in PageNames(g)
    BY <1>1, CoveredName
  <2>2. g \in UNION {Filed(m) : m \in CallNames(c)}
    BY <1>1, <2>1 DEF Filed
  <2>3. Filtered(c) => g \in Filed(Prefix(c.prefix))
    BY <1>1, CoveredName DEF Filed
  <2>. QED  BY <2>2, <2>3 DEF Members
<1>2. ASSUME NEW n, <<n, g>> \in index, <<n, g>> \in Unfiled(c) PROVE g \in Members(c)
  <2>1. CASE Filtered(c)
    BY <1>2, <2>1 DEF Unfiled
  <2>2. CASE ~Filtered(c)
    <3>1. n \in CallNames(c)
      BY <1>2, <2>2 DEF Unfiled
    <3>2. g \in UNION {Filed(m) : m \in CallNames(c)}
      BY <1>2, <3>1 DEF Filed
    <3>. QED  BY <2>2, <3>2 DEF Members
  <2>. QED  BY <2>1, <2>2
<1>. QED  BY <1>1, <1>2

(* What a step without a failure does to a call.                           *)
LEMMA TaskStore ==
    ASSUME TypeOK, HalvesFit, Next, faults' = faults, NEW j \in DOMAIN task'
    PROVE  \/ j \notin DOMAIN task /\ task'[j].step = "local" /\ task'[j].members = {}
           \/ /\ j \in DOMAIN task /\ task'[j].members = task[j].members
              /\ \/ task'[j].step = task[j].step
                 \/ /\ task[j].step \in {"publish", "published", "replay"}
                    /\ task'[j].step \in {"published", "replay", "done"}
                 \/ task[j].step = "local" /\ task'[j].step = AfterTier1(task[j].call)
           \/ /\ j \in DOMAIN task /\ delete(j)
              /\ task[j].step = "delete" /\ task'[j].step = "unlink"
              /\ task'[j].members = Members(task[j].call)
           \/ /\ j \in DOMAIN task /\ unlink(j)
              /\ task'[j].members = {}
              /\ task'[j].step = IF task[j].step = "unlink" THEN "publish" ELSE task[j].step
<1>1. CASE j \in DOMAIN task /\ task'[j] = task[j]
  BY <1>1
<1>2. CASE j \notin DOMAIN task /\ \E p \in Procs, c \in Calls : task'[j] = NewCall(p, c)
  BY <1>2 DEF NewCall
<1>3. ASSUME j \in DOMAIN task, Call_(j)
      PROVE  \/ /\ task'[j].members = task[j].members
                /\ \/ task'[j].step = task[j].step
                   \/ /\ task[j].step \in {"publish", "published", "replay"}
                      /\ task'[j].step \in {"published", "replay", "done"}
                   \/ task[j].step = "local" /\ task'[j].step = AfterTier1(task[j].call)
             \/ /\ delete(j)
                /\ task[j].step = "delete" /\ task'[j].step = "unlink"
                /\ task'[j].members = Members(task[j].call)
             \/ /\ unlink(j)
                /\ task'[j].members = {}
                /\ task'[j].step = IF task[j].step = "unlink" THEN "publish" ELSE task[j].step
  <2>1. task \in Seq(Task) /\ task[j] \in Task /\ faults \in Nat
    BY <1>3, TaskTyped DEF TypeOK
  <2>2. CASE invalidate_own(j)
    <3>1. /\ task[j].step = "local"
          /\ task' = [task EXCEPT ![j].halves = Tail(@),
                                  ![j].step = IF Final(task[j].halves) THEN AfterTier1(task[j].call)
                                              ELSE @]
      BY <2>2 DEF invalidate_own
    <3>2. /\ task'[j].members = task[j].members
          /\ task'[j].step = IF Final(task[j].halves) THEN AfterTier1(task[j].call) ELSE task[j].step
      BY <1>3, <2>1, <3>1 DEF Task
    <3>. QED  BY <3>1, <3>2
  <2>3. CASE invalidate_again(j)
    <3>1. /\ task[j].step = "replay"
          /\ task' = [task EXCEPT ![j].halves = Tail(@),
                                  ![j].step = IF Final(task[j].halves) THEN "done" ELSE @]
      BY <2>3 DEF invalidate_again
    <3>2. /\ task'[j].members = task[j].members
          /\ task'[j].step = IF Final(task[j].halves) THEN "done" ELSE task[j].step
      BY <1>3, <2>1, <3>1 DEF Task
    <3>. QED  BY <3>1, <3>2
  <2>4. CASE replay_own(j)
    <3>1. /\ task[j].step = "published"
          /\ task' = [task EXCEPT ![j].step = "replay", ![j].halves = Halves(task[j].call)]
      BY <2>4 DEF replay_own
    <3>2. task'[j].members = task[j].members /\ task'[j].step = "replay"
      BY <1>3, <2>1, <3>1 DEF Task
    <3>. QED  BY <3>1, <3>2
  <2>5. CASE unlink(j)
    <3>1. task' = [task EXCEPT ![j].step = IF @ = "unlink" THEN "publish" ELSE @, ![j].members = {}]
      BY <2>5 DEF unlink
    <3>2. /\ task'[j].members = {}
          /\ task'[j].step = IF task[j].step = "unlink" THEN "publish" ELSE task[j].step
      BY <1>3, <2>1, <3>1 DEF Task
    <3>. QED  BY <2>5, <3>2
  <2>6. CASE delete(j)
    <3>1. /\ task[j].step = "delete"
          /\ task' = [task EXCEPT ![j].step = "unlink", ![j].members = Members(task[j].call)]
      BY <2>1, <2>6 DEF delete, Fault
    <3>2. task'[j].step = "unlink" /\ task'[j].members = Members(task[j].call)
      BY <1>3, <2>1, <3>1 DEF Task
    <3>. QED  BY <2>6, <3>1, <3>2
  <2>7. CASE publish(j)
    <3>0. ~Fault
      BY <2>1 DEF Fault
    <3>1. /\ task[j].step = "publish"
          /\ task' = [task EXCEPT ![j].step = "published", ![j].seq = Len(log')]
      BY <2>7, <3>0 DEF publish
    <3>2. task'[j].step = "published" /\ task'[j].members = task[j].members
      BY <1>3, <2>1, <3>1 DEF Task
    <3>. QED  BY <3>1, <3>2
  <2>8. ~delete_failed(j) /\ ~publish_failed(j)
    BY <2>1 DEF delete_failed, publish_failed, Fault
  <2>. QED  BY <1>3, <2>2, <2>3, <2>4, <2>5, <2>6, <2>7, <2>8 DEF Call_
<1>. QED  BY <1>1, <1>2, <1>3, TaskChange

(* A state without failures was reached without failures.                  *)
LEMMA NoFault ==
    ASSUME TypeOK, Next, faults' = 0
    PROVE  faults = 0
<1>1. faults \in Nat /\ faults' \in Nat /\ faults <= faults'
  BY CountersKept DEF TypeOK
<1>. QED  BY <1>1

(* Without failures only a call about to unlink remembers members.         *)
LEMMA MembersFitStep ==
    ASSUME TypeOK, HalvesFit, MembersFit, Next
    PROVE  MembersFit'
<1>. SUFFICES ASSUME faults' = 0, NEW j \in DOMAIN task', task'[j].members # {}
              PROVE  task'[j].step = "unlink"
  BY DEF MembersFit
<1>1. faults = 0
  BY NoFault
<1>2. \A i \in DOMAIN task : task[i].members # {} => task[i].step = "unlink"
  BY <1>1 DEF MembersFit
<1>. QED  BY <1>1, <1>2, TaskStore

(* The pages and names of the store from one step to the next.             *)
LEMMA StoreGrows ==
    ASSUME Next, NEW e \in store'
    PROVE  e \in store \/ \E r \in Requests : SET_LUA(r) /\ e = Rendered(r)
<1>1. ASSUME NEW r \in Requests, Page_(r) PROVE e \in store \/ (SET_LUA(r) /\ e = Rendered(r))
  <2>1. CASE SET_LUA(r)
    <3>1. store' = {x \in store : x.page # req[r].page} \cup {Rendered(r)}
      BY <2>1 DEF SET_LUA
    <3>. QED  BY <2>1, <3>1
  <2>2. CASE ~SET_LUA(r)
    BY <1>1, <2>2, PageFrame
  <2>. QED  BY <2>1, <2>2
<1>2. ASSUME NEW i \in DOMAIN task, Call_(i) PROVE e \in store
  BY <1>2, CallFrame DEF unlink
<1>3. ASSUME NEW p \in Procs, Process_(p) PROVE e \in store
  BY <1>3, ProcessFrame
<1>4. ASSUME WriteData PROVE e \in store
  BY <1>4, DataFrame
<1>. QED  BY <1>1, <1>2, <1>3, <1>4 DEF Next

(* A page leaves an index set only by a script in mode `delete`.           *)
LEMMA IndexShrinks ==
    ASSUME Next, NEW x \in index
    PROVE  x \in index' \/ \E j \in DOMAIN task : delete(j) /\ x \in Unfiled(task[j].call)
<1>1. ASSUME NEW r \in Requests, Page_(r) PROVE x \in index'
  <2>1. CASE SET_LUA(r)
    BY <2>1 DEF SET_LUA
  <2>2. CASE ~SET_LUA(r)
    BY <1>1, <2>2, PageFrame
  <2>. QED  BY <2>1, <2>2
<1>2. ASSUME NEW j \in DOMAIN task, Call_(j)
      PROVE  x \in index' \/ (delete(j) /\ x \in Unfiled(task[j].call))
  <2>1. CASE delete(j)
    BY <2>1 DEF delete
  <2>2. CASE ~delete(j)
    BY <1>2, <2>2, CallFrame
  <2>. QED  BY <2>1, <2>2
<1>3. ASSUME NEW p \in Procs, Process_(p) PROVE x \in index'
  BY <1>3, ProcessFrame
<1>4. ASSUME WriteData PROVE x \in index'
  BY <1>4, DataFrame
<1>. QED  BY <1>1, <1>2, <1>3, <1>4 DEF Next

(* Markers only rise, to the number the call will take or to a later one.  *)
LEMMA MarkedRises ==
    ASSUME TypeOK, NEW c \in Calls, NEW v \in Nat, marks' = Marked(c, v), NEW n \in Names
    PROVE  marks'[n] >= marks[n] /\ (n \in CallNames(c) => marks'[n] >= v)
<1>1. marks[n] \in Nat
  BY DEF TypeOK
<1>2. marks'[n] = IF n \in CallNames(c) /\ v > marks[n] THEN v ELSE marks[n]
  BY DEF Marked
<1>. QED  BY <1>1, <1>2

(* No step lowers a marker.                                                *)
LEMMA MarksRise ==
    ASSUME TypeOK, HalvesFit, Next, NEW n \in Names
    PROVE  marks'[n] >= marks[n] /\ marks[n] \in Nat /\ marks'[n] \in Nat
<1>0. marks' \in [Names -> Nat]
  BY RedisTyped
<1>1. marks[n] \in Nat /\ marks'[n] \in Nat /\ Len(log) \in Nat
  BY <1>0 DEF TypeOK
<1>2. ASSUME NEW i \in DOMAIN task, Call_(i) PROVE marks'[n] >= marks[n]
  <2>1. task[i].call \in Calls
    BY <1>2, TaskTyped, TaskFields
  <2>2. CASE delete(i)
    <3>1. marks' = Marked(task[i].call, Len(log) + 1)
      BY <2>2 DEF delete
    <3>. QED  BY <1>1, <2>1, <3>1, MarkedRises
  <2>3. CASE publish(i)
    <3>1. log' = Append(log, i) /\ marks' = Marked(task[i].call, Len(log'))
      BY <2>3 DEF publish
    <3>2. Len(log') \in Nat
      BY <3>1 DEF TypeOK
    <3>. QED  BY <2>1, <3>1, <3>2, MarkedRises
  <2>4. CASE ~delete(i) /\ ~publish(i)
    BY <1>1, <1>2, <2>4, CallFrame
  <2>. QED  BY <2>2, <2>3, <2>4
<1>3. ASSUME marks' = marks PROVE marks'[n] >= marks[n]
  BY <1>1, <1>3
<1>4. ASSUME NEW r \in Requests, Page_(r) PROVE marks' = marks
  BY <1>4, PageFrame
<1>5. ASSUME NEW p \in Procs, Process_(p) PROVE marks' = marks
  BY <1>5, ProcessFrame
<1>6. ASSUME WriteData PROVE marks' = marks
  BY <1>6, DataFrame
<1>7. marks'[n] >= marks[n]
  BY <1>2, <1>3, <1>4, <1>5, <1>6 DEF Next
<1>. QED  BY <1>1, <1>7

(* A page a call remembers stays remembered until it is unlinked.          *)
LEMMA DoomKept ==
    ASSUME TypeOK, HalvesFit, MembersFit, Next, faults' = 0,
           NEW e \in store, e \in store', Doomed(e.page)
    PROVE  Doomed(e.page)'
<1>1. faults = 0
  BY NoFault
<1>2. PICK j \in DOMAIN task : e.page \in task[j].members
  BY DEF Doomed
<1>3. task[j].step = "unlink"
  BY <1>1, <1>2 DEF MembersFit
<1>4. j \in DOMAIN task'
  BY CallsKept
<1>5. ASSUME unlink(j) PROVE FALSE
  BY <1>2, <1>5 DEF unlink
<1>6. task'[j].members = task[j].members
  BY <1>1, <1>3, <1>4, <1>5, TaskStore
<1>7. \E k \in DOMAIN task' : e.page \in task'[k].members
  BY <1>2, <1>4, <1>6
<1>. QED  BY <1>7 DEF Doomed

(* How a call comes to have swept the store.                               *)
LEMMA SweptBy ==
    ASSUME TypeOK, HalvesFit, Next, UNCHANGED app, faults' = faults, NEW i \in DOMAIN task', Swept(i)'
    PROVE  /\ i \in DOMAIN task /\ task'[i].call = task[i].call /\ task'[i].data = task[i].data
           /\ Swept(i) \/ delete(i) \/ ~HasStoreWork(task[i].call)
<1>1. adapter /\ adapter' = adapter
  BY DEF Swept, app
<1>2. task'[i].step \in {"unlink", "publish", "published", "replay", "done"}
  BY DEF Swept
<1>3. i \in DOMAIN task
  BY <1>2, TaskStore
<1>4. task'[i].call = task[i].call /\ task'[i].data = task[i].data
  BY <1>3, CallsKept DEF Same
<1>5. ASSUME task[i].step = "local", task'[i].step = AfterTier1(task[i].call)
      PROVE  ~HasStoreWork(task[i].call)
  BY <1>1, <1>2, <1>5 DEF AfterTier1
<1>6. ASSUME task'[i].step = task[i].step \/ task[i].step \in {"publish", "published", "replay"}
      PROVE  Swept(i)
  BY <1>1, <1>2, <1>6 DEF Swept
<1>7. ASSUME task'[i].step = IF task[i].step = "unlink" THEN "publish" ELSE task[i].step
      PROVE  Swept(i)
  BY <1>1, <1>2, <1>7 DEF Swept
<1>. QED  BY <1>3, <1>4, <1>5, <1>6, <1>7, TaskStore

(* A call the store ignores names nothing and covers no page.              *)
LEMMA NoNames ==
    ASSUME NEW c \in Calls, ~HasStoreWork(c)
    PROVE  CallNames(c) = {} /\ \A g \in Pages : ~CoversPage(c, g)
<1>1. CallNames(c) = {}
  BY DEF HasStoreWork, CallNames, PrefixAlone
<1>. QED  BY <1>1, CoveredName

(* What the script in mode `delete` remembers when it does not fail.       *)
LEMMA Deleted ==
    ASSUME TypeOK, HalvesFit, Next, faults' = faults, NEW j \in DOMAIN task, delete(j)
    PROVE  /\ j \in DOMAIN task' /\ task[j].step = "delete" /\ task'[j].step = "unlink"
           /\ task'[j].members = Members(task[j].call)
<1>1. task \in Seq(Task) /\ task[j] \in Task /\ faults \in Nat
  BY TaskTyped DEF TypeOK
<1>2. ~Fault
  BY <1>1 DEF Fault
<1>3. /\ task[j].step = "delete"
      /\ task' = [task EXCEPT ![j].step = "unlink", ![j].members = Members(task[j].call)]
  BY <1>2 DEF delete
<1>4. task'[j].step = "unlink" /\ task'[j].members = Members(task[j].call)
  BY <1>1, <1>3 DEF Task
<1>. QED  BY <1>1, <1>3, <1>4

FiledOrDoomed(e) == Doomed(e.page) \/ \A n \in PageNames(e.page) : <<n, e.page>> \in index

(* What the markers of call i say of request r, and what its UNLINK says   *)
(* of a page of the store.                                                 *)
Barred(i, r) ==
    \A n \in CallNames(task[i].call) :
        Loaded(r) /\ marks[n] <= req[r].stamp => req[r].loader >= task[i].data

Clean(i, e) ==
    CoversPage(task[i].call, e.page) => e.loader >= task[i].data \/ Doomed(e.page)

(* The store's invariant, page by page and call by call.                   *)
LEMMA StoreParts ==
    StoreFits <=> (faults = 0 => /\ \A e \in store : FiledOrDoomed(e)
                                 /\ \A i \in DOMAIN task : Swept(i) => /\ \A r \in Requests : Barred(i, r)
                                                                       /\ \A e \in store : Clean(i, e))
<1>. QED  BY DEF StoreFits, FiledOrDoomed, Barred, Clean

(* Every page of the store stays filed under all its names or remembered.  *)
LEMMA FiledStep ==
    ASSUME TypeOK, HalvesFit, MembersFit, StoreFits, Next, faults' = 0, NEW e \in store'
    PROVE  FiledOrDoomed(e)'
<1>1. faults = 0 /\ faults' = faults
  BY NoFault
<1>2. CASE e \in store
  <2>1. FiledOrDoomed(e)
    BY <1>1, <1>2, StoreParts
  <2>2. CASE Doomed(e.page)
    BY <1>2, <2>2, DoomKept DEF FiledOrDoomed
  <2>3. CASE \A n \in PageNames(e.page) : <<n, e.page>> \in index
    <3>1. CASE \A n \in PageNames(e.page) : <<n, e.page>> \in index'
      BY <3>1 DEF FiledOrDoomed
    <3>2. ASSUME NEW n \in PageNames(e.page), <<n, e.page>> \notin index'
          PROVE  FiledOrDoomed(e)'
      <4>1. PICK j \in DOMAIN task : delete(j) /\ <<n, e.page>> \in Unfiled(task[j].call)
        BY <2>3, <3>2, IndexShrinks
      <4>2. e.page \in Pages /\ task[j].call \in Calls
        BY <1>2, TaskTyped, TaskFields DEF TypeOK, Page
      <4>3. e.page \in Members(task[j].call)
        BY <2>3, <4>1, <4>2, MemberOf
      <4>4. j \in DOMAIN task' /\ task'[j].members = Members(task[j].call)
        BY <1>1, <4>1, Deleted
      <4>5. Doomed(e.page)'
        BY <4>3, <4>4 DEF Doomed
      <4>. QED  BY <4>5 DEF FiledOrDoomed
    <3>. QED  BY <3>1, <3>2
  <2>. QED  BY <2>1, <2>2, <2>3 DEF FiledOrDoomed
<1>3. ASSUME NEW r \in Requests, SET_LUA(r), e = Rendered(r) PROVE FiledOrDoomed(e)'
  <2>1. e.page = req[r].page
    BY <1>3 DEF Rendered
  <2>2. index' = index \cup (PageNames(req[r].page) \X {req[r].page})
    BY <1>3 DEF SET_LUA
  <2>3. \A n \in PageNames(e.page) : <<n, e.page>> \in index'
    BY <2>1, <2>2
  <2>. QED  BY <2>3 DEF FiledOrDoomed
<1>. QED  BY <1>2, <1>3, StoreGrows

(* Past its scripts a call is older than what any request has loaded whose *)
(* stamp its markers let pass.                                             *)
LEMMA BarredStep ==
    ASSUME TypeOK, HalvesFit, CallsFit, MembersFit, StoreFits, Next, UNCHANGED app, faults' = 0,
           NEW i \in DOMAIN task', Swept(i)', NEW r \in Requests
    PROVE  Barred(i, r)'
<1>1. faults = 0 /\ faults' = faults
  BY NoFault
<1>2. /\ i \in DOMAIN task /\ task'[i].call = task[i].call /\ task'[i].data = task[i].data
      /\ Swept(i) \/ delete(i) \/ ~HasStoreWork(task[i].call)
  BY <1>1, SweptBy
<1>. DEFINE c == task[i].call
            d == task[i].data
<1>3. c \in Calls /\ d \in Nat /\ d <= data /\ data \in Nat
  BY <1>2, TaskTyped, TaskFields DEF CallsFit, TypeOK
<1>4. SUFFICES ASSUME NEW n \in CallNames(c), Loaded(r)', marks'[n] <= req'[r].stamp
               PROVE  req'[r].loader >= d
  BY <1>2 DEF Barred
<1>5. n \in Names
  BY <1>3, NamesTyped
<1>6. marks'[n] >= marks[n] /\ marks[n] \in Nat /\ marks'[n] \in Nat
  BY <1>5, MarksRise
<1>7. /\ req[r].stamp \in Int /\ req[r].stamp <= Len(log) /\ Len(log) \in Nat
      /\ req[r].loader \in Nat
  <2>1. req[r].stamp \in Nat \cup {-1}
    BY ReqTyped DEF None
  <2>2. req[r].stamp \in Int
    BY <2>1
  <2>3. req[r].stamp <= Len(log) /\ Len(log) \in Nat
    BY DEF TypeOK
  <2>4. req[r].loader \in Nat
    BY ReqTyped
  <2>. QED  BY <2>2, <2>3, <2>4
<1>8. CASE delete(i)
  <2>1. req' = req
    BY <1>2, <1>8, CallFrame DEF Call_
  <2>2. marks' = Marked(c, Len(log) + 1)
    BY <1>8 DEF delete
  <2>3. marks'[n] >= Len(log) + 1
    BY <1>3, <1>5, <1>7, <2>2, MarkedRises
  <2>. QED  BY <1>4, <1>6, <1>7, <2>1, <2>3
<1>9. CASE ~HasStoreWork(c)
  BY <1>3, <1>9, NoNames
<1>10. CASE Swept(i)
  <2>1. Barred(i, r)
    BY <1>1, <1>2, <1>10, StoreParts
  <2>2. ASSUME Loaded(r), req'[r].stamp = req[r].stamp, req'[r].loader = req[r].loader
        PROVE  req'[r].loader >= d
    <3>1. marks[n] <= req[r].stamp
      BY <1>4, <1>6, <1>7, <2>2
    <3>. QED  BY <2>1, <2>2, <3>1 DEF Barred
  <2>3. CASE req'[r] = req[r]
    BY <1>4, <2>2, <2>3 DEF Loaded
  <2>4. CASE Page_(r)
    <3>. DEFINE o == req[r]
                q == req'[r]
    <3>1. Effect(q, o)
      BY <2>4, ReqEffect
    <3>2. q.step \in {"jobs", "call", "apply", "insert", "set"}
      BY <1>4 DEF Loaded
    <3>3. \/ q.loader = data
          \/ o.step \in {"jobs", "call", "apply", "insert"} /\ On(q, o) /\ q.loader = o.loader
      BY <3>1, <3>2 DEF Effect
    <3>4. CASE q.loader = data
      BY <1>3, <3>4
    <3>5. CASE o.step \in {"jobs", "call", "apply", "insert"} /\ On(q, o) /\ q.loader = o.loader
      BY <2>2, <3>5 DEF On, Loaded
    <3>. QED  BY <3>3, <3>4, <3>5
  <2>5. req'[r] = req[r] \/ Page_(r)
    <3>1. ASSUME NEW x \in Requests, Page_(x) PROVE req'[r] = req[r] \/ Page_(r)
      BY <3>1, ReqEffect
    <3>2. ASSUME NEW j \in DOMAIN task, Call_(j) PROVE req' = req
      BY <3>2, CallFrame
    <3>3. ASSUME NEW p \in Procs, Process_(p) PROVE req' = req
      BY <3>3, ProcessFrame
    <3>4. ASSUME WriteData PROVE req' = req
      BY <3>4, DataFrame
    <3>. QED  BY <3>1, <3>2, <3>3, <3>4 DEF Next
  <2>. QED  BY <2>3, <2>4, <2>5
<1>. QED  BY <1>2, <1>8, <1>9, <1>10

(* ... and no page it covers is older, but one another call will unlink.   *)
LEMMA CleanStep ==
    ASSUME TypeOK, HalvesFit, CallsFit, MembersFit, StoreFits, Next, UNCHANGED app, faults' = 0,
           NEW i \in DOMAIN task', Swept(i)', NEW e \in store'
    PROVE  Clean(i, e)'
<1>1. faults = 0 /\ faults' = faults
  BY NoFault
<1>2. /\ i \in DOMAIN task /\ task'[i].call = task[i].call /\ task'[i].data = task[i].data
      /\ Swept(i) \/ delete(i) \/ ~HasStoreWork(task[i].call)
  BY <1>1, SweptBy
<1>. DEFINE c == task[i].call
            d == task[i].data
<1>3. c \in Calls
  BY <1>2, TaskTyped, TaskFields
<1>4. SUFFICES ASSUME CoversPage(c, e.page) PROVE e.loader >= d \/ Doomed(e.page)'
  BY <1>2 DEF Clean
<1>5. CASE e \in store
  <2>1. e.page \in Pages
    BY <1>5 DEF TypeOK, Page
  <2>2. HasStoreWork(c)
    BY <1>3, <1>4, <2>1, NoNames
  <2>3. CASE Doomed(e.page)
    BY <1>5, <2>3, DoomKept
  <2>4. CASE Swept(i)
    <3>1. Clean(i, e)
      BY <1>1, <1>2, <1>5, <2>4, StoreParts
    <3>. QED  BY <1>4, <2>3, <3>1 DEF Clean
  <2>5. CASE delete(i) /\ ~Doomed(e.page)
    <3>1. \A n \in PageNames(e.page) : <<n, e.page>> \in index
      BY <1>1, <1>5, <2>5, StoreParts DEF FiledOrDoomed
    <3>2. e.page \in Members(c)
      BY <1>3, <1>4, <2>1, <3>1, MemberOf
    <3>3. task'[i].members = Members(c)
      BY <1>1, <1>2, <2>5, Deleted
    <3>. QED  BY <3>2, <3>3 DEF Doomed
  <2>. QED  BY <1>2, <2>2, <2>3, <2>4, <2>5
<1>6. ASSUME NEW r \in Requests, SET_LUA(r), e = Rendered(r) PROVE e.loader >= d
  <2>1. e.page = req[r].page /\ e.loader = req[r].loader
    BY <1>6 DEF Rendered
  <2>2. req[r].step = "set" /\ \A n \in PageNames(req[r].page) : marks[n] <= req[r].stamp
    BY <1>6 DEF SET_LUA
  <2>3. req[r].page \in Pages
    BY ReqTyped
  <2>4. PICK n \in CallNames(c) : n \in PageNames(req[r].page)
    BY <1>3, <1>4, <2>1, <2>3, CoveredName
  <2>5. HasStoreWork(c)
    BY <1>3, <2>4, NoNames
  <2>6. ~delete(i)
    <3>1. task' = task
      BY <1>6, PageFrame DEF Page_
    <3>2. task[i] \in Task /\ task \in Seq(Task)
      BY <1>2, TaskTyped DEF TypeOK
    <3>3. ASSUME delete(i) PROVE FALSE
      <4>1. task[i].step = "delete" /\ task'[i].step = "unlink"
        BY <1>1, <1>2, <3>3, Deleted
      <4>. QED  BY <3>1, <4>1
    <3>. QED  BY <3>3
  <2>7. Barred(i, r)
    BY <1>1, <1>2, <2>5, <2>6, StoreParts
  <2>8. req[r].loader >= d
    BY <2>2, <2>4, <2>7 DEF Barred, Loaded
  <2>. QED  BY <2>1, <2>8
<1>. QED  BY <1>5, <1>6, StoreGrows

StoreInv == StampInv /\ MembersFit /\ StoreFits

(* The store is clean initially,                                           *)
LEMMA StoreInit == Init => StoreInv
<1>. SUFFICES ASSUME Init PROVE StoreInv
  OBVIOUS
<1>1. StampInv
  BY StampInit
<1>2. task = <<>> /\ store = {}
  BY DEF Init
<1>3. MembersFit /\ StoreFits
  BY <1>2 DEF MembersFit, StoreFits
<1>. QED  BY <1>1, <1>3 DEF StoreInv

(* ... and after every step.                                               *)
LEMMA StoreStep == StoreInv /\ [Next /\ UNCHANGED app]_vars => StoreInv'
<1>1. ASSUME StoreInv, Next, UNCHANGED app PROVE MembersFit' /\ StoreFits'
  <2>1. TypeOK /\ HalvesFit /\ CallsFit /\ MembersFit /\ StoreFits
    BY <1>1 DEF StoreInv, StampInv, PagesTypeInv
  <2>2. MembersFit'
    BY <1>1, <2>1, MembersFitStep
  <2>3. ASSUME faults' = 0, NEW e \in store' PROVE FiledOrDoomed(e)'
    BY <1>1, <2>1, <2>3, FiledStep
  <2>4. ASSUME faults' = 0, NEW i \in DOMAIN task', Swept(i)', NEW r \in Requests
        PROVE  Barred(i, r)'
    BY <1>1, <2>1, <2>4, BarredStep
  <2>5. ASSUME faults' = 0, NEW i \in DOMAIN task', Swept(i)', NEW e \in store'
        PROVE  Clean(i, e)'
    BY <1>1, <2>1, <2>5, CleanStep
  <2>6. StoreFits' <=> (faults' = 0 =>
             /\ \A e \in store' : FiledOrDoomed(e)'
             /\ \A i \in DOMAIN task' : Swept(i)' => /\ \A r \in Requests : Barred(i, r)'
                                                     /\ \A e \in store' : Clean(i, e)')
    BY DEF StoreFits, FiledOrDoomed, Barred, Clean
  <2>. QED  BY <2>2, <2>3, <2>4, <2>5, <2>6
<1>2. ASSUME StoreInv, UNCHANGED vars PROVE MembersFit' /\ StoreFits'
  <2>1. /\ faults' = faults /\ task' = task /\ store' = store /\ index' = index
        /\ marks' = marks /\ req' = req /\ adapter' = adapter
    BY <1>2 DEF vars, app, redis, calls
  <2>. QED  BY <1>2, <2>1 DEF StoreInv, MembersFit, StoreFits, Doomed, Swept, Loaded
<1>3. StoreInv /\ [Next /\ UNCHANGED app]_vars => StampInv'
  BY StampStep DEF StoreInv
<1>. QED  BY <1>1, <1>2, <1>3 DEF StoreInv

(* While Redis fails no call, what a call has unlinked stays out of the    *)
(* store: the markers `delete` leaves refuse every page rendered from      *)
(* older data, and every page it covers was filed where it looks.          *)
THEOREM StoreStaysClean == Spec => []StoreClean
<1>1. StoreInv => StoreClean
  <2>. SUFFICES ASSUME StoreInv, faults = 0, NEW i \in DOMAIN task, NEW e \in store,
                       adapter, task[i].step \in {"publish", "published", "replay", "done"},
                       CoversPage(task[i].call, e.page),
                       \A j \in DOMAIN task : e.page \notin task[j].members
                PROVE  e.loader >= task[i].data
    BY DEF StoreClean
  <2>1. Swept(i)
    BY DEF Swept
  <2>2. Clean(i, e)
    BY <2>1, StoreParts DEF StoreInv
  <2>. QED  BY <2>2 DEF Clean, Doomed
<1>. QED  BY <1>1, StoreInit, StoreStep, PTL DEF Spec
=============================================================================
