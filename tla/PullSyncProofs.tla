--------------------------- MODULE PullSyncProofs ---------------------------
(***************************************************************************)
(* SyncedPagesFresh and FloorCovers for any set of pages, any capacity of  *)
(* the ring, any number of names a floor holds and any bounds.             *)
(***************************************************************************)
EXTENDS PullSync, L2FloorProofs, TLAPS

(* A non-empty set of naturals with an upper bound has a greatest element, *)
(* which is what MaxOf returns.                                            *)
LEMMA MaxOfIsMax ==
    ASSUME NEW N \in Nat, NEW S \in SUBSET (0 .. N), S # {}
    PROVE  MaxOf(S) \in S /\ \A m \in S : m <= MaxOf(S)
PROOF
  <1>. DEFINE T == {k \in Nat : \A n \in S : n <= k}
  <1>1. T \subseteq Nat /\ N \in T
    OBVIOUS
  <1>. DEFINE R == {ss \in Nat \X Nat : ss[1] < ss[2]}
  <1>2. IsWellFoundedOn(R, Nat)
    BY NatLessThanWellFounded, Zenon DEF OpToRel
  <1>. HIDE DEF R
  <1>3. PICK x \in T : \A y \in T : ~(<<y, x>> \in R)
    BY <1>1, <1>2, WFMin, Zenon
  <1>. USE DEF R
  <1>4. \A y \in T : ~(y < x)
    BY <1>3
  <1>5. x \in S
    <2>1. SUFFICES ASSUME x \notin S PROVE FALSE
      OBVIOUS
    <2>2. PICK n \in S : TRUE
      OBVIOUS
    <2>3. n < x /\ x - 1 \in Nat
      BY <2>1
    <2>4. x - 1 \in T
      BY <2>1, <2>3
    <2>. QED  BY <2>4, <1>4
  <1>6. \A m \in S : m <= x
    OBVIOUS
  <1>. QED  BY <1>5, <1>6 DEF MaxOf

-----------------------------------------------------------------------------
(* What publish does to the log and the ring. *)
LEMMA PublishFacts ==
    ASSUME TypeOK, NEW own \in BOOLEAN, NEW p \in Pages, publish(own, p)
    PROVE  /\ log' \in Seq(Event) /\ Len(log') = Len(log) + 1 /\ Len(log) \in Nat
           /\ \A n \in 1 .. Len(log) : log'[n] = log[n]
           /\ log'[Len(log) + 1].own = own /\ log'[Len(log) + 1].page = p
           /\ ring' \subseteq 1 .. Len(log')
           /\ dropped' \in 0 .. Len(log')
           /\ gen' = gen
PROOF
  <1>. DEFINE seq == Len(log) + 1
              all == ring \cup {seq}
              gone(keep) == {n \in all : n <= seq - keep}
              e(big) == [own |-> own, page |-> p, oversize |-> big]
  <1>1. PICK big \in BOOLEAN, keep \in 1 .. CapEntries :
            /\ log' = Append(log, e(big))
            /\ ring' = all \ gone(keep)
            /\ dropped' = IF gone(keep) = {} THEN dropped ELSE MaxOf(gone(keep))
    BY DEF publish
  <1>2. Len(log) \in Nat /\ log \in Seq(Event) /\ e(big) \in Event
    BY DEF TypeOK, Event
  <1>3. /\ log' \in Seq(Event) /\ Len(log') = seq
        /\ \A n \in 1 .. Len(log) : log'[n] = log[n]
        /\ log'[seq] = e(big)
    BY <1>1, <1>2
  <1>4. all \subseteq 1 .. seq
    <2>1. ring \subseteq 1 .. Len(log)
      BY DEF TypeOK
    <2>2. \A n \in ring : n \in 1 .. seq
      BY <1>2, <2>1
    <2>3. seq \in 1 .. seq
      BY <1>2
    <2>. QED  BY <2>2, <2>3
  <1>5. dropped' \in 0 .. seq
    <2>1. CASE gone(keep) = {}
      BY <1>1, <1>2, <2>1 DEF TypeOK
    <2>2. CASE gone(keep) # {}
      <3>1. gone(keep) \in SUBSET (0 .. seq) /\ seq \in Nat
        BY <1>2, <1>4
      <3>. HIDE DEF gone, seq
      <3>2. MaxOf(gone(keep)) \in gone(keep)
        BY <3>1, <2>2, MaxOfIsMax
      <3>. QED  BY <1>1, <2>2, <3>1, <3>2
    <2>. QED  BY <2>1, <2>2
  <1>6. gen' = gen
    BY DEF publish
  <1>. QED  BY <1>1, <1>2, <1>3, <1>4, <1>5, <1>6

(* The events whose names count against event `n` are finitely many.       *)
LEMMA SinceFinite ==
    ASSUME TypeOK, NEW n
    PROVE  IsFiniteSet(Since(n)) /\ Cardinality(Since(n)) \in Nat
PROOF
  <1>. DEFINE f == [m \in 1 .. Len(log) |-> log[m].page]
  <1>1. IsFiniteSet(DOMAIN f)
    BY FS_Interval DEF TypeOK
  <1>2. IsFiniteSet({f[m] : m \in DOMAIN f})
    <2>. HIDE DEF f
    <2>. QED  BY <1>1, Image
  <1>3. Since(n) \subseteq {f[m] : m \in DOMAIN f}
    BY DEF Since
  <1>4. IsFiniteSet(Since(n))
    BY <1>2, <1>3, FS_Subset
  <1>. QED  BY <1>4, FS_CardinalityType

(* A floor that holds names of `Since(n)` only has no room left for the    *)
(* name of event `n`.                                                      *)
LEMMA PushedOut ==
    ASSUME TypeOK, NEW n, NEW r \in Floors(Pages), Once(r), Len(r) >= FLOOR_NAMES,
           \A i \in DOMAIN r : r[i].name \in Since(n)
    PROVE  Cardinality(Since(n)) >= FLOOR_NAMES
PROOF
  <1>. DEFINE h == [i \in 1 .. Len(r) |-> r[i].name]
  <1>0. DOMAIN r = 1 .. Len(r) /\ Len(r) \in Nat
    BY FloorEntry
  <1>1. h \in [1 .. Len(r) -> Since(n)]
    BY <1>0
  <1>2. \A i, j \in 1 .. Len(r) : h[i] = h[j] => i = j
    BY <1>0 DEF Once
  <1>. HIDE DEF h
  <1>3. h \in Injection(1 .. Len(r), Since(n))
    BY <1>1, <1>2 DEF Injection, IsInjective
  <1>4. Cardinality(1 .. Len(r)) <= Cardinality(Since(n))
    BY <1>3, SinceFinite, FS_Injection
  <1>5. Cardinality(1 .. Len(r)) = Len(r)
    BY <1>0, FS_Interval
  <1>. QED  BY <1>0, <1>4, <1>5, SinceFinite, FloorAssumption

(* One name is raised: what the floor remembered it remembers, and the     *)
(* event the name is raised for too.                                       *)
LEMMA RaiseOneRemembers ==
    ASSUME TypeOK, NEW E \in SUBSET (1 .. Len(log)), NEW f, Remembers(f, E),
           NEW m \in 1 .. Len(log), \A n \in E : n < m \/ log[m].own
    PROVE  Remembers(raise_name(f, log[m].page, m), E \cup {m})
PROOF
  <1>. DEFINE p == log[m].page
              r == raise_name(f, p, m)
  <1>0. Len(log) \in Nat /\ m \in Nat /\ p \in Pages
    <2>1. log[m] \in Event
      BY DEF TypeOK
    <2>. QED  BY <2>1 DEF TypeOK, Event
  <1>1. /\ f \in Floors(Pages) /\ Once(f)
        /\ \A n \in E : \/ \E i \in DOMAIN f : f[i].name = log[n].page /\ n <= f[i].seq
                        \/ Cardinality(Since(n)) >= FLOOR_NAMES
        /\ \A n \in E, i, j \in DOMAIN f :
               f[i].name = log[n].page /\ i < j => f[j].name \in Since(n)
    BY DEF Remembers
  <1>2. /\ r \in Floors(Pages) /\ Once(r) /\ Len(r) \in Nat \ {0}
        /\ r[Len(r)].name = p /\ r[Len(r)].seq >= m
        /\ \A i \in 1 .. Len(r) - 1 : r[i].name # p /\ \E a \in DOMAIN f : r[i] = f[a]
        /\ \A i, j \in 1 .. Len(r) - 1, a \in DOMAIN f :
               i < j /\ r[i] = f[a] => \E b \in DOMAIN f : a < b /\ r[j] = f[b]
        /\ \A a \in DOMAIN f :
               \/ f[a].name = p /\ r[Len(r)].seq >= f[a].seq
               \/ \E i \in 1 .. Len(r) - 1 : r[i] = f[a]
               \/ /\ f[a].name # p /\ Len(r) >= FLOOR_NAMES
                  /\ \A i \in 1 .. Len(r) - 1 : \E b \in DOMAIN f : a < b /\ r[i] = f[b]
    <2>. HIDE DEF p
    <2>. QED  BY <1>0, <1>1, RaiseOne
  <1>. HIDE DEF r
  <1>3. /\ DOMAIN r = 1 .. Len(r) /\ Len(r) \in DOMAIN r
        /\ \A i \in DOMAIN r : i # Len(r) => i \in 1 .. Len(r) - 1
        /\ \A i \in 1 .. Len(r) - 1 : i \in DOMAIN r
        /\ \A i \in DOMAIN r : r[i].seq \in Nat
        /\ \A i \in DOMAIN f : f[i].seq \in Nat
    BY <1>1, <1>2, FloorEntry
  <1>4. ASSUME NEW n \in E, log[n].page # p PROVE p \in Since(n)
    <2>1. n \in Nat /\ (m > n \/ log[m].own)
      BY <1>0
    <2>. QED  BY <1>4, <2>1 DEF Since
  <1>5. ASSUME NEW n \in E \cup {m}, NEW i \in DOMAIN r, NEW j \in DOMAIN r,
               r[i].name = log[n].page, i < j
        PROVE  r[j].name \in Since(n)
    <2>1. i \in 1 .. Len(r) - 1
      BY <1>2, <1>3, <1>5
    <2>2. log[n].page # p /\ n \in E
      BY <1>2, <1>5, <2>1
    <2>3. CASE j = Len(r)
      BY <1>2, <1>4, <2>2, <2>3
    <2>4. CASE j # Len(r)
      <3>1. PICK a \in DOMAIN f : r[i] = f[a]
        BY <1>2, <2>1
      <3>2. j \in 1 .. Len(r) - 1
        BY <1>3, <2>4
      <3>3. PICK b \in DOMAIN f : a < b /\ r[j] = f[b]
        BY <1>2, <1>5, <2>1, <3>1, <3>2
      <3>. QED  BY <1>1, <1>5, <2>2, <3>1, <3>3
    <2>. QED  BY <2>3, <2>4
  <1>6. ASSUME NEW n \in E \cup {m}
        PROVE  \/ \E i \in DOMAIN r : r[i].name = log[n].page /\ n <= r[i].seq
               \/ Cardinality(Since(n)) >= FLOOR_NAMES
    <2>1. CASE n = m
      BY <1>0, <1>2, <1>3, <2>1
    <2>2. ASSUME n \in E, NEW a \in DOMAIN f, f[a].name = log[n].page, n <= f[a].seq
          PROVE  \/ \E i \in DOMAIN r : r[i].name = log[n].page /\ n <= r[i].seq
                 \/ Cardinality(Since(n)) >= FLOOR_NAMES
      <3>0. n \in Nat
        BY <1>0, <2>2
      <3>1. CASE f[a].name = p /\ r[Len(r)].seq >= f[a].seq
        <4>1. r[Len(r)].seq \in Nat /\ f[a].seq \in Nat /\ Len(r) \in DOMAIN r
          BY <1>3
        <4>2. n <= r[Len(r)].seq /\ r[Len(r)].name = log[n].page
          BY <1>2, <2>2, <3>0, <3>1, <4>1
        <4>. QED  BY <4>1, <4>2
      <3>2. CASE \E i \in 1 .. Len(r) - 1 : r[i] = f[a]
        BY <1>3, <2>2, <3>2
      <3>3. CASE /\ f[a].name # p /\ Len(r) >= FLOOR_NAMES
                 /\ \A i \in 1 .. Len(r) - 1 : \E b \in DOMAIN f : a < b /\ r[i] = f[b]
        <4>1. ASSUME NEW i \in DOMAIN r PROVE r[i].name \in Since(n)
          <5>1. CASE i = Len(r)
            BY <1>2, <1>4, <2>2, <3>3, <5>1
          <5>2. CASE i # Len(r)
            <6>1. PICK b \in DOMAIN f : a < b /\ r[i] = f[b]
              BY <1>3, <3>3, <5>2
            <6>. QED  BY <1>1, <2>2, <6>1
          <5>. QED  BY <5>1, <5>2
        <4>. QED  BY <1>2, <3>3, <4>1, PushedOut
      <3>. QED  BY <1>2, <3>1, <3>2, <3>3
    <2>. QED  BY <1>1, <2>1, <2>2
  <1>. QED  BY <1>2, <1>5, <1>6 DEF Remembers, r

(* The recursion of raise has a solution.                                  *)
Body(F, S, n) ==
    IF n = 0 THEN floor.names
    ELSE IF n \in S THEN raise_name(F[n - 1], log[n].page, n)
    ELSE F[n - 1]

LEMMA RaiseSolved ==
    ASSUME NEW S, NEW N \in Nat
    PROVE  \E F : F = [n \in 0 .. N |-> Body(F, S, n)]
PROOF
  <1>. DEFINE T == {k \in Nat : \E F : F = [n \in 0 .. k |-> Body(F, S, n)]}
  <1>1. 0 \in T
    <2>. DEFINE F == [n \in 0 .. 0 |-> floor.names]
    <2>1. F = [n \in 0 .. 0 |-> Body(F, S, n)]
      BY DEF Body
    <2>. HIDE DEF F
    <2>. QED  BY <2>1
  <1>2. ASSUME NEW k \in T PROVE k + 1 \in T
    <2>1. PICK F : F = [n \in 0 .. k |-> Body(F, S, n)]
      OBVIOUS
    <2>. DEFINE G == [n \in 0 .. k + 1 |-> IF n <= k THEN F[n] ELSE Body(F, S, n)]
    <2>2. \A n \in 0 .. k : G[n] = F[n]
      OBVIOUS
    <2>3. \A n \in 0 .. k + 1 : Body(G, S, n) = Body(F, S, n)
      <3>. HIDE DEF G
      <3>1. \A n \in 0 .. k + 1 : n = 0 \/ n - 1 \in 0 .. k
        OBVIOUS
      <3>. QED  BY <2>2, <3>1 DEF Body
    <2>4. \A n \in 0 .. k : F[n] = Body(F, S, n)
      BY <2>1
    <2>5. \A n \in 0 .. k + 1 : G[n] = Body(G, S, n)
      <3>1. \A n \in 0 .. k + 1 : G[n] = IF n <= k THEN F[n] ELSE Body(F, S, n)
        OBVIOUS
      <3>2. \A n \in 0 .. k + 1 : n <= k => n \in 0 .. k
        OBVIOUS
      <3>. HIDE DEF G
      <3>. QED  BY <2>3, <2>4, <3>1, <3>2
    <2>6. G = [n \in 0 .. k + 1 |-> G[n]]
      OBVIOUS
    <2>. HIDE DEF G
    <2>7. G = [n \in 0 .. k + 1 |-> Body(G, S, n)]
      BY <2>5, <2>6
    <2>. QED  BY <2>7
  <1>3. Nat \subseteq T
    <2>. HIDE DEF T
    <2>. QED  BY <1>1, <1>2, NatSet DEF T
  <1>. QED  BY <1>3

(* Floor::raise for events in their order: the floor remembers them, and   *)
(* what it remembered before.                                              *)
LEMMA RaiseRemembers ==
    ASSUME TypeOK, NEW E \in SUBSET (1 .. Len(log)), Remembers(floor.names, E),
           NEW S \in SUBSET (1 .. Len(log)),
           \A m \in S, n \in E : n < m \/ log[m].own
    PROVE  /\ Remembers(raise(S).names, E \cup S)
           /\ raise(S).global = floor.global
           /\ raise(S) \in Floor
PROOF
  <1>. DEFINE N == Len(log)
              F == CHOOSE G : G = [n \in 0 .. N |-> Body(G, S, n)]
              Upto(n) == {m \in S : m <= n}
              T == {k \in Nat : k <= N => Remembers(F[k], E \cup Upto(k))}
  <1>0. N \in Nat
    BY DEF TypeOK
  <1>00. \A m \in S : m \in Nat /\ 1 <= m /\ m <= N
    BY <1>0
  <1>1. F = [n \in 0 .. N |-> Body(F, S, n)]
    <2>. HIDE DEF N
    <2>. QED  BY <1>0, RaiseSolved
  <1>2. raise(S) = [floor EXCEPT !.names = F[N]]
    BY DEF raise, Body
  <1>. HIDE DEF F
  <1>3. \A n \in 0 .. N : F[n] = Body(F, S, n)
    BY <1>1
  <1>4. 0 \in T
    <2>1. F[0] = floor.names
      BY <1>0, <1>3 DEF Body
    <2>2. Upto(0) = {}
      <3>. SUFFICES ASSUME NEW m \in S, m <= 0 PROVE FALSE
        OBVIOUS
      <3>. QED  BY <1>00
    <2>. QED  BY <2>1, <2>2
  <1>5. ASSUME NEW k \in T PROVE k + 1 \in T
    <2>. SUFFICES ASSUME k + 1 <= N PROVE Remembers(F[k + 1], E \cup Upto(k + 1))
      OBVIOUS
    <2>1. Remembers(F[k], E \cup Upto(k)) /\ k + 1 \in 1 .. N /\ k + 1 \in 0 .. N
      BY <1>0
    <2>2. F[k + 1] = IF k + 1 \in S THEN raise_name(F[k], log[k + 1].page, k + 1) ELSE F[k]
      BY <1>3, <2>1 DEF Body
    <2>3. CASE k + 1 \notin S
      <3>1. Upto(k + 1) = Upto(k)
        <4>1. \A m \in S : m <= k + 1 <=> m <= k
          BY <1>00, <2>3
        <4>. QED  BY <4>1
      <3>. QED  BY <2>1, <2>2, <2>3, <3>1
    <2>4. CASE k + 1 \in S
      <3>1. E \cup Upto(k + 1) = (E \cup Upto(k)) \cup {k + 1}
        <4>1. \A m \in S : m <= k + 1 <=> m <= k \/ m = k + 1
          BY <1>00
        <4>. QED  BY <2>4, <4>1
      <3>2. \A n \in E \cup Upto(k) : n < k + 1 \/ log[k + 1].own
        BY <1>0, <2>4
      <3>3. E \cup Upto(k) \in SUBSET (1 .. N)
        OBVIOUS
      <3>. DEFINE D == E \cup Upto(k)
      <3>4. Remembers(raise_name(F[k], log[k + 1].page, k + 1), D \cup {k + 1})
        <4>. HIDE DEF D, Upto
        <4>. QED  BY <2>1, <3>2, <3>3, RaiseOneRemembers DEF D
      <3>. QED  BY <2>2, <2>4, <3>1, <3>4
    <2>. QED  BY <2>3, <2>4
  <1>6. N \in T
    <2>. HIDE DEF T
    <2>. QED  BY <1>0, <1>4, <1>5, NatSet DEF T
  <1>7. Upto(N) = S
    BY <1>00
  <1>8. Remembers(F[N], E \cup S)
    <2>1. Remembers(F[N], E \cup Upto(N))
      <3>. HIDE DEF Upto
      <3>. QED  BY <1>0, <1>6
    <2>. HIDE DEF Upto
    <2>. QED  BY <2>1, <1>7
  <1>9. floor \in Floor /\ F[N] \in Floors(Pages)
    BY <1>8 DEF TypeOK, Remembers
  <1>. QED  BY <1>2, <1>8, <1>9 DEF Floor

(* What is remembered of events is remembered of some of them.             *)
LEMMA RemembersFewer ==
    ASSUME NEW f, NEW E, NEW D \in SUBSET E, Remembers(f, E)
    PROVE  Remembers(f, D)
PROOF
  BY DEF Remembers

(* The events a floor answers for are events of the log.                   *)
LEMMA ReplayedLogged ==
    TypeOK => Replayed \subseteq 1 .. Len(log)
PROOF
  BY DEF TypeOK, Cursor, Replayed

LEMMA RaiseTyped ==
    ASSUME TypeOK, FloorRemembers, NEW S \in SUBSET (1 .. Len(log))
    PROVE  raise(S) \in Floor
PROOF
  <1>1. Remembers(floor.names, {})
    BY RemembersFewer DEF FloorRemembers
  <1>. DEFINE E == {}
  <1>2. E \in SUBSET (1 .. Len(log)) /\ Remembers(floor.names, E)
    BY <1>1
  <1>3. \A m \in S, n \in E : n < m \/ log[m].own
    OBVIOUS
  <1>. HIDE DEF E
  <1>. QED  BY <1>2, <1>3, RaiseRemembers

-----------------------------------------------------------------------------
(* Init establishes the invariant. *)
LEMMA PullInit == Init => PullInv
PROOF
  <1>. SUFFICES ASSUME Init PROVE PullInv
    OBVIOUS
  <1>1. NoFloor \in Floor
    BY DEF NoFloor, Floor, Floors
  <1>2. TypeOK
    BY <1>1 DEF Init, TypeOK, Cursor
  <1>3. cursor.seq = 0 /\ based = 0
    BY DEF Init
  <1>4. FloorRemembers
    <2>1. Replayed = {} /\ floor.names = <<>>
      BY <1>3 DEF Replayed, Init, NoFloor
    <2>. QED  BY <2>1 DEF FloorRemembers, Remembers, Floors, Once
  <1>. QED
    BY <1>2, <1>3, <1>4
       DEF Init, PullInv, AnswersOK, OwnPagesOwed, SyncedRendersFresh, OwedEvents

(* Types.  The bound of the cursor comes from AnswersOK. *)
LEMMA PullTypeStep ==
    TypeOK /\ AnswersOK /\ OwedEvents /\ FloorRemembers /\ [Next]_vars => TypeOK'
PROOF
  <1>. SUFFICES ASSUME TypeOK, AnswersOK, OwedEvents, FloorRemembers, [Next]_vars PROVE TypeOK'
    OBVIOUS
  <1>0. Len(log) \in Nat /\ log \in Seq(Event) /\ cursor.seq \in Nat
    BY DEF TypeOK, Cursor
  <1>. DEFINE PublishTypes == /\ log' \in Seq(Event) /\ gen' = gen
                              /\ ring' \subseteq 1 .. Len(log')
                              /\ dropped' \in 0 .. Len(log')
                              /\ cursor.seq <= Len(log')
  <1>00. \A own \in BOOLEAN, p \in Pages : publish(own, p) => PublishTypes
    <2>. SUFFICES ASSUME NEW own \in BOOLEAN, NEW p \in Pages, publish(own, p)
                  PROVE  PublishTypes
      OBVIOUS
    <2>1. cursor.seq <= Len(log)
      BY DEF TypeOK
    <2>. QED  BY <1>0, <2>1, PublishFacts
  <1>. HIDE DEF PublishTypes
  <1>1. CASE Construct
    BY <1>0, <1>1 DEF Construct, TypeOK, local, history
  <1>2. CASE \E p \in Pages : Elsewhere(p)
    <2>1. PICK p \in Pages : Elsewhere(p)
      BY <1>2
    <2>2. publish(FALSE, p)
      BY <2>1 DEF Elsewhere
    <2>3. PublishTypes
      BY <1>00, <2>2
    <2>. QED
      BY <2>1, <2>3 DEF PublishTypes, Elsewhere, TypeOK, local, history
  <1>3. CASE begin
    BY <1>3 DEF begin, TypeOK, Cursor, object, local, history
  <1>4. CASE poll
    <2>1. since(cursor.seq) \in Answer
      <3>. DEFINE after == {n \in ring : n > cursor.seq}
                  behind == \/ cursor.seq < dropped
                            \/ cursor.seq > Len(log)
                            \/ \E n \in after : log[n].oversize
                  events == IF behind THEN {} ELSE after
      <3>1. behind \in BOOLEAN /\ events \in SUBSET Nat /\ gen \in Nat
        <4>1. ring \subseteq 1 .. Len(log) /\ gen \in Nat
          BY DEF TypeOK
        <4>2. \A n \in ring : n \in Nat
          BY <1>0, <4>1
        <4>3. after \subseteq Nat
          BY <4>2
        <4>. QED  BY <4>1, <4>3
      <3>2. since(cursor.seq) = [gen |-> gen, seq |-> Len(log), behind |-> behind,
                                 events |-> events]
        BY DEF since
      <3>. HIDE DEF behind, events
      <3>. QED  BY <1>0, <3>1, <3>2 DEF Answer
    <2>. QED  BY <1>4, <2>1 DEF poll, TypeOK, object, local, history
  <1>5. CASE failed
    BY <1>5 DEF failed, TypeOK, Cursor, object, local, history
  <1>6. CASE apply
    <2>1. PICK r \in answers :
              /\ cursor' = [generation |-> r.gen, seq |-> r.seq, in_flight |-> FALSE]
              /\ answers' = {}
              /\ Adopt(r) \/ Clear(r) \/ Replay(r)
              /\ UNCHANGED <<object, owed>>
      BY <1>6 DEF apply
    <2>2. r \in Answer /\ r.seq <= Len(log) /\ r.events \in SUBSET (1 .. Len(log))
      BY <1>0, <2>1 DEF TypeOK, AnswersOK
    <2>3. cursor' \in Cursor /\ cursor'.seq <= Len(log)
      BY <2>1, <2>2 DEF Cursor, Answer
    <2>4. tier1' \subseteq tier1 /\ renders' \subseteq renders
      BY <2>1 DEF Adopt, Clear, Replay, clear_local, invalidate, local
    <2>5. floor' \in Floor
      <3>1. CASE Adopt(r)
        BY <3>1 DEF Adopt, local, TypeOK
      <3>2. CASE Clear(r)
        <4>1. clear_at(r.seq) \in Floor
          BY <2>2 DEF clear_at, TypeOK, Floor, Max2, Answer
        <4>2. NoFloor \in Floor
          BY DEF NoFloor, Floor, Floors
        <4>. QED  BY <3>2, <4>1, <4>2 DEF Clear
      <3>3. CASE Replay(r)
        <4>. DEFINE foreign == {n \in r.events : ~log[n].own}
        <4>1. foreign \in SUBSET (1 .. Len(log))
          BY <2>2
        <4>2. floor' = raise(foreign)
          BY <3>3 DEF Replay
        <4>. HIDE DEF foreign
        <4>. QED  BY <4>1, <4>2, RaiseTyped
      <3>. QED  BY <2>1, <3>1, <3>2, <3>3
    <2>6. joined' \in Nat /\ based' \in Nat
      BY <2>1, <2>2 DEF Adopt, Clear, Replay, history, TypeOK, Answer
    <2>. QED  BY <2>1, <2>3, <2>4, <2>5, <2>6 DEF TypeOK, object
  <1>7. CASE \E p \in Pages : Render(p)
    BY <1>0, <1>7 DEF Render, TypeOK, Page, object, history
  <1>8. CASE \E p \in Pages : Invalidate(p)
    <2>1. PICK p \in Pages : Invalidate(p)
      BY <1>8
    <2>2. [page |-> p, step |-> "publish", retry |-> FALSE, seq |-> 0] \in Task
      BY DEF Task
    <2>3. owed' \subseteq Task /\ tier1' \subseteq tier1 /\ renders' \subseteq renders
      BY <2>1, <2>2 DEF Invalidate, invalidate, TypeOK
    <2>. QED  BY <2>1, <2>3 DEF Invalidate, TypeOK, object, history
  <1>9. CASE \E e \in renders : insert(e)
    BY <1>9 DEF insert, TypeOK, object, history
  <1>10. CASE \E t \in owed : Published(t)
    <2>1. PICK t \in owed : Published(t)
      BY <1>10
    <2>2. t \in Task /\ t.page \in Pages /\ publish(TRUE, t.page)
      BY <2>1 DEF Published, TypeOK, Task
    <2>3. [t EXCEPT !.step = "replay", !.seq = Len(log) + 1] \in Task
      <3>1. Len(log) + 1 \in Nat
        BY <1>0
      <3>. QED  BY <2>2, <3>1 DEF Task
    <2>4. owed' \subseteq Task
      BY <2>1, <2>3 DEF Published, TypeOK
    <2>5. PublishTypes
      BY <1>00, <2>2
    <2>. QED
      BY <2>1, <2>4, <2>5 DEF PublishTypes, Published, TypeOK, local, history
  <1>11. CASE \E t \in owed : PublishFails(t)
    <2>1. PICK t \in owed : PublishFails(t)
      BY <1>11
    <2>2. t \in Task /\ t.page \in Pages
      BY <2>1 DEF TypeOK, Task
    <2>3. owed' \subseteq Task
      BY <2>1, <2>2 DEF PublishFails, TypeOK, Task
    <2>4. CASE publish(TRUE, t.page)
      <3>1. PublishTypes
        BY <1>00, <2>2, <2>4
      <3>. QED  BY <2>1, <2>3, <3>1 DEF PublishTypes, PublishFails, TypeOK, local, history
    <2>5. CASE UNCHANGED object
      BY <2>1, <2>3, <2>5 DEF PublishFails, TypeOK, object, local, history
    <2>. QED  BY <2>1, <2>4, <2>5 DEF PublishFails
  <1>12. CASE \E t \in owed : OwnReplay(t)
    <2>1. PICK t \in owed : OwnReplay(t)
      BY <1>12
    <2>3. {t.seq} \ {0} \in SUBSET (1 .. Len(log))
      BY <2>1 DEF OwedEvents
    <2>4. floor' \in Floor
      BY <2>1, <2>3, RaiseTyped DEF OwnReplay
    <2>. QED  BY <2>1, <2>4 DEF OwnReplay, invalidate, TypeOK, object, history
  <1>13. CASE UNCHANGED vars
    BY <1>13 DEF vars, TypeOK, object, local, history
  <1>. QED
    BY <1>1, <1>2, <1>3, <1>4, <1>5, <1>6, <1>7, <1>8, <1>9, <1>10, <1>11, <1>12, <1>13
       DEF Next, Sync, Request

-----------------------------------------------------------------------------
(* The log only grows. *)
LEMMA LogGrows ==
    ASSUME TypeOK, [Next]_vars
    PROVE  /\ Len(log) \in Nat /\ Len(log') \in Nat /\ Len(log) <= Len(log')
           /\ \A n \in 1 .. Len(log) : log'[n] = log[n]
PROOF
  <1>1. Len(log) \in Nat
    BY DEF TypeOK
  <1>2. CASE log' = log
    BY <1>1, <1>2
  <1>3. CASE \E own \in BOOLEAN, p \in Pages : publish(own, p)
    BY <1>1, <1>3, PublishFacts
  <1>4. ASSUME NEW t \in owed PROVE t.page \in Pages
    BY DEF TypeOK, Task
  <1>. QED
    BY <1>2, <1>3, <1>4
       DEF Next, Sync, Request, Construct, Elsewhere, begin, poll, failed, apply, Render,
           insert, Invalidate, Published, PublishFails, OwnReplay, vars, object

(* An answer in flight continues the log from the cursor. *)
LEMMA AnswersStep == TypeOK /\ AnswersOK /\ [Next]_vars => AnswersOK'
PROOF
  <1>. SUFFICES ASSUME TypeOK, AnswersOK, [Next]_vars, NEW r \in answers'
                PROVE  /\ r.gen # 0
                       /\ r.seq \in cursor'.seq .. Len(log')
                       /\ r.events \subseteq 1 .. Len(log')
    BY DEF AnswersOK
  <1>1. cursor.seq \in Nat /\ cursor.seq <= Len(log)
    BY DEF TypeOK, Cursor
  <1>2. CASE poll
    <2>1. r = since(cursor.seq) /\ cursor' = cursor /\ log' = log
      BY <1>2 DEF poll, object
    <2>2. /\ r.gen = gen /\ r.seq = Len(log) /\ r.events \subseteq ring
      BY <2>1 DEF since
    <2>3. gen # 0 /\ ring \subseteq 1 .. Len(log)
      BY DEF TypeOK
    <2>4. r.seq \in cursor.seq .. Len(log)
      BY <1>1, <2>2, LogGrows
    <2>. QED  BY <2>1, <2>2, <2>3, <2>4
  <1>3. CASE r \in answers /\ cursor'.seq = cursor.seq
    <2>1. /\ r.gen # 0 /\ r.seq \in cursor.seq .. Len(log)
          /\ r.events \subseteq 1 .. Len(log)
      BY <1>3 DEF AnswersOK
    <2>2. 1 .. Len(log) \subseteq 1 .. Len(log') /\ cursor.seq .. Len(log) \subseteq cursor.seq .. Len(log')
      BY <1>1, LogGrows
    <2>. QED  BY <1>3, <2>1, <2>2
  <1>4. begin => cursor'.seq = cursor.seq
    BY DEF begin, TypeOK, Cursor
  <1>. QED
    BY <1>2, <1>3, <1>4
       DEF Next, Sync, Request, Construct, Elsewhere, begin, failed, apply, Render,
           insert, Invalidate, Published, PublishFails, OwnReplay, vars

-----------------------------------------------------------------------------
(* A task is replaced by one of the same page until its replay. *)
LEMMA OwesKept ==
    ASSUME TypeOK, [Next]_vars, NEW p, Owes(p),
           \A t \in owed : OwnReplay(t) => t.page # p
    PROVE  Owes(p)'
PROOF
  <1>1. PICK t \in owed : t.page = p
    BY DEF Owes
  <1>2. CASE t \in owed'
    BY <1>1, <1>2 DEF Owes
  <1>3. ASSUME NEW u \in owed, Published(u) PROVE Owes(p)'
    <2>1. [u EXCEPT !.step = "replay", !.seq = Len(log) + 1].page = u.page
      BY DEF TypeOK, Task
    <2>2. [u EXCEPT !.step = "replay", !.seq = Len(log) + 1] \in owed'
      BY <1>3 DEF Published
    <2>3. t \in owed' \/ t = u
      BY <1>3 DEF Published
    <2>. QED  BY <1>1, <2>1, <2>2, <2>3 DEF Owes
  <1>4. ASSUME NEW u \in owed, PublishFails(u) PROVE Owes(p)'
    <2>. DEFINE v == IF u.retry THEN [u EXCEPT !.step = "replay"] ELSE [u EXCEPT !.retry = TRUE]
    <2>1. v.page = u.page
      BY DEF TypeOK, Task
    <2>2. v \in owed'
      BY <1>4 DEF PublishFails
    <2>3. t \in owed' \/ t = u
      BY <1>4 DEF PublishFails
    <2>. HIDE DEF v
    <2>. QED  BY <1>1, <2>1, <2>2, <2>3 DEF Owes
  <1>5. ASSUME NEW u \in owed, OwnReplay(u) PROVE t \in owed'
    BY <1>1, <1>5 DEF OwnReplay
  <1>. QED
    BY <1>1, <1>2, <1>3, <1>4, <1>5
       DEF Next, Sync, Request, Construct, Elsewhere, begin, poll, failed, apply, Render,
           insert, Invalidate, vars

(* Where the pages after a step come from: from before, and then no own    *)
(* replay of the step covers them, or from a render that begins now.       *)
LEMMA PagesFrom ==
    ASSUME TypeOK, [Next]_vars, NEW e \in tier1' \cup renders'
    PROVE  \/ /\ e \in tier1 \cup renders
              /\ \A t \in owed : OwnReplay(t) => t.page # e.page
           \/ /\ e.at = Len(log) /\ UNCHANGED <<object, cursor, history>>
              /\ \E p \in Pages : Render(p)
PROOF
  <1>1. ASSUME NEW p \in Pages, Render(p), e \notin tier1 \cup renders
        PROVE  e.at = Len(log) /\ UNCHANGED <<object, cursor, history>>
    BY <1>1 DEF Render
  <1>2. ASSUME NEW t \in owed, OwnReplay(t)
        PROVE  e \in tier1 \cup renders /\ e.page # t.page
    BY <1>2 DEF OwnReplay, invalidate
  <1>3. ASSUME apply PROVE e \in tier1 \cup renders
    BY <1>3 DEF apply, Adopt, Clear, Replay, clear_local, invalidate, local
  <1>4. e \in tier1 \cup renders \/ \E p \in Pages : Render(p)
    BY <1>2, <1>3
       DEF Next, Sync, Request, Construct, Elsewhere, begin, poll, failed,
           insert, Invalidate, invalidate, Published, PublishFails, vars, local
  <1>. QED  BY <1>1, <1>2, <1>4

(* A page older than an own event is owed a replay. *)
LEMMA OwnStep == TypeOK /\ OwnPagesOwed /\ [Next]_vars => OwnPagesOwed'
PROOF
  <1>. SUFFICES ASSUME TypeOK, OwnPagesOwed, [Next]_vars,
                       NEW e \in tier1' \cup renders', NEW n \in 1 .. Len(log'),
                       log'[n].own, log'[n].page = e.page, e.at < n
                PROVE  Owes(e.page)'
    BY DEF OwnPagesOwed, Outdated
  <1>0. Len(log) \in Nat
    BY LogGrows
  <1>1. CASE e.at = Len(log) /\ UNCHANGED <<object, cursor, history>>
    BY <1>0, <1>1 DEF object
  <1>2. CASE e \in tier1 \cup renders /\ \A t \in owed : OwnReplay(t) => t.page # e.page
    <2>1. CASE n \in 1 .. Len(log)
      <3>1. Owes(e.page)
        BY <1>2, <2>1, LogGrows DEF OwnPagesOwed, Outdated
      <3>. QED  BY <1>2, <3>1, OwesKept
    <2>2. CASE n \notin 1 .. Len(log)
      <3>1. log' # log
        BY <2>2
      <3>2. PICK own \in BOOLEAN, p \in Pages :
                /\ publish(own, p)
                /\ own => \E t \in owed : t.page = p /\ (Published(t) \/ PublishFails(t))
        <4>1. ASSUME NEW t \in owed PROVE t.page \in Pages
          BY DEF TypeOK, Task
        <4>. QED
          BY <3>1, <4>1
             DEF Next, Sync, Request, Construct, Elsewhere, begin, poll, failed, apply,
                 Render, insert, Invalidate, Published, PublishFails, OwnReplay, vars, object
      <3>3. n = Len(log) + 1
        BY <1>0, <2>2, <3>2, PublishFacts
      <3>4. own /\ p = e.page
        BY <3>2, <3>3, PublishFacts
      <3>5. Owes(e.page)
        BY <3>2, <3>4 DEF Owes
      <3>. QED  BY <1>2, <3>5, OwesKept
    <2>. QED  BY <2>1, <2>2
  <1>. QED  BY <1>1, <1>2, PagesFrom

-----------------------------------------------------------------------------
(* Up to the cursor, pages and renders are fresh or owed an own replay. *)
LEMMA RendersStep ==
    TypeOK /\ AnswersOK /\ OwnPagesOwed /\ SyncedRendersFresh /\ [Next]_vars
    => SyncedRendersFresh'
PROOF
  <1>. SUFFICES ASSUME TypeOK, AnswersOK, OwnPagesOwed, SyncedRendersFresh, [Next]_vars,
                       NEW e \in tier1' \cup renders', NEW n \in joined' + 1 .. cursor'.seq,
                       log'[n].page = e.page, e.at < n
                PROVE  log'[n].own /\ Owes(e.page)'
    BY DEF SyncedRendersFresh, Outdated
  <1>0. /\ Len(log) \in Nat /\ cursor.seq \in Nat /\ cursor.seq <= Len(log)
        /\ joined \in Nat
    BY LogGrows DEF TypeOK, Cursor
  <1>1. CASE e.at = Len(log) /\ UNCHANGED <<object, cursor, history>>
    BY <1>0, <1>1 DEF history
  <1>2. CASE e \in tier1 \cup renders /\ \A t \in owed : OwnReplay(t) => t.page # e.page
    <2>0. SUFFICES /\ n \in 1 .. Len(log)
                   /\ log[n].page = e.page => log[n].own /\ Owes(e.page)
      BY <1>2, LogGrows, OwesKept
    <2>1. CASE apply
      <3>1. PICK r \in answers :
                /\ cursor' = [generation |-> r.gen, seq |-> r.seq, in_flight |-> FALSE]
                /\ Adopt(r) \/ Clear(r) \/ Replay(r)
        BY <2>1 DEF apply
      <3>2. cursor'.seq = r.seq /\ r.seq \in Nat /\ r.seq <= Len(log)
        BY <1>0, <3>1 DEF AnswersOK
      <3>3. ~Adopt(r)
        BY <3>2 DEF Adopt
      <3>4. ~Clear(r)
        BY DEF Clear, clear_local
      <3>5. Replay(r) /\ joined' = joined
        BY <3>1, <3>3, <3>4 DEF Replay, history
      <3>6. n \in 1 .. Len(log)
        BY <1>0, <3>2, <3>5
      <3>7. ASSUME log[n].page = e.page PROVE log[n].own /\ Owes(e.page)
        <4>1. CASE n <= cursor.seq
          <5>1. n \in joined + 1 .. cursor.seq
            BY <1>0, <3>2, <3>5, <4>1
          <5>. QED  BY <1>2, <3>7, <5>1 DEF SyncedRendersFresh, Outdated
        <4>2. CASE ~(n <= cursor.seq)
          <5>1. n \in cursor.seq + 1 .. r.seq
            BY <1>0, <3>2, <3>5, <4>2
          <5>2. n \in r.events
            BY <3>5, <5>1 DEF Replay, lost
          <5>3. log[n].own
            BY <3>5, <3>7, <5>2 DEF Replay, invalidate
          <5>. QED  BY <1>2, <3>6, <3>7, <5>3 DEF OwnPagesOwed, Outdated
        <4>. QED  BY <4>1, <4>2
      <3>. QED  BY <3>6, <3>7
    <2>2. CASE cursor'.seq = cursor.seq /\ joined' = joined
      <3>1. n \in joined + 1 .. cursor.seq /\ n \in 1 .. Len(log)
        BY <1>0, <2>2
      <3>. QED  BY <1>2, <3>1 DEF SyncedRendersFresh, Outdated
    <2>3. begin \/ failed => cursor'.seq = cursor.seq
      BY DEF begin, failed, TypeOK, Cursor
    <2>. QED
      BY <2>1, <2>2, <2>3
         DEF Next, Sync, Request, Construct, Elsewhere, begin, poll, failed, Render,
             insert, Invalidate, Published, PublishFails, OwnReplay, vars, history
  <1>. QED  BY <1>1, <1>2, PagesFrom

(* A task's seq stays the number of its event. *)
LEMMA OwedStep == TypeOK /\ OwedEvents /\ [Next]_vars => OwedEvents'
PROOF
  <1>. SUFFICES ASSUME TypeOK, OwedEvents, [Next]_vars, NEW t \in owed', t.seq # 0
                PROVE  /\ t.seq \in 1 .. Len(log')
                       /\ log'[t.seq].own /\ log'[t.seq].page = t.page
    BY DEF OwedEvents
  <1>1. CASE \E u \in owed : t.seq = u.seq /\ t.page = u.page
    BY <1>1, LogGrows DEF OwedEvents
  <1>2. ASSUME NEW u \in owed, Published(u)
        PROVE  \/ t \in owed
               \/ t.seq = Len(log) + 1 /\ t.page = u.page /\ publish(TRUE, u.page)
    BY <1>2 DEF Published, TypeOK, Task
  <1>3. ASSUME NEW u \in owed, PublishFails(u)
        PROVE  \E v \in owed : t.seq = v.seq /\ t.page = v.page
    BY <1>3 DEF PublishFails, TypeOK, Task
  <1>4. ASSUME NEW p \in Pages, Invalidate(p) PROVE t \in owed
    BY <1>4 DEF Invalidate
  <1>5. ASSUME NEW u \in owed, t.seq = Len(log) + 1, t.page = u.page, publish(TRUE, u.page)
        PROVE  /\ t.seq \in 1 .. Len(log')
               /\ log'[t.seq].own /\ log'[t.seq].page = t.page
    <2>1. u.page \in Pages
      BY DEF TypeOK, Task
    <2>2. /\ Len(log') = Len(log) + 1 /\ Len(log) \in Nat
          /\ log'[Len(log) + 1].own = TRUE /\ log'[Len(log) + 1].page = u.page
      BY <1>5, <2>1, PublishFacts
    <2>. QED  BY <1>5, <2>2
  <1>. QED
    BY <1>1, <1>2, <1>3, <1>4, <1>5
       DEF Next, Sync, Request, Construct, Elsewhere, begin, poll, failed, apply, Render,
           insert, OwnReplay, vars

(* What a floor remembers stays remembered while the log grows. *)
LEMMA RemembersLater ==
    ASSUME TypeOK, [Next]_vars, NEW D \in SUBSET (1 .. Len(log)),
           Remembers(floor'.names, D), Replayed' \subseteq D
    PROVE  FloorRemembers'
PROOF
  <1>1. ASSUME NEW n \in D
        PROVE  /\ log'[n] = log[n] /\ Since(n) \subseteq Since(n)'
               /\ IsFiniteSet(Since(n)')
    <2>1. log'[n] = log[n]
      BY LogGrows
    <2>2. Since(n) \subseteq Since(n)'
      <3>1. \A m \in 1 .. Len(log) : m \in 1 .. Len(log') /\ log'[m] = log[m]
        BY LogGrows
      <3>. QED  BY <2>1, <3>1 DEF Since
    <2>3. IsFiniteSet(Since(n)')
      <3>. DEFINE f == [m \in 1 .. Len(log') |-> log'[m].page]
      <3>1. IsFiniteSet(DOMAIN f)
        BY LogGrows, FS_Interval
      <3>2. IsFiniteSet({f[m] : m \in DOMAIN f})
        <4>. HIDE DEF f
        <4>. QED  BY <3>1, Image
      <3>3. Since(n)' \subseteq {f[m] : m \in DOMAIN f}
        BY DEF Since
      <3>. QED  BY <3>2, <3>3, FS_Subset
    <2>. QED  BY <2>1, <2>2, <2>3
  <1>2. ASSUME NEW n \in D, Cardinality(Since(n)) >= FLOOR_NAMES
        PROVE  Cardinality(Since(n)') >= FLOOR_NAMES
    <2>1. Cardinality(Since(n)) <= Cardinality(Since(n)')
      BY <1>1, FS_Subset
    <2>2. Cardinality(Since(n)) \in Nat /\ Cardinality(Since(n)') \in Nat
      BY <1>1, SinceFinite, FS_CardinalityType
    <2>. QED  BY <1>2, <2>1, <2>2, FloorAssumption
  <1>3. /\ floor'.names \in Floors(Pages) /\ Once(floor'.names)
        /\ \A n \in D : \/ \E i \in DOMAIN floor'.names :
                               floor'.names[i].name = log[n].page /\ n <= floor'.names[i].seq
                        \/ Cardinality(Since(n)) >= FLOOR_NAMES
        /\ \A n \in D, i, j \in DOMAIN floor'.names :
               floor'.names[i].name = log[n].page /\ i < j => floor'.names[j].name \in Since(n)
    BY DEF Remembers
  <1>4. \A n \in Replayed' : \/ \E i \in DOMAIN floor'.names :
                                    floor'.names[i].name = log'[n].page /\ n <= floor'.names[i].seq
                             \/ Cardinality(Since(n)') >= FLOOR_NAMES
    BY <1>1, <1>2, <1>3
  <1>5. \A n \in Replayed', i, j \in DOMAIN floor'.names :
           floor'.names[i].name = log'[n].page /\ i < j => floor'.names[j].name \in Since(n)'
    BY <1>1, <1>3
  <1>. QED  BY <1>3, <1>4, <1>5 DEF FloorRemembers, Remembers

(* The floor keeps remembering the events the cursor has passed. *)
LEMMA FloorStep ==
    TypeOK /\ AnswersOK /\ OwedEvents /\ FloorRemembers /\ [Next]_vars => FloorRemembers'
PROOF
  <1>. SUFFICES ASSUME TypeOK, AnswersOK, OwedEvents, FloorRemembers, [Next]_vars
                PROVE  FloorRemembers'
    OBVIOUS
  <1>0. /\ Len(log) \in Nat /\ cursor.seq \in Nat /\ cursor.seq <= Len(log)
        /\ based \in Nat /\ floor.global \in Nat
    BY LogGrows DEF TypeOK, Cursor, Floor
  <1>1. Replayed \in SUBSET (1 .. Len(log)) /\ Remembers(floor.names, Replayed)
    BY ReplayedLogged DEF FloorRemembers
  <1>2. CASE apply
    <2>1. PICK r \in answers :
              /\ cursor' = [generation |-> r.gen, seq |-> r.seq, in_flight |-> FALSE]
              /\ Adopt(r) \/ Clear(r) \/ Replay(r)
              /\ log' = log
      BY <1>2 DEF apply, object
    <2>2. /\ cursor'.seq = r.seq /\ r.seq \in Nat /\ r.seq <= Len(log)
          /\ r.events \subseteq 1 .. Len(log)
      BY <1>0, <2>1 DEF AnswersOK
    (* An empty span has nothing to be remembered of. *)
    <2>3. ASSUME Replayed' = {}, \/ floor'.names = floor.names
                                 \/ floor'.names = <<>>
          PROVE  FloorRemembers'
      <3>1. Remembers(floor.names, {}) /\ Remembers(<<>>, {})
        BY <1>1, RemembersFewer DEF Remembers, Floors, Once
      <3>. QED  BY <2>3, <3>1, RemembersLater
    <2>4. CASE Adopt(r)
      <3>1. based' = cursor'.seq /\ floor' = floor
        BY <2>2, <2>4 DEF Adopt, local
      <3>2. Replayed' = {}
        BY <2>2, <3>1 DEF Replayed
      <3>. QED  BY <2>3, <3>1, <3>2
    <2>5. CASE Clear(r)
      <3>1. CASE floor' = clear_at(r.seq)
        <4>1. floor'.names = floor.names /\ floor'.global >= r.seq /\ floor'.global \in Nat
          BY <1>0, <2>2, <3>1 DEF clear_at, Max2, TypeOK, Floor
        <4>2. based' \in Nat
          BY <1>0, <2>2, <2>5 DEF Clear
        <4>3. Replayed' = {}
          BY <2>2, <4>1, <4>2 DEF Replayed
        <4>. QED  BY <2>3, <4>1, <4>3
      <3>2. CASE floor' = NoFloor /\ based' = r.seq
        <4>1. Replayed' = {} /\ floor'.names = <<>>
          BY <2>2, <3>2 DEF Replayed, NoFloor
        <4>. QED  BY <2>3, <4>1
      <3>. QED  BY <2>5, <3>1, <3>2 DEF Clear
    <2>6. CASE Replay(r)
      <3>. DEFINE foreign == {m \in r.events : ~log[m].own}
      <3>1. foreign \in SUBSET (1 .. Len(log)) /\ r.events = cursor.seq + 1 .. r.seq
        BY <2>2, <2>6 DEF Replay, lost
      <3>2. floor' = raise(foreign) /\ based' = based
        BY <2>6 DEF Replay, history
      <3>3. \A m \in foreign, n \in Replayed : n < m
        BY <1>0, <2>2, <3>1 DEF Replayed
      <3>4. Remembers(floor'.names, Replayed \cup foreign) /\ floor'.global = floor.global
        <4>. HIDE DEF foreign
        <4>. QED  BY <1>1, <3>1, <3>2, <3>3, RaiseRemembers
      <3>5. Replayed' \subseteq Replayed \cup foreign
        <4>. SUFFICES ASSUME NEW n \in Replayed' PROVE n \in Replayed \cup foreign
          OBVIOUS
        <4>1. n \in based + 1 .. r.seq /\ ~log[n].own /\ n > floor.global
          BY <2>1, <2>2, <3>2, <3>4 DEF Replayed
        <4>2. CASE n <= cursor.seq
          BY <1>0, <2>2, <4>1, <4>2 DEF Replayed
        <4>3. CASE ~(n <= cursor.seq)
          <5>1. n \in cursor.seq + 1 .. r.seq
            BY <1>0, <2>2, <4>1, <4>3
          <5>. QED  BY <3>1, <4>1, <5>1
        <4>. QED  BY <4>2, <4>3
      <3>6. Replayed \cup foreign \in SUBSET (1 .. Len(log))
        BY <1>1, <3>1
      <3>. HIDE DEF foreign
      <3>. QED  BY <3>4, <3>5, <3>6, RemembersLater
    <2>. QED  BY <2>1, <2>4, <2>5, <2>6
  <1>3. ASSUME NEW t \in owed, OwnReplay(t)
        PROVE  FloorRemembers'
    <2>. DEFINE S == {t.seq} \ {0}
    <2>1. S \in SUBSET (1 .. Len(log)) /\ \A m \in S : log[m].own
      BY DEF OwedEvents
    <2>2. floor' = raise(S) /\ based' = based /\ cursor' = cursor /\ log' = log
      BY <1>3 DEF OwnReplay, history, object
    <2>. HIDE DEF S
    <2>3. Remembers(floor'.names, Replayed \cup S) /\ floor'.global = floor.global
      BY <1>1, <2>1, <2>2, RaiseRemembers
    <2>4. Replayed' = Replayed
      BY <2>2, <2>3 DEF Replayed
    <2>5. Remembers(floor'.names, Replayed)
      BY <2>3, RemembersFewer
    <2>. QED  BY <1>1, <2>4, <2>5, RemembersLater
  <1>4. CASE floor' = floor /\ based' = based /\ cursor'.seq = cursor.seq
    <2>1. \A n \in based + 1 .. cursor.seq : log'[n] = log[n]
      BY <1>0, LogGrows
    <2>2. Replayed' = Replayed
      BY <1>4, <2>1 DEF Replayed
    <2>. QED  BY <1>1, <1>4, <2>2, RemembersLater
  <1>5. begin \/ failed => cursor'.seq = cursor.seq
    BY DEF begin, failed, TypeOK, Cursor
  <1>. QED
    BY <1>2, <1>3, <1>4, <1>5
       DEF Next, Sync, Request, Construct, Elsewhere, begin, poll, failed, Render,
           insert, Invalidate, Published, PublishFails, vars, local, history

(* The invariant is inductive. *)
LEMMA PullStep == PullInv /\ [Next]_vars => PullInv'
PROOF
  BY PullTypeStep, AnswersStep, OwnStep, RendersStep, OwedStep, FloorStep DEF PullInv

(* An isolate whose cursor has passed an event keeps no older page the     *)
(* event covers, whatever polls failed, whatever the ring dropped and      *)
(* however often the Durable Object restarted.                             *)
THEOREM SyncedFresh == Spec => []SyncedPagesFresh
PROOF
  <1>1. PullInv => SyncedPagesFresh
    BY DEF PullInv, SyncedRendersFresh, SyncedPagesFresh
  <1>. QED  BY PullInit, PullStep, <1>1, PTL DEF Spec

(* The floor refuses every L2 body written before a foreign event the      *)
(* cursor has passed since the floor was last reset, until FLOOR_NAMES     *)
(* other names were invalidated since: eviction takes no name earlier.     *)
THEOREM FloorSound == Spec => []FloorCovers
PROOF
  <1>1. PullInv => FloorCovers
    <2>. SUFFICES ASSUME PullInv, NEW n \in based + 1 .. cursor.seq, ~log[n].own,
                         ~(Cardinality(Since(n)) >= FLOOR_NAMES)
                  PROVE  rejects(n - 1, log[n].page)
      BY DEF FloorCovers
    <2>1. n \in Int /\ floor.global \in Nat /\ floor.names \in Floors(Pages)
      BY DEF PullInv, TypeOK, Cursor, Floor
    <2>2. CASE n <= floor.global
      <3>1. n - 1 < floor.global
        BY <2>1, <2>2
      <3>. QED  BY <3>1 DEF rejects
    <2>3. CASE ~(n <= floor.global)
      <3>1. n \in Replayed
        BY <2>1, <2>3 DEF Replayed
      <3>2. PICK i \in DOMAIN floor.names :
                floor.names[i].name = log[n].page /\ n <= floor.names[i].seq
        BY <3>1 DEF PullInv, FloorRemembers, Remembers
      <3>3. floor.names[i].seq \in Nat
        BY <2>1, FloorEntry
      <3>4. n - 1 < floor.names[i].seq
        BY <2>1, <3>2, <3>3
      <3>. QED  BY <3>2, <3>4 DEF rejects
    <2>. QED  BY <2>2, <2>3
  <1>. QED  BY PullInit, PullStep, <1>1, PTL DEF Spec

(* Every variable keeps its type, and the cursor is never ahead of the     *)
(* log.                                                                    *)
THEOREM PullTypes == Spec => []TypeOK
PROOF
  <1>1. PullInv => TypeOK
    BY DEF PullInv
  <1>. QED  BY PullInit, PullStep, <1>1, PTL DEF Spec
=============================================================================
