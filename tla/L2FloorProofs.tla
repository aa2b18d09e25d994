--------------------------- MODULE L2FloorProofs ---------------------------
(***************************************************************************)
(* What raise_name does to a floor: the name that is raised is the         *)
(* youngest, the others keep their order, and one that drops out has       *)
(* FLOOR_NAMES names behind it.                                            *)
(***************************************************************************)
EXTENDS L2Floor, FiniteSetTheorems, NaturalsInduction, SequenceTheorems,
        WellFoundedInduction, TLAPS

-----------------------------------------------------------------------------
(* Induction, over a set of numbers.                                       *)
LEMMA NatSet ==
    ASSUME NEW T, 0 \in T, \A n \in Nat : n \in T => n + 1 \in T
    PROVE  Nat \subseteq T
<1>. SUFFICES ASSUME NEW m \in Nat, m \notin T PROVE FALSE
  OBVIOUS
<1>. DEFINE N == {n \in Nat : n \notin T}
            R == {ss \in Nat \X Nat : ss[1] < ss[2]}
<1>1. IsWellFoundedOn(R, Nat)
  BY NatLessThanWellFounded DEF OpToRel
<1>2. PICK k \in N : \A n \in N : <<n, k>> \notin R
  BY <1>1, WFMin
<1>3. k \in Nat /\ k \notin T /\ k # 0
  BY <1>2
<1>4. k - 1 \in Nat /\ k - 1 < k /\ (k - 1) + 1 = k
  BY <1>3
<1>5. k - 1 \in T
  BY <1>2, <1>4
<1>. QED  BY <1>3, <1>4, <1>5
(* What is taken out of a sequence at one place.                           *)
LEMMA RemovedAt ==
    ASSUME NEW S, NEW s \in Seq(S), NEW k \in 1..Len(s)
    PROVE  /\ RemoveAt(s, k) \in Seq(S)
           /\ Len(RemoveAt(s, k)) = Len(s) - 1
           /\ \A i \in 1..(Len(s) - 1) : RemoveAt(s, k)[i] = IF i < k THEN s[i] ELSE s[i + 1]
<1>. DEFINE a == SubSeq(s, 1, k - 1)
            b == SubSeq(s, k + 1, Len(s))
<1>1. Len(s) \in Nat /\ k \in Nat
  OBVIOUS
<1>2. a \in Seq(S) /\ Len(a) = k - 1 /\ \A i \in 1..(k - 1) : a[i] = s[i]
  BY <1>1
<1>3. b \in Seq(S) /\ Len(b) = Len(s) - k /\ \A i \in 1..(Len(s) - k) : b[i] = s[k + i]
  BY <1>1
<1>4. RemoveAt(s, k) = a \o b
  BY DEF RemoveAt
<1>. HIDE DEF a, b
<1>5. /\ Len(a \o b) = Len(a) + Len(b) /\ a \o b \in Seq(S)
      /\ \A i \in 1..(Len(a) + Len(b)) :
             (a \o b)[i] = IF i <= Len(a) THEN a[i] ELSE b[i - Len(a)]
  BY <1>2, <1>3, ConcatProperties
<1>6. ASSUME NEW i \in 1..(Len(s) - 1)
      PROVE  RemoveAt(s, k)[i] = IF i < k THEN s[i] ELSE s[i + 1]
  <2>0. i \in 1..(Len(a) + Len(b)) /\ Len(a) = k - 1
    BY <1>1, <1>2, <1>3
  <2>1. RemoveAt(s, k)[i] = IF i <= k - 1 THEN a[i] ELSE b[i - (k - 1)]
    BY <1>4, <1>5, <2>0
  <2>2. CASE i < k
    BY <1>1, <1>2, <2>1, <2>2
  <2>3. CASE ~(i < k)
    <3>1. i - (k - 1) \in 1..(Len(s) - k) /\ k + (i - (k - 1)) = i + 1 /\ ~(i <= k - 1)
      BY <1>1, <2>3
    <3>2. b[i - (k - 1)] = s[k + (i - (k - 1))]
      BY <1>3, <3>1
    <3>. QED  BY <2>1, <2>3, <3>1, <3>2
  <2>. QED  BY <2>2, <2>3
<1>. QED  BY <1>1, <1>2, <1>3, <1>4, <1>5, <1>6
(* The image of a finite set is finite.                                    *)
LEMMA Image ==
    ASSUME NEW f, IsFiniteSet(DOMAIN f)
    PROVE  IsFiniteSet({f[x] : x \in DOMAIN f})
<1>. DEFINE T == {f[x] : x \in DOMAIN f}
            g == [x \in DOMAIN f |-> f[x]]
<1>1. g \in Surjection(DOMAIN f, T)
  BY DEF Surjection
<1>. QED  BY <1>1, FS_Surjection

(* An entry of a floor.                                                    *)
LEMMA FloorEntry ==
    ASSUME NEW N, NEW f \in Floors(N)
    PROVE  /\ DOMAIN f = 1..Len(f) /\ Len(f) \in Nat
           /\ \A i \in DOMAIN f : f[i].name \in N /\ f[i].seq \in Nat
<1>1. /\ DOMAIN f = 1..Len(f) /\ Len(f) \in Nat
      /\ \A i \in DOMAIN f : f[i] \in FloorName(N)
  BY DEF Floors
<1>. QED  BY <1>1 DEF FloorName

(* raise_name before the bound is applied: the entry of the name, what is  *)
(* left without it and the number the name gets.                           *)
Named(f, n) == {i \in DOMAIN f : f[i].name = n}
Rest(f, n) == IF Named(f, n) = {} THEN f ELSE RemoveAt(f, CHOOSE i \in Named(f, n) : TRUE)
Top(f, n, s) == Max({s} \cup {f[i].seq : i \in Named(f, n)})

(* What raise_name makes of a floor before the bound is applied.           *)
LEMMA RaiseNew ==
    ASSUME NEW N, NEW f \in Floors(N), Once(f), NEW n \in N, NEW s \in Nat
    PROVE  /\ Rest(f, n) \in Floors(N) /\ Once(Rest(f, n))
           /\ Top(f, n, s) \in Nat /\ Top(f, n, s) >= s
           /\ \A i \in DOMAIN Rest(f, n) : Rest(f, n)[i].name # n
           /\ \A j \in DOMAIN f : \/ f[j].name = n /\ Top(f, n, s) >= f[j].seq
                                  \/ \E i \in DOMAIN Rest(f, n) : Rest(f, n)[i] = f[j]
           /\ \A i \in DOMAIN Rest(f, n) : \E a \in DOMAIN f : Rest(f, n)[i] = f[a]
           /\ \A i, j \in DOMAIN Rest(f, n), a \in DOMAIN f :
                  i < j /\ Rest(f, n)[i] = f[a] => \E b \in DOMAIN f : a < b /\ Rest(f, n)[j] = f[b]
<1>. DEFINE old == Named(f, n)
            rest == Rest(f, n)
            t == Top(f, n, s)
<1>a. /\ rest = IF old = {} THEN f ELSE RemoveAt(f, CHOOSE i \in old : TRUE)
      /\ t = Max({s} \cup {f[i].seq : i \in old})
  BY DEF Rest, Top
<1>b. old = {i \in DOMAIN f : f[i].name = n}
  BY DEF Named
<1>. HIDE DEF old, rest, t
<1>1. \A i \in DOMAIN f : i \in 1..Len(f) /\ f[i].name \in N /\ f[i].seq \in Nat
  BY FloorEntry
<1>2. CASE old = {}
  <2>1. {s} \cup {f[i].seq : i \in old} = {s}
    BY <1>2
  <2>2. Max({s}) = s
    BY DEF Max
  <2>3. t = s
    BY <2>1, <2>2, <1>a
  <2>4. rest = f
    BY <1>2, <1>a
  <2>5. \A j \in DOMAIN f : f[j].name # n
    BY <1>2, <1>b
  <2>6. /\ rest \in Floors(N) /\ Once(rest) /\ t \in Nat /\ t >= s
    <3>. QED  BY <2>3, <2>4
  <2>7. \A i \in DOMAIN rest : rest[i].name # n
    <3>. QED  BY <2>4, <2>5
  <2>8. \A j \in DOMAIN f : \E i \in DOMAIN rest : rest[i] = f[j]
    <3>. QED  BY <2>4
  <2>9. \A j \in DOMAIN f : \/ f[j].name = n /\ t >= f[j].seq
                            \/ \E i \in DOMAIN rest : rest[i] = f[j]
    BY <2>8
  <2>10. \A i \in DOMAIN rest : \E a \in DOMAIN f : rest[i] = f[a]
    BY <2>4
  <2>11. \A i, j \in DOMAIN rest, a \in DOMAIN f :
            i < j /\ rest[i] = f[a] => \E b \in DOMAIN f : a < b /\ rest[j] = f[b]
    BY <2>4 DEF Once
  <2>. QED  BY <2>6, <2>7, <2>9, <2>10, <2>11 DEF rest, t
<1>3. CASE old # {}
  <2>. DEFINE k == CHOOSE i \in old : TRUE
  <2>1. k \in DOMAIN f /\ f[k].name = n
    BY <1>3, <1>b
  <2>2. old = {k}
    BY <2>1, <1>b DEF Once
  <2>. HIDE DEF k
  <2>3. k \in 1..Len(f)
    BY <1>1, <2>1
  <2>4. {s} \cup {f[i].seq : i \in old} = {s, f[k].seq}
    BY <2>2
  <2>5. f[k].seq \in Nat
    BY <1>1, <2>1
  <2>6. \A u \in Nat : LET m == Max({s, u}) IN m \in Nat /\ m >= s /\ m >= u
    <3>. SUFFICES ASSUME NEW u \in Nat
                  PROVE  LET m == Max({s, u}) IN m \in Nat /\ m >= s /\ m >= u
      OBVIOUS
    <3>1. \E x \in {s, u} : \A y \in {s, u} : x >= y
      <4>1. CASE s >= u
        BY <4>1
      <4>2. CASE u >= s
        BY <4>2
      <4>. QED  BY <4>1, <4>2
    <3>. QED  BY <3>1 DEF Max
  <2>7. t \in Nat /\ t >= s /\ t >= f[k].seq
    BY <2>4, <2>5, <2>6, <1>a
  <2>8. rest = RemoveAt(f, k)
    BY <1>3, <1>a DEF k
  <2>9. /\ rest \in Floors(N) /\ Len(rest) = Len(f) - 1 /\ Len(f) \in Nat
        /\ \A i \in 1..(Len(f) - 1) : rest[i] = IF i < k THEN f[i] ELSE f[i + 1]
    <3>1. f \in Seq(FloorName(N)) /\ Len(f) \in Nat
      BY DEF Floors
    <3>2. /\ RemoveAt(f, k) \in Seq(FloorName(N)) /\ Len(RemoveAt(f, k)) = Len(f) - 1
          /\ \A i \in 1..(Len(f) - 1) : RemoveAt(f, k)[i] = IF i < k THEN f[i] ELSE f[i + 1]
      BY <2>3, <3>1, RemovedAt
    <3>. QED  BY <2>8, <3>1, <3>2 DEF Floors
  <2>10. DOMAIN rest = 1..(Len(f) - 1) /\ DOMAIN f = 1..Len(f)
    BY <2>9 DEF Floors
  <2>11. \A i \in DOMAIN rest : \E j \in DOMAIN f :
            rest[i] = f[j] /\ j # k /\ (IF i < k THEN j = i ELSE j = i + 1)
    <3>. SUFFICES ASSUME NEW i \in DOMAIN rest
                  PROVE  \E j \in DOMAIN f :
                           rest[i] = f[j] /\ j # k /\ (IF i < k THEN j = i ELSE j = i + 1)
      OBVIOUS
    <3>1. CASE i < k
      BY <2>3, <2>9, <2>10, <3>1
    <3>2. CASE ~(i < k)
      <4>1. i + 1 \in DOMAIN f /\ rest[i] = f[i + 1] /\ i + 1 # k
        BY <2>3, <2>9, <2>10, <3>2
      <4>. QED  BY <3>2, <4>1
    <3>. QED  BY <3>1, <3>2
  <2>12. Once(rest)
    <3>. SUFFICES ASSUME NEW i1 \in DOMAIN rest, NEW i2 \in DOMAIN rest,
                         rest[i1].name = rest[i2].name
                  PROVE  i1 = i2
      BY DEF Once
    <3>1. PICK j1 \in DOMAIN f : /\ rest[i1] = f[j1]
                                 /\ IF i1 < k THEN j1 = i1 ELSE j1 = i1 + 1
      BY <2>11
    <3>2. PICK j2 \in DOMAIN f : /\ rest[i2] = f[j2]
                                 /\ IF i2 < k THEN j2 = i2 ELSE j2 = i2 + 1
      BY <2>11
    <3>3. j1 = j2
      BY <3>1, <3>2 DEF Once
    <3>. QED  BY <2>3, <2>9, <2>10, <3>1, <3>2, <3>3
  <2>13. \A i \in DOMAIN rest : rest[i].name # n
    <3>. SUFFICES ASSUME NEW i \in DOMAIN rest, rest[i].name = n PROVE FALSE
      OBVIOUS
    <3>1. PICK j \in DOMAIN f : rest[i] = f[j] /\ j # k
      BY <2>11
    <3>. QED  BY <2>1, <3>1 DEF Once
  <2>14. \A j \in DOMAIN f : \/ f[j].name = n /\ t >= f[j].seq
                             \/ \E i \in DOMAIN rest : rest[i] = f[j]
    <3>. SUFFICES ASSUME NEW j \in DOMAIN f, j # k
                  PROVE  \E i \in DOMAIN rest : rest[i] = f[j]
      BY <2>1, <2>7
    <3>1. CASE j < k
      BY <2>3, <2>9, <2>10, <3>1
    <3>2. CASE ~(j < k)
      <4>1. j - 1 \in DOMAIN rest /\ ~(j - 1 < k) /\ (j - 1) + 1 = j
        BY <2>3, <2>9, <2>10, <3>2
      <4>. QED  BY <2>9, <2>10, <4>1
    <3>. QED  BY <3>1, <3>2
  <2>15. \A i \in DOMAIN rest : \E a \in DOMAIN f : rest[i] = f[a]
    BY <2>11
  <2>16. ASSUME NEW i \in DOMAIN rest, NEW j \in DOMAIN rest, NEW a \in DOMAIN f,
                i < j, rest[i] = f[a]
         PROVE  \E b \in DOMAIN f : a < b /\ rest[j] = f[b]
    <3>1. PICK x \in DOMAIN f : rest[i] = f[x] /\ (IF i < k THEN x = i ELSE x = i + 1)
      BY <2>11
    <3>2. PICK y \in DOMAIN f : rest[j] = f[y] /\ (IF j < k THEN y = j ELSE y = j + 1)
      BY <2>11
    <3>3. a = x
      BY <2>16, <3>1 DEF Once
    <3>4. x < y
      BY <2>3, <2>9, <2>10, <2>16, <3>1, <3>2
    <3>. QED  BY <3>2, <3>3, <3>4
  <2>. QED  BY <2>7, <2>9, <2>12, <2>13, <2>14, <2>15, <2>16 DEF rest, t
<1>. QED  BY <1>2, <1>3 DEF rest, t
(* raise_name: the name raised is the youngest, the other entries are old  *)
(* ones in their order, and an entry that is neither raised nor kept had   *)
(* FLOOR_NAMES younger names behind it.                                    *)
LEMMA RaiseOne ==
    ASSUME NEW N, NEW f \in Floors(N), Once(f), NEW n \in N, NEW s \in Nat,
           NEW r, r = raise_name(f, n, s)
    PROVE  /\ r \in Floors(N) /\ Once(r) /\ Len(r) \in Nat \ {0}
           /\ r[Len(r)].name = n /\ r[Len(r)].seq >= s
           /\ \A i \in 1 .. Len(r) - 1 : r[i].name # n /\ \E a \in DOMAIN f : r[i] = f[a]
           /\ \A i, j \in 1 .. Len(r) - 1, a \in DOMAIN f :
                  i < j /\ r[i] = f[a] => \E b \in DOMAIN f : a < b /\ r[j] = f[b]
           /\ \A a \in DOMAIN f :
                  \/ f[a].name = n /\ r[Len(r)].seq >= f[a].seq
                  \/ \E i \in 1 .. Len(r) - 1 : r[i] = f[a]
                  \/ /\ f[a].name # n /\ Len(r) >= FLOOR_NAMES
                     /\ \A i \in 1 .. Len(r) - 1 : \E b \in DOMAIN f : a < b /\ r[i] = f[b]
<1>. DEFINE rest == Rest(f, n)
            t == Top(f, n, s)
            e == [name |-> n, seq |-> t]
            new == Append(rest, e)
<1>1. /\ rest \in Floors(N) /\ Once(rest) /\ t \in Nat /\ t >= s
      /\ \A i \in DOMAIN rest : rest[i].name # n
      /\ \A j \in DOMAIN f : \/ f[j].name = n /\ t >= f[j].seq
                             \/ \E i \in DOMAIN rest : rest[i] = f[j]
      /\ \A i \in DOMAIN rest : \E a \in DOMAIN f : rest[i] = f[a]
      /\ \A i, j \in DOMAIN rest, a \in DOMAIN f :
             i < j /\ rest[i] = f[a] => \E b \in DOMAIN f : a < b /\ rest[j] = f[b]
  BY RaiseNew
<1>2. r = IF Len(new) > FLOOR_NAMES THEN Tail(new) ELSE new
  BY DEF raise_name, Rest, Top, Named
<1>. HIDE DEF rest, t
<1>3. e \in FloorName(N) /\ e.name = n /\ e.seq = t
  BY <1>1 DEF FloorName
<1>. HIDE DEF e
<1>4. /\ new \in Floors(N) /\ Len(new) \in Nat /\ Len(rest) \in Nat /\ Len(new) = Len(rest) + 1
      /\ DOMAIN new = 1..Len(new) /\ DOMAIN rest = 1..Len(rest)
      /\ new[Len(new)] = e /\ \A i \in DOMAIN rest : i \in DOMAIN new /\ new[i] = rest[i]
  BY <1>1, <1>3 DEF Floors
<1>. HIDE DEF new
<1>5. Once(new)
  <2>. SUFFICES ASSUME NEW i \in DOMAIN new, NEW j \in DOMAIN new, new[i].name = new[j].name
                PROVE  i = j
    BY DEF Once
  <2>1. i \in DOMAIN rest \/ i = Len(new)
    BY <1>4
  <2>2. j \in DOMAIN rest \/ j = Len(new)
    BY <1>4
  <2>. QED  BY <1>1, <1>3, <1>4, <2>1, <2>2 DEF Once
<1>6. CASE ~(Len(new) > FLOOR_NAMES)
  <2>1. r = new /\ Len(r) - 1 = Len(rest) /\ 1 .. Len(r) - 1 = DOMAIN rest
    BY <1>2, <1>4, <1>6
  <2>2. /\ \A i \in 1 .. Len(r) - 1 : i \in DOMAIN rest /\ r[i] = rest[i]
        /\ \A i \in DOMAIN rest : i \in 1 .. Len(r) - 1
    BY <1>4, <2>1
  <2>3. r \in Floors(N) /\ Once(r) /\ Len(r) \in Nat \ {0} /\ r[Len(r)] = e
    BY <1>4, <1>5, <2>1
  <2>4. \A i \in 1 .. Len(r) - 1 : r[i].name # n /\ \E a \in DOMAIN f : r[i] = f[a]
    BY <1>1, <2>2
  <2>5. ASSUME NEW i \in 1 .. Len(r) - 1, NEW j \in 1 .. Len(r) - 1, NEW a \in DOMAIN f,
               i < j, r[i] = f[a]
        PROVE  \E b \in DOMAIN f : a < b /\ r[j] = f[b]
    <3>1. i \in DOMAIN rest /\ j \in DOMAIN rest /\ rest[i] = f[a] /\ r[j] = rest[j]
      BY <2>2, <2>5
    <3>. QED  BY <1>1, <2>5, <3>1
  <2>6. ASSUME NEW a \in DOMAIN f
        PROVE  \/ f[a].name = n /\ r[Len(r)].seq >= f[a].seq
               \/ \E i \in 1 .. Len(r) - 1 : r[i] = f[a]
    <3>1. CASE f[a].name = n /\ t >= f[a].seq
      BY <1>3, <2>3, <3>1
    <3>2. ASSUME NEW i \in DOMAIN rest, rest[i] = f[a]
          PROVE  \E k \in 1 .. Len(r) - 1 : r[k] = f[a]
      BY <2>2, <3>2
    <3>. QED  BY <1>1, <3>1, <3>2
  <2>7. r[Len(r)].name = n /\ r[Len(r)].seq >= s
    BY <1>1, <1>3, <2>3
  <2>. QED  BY <2>3, <2>4, <2>5, <2>6, <2>7
<1>7. CASE Len(new) > FLOOR_NAMES
  <2>0. FLOOR_NAMES \in Nat \ {0}
    BY FloorAssumption
  <2>1. /\ r = Tail(new) /\ new # <<>>
    BY <1>2, <1>4, <1>7
  <2>2. /\ r \in Floors(N) /\ Len(r) = Len(rest) /\ DOMAIN r = 1 .. Len(rest)
        /\ \A i \in 1 .. Len(rest) : r[i] = new[i + 1] /\ i + 1 \in DOMAIN new
    BY <1>4, <2>1 DEF Floors
  <2>3. Len(rest) \in Nat \ {0} /\ Len(rest) >= FLOOR_NAMES
    BY <1>4, <1>7, <2>0
  <2>4. Once(r)
    BY <1>4, <1>5, <2>2 DEF Once
  <2>5. r[Len(r)] = e
    BY <1>4, <2>2, <2>3
  <2>6. \A i \in 1 .. Len(r) - 1 : i + 1 \in DOMAIN rest /\ r[i] = rest[i + 1]
    BY <1>4, <2>2, <2>3
  <2>7. \A i \in DOMAIN rest : i # 1 => i - 1 \in 1 .. Len(r) - 1 /\ r[i - 1] = rest[i]
    BY <1>4, <2>2, <2>3
  <2>8. \A i \in 1 .. Len(r) - 1 : r[i].name # n /\ \E a \in DOMAIN f : r[i] = f[a]
    BY <1>1, <2>6
  <2>9. ASSUME NEW i \in 1 .. Len(r) - 1, NEW j \in 1 .. Len(r) - 1, NEW a \in DOMAIN f,
               i < j, r[i] = f[a]
        PROVE  \E b \in DOMAIN f : a < b /\ r[j] = f[b]
    <3>1. i + 1 < j + 1
      BY <2>9
    <3>2. i + 1 \in DOMAIN rest /\ j + 1 \in DOMAIN rest /\ rest[i + 1] = f[a] /\ r[j] = rest[j + 1]
      BY <2>6, <2>9
    <3>. QED  BY <1>1, <3>1, <3>2
  <2>10. ASSUME NEW a \in DOMAIN f
         PROVE  \/ f[a].name = n /\ r[Len(r)].seq >= f[a].seq
                \/ \E i \in 1 .. Len(r) - 1 : r[i] = f[a]
                \/ /\ f[a].name # n /\ Len(r) >= FLOOR_NAMES
                   /\ \A i \in 1 .. Len(r) - 1 : \E b \in DOMAIN f : a < b /\ r[i] = f[b]
    <3>1. CASE f[a].name = n /\ t >= f[a].seq
      BY <1>3, <2>5, <3>1
    <3>2. ASSUME NEW k \in DOMAIN rest, rest[k] = f[a], k # 1
          PROVE  \E i \in 1 .. Len(r) - 1 : r[i] = f[a]
      BY <2>7, <3>2
    <3>3. CASE 1 \in DOMAIN rest /\ rest[1] = f[a]
      <4>1. f[a].name # n
        BY <1>1, <3>3
      <4>2. ASSUME NEW i \in 1 .. Len(r) - 1
            PROVE  \E b \in DOMAIN f : a < b /\ r[i] = f[b]
        <5>1. i + 1 \in DOMAIN rest /\ r[i] = rest[i + 1] /\ 1 < i + 1
          BY <2>6
        <5>. QED  BY <1>1, <3>3, <5>1
      <4>. QED  BY <2>2, <2>3, <4>1, <4>2
    <3>. QED  BY <1>1, <3>1, <3>2, <3>3
  <2>11. r[Len(r)].name = n /\ r[Len(r)].seq >= s /\ Len(r) \in Nat \ {0}
    BY <1>1, <1>3, <2>2, <2>3, <2>5
  <2>. QED  BY <2>2, <2>4, <2>8, <2>9, <2>10, <2>11
<1>. QED  BY <1>6, <1>7
=============================================================================
