--------------------------- MODULE L1FreshProofs ---------------------------
(***************************************************************************)
(* NoStaleHit, for any threads, keys, tags, shards and slots.              *)
(***************************************************************************)
EXTENDS L1CacheProofs

-----------------------------------------------------------------------------
(* No stamp and no number is ahead of the clock; no call is ahead of the data. *)
LEMMA NumberStep == TypeOK /\ NumberInv /\ [Next]_vars => NumberInv'
<1>. SUFFICES ASSUME TypeOK, NumberInv, [Next]_vars PROVE NumberInv'
  OBVIOUS
<1>. USE L1Assumption DEF TypeOK, NumberInv, Numbered, InsertSteps, InvalSteps, tables, locks, stores
<1>1. CASE UNCHANGED vars
  BY <1>1 DEF vars
<1>2. CASE WriteData
  BY <1>2 DEF WriteData, Invalidation
<1>3. CASE Evict
  BY <1>3 DEF Evict
<1>4. ASSUME NEW n \in notices, prune_tags(n)  PROVE NumberInv'
  BY <1>4 DEF prune_tags
<1>5. ASSUME NEW n \in notices, remove_front(n)  PROVE NumberInv'
  BY <1>5 DEF remove_front
<1>6. ASSUME NEW t \in Threads
      PROVE  read_stamp(t) \/ Invalidate(t) \/ InsertNext(t) \/ InvalNext(t) => NumberInv'
  <2>1. CASE Render(t)
    BY <2>1 DEF Render, Goto
  <2>2. CASE InsertGate(t)
    BY <2>2 DEF InsertGate, Goto
  <2>3. CASE InsertStripe(t)
    BY <2>3 DEF InsertStripe, Goto
  <2>4. CASE InsertCheck(t)
    <3>. HIDE DEF TypeOK
    <3>0. Rejected(t) \/ Passed(t)
      BY <2>4, InsertCheckFrame
    <3>1. /\ pc[t] = "check" /\ inv' = inv /\ front' = front /\ done' = done
          /\ clock' = clock /\ data' = data
      BY <2>4 DEF InsertCheck
    <3>8. CASE Rejected(t)
      BY <3>8, <3>1 DEF Rejected, TypeOK
    <3>9. CASE Passed(t)
      BY <3>9, <3>1 DEF Passed
    <3>. QED  BY <3>0, <3>8, <3>9
  <2>5. CASE index_tags(t)
    BY <2>5 DEF index_tags, Goto
  <2>6. CASE InsertFront(t)
    BY <2>6 DEF InsertFront, Goto
  <2>7. CASE InsertInner(t)
    BY <2>7 DEF InsertInner, Goto
  <2>8. CASE InsertLand(t)
    BY <2>8 DEF InsertLand, Goto, InsertReturn
  <2>9. CASE read_stamp(t)
    <3>1. PICK k \in Keys, T \in TagSets : ins' = [ins EXCEPT ![t] = NewInsert(k, T)]
      BY <2>9 DEF read_stamp
    <3>2. ins'[t].since = clock /\ \A u \in Threads : u # t => ins'[u] = ins[u]
      BY <3>1, Begun
    <3>. QED
      BY <2>9, <3>2 DEF read_stamp, Goto
  <2>10. CASE Invalidate(t)
    <3>1. PICK c \in Calls : inv' = [inv EXCEPT ![t] = NewCall(c)]
      BY <2>10 DEF Invalidate
    <3>2. inv'[t].data = data /\ \A u \in Threads : u # t => inv'[u] = inv[u]
      BY <3>1, Begun
    <3>3. pc'[t] \in {"gate", "seq"} /\ \A u \in Threads : u # t => pc'[u] = pc[u]
      BY <2>10 DEF Invalidate, Goto
    <3>. QED
      BY <2>10, <3>2, <3>3 DEF Invalidate
  <2>11. CASE InvalGate(t)
    BY <2>11 DEF InvalGate, Goto
  <2>12. CASE next_inval(t)
    <3>1. /\ inv'[t].seq = clock + 1 /\ inv'[t].data = inv[t].data
          /\ \A u \in Threads : u # t => inv'[u] = inv[u]
      BY <2>12 DEF next_inval, Invalidation
    <3>2. \A n \in Nat : n <= clock => n <= clock + 1
      OBVIOUS
    <3>3. \A e \in front : e.since \in Nat
      BY DEF FrontEntry
    <3>4. \A u \in Threads : ins[u].since \in Nat /\ inv[u].seq \in Nat
      BY DEF Insert, FrontEntry, Invalidation
    <3>. QED
      BY <2>12, <3>1, <3>2, <3>3, <3>4 DEF next_inval, Goto
  <2>13. CASE Publish(t)
    BY <2>13 DEF Publish, Goto
  <2>14. CASE take_tagged(t)
    BY <2>14 DEF take_tagged, Goto
  <2>15. CASE RemoveStripe(t)
    BY <2>15 DEF RemoveStripe, Goto
  <2>16. CASE ScanStripe(t)
    BY <2>16 DEF ScanStripe, Goto
  <2>17. CASE DropInner(t)
    BY <2>17 DEF DropInner, Goto
  <2>18. CASE DropFront(t)
    BY <2>18 DEF DropFront, Goto
  <2>19. CASE DropDone(t)
    <3>. HIDE DEF TypeOK
    <3>1. \A u \in Threads : /\ inv'[u].call = inv[u].call /\ inv'[u].seq = inv[u].seq
                             /\ inv'[u].data = inv[u].data
      BY <2>19, DropDoneFrame
    <3>. QED
      BY <2>19, <3>1 DEF DropDone, Goto, TypeOK
  <2>20. CASE WipeIndex(t)
    BY <2>20 DEF WipeIndex, Goto
  <2>21. CASE WipeInner(t)
    BY <2>21 DEF WipeInner, Goto
  <2>22. CASE WipeFront(t)
    BY <2>22 DEF WipeFront, Goto
  <2>23. CASE InvalUngate(t)
    BY <2>23 DEF InvalUngate, Goto, Removed
  <2>24. CASE InvalReturn(t)
    BY <2>24 DEF InvalReturn, Goto
  <2>. QED
    BY <2>1, <2>2, <2>3, <2>4, <2>5, <2>6, <2>7, <2>8, <2>9, <2>10, <2>11, <2>12, <2>13,
       <2>14, <2>15, <2>16, <2>17, <2>18, <2>19, <2>20, <2>21, <2>22, <2>23, <2>24
       DEF InsertNext, InvalNext
<1>7. CASE Quiescent
  BY <1>7 DEF Quiescent, vars
<1>. QED
  BY <1>1, <1>2, <1>3, <1>4, <1>5, <1>6, <1>7 DEF Next, Listener

-----------------------------------------------------------------------------
(* A stamp taken after a number has seen the data of that call. *)
LEMMA DataStep == TypeOK /\ NumberInv /\ DataInv /\ [Next]_vars => DataInv'
<1>. SUFFICES ASSUME TypeOK, NumberInv, DataInv, [Next]_vars PROVE DataInv'
  OBVIOUS
<1>. USE L1Assumption DEF TypeOK, NumberInv, DataInv, StampSeesData, Record, Numbered, Rendered, InsertSteps, InvalSteps, tables, locks, stores
<1>1. CASE UNCHANGED vars
  BY <1>1 DEF vars
<1>2. CASE WriteData
  BY <1>2 DEF WriteData
<1>3. CASE Evict
  BY <1>3 DEF Evict
<1>4. ASSUME NEW n \in notices, prune_tags(n)  PROVE DataInv'
  BY <1>4 DEF prune_tags
<1>5. ASSUME NEW n \in notices, remove_front(n)  PROVE DataInv'
  BY <1>5 DEF remove_front
<1>6. ASSUME NEW t \in Threads
      PROVE  read_stamp(t) \/ Invalidate(t) \/ InsertNext(t) \/ InvalNext(t) => DataInv'
  <2>1. CASE Render(t)
    BY <2>1 DEF Render, Goto
  <2>2. CASE InsertGate(t)
    BY <2>2 DEF InsertGate, Goto
  <2>3. CASE InsertStripe(t)
    BY <2>3 DEF InsertStripe, Goto
  <2>4. CASE InsertCheck(t)
    <3>. HIDE DEF TypeOK
    <3>0. Rejected(t) \/ Passed(t)
      BY <2>4, InsertCheckFrame
    <3>1. /\ pc[t] = "check" /\ inv' = inv /\ front' = front /\ done' = done
          /\ clock' = clock /\ data' = data
      BY <2>4 DEF InsertCheck
    <3>8. CASE Rejected(t)
      BY <3>8, <3>1 DEF Rejected, TypeOK
    <3>9. CASE Passed(t)
      BY <3>9, <3>1 DEF Passed
    <3>. QED  BY <3>0, <3>8, <3>9
  <2>5. CASE index_tags(t)
    BY <2>5 DEF index_tags, Goto
  <2>6. CASE InsertFront(t)
    BY <2>6 DEF InsertFront, Goto
  <2>7. CASE InsertInner(t)
    BY <2>7 DEF InsertInner, Goto
  <2>8. CASE InsertLand(t)
    BY <2>8 DEF InsertLand, Goto, InsertReturn
  <2>9. CASE read_stamp(t)
    BY <2>9 DEF read_stamp, Goto
  <2>10. CASE Invalidate(t)
    BY <2>10 DEF Invalidate, Goto
  <2>11. CASE InvalGate(t)
    BY <2>11 DEF InvalGate, Goto
  <2>12. CASE next_inval(t)
    <3>1. /\ inv'[t].seq = clock + 1 /\ \A u \in Threads : u # t => inv'[u] = inv[u]
      BY <2>12 DEF next_inval, Invalidation
    <3>2. \A e \in front : ~(e.since >= clock + 1)
      BY DEF FrontEntry
    <3>3. \A u \in Threads : pc[u] \in Rendered => ~(ins[u].since >= clock + 1)
      BY DEF Insert, FrontEntry
    <3>4. pc[t] = "seq" /\ pc' = [pc EXCEPT ![t] = "publish"]
          /\ ins' = ins /\ front' = front /\ done' = done
      BY <2>12 DEF next_inval, Goto
    <3>. QED
      BY <3>1, <3>2, <3>3, <3>4
  <2>13. CASE Publish(t)
    BY <2>13 DEF Publish, Goto
  <2>14. CASE take_tagged(t)
    BY <2>14 DEF take_tagged, Goto
  <2>15. CASE RemoveStripe(t)
    BY <2>15 DEF RemoveStripe, Goto
  <2>16. CASE ScanStripe(t)
    BY <2>16 DEF ScanStripe, Goto
  <2>17. CASE DropInner(t)
    BY <2>17 DEF DropInner, Goto
  <2>18. CASE DropFront(t)
    BY <2>18 DEF DropFront, Goto
  <2>19. CASE DropDone(t)
    <3>. HIDE DEF TypeOK
    <3>1. \A u \in Threads : /\ inv'[u].call = inv[u].call /\ inv'[u].seq = inv[u].seq
                             /\ inv'[u].data = inv[u].data
      BY <2>19, DropDoneFrame
    <3>. QED
      BY <2>19, <3>1 DEF DropDone, Goto, TypeOK
  <2>20. CASE WipeIndex(t)
    BY <2>20 DEF WipeIndex, Goto
  <2>21. CASE WipeInner(t)
    BY <2>21 DEF WipeInner, Goto
  <2>22. CASE WipeFront(t)
    BY <2>22 DEF WipeFront, Goto
  <2>23. CASE InvalUngate(t)
    BY <2>23 DEF InvalUngate, Goto, Removed
  <2>24. CASE InvalReturn(t)
    BY <2>24 DEF InvalReturn, Goto
  <2>. QED
    BY <2>1, <2>2, <2>3, <2>4, <2>5, <2>6, <2>7, <2>8, <2>9, <2>10, <2>11, <2>12, <2>13,
       <2>14, <2>15, <2>16, <2>17, <2>18, <2>19, <2>20, <2>21, <2>22, <2>23, <2>24
       DEF InsertNext, InvalNext
<1>7. CASE Quiescent
  BY <1>7 DEF Quiescent, vars
<1>. QED
  BY <1>1, <1>2, <1>3, <1>4, <1>5, <1>6, <1>7 DEF Next, Listener

-----------------------------------------------------------------------------
(* A published number stays in its slots. *)
LEMMA SlotStep == TypeOK /\ SlotInv /\ [Next]_vars => SlotInv'
<1>. SUFFICES ASSUME TypeOK, SlotInv, [Next]_vars PROVE SlotInv'
  OBVIOUS
<1>. USE L1Assumption DEF TypeOK, SlotInv, InSlots, Record, Published, Numbered, InsertSteps, InvalSteps, tables, locks, stores
<1>1. CASE UNCHANGED vars
  BY <1>1 DEF vars
<1>2. CASE WriteData
  BY <1>2 DEF WriteData
<1>3. CASE Evict
  BY <1>3 DEF Evict
<1>4. ASSUME NEW n \in notices, prune_tags(n)  PROVE SlotInv'
  BY <1>4 DEF prune_tags
<1>5. ASSUME NEW n \in notices, remove_front(n)  PROVE SlotInv'
  BY <1>5 DEF remove_front
<1>6. ASSUME NEW t \in Threads
      PROVE  read_stamp(t) \/ Invalidate(t) \/ InsertNext(t) \/ InvalNext(t) => SlotInv'
  <2>1. CASE Render(t)
    BY <2>1 DEF Render, Goto
  <2>2. CASE InsertGate(t)
    BY <2>2 DEF InsertGate, Goto
  <2>3. CASE InsertStripe(t)
    BY <2>3 DEF InsertStripe, Goto
  <2>4. CASE InsertCheck(t)
    BY <2>4 DEF InsertCheck, Goto, InsertReturn
  <2>5. CASE index_tags(t)
    BY <2>5 DEF index_tags, Goto
  <2>6. CASE InsertFront(t)
    BY <2>6 DEF InsertFront, Goto
  <2>7. CASE InsertInner(t)
    BY <2>7 DEF InsertInner, Goto
  <2>8. CASE InsertLand(t)
    BY <2>8 DEF InsertLand, Goto, InsertReturn
  <2>9. CASE read_stamp(t)
    BY <2>9 DEF read_stamp, Goto
  <2>10. CASE Invalidate(t)
    BY <2>10 DEF Invalidate, Goto
  <2>11. CASE InvalGate(t)
    BY <2>11 DEF InvalGate, Goto
  <2>12. CASE next_inval(t)
    BY <2>12 DEF next_inval, Goto
  <2>13. CASE Publish(t)
    <3>. DEFINE seq == inv[t].seq
               c == inv[t].call
    <3>1. seq \in Nat /\ c \in Calls
      BY DEF Invalidation
    <3>2. /\ \A s \in Slots : /\ tag_inval'[s] >= tag_inval[s]
                              /\ path_inval'[s] >= path_inval[s]
                              /\ prefix_inval'[s] >= prefix_inval[s]
          /\ cleared_at' >= cleared_at
      BY <2>13, <3>1 DEF Publish, Max2
    <3>3. /\ \A s \in Slots : /\ tag_inval'[s] \in Nat /\ path_inval'[s] \in Nat
                              /\ prefix_inval'[s] \in Nat
          /\ cleared_at' \in Nat
      BY <2>13, <3>1 DEF Publish, Max2
    <3>4. /\ c.kind = "tags" => \A g \in c.tags : tag_inval'[tag_slot(g)] >= seq
          /\ c.kind = "path" => path_inval'[path_slot(c.method, c.path)] >= seq
          /\ c.kind = "prefix" => prefix_inval'[prefix_slot(c.prefix)] >= seq
          /\ c.kind = "clear" => cleared_at' >= seq
      <4>1. c.kind = "tags" => \A g \in c.tags : tag_slot(g) \in Slots
        BY <3>1 DEF Call
      <4>. QED  BY <2>13, <3>1, <4>1 DEF Publish, Max2
    <3>. DEFINE InNew(i) ==
               /\ i.call.kind = "tags" => \A g \in i.call.tags : tag_inval'[tag_slot(g)] >= i.seq
               /\ i.call.kind = "path" => path_inval'[path_slot(i.call.method, i.call.path)] >= i.seq
               /\ i.call.kind = "prefix" => prefix_inval'[prefix_slot(i.call.prefix)] >= i.seq
               /\ i.call.kind = "clear" => cleared_at' >= i.seq
    <3>5. \A i \in [call : Calls, seq : Nat, data : Nat] : InSlots(i) => InNew(i)
      <4>1. \A i \in [call : Calls, seq : Nat, data : Nat] :
              /\ \A g \in i.call.tags : tag_slot(g) \in Slots
              /\ i.call.kind = "path" => path_slot(i.call.method, i.call.path) \in Slots
              /\ i.call.kind = "prefix" => prefix_slot(i.call.prefix) \in Slots
        BY DEF Call
      <4>2. \A a, b, n \in Nat : a >= b /\ b >= n => a >= n
        OBVIOUS
      <4>. QED  BY <3>2, <3>3, <4>1, <4>2
    <3>6. inv' = inv /\ done' = done /\ \A u \in Threads : u # t => pc'[u] = pc[u]
      BY <2>13 DEF Publish, Goto
    <3>7. \A u \in Threads : Record(u) \in [call : Calls, seq : Nat, data : Nat]
      BY DEF Invalidation
    <3>8. InSlots(Record(t))'
      BY <3>4, <3>6
    <3>9. \A d \in done' : InSlots(d)'
      BY <3>5, <3>6
    <3>10. ASSUME NEW u \in Threads, pc'[u] \in Published  PROVE InSlots(Record(u))'
      <4>1. CASE u = t
        BY <3>8, <4>1
      <4>2. CASE u # t
        <5>1. InNew(Record(u))
          BY <3>5, <3>6, <3>7, <3>10, <4>2
        <5>. QED  BY <5>1, <3>6
      <4>. QED  BY <4>1, <4>2
    <3>. QED  BY <3>9, <3>10
  <2>14. CASE take_tagged(t)
    BY <2>14 DEF take_tagged, Goto
  <2>15. CASE RemoveStripe(t)
    BY <2>15 DEF RemoveStripe, Goto
  <2>16. CASE ScanStripe(t)
    BY <2>16 DEF ScanStripe, Goto
  <2>17. CASE DropInner(t)
    BY <2>17 DEF DropInner, Goto
  <2>18. CASE DropFront(t)
    BY <2>18 DEF DropFront, Goto
  <2>19. CASE DropDone(t)
    <3>. HIDE DEF TypeOK
    <3>1. \A u \in Threads : /\ inv'[u].call = inv[u].call /\ inv'[u].seq = inv[u].seq
                             /\ inv'[u].data = inv[u].data
      BY <2>19, DropDoneFrame
    <3>. QED
      BY <2>19, <3>1 DEF DropDone, Goto, TypeOK
  <2>20. CASE WipeIndex(t)
    BY <2>20 DEF WipeIndex, Goto
  <2>21. CASE WipeInner(t)
    BY <2>21 DEF WipeInner, Goto
  <2>22. CASE WipeFront(t)
    BY <2>22 DEF WipeFront, Goto
  <2>23. CASE InvalUngate(t)
    BY <2>23 DEF InvalUngate, Goto, Removed
  <2>24. CASE InvalReturn(t)
    BY <2>24 DEF InvalReturn, Goto
  <2>. QED
    BY <2>1, <2>2, <2>3, <2>4, <2>5, <2>6, <2>7, <2>8, <2>9, <2>10, <2>11, <2>12, <2>13,
       <2>14, <2>15, <2>16, <2>17, <2>18, <2>19, <2>20, <2>21, <2>22, <2>23, <2>24
       DEF InsertNext, InvalNext
<1>7. CASE Quiescent
  BY <1>7 DEF Quiescent, vars
<1>. QED
  BY <1>1, <1>2, <1>3, <1>4, <1>5, <1>6, <1>7 DEF Next, Listener

-----------------------------------------------------------------------------
(* The check is exact: an insert that passes it was stamped after every    *)
(* covering invalidation whose number is in its slots.                     *)
LEMMA CheckIsExact ==
    ASSUME TypeOK, NEW i, i.call \in Calls, i.seq \in Nat, InSlots(i),
           NEW k \in Keys, NEW T \in SUBSET Tags, NEW n \in Nat,
           ~invalidated_since(k, T, n), Covers(i.call, k, T)
    PROVE  n >= i.seq
<1>1. i.call \in Call /\ WellFormed(i.call)
  BY L1Assumption
<1>2. CASE i.call.kind = "clear"
  BY <1>2 DEF InSlots, invalidated_since, TypeOK
<1>3. CASE i.call.kind = "path"
  <2>1. i.call.method = k.method /\ i.call.path = k.path
    BY <1>1, <1>3 DEF Covers, Selects, WellFormed
  <2>. QED  BY <1>3, <2>1, L1Assumption DEF InSlots, invalidated_since, TypeOK
<1>4. CASE i.call.kind = "prefix"
  <2>1. i.call.prefix = k.prefix
    BY <1>1, <1>4 DEF Covers, Selects, WellFormed
  <2>. QED  BY <1>4, <2>1, L1Assumption DEF InSlots, invalidated_since, TypeOK
<1>5. CASE i.call.kind = "tags"
  <2>1. PICK g \in i.call.tags : g \in T
    BY <1>5 DEF Covers
  <2>2. tag_slot(g) \in Slots
    BY <2>1, L1Assumption
  <2>. QED  BY <1>5, <2>1, <2>2 DEF InSlots, invalidated_since, TypeOK
<1>. QED  BY <1>1, <1>2, <1>3, <1>4, <1>5 DEF Call

-----------------------------------------------------------------------------
(* The frames of the freshness layers: what thread `t` must keep. *)
Keeps ==
    /\ front' \subseteq front
    /\ \A n \in notices : n.step = "front" => n \in notices'

LEMMA DroppingKept ==
    ASSUME Keeps, NEW e, NEW B, Dropping(e, {"front"}, B)
    PROVE  Dropping(e, {"front"}, B)'
BY DEF Keeps, Dropping

LEMMA DoneFrontKept ==
    ASSUME DoneFront, Keeps, done' = done
    PROVE  DoneFront'
<1>. SUFFICES ASSUME NEW d \in done, NEW e \in front, e \in front'
              PROVE  Fresh(e, d) \/ (d.call.kind = "tags" /\ Dropping(e, {"front"}, Threads)')
  BY DEF DoneFront, Keeps, Fresh
<1>. QED  BY DroppingKept DEF DoneFront

LEMMA DoneInsertKept ==
    ASSUME DoneInsert, done' = done, NEW t \in Threads, Only(t),
           pc'[t] \in Checked => pc[t] \in Checked /\ ins'[t] = ins[t]
    PROVE  DoneInsert'
BY DEF DoneInsert, Only, Fresh

LEMMA OpenFrontKept ==
    ASSUME OpenFront, Keeps, NEW t \in Threads, Only(t),
           pc'[t] \in Published =>
               /\ pc[t] \in Published /\ inv'[t].call = inv[t].call /\ inv'[t].seq = inv[t].seq
               /\ \A e \in front' : Covers(inv[t].call, e.key, e.tags) /\ Due(t, e) => Due(t, e)'
    PROVE  OpenFront'
<1>. SUFFICES ASSUME NEW u \in Threads, NEW e \in front', pc'[u] \in Published
              PROVE  \/ Fresh(e, Record(u)')
                     \/ Due(u, e)'
                     \/ /\ inv'[u].call.kind = "tags"
                        /\ Dropping(e, {"front"}, Threads \cup {Maintenance})'
  BY DEF OpenFront, Fresh
<1>1. e \in front
  BY DEF Keeps
<1>2. pc[u] \in Published /\ inv'[u].call = inv[u].call /\ inv'[u].seq = inv[u].seq
  BY DEF Only
<1>3. Covers(inv[u].call, e.key, e.tags) /\ Due(u, e) => Due(u, e)'
  <2>1. CASE u = t
    BY <2>1
  <2>2. CASE u # t
    BY <2>2 DEF Only, Due
  <2>. QED  BY <2>1, <2>2
<1>4. Fresh(e, Record(u)') <=> Fresh(e, Record(u))
  BY <1>2 DEF Fresh, Record
<1>5. Covers(inv[u].call, e.key, e.tags) \/ Fresh(e, Record(u))
  BY DEF Fresh, Record
<1>6. \/ Fresh(e, Record(u))
      \/ Due(u, e)
      \/ inv[u].call.kind = "tags" /\ Dropping(e, {"front"}, Threads \cup {Maintenance})
  BY <1>1, <1>2 DEF OpenFront
<1>. QED  BY <1>2, <1>3, <1>4, <1>5, <1>6, DroppingKept

LEMMA OpenInsertKept ==
    ASSUME OpenInsert, NEW t \in Threads, Only(t),
           pc'[t] \in Checked => pc[t] \in Checked /\ ins'[t] = ins[t],
           pc'[t] \in Published =>
               /\ pc[t] \in Published /\ inv'[t].call = inv[t].call /\ inv'[t].seq = inv[t].seq
               /\ \A v \in Threads : pc[v] \in Checked /\ DueInsert(t, ins[v])
                                     => DueInsert(t, ins[v])'
    PROVE  OpenInsert'
<1>. SUFFICES ASSUME NEW u \in Threads, NEW v \in Threads, pc'[u] \in Published, pc'[v] \in Checked
              PROVE  Fresh(ins'[v], Record(u)') \/ DueInsert(u, ins[v])'
  BY DEF OpenInsert, Fresh
<1>1. pc[u] \in Published /\ inv'[u].call = inv[u].call /\ inv'[u].seq = inv[u].seq
  BY DEF Only
<1>2. pc[v] \in Checked /\ ins'[v] = ins[v]
  BY DEF Only
<1>3. DueInsert(u, ins[v]) => DueInsert(u, ins[v])'
  <2>1. CASE u = t
    BY <2>1, <1>2
  <2>2. CASE u # t
    BY <2>2, <1>2 DEF Only, DueInsert
  <2>. QED  BY <2>1, <2>2
<1>4. Fresh(ins'[v], Record(u)') <=> Fresh(ins[v], Record(u))
  BY <1>1, <1>2 DEF Fresh, Record
<1>. QED  BY <1>1, <1>2, <1>3, <1>4 DEF OpenInsert

-----------------------------------------------------------------------------
(* No page covered by a returned invalidation passes the check. *)
LEMMA DoneInsertStep == TypeOK /\ SlotInv /\ OpenInsert /\ DoneInsert /\ [Next]_vars => DoneInsert'
<1>. SUFFICES ASSUME TypeOK, SlotInv, OpenInsert, DoneInsert, [Next]_vars PROVE DoneInsert'
  OBVIOUS
<1>. USE L1Assumption DEF TypeOK, tables, locks, stores
<1>1. CASE UNCHANGED vars
  <2>1. pc' = pc /\ ins' = ins /\ done' = done
    BY <1>1 DEF vars
  <2>. QED  BY <2>1 DEF DoneInsert, Fresh
<1>2. CASE WriteData
  <2>1. pc' = pc /\ ins' = ins /\ done' = done
    BY <1>2 DEF WriteData
  <2>. QED  BY <2>1 DEF DoneInsert, Fresh
<1>3. CASE Evict
  <2>1. pc' = pc /\ ins' = ins /\ done' = done
    BY <1>3 DEF Evict
  <2>. QED  BY <2>1 DEF DoneInsert, Fresh
<1>4. ASSUME NEW n \in notices, prune_tags(n)  PROVE DoneInsert'
  <2>1. pc' = pc /\ ins' = ins /\ done' = done
    BY <1>4 DEF prune_tags
  <2>. QED  BY <2>1 DEF DoneInsert, Fresh
<1>5. ASSUME NEW n \in notices, remove_front(n)  PROVE DoneInsert'
  <2>1. pc' = pc /\ ins' = ins /\ done' = done
    BY <1>5 DEF remove_front
  <2>. QED  BY <2>1 DEF DoneInsert, Fresh
<1>6. ASSUME NEW t \in Threads
      PROVE  read_stamp(t) \/ Invalidate(t) \/ InsertNext(t) \/ InvalNext(t) => DoneInsert'
  <2>. SUFFICES ASSUME read_stamp(t) \/ Invalidate(t) \/ InsertNext(t) \/ InvalNext(t)
                PROVE  DoneInsert'
    OBVIOUS
  <2>0. Only(t)
    BY OneThread
  <2>1. CASE Render(t)
    BY <2>1, <2>0, DoneInsertKept DEF Render, Goto, Checked
  <2>2. CASE InsertGate(t)
    BY <2>2, <2>0, DoneInsertKept DEF InsertGate, Goto, Checked
  <2>3. CASE InsertStripe(t)
    BY <2>3, <2>0, DoneInsertKept DEF InsertStripe, Goto, Checked
  <2>4. CASE InsertCheck(t)
    <3>. HIDE DEF TypeOK
    <3>0. Rejected(t) \/ Passed(t)
      BY <2>4, InsertCheckFrame
    <3>1. done' = done
      BY <2>4 DEF InsertCheck
    <3>2. CASE Rejected(t)
      <4>1. pc'[t] \notin Checked
        BY <3>2 DEF Rejected, Checked, TypeOK
      <4>. QED  BY <2>0, <3>1, <4>1, DoneInsertKept
    <3>3. CASE Passed(t)
      <4>. SUFFICES ASSUME NEW d \in done, NEW u \in Threads, pc'[u] \in Checked,
                           Covers(d.call, ins[u].key, ins[u].tags)
                    PROVE  ins[u].since >= d.seq
        BY <3>1, <3>3 DEF DoneInsert, Fresh, Passed
      <4>1. CASE u # t
        BY <3>3, <4>1 DEF DoneInsert, Fresh, Passed
      <4>2. CASE u = t
        <5>1. d.call \in Calls /\ d.seq \in Nat /\ InSlots(d)
          BY DEF TypeOK, SlotInv
        <5>2. ins[t].key \in Keys /\ ins[t].tags \in SUBSET Tags /\ ins[t].since \in Nat
          BY DEF TypeOK, Insert, FrontEntry
        <5>3. ~invalidated_since(ins[t].key, ins[t].tags, ins[t].since)
          BY <3>3 DEF Passed
        <5>. QED  BY <4>2, <5>1, <5>2, <5>3, CheckIsExact
      <4>. QED  BY <4>1, <4>2
    <3>. QED  BY <3>0, <3>2, <3>3
  <2>5. CASE index_tags(t)
    BY <2>5, <2>0, DoneInsertKept DEF index_tags, Goto, Checked
  <2>6. CASE InsertFront(t)
    BY <2>6, <2>0, DoneInsertKept DEF InsertFront, Goto, Checked
  <2>7. CASE InsertInner(t)
    BY <2>7, <2>0, DoneInsertKept DEF InsertInner, Goto, Checked
  <2>8. CASE InsertLand(t)
    BY <2>8, <2>0, DoneInsertKept DEF InsertLand, Goto, Checked, InsertReturn
  <2>9. CASE read_stamp(t)
    BY <2>9, <2>0, DoneInsertKept DEF read_stamp, Goto, Checked
  <2>10. CASE Invalidate(t)
    BY <2>10, <2>0, DoneInsertKept DEF Invalidate, Goto, Checked
  <2>11. CASE InvalGate(t)
    BY <2>11, <2>0, DoneInsertKept DEF InvalGate, Goto, Checked
  <2>12. CASE next_inval(t)
    BY <2>12, <2>0, DoneInsertKept DEF next_inval, Goto, Checked
  <2>13. CASE Publish(t)
    BY <2>13, <2>0, DoneInsertKept DEF Publish, Goto, Checked
  <2>14. CASE take_tagged(t)
    BY <2>14, <2>0, DoneInsertKept DEF take_tagged, Goto, Checked
  <2>15. CASE RemoveStripe(t)
    BY <2>15, <2>0, DoneInsertKept DEF RemoveStripe, Goto, Checked
  <2>16. CASE ScanStripe(t)
    BY <2>16, <2>0, DoneInsertKept DEF ScanStripe, Goto, Checked
  <2>17. CASE DropInner(t)
    BY <2>17, <2>0, DoneInsertKept DEF DropInner, Goto, Checked
  <2>18. CASE DropFront(t)
    BY <2>18, <2>0, DoneInsertKept DEF DropFront, Goto, Checked
  <2>19. CASE DropDone(t)
    BY <2>19, <2>0, DoneInsertKept DEF DropDone, Goto, Checked
  <2>20. CASE WipeIndex(t)
    BY <2>20, <2>0, DoneInsertKept DEF WipeIndex, Goto, Checked
  <2>21. CASE WipeInner(t)
    BY <2>21, <2>0, DoneInsertKept DEF WipeInner, Goto, Checked
  <2>22. CASE WipeFront(t)
    BY <2>22, <2>0, DoneInsertKept DEF WipeFront, Goto, Checked
  <2>23. CASE InvalUngate(t)
    BY <2>23, <2>0, DoneInsertKept DEF InvalUngate, Goto, Checked, Removed
  <2>24. CASE InvalReturn(t)
    <3>1. /\ pc[t] = "pending" /\ done' = done \cup {Record(t)} /\ ins' = ins
          /\ pc'[t] = "idle"
      BY <2>24 DEF InvalReturn, Goto, Record
    <3>. SUFFICES ASSUME NEW d \in done', NEW u \in Threads, pc'[u] \in Checked
                  PROVE  Fresh(ins[u], d)
      BY <3>1 DEF DoneInsert, Fresh
    <3>2. pc[u] \in Checked
      BY <2>0, <3>1 DEF Only, Checked
    <3>3. CASE d \in done
      BY <3>2, <3>3 DEF DoneInsert
    <3>4. CASE d = Record(t)
      BY <3>1, <3>2, <3>4 DEF OpenInsert, DueInsert, DropSteps, Published, Numbered, InvalSteps
    <3>. QED  BY <3>1, <3>3, <3>4
  <2>. QED
    BY <2>1, <2>2, <2>3, <2>4, <2>5, <2>6, <2>7, <2>8, <2>9, <2>10, <2>11, <2>12, <2>13,
       <2>14, <2>15, <2>16, <2>17, <2>18, <2>19, <2>20, <2>21, <2>22, <2>23, <2>24
       DEF InsertNext, InvalNext
<1>7. CASE Quiescent
  <2>1. pc' = pc /\ ins' = ins /\ done' = done
    BY <1>7 DEF Quiescent, vars
  <2>. QED  BY <2>1 DEF DoneInsert, Fresh
<1>. QED
  BY <1>1, <1>2, <1>3, <1>4, <1>5, <1>6, <1>7 DEF Next, Listener


-----------------------------------------------------------------------------
(* No page covered by a returned invalidation is in the front. *)
LEMMA DoneFrontStep == TypeOK /\ OpenFront /\ DoneInsert /\ DoneFront /\ [Next]_vars => DoneFront'
<1>. SUFFICES ASSUME TypeOK, OpenFront, DoneInsert, DoneFront, [Next]_vars PROVE DoneFront'
  OBVIOUS
<1>. USE L1Assumption DEF TypeOK, tables, locks, stores
<1>1. CASE UNCHANGED vars
  BY <1>1, DoneFrontKept DEF vars, Keeps
<1>2. CASE WriteData
  BY <1>2, DoneFrontKept DEF WriteData, Keeps
<1>3. CASE Evict
  BY <1>3, DoneFrontKept DEF Evict, Notify, Keeps
<1>4. ASSUME NEW n \in notices, prune_tags(n)  PROVE DoneFront'
  BY <1>4, DoneFrontKept DEF prune_tags, Keeps
<1>5. ASSUME NEW n \in notices, remove_front(n)  PROVE DoneFront'
  <2>1. /\ front' = {e \in front : ~(e.key = n.slot.key /\ e.generation = n.slot.generation)}
        /\ notices' = notices \ {n} /\ done' = done
    BY <1>5 DEF remove_front
  <2>2. \A e \in front' : Dropping(e, {"front"}, Threads) => Dropping(e, {"front"}, Threads)'
    BY <2>1 DEF Dropping
  <2>. QED  BY <2>1, <2>2 DEF DoneFront, Fresh
<1>6. ASSUME NEW t \in Threads
      PROVE  read_stamp(t) \/ Invalidate(t) \/ InsertNext(t) \/ InvalNext(t) => DoneFront'
  <2>. SUFFICES ASSUME read_stamp(t) \/ Invalidate(t) \/ InsertNext(t) \/ InvalNext(t)
                PROVE  DoneFront'
    OBVIOUS
  <2>0. Only(t)
    BY OneThread
  <2>1. CASE Render(t)
    BY <2>1, DoneFrontKept DEF Render, Keeps
  <2>2. CASE InsertGate(t)
    BY <2>2, DoneFrontKept DEF InsertGate, Keeps
  <2>3. CASE InsertStripe(t)
    BY <2>3, DoneFrontKept DEF InsertStripe, Keeps
  <2>4. CASE InsertCheck(t)
    BY <2>4, DoneFrontKept DEF InsertCheck, Keeps, InsertReturn
  <2>5. CASE index_tags(t)
    BY <2>5, DoneFrontKept DEF index_tags, Keeps
  <2>6. CASE InsertFront(t)
    <3>1. /\ front' = {e \in front : e.key # ins[t].key} \cup {ins[t]}
          /\ notices' = notices /\ done' = done /\ pc[t] = "front"
      BY <2>6 DEF InsertFront
    <3>2. \A d \in done : Fresh(ins[t], d)
      BY <3>1 DEF DoneInsert, Checked
    <3>. QED  BY <3>1, <3>2 DEF DoneFront, Fresh, Dropping
  <2>7. CASE InsertInner(t)
    BY <2>7, DoneFrontKept DEF InsertInner, Keeps, Notify
  <2>8. CASE InsertLand(t)
    BY <2>8, DoneFrontKept DEF InsertLand, Keeps, InsertReturn
  <2>9. CASE read_stamp(t)
    BY <2>9, DoneFrontKept DEF read_stamp, Keeps
  <2>10. CASE Invalidate(t)
    BY <2>10, DoneFrontKept DEF Invalidate, Keeps
  <2>11. CASE InvalGate(t)
    BY <2>11, DoneFrontKept DEF InvalGate, Keeps
  <2>12. CASE next_inval(t)
    BY <2>12, DoneFrontKept DEF next_inval, Keeps
  <2>13. CASE Publish(t)
    BY <2>13, DoneFrontKept DEF Publish, Keeps
  <2>14. CASE take_tagged(t)
    BY <2>14, DoneFrontKept DEF take_tagged, Keeps
  <2>15. CASE RemoveStripe(t)
    BY <2>15, DoneFrontKept DEF RemoveStripe, Keeps
  <2>16. CASE ScanStripe(t)
    BY <2>16, DoneFrontKept DEF ScanStripe, Keeps
  <2>17. CASE DropInner(t)
    BY <2>17, DoneFrontKept DEF DropInner, Keeps, Notify
  <2>18. CASE DropFront(t)
    BY <2>18, DoneFrontKept DEF DropFront, Keeps
  <2>19. CASE DropDone(t)
    BY <2>19, DoneFrontKept DEF DropDone, Keeps
  <2>20. CASE WipeIndex(t)
    BY <2>20, DoneFrontKept DEF WipeIndex, Keeps
  <2>21. CASE WipeInner(t)
    BY <2>21, DoneFrontKept DEF WipeInner, Keeps, Notify
  <2>22. CASE WipeFront(t)
    BY <2>22, DoneFrontKept DEF WipeFront, Keeps
  <2>23. CASE InvalUngate(t)
    BY <2>23, DoneFrontKept DEF InvalUngate, Keeps, Removed
  <2>24. CASE InvalReturn(t)
    <3>1. /\ pc[t] = "pending" /\ done' = done \cup {Record(t)}
          /\ front' = front /\ notices' = notices
          /\ \A n \in notices : n.by # Maintenance
      BY <2>24 DEF InvalReturn, Record, Notified
    <3>. SUFFICES ASSUME NEW d \in done', NEW e \in front
                  PROVE  Fresh(e, d) \/ (d.call.kind = "tags" /\ Dropping(e, {"front"}, Threads))
      BY <3>1 DEF DoneFront, Fresh, Dropping
    <3>2. CASE d \in done
      BY <3>2 DEF DoneFront
    <3>3. CASE d = Record(t)
      <4>1. ~Due(t, e)
        BY <3>1 DEF Due, DropSteps
      <4>2. \/ Fresh(e, d)
            \/ inv[t].call.kind = "tags" /\ Dropping(e, {"front"}, Threads \cup {Maintenance})
        BY <3>1, <3>3, <4>1 DEF OpenFront, Published, Numbered, InvalSteps
      <4>3. d.call = inv[t].call
        BY <3>3 DEF Record
      <4>. QED  BY <3>1, <4>2, <4>3 DEF Dropping
    <3>. QED  BY <3>1, <3>2, <3>3
  <2>. QED
    BY <2>1, <2>2, <2>3, <2>4, <2>5, <2>6, <2>7, <2>8, <2>9, <2>10, <2>11, <2>12, <2>13,
       <2>14, <2>15, <2>16, <2>17, <2>18, <2>19, <2>20, <2>21, <2>22, <2>23, <2>24
       DEF InsertNext, InvalNext
<1>7. CASE Quiescent
  BY <1>7, DoneFrontKept DEF Quiescent, vars, Keeps
<1>. QED
  BY <1>1, <1>2, <1>3, <1>4, <1>5, <1>6, <1>7 DEF Next, Listener

-----------------------------------------------------------------------------
(* An insert past the check is fresh, or in a shard still to be scanned. *)
LEMMA OpenInsertStep == TypeOK /\ LockInv /\ SlotInv /\ OpenInsert /\ [Next]_vars => OpenInsert'
<1>. SUFFICES ASSUME TypeOK, LockInv, SlotInv, OpenInsert, [Next]_vars PROVE OpenInsert'
  OBVIOUS
<1>. USE L1Assumption DEF TypeOK, tables, locks, stores
<1>1. CASE UNCHANGED vars
  <2>1. pc' = pc /\ ins' = ins /\ inv' = inv
    BY <1>1 DEF vars
  <2>. QED  BY <2>1 DEF OpenInsert, Fresh, Record, DueInsert
<1>2. CASE WriteData
  <2>1. pc' = pc /\ ins' = ins /\ inv' = inv
    BY <1>2 DEF WriteData
  <2>. QED  BY <2>1 DEF OpenInsert, Fresh, Record, DueInsert
<1>3. CASE Evict
  <2>1. pc' = pc /\ ins' = ins /\ inv' = inv
    BY <1>3 DEF Evict
  <2>. QED  BY <2>1 DEF OpenInsert, Fresh, Record, DueInsert
<1>4. ASSUME NEW n \in notices, prune_tags(n)  PROVE OpenInsert'
  <2>1. pc' = pc /\ ins' = ins /\ inv' = inv
    BY <1>4 DEF prune_tags
  <2>. QED  BY <2>1 DEF OpenInsert, Fresh, Record, DueInsert
<1>5. ASSUME NEW n \in notices, remove_front(n)  PROVE OpenInsert'
  <2>1. pc' = pc /\ ins' = ins /\ inv' = inv
    BY <1>5 DEF remove_front
  <2>. QED  BY <2>1 DEF OpenInsert, Fresh, Record, DueInsert
<1>6. ASSUME NEW t \in Threads
      PROVE  read_stamp(t) \/ Invalidate(t) \/ InsertNext(t) \/ InvalNext(t) => OpenInsert'
  <2>. SUFFICES ASSUME read_stamp(t) \/ Invalidate(t) \/ InsertNext(t) \/ InvalNext(t)
                PROVE  OpenInsert'
    OBVIOUS
  <2>0. Only(t)
    BY OneThread
  <2>1. CASE Render(t)
    BY <2>1, <2>0, OpenInsertKept DEF Render, Goto, Checked, Published, Numbered, InvalSteps
  <2>2. CASE InsertGate(t)
    BY <2>2, <2>0, OpenInsertKept DEF InsertGate, Goto, Checked, Published, Numbered, InvalSteps
  <2>3. CASE InsertStripe(t)
    BY <2>3, <2>0, OpenInsertKept DEF InsertStripe, Goto, Checked, Published, Numbered, InvalSteps
  <2>4. CASE InsertCheck(t)
    <3>. HIDE DEF TypeOK
    <3>0. Rejected(t) \/ Passed(t)
      BY <2>4, InsertCheckFrame
    <3>1. inv' = inv /\ pc[t] = "check"
      BY <2>4 DEF InsertCheck
    <3>2. CASE Rejected(t)
      <4>1. pc'[t] \notin Checked /\ pc'[t] \notin Published
        BY <3>2 DEF Rejected, TypeOK, Checked, Published, Numbered, InvalSteps
      <4>. QED  BY <2>0, <4>1, OpenInsertKept
    <3>3. CASE Passed(t)
      <4>1. \A u \in Threads : pc'[u] \in Published => pc[u] \in Published /\ u # t
        BY <3>3 DEF Passed, Checked, Published, Numbered, InvalSteps
      <4>. SUFFICES ASSUME NEW u \in Threads, NEW v \in Threads,
                           pc[u] \in Published, u # t, pc'[v] \in Checked
                    PROVE  \/ Fresh(ins[v], Record(u))
                           \/ pc'[u] = pc[u] /\ DueInsert(u, ins[v])
        BY <3>1, <3>3, <4>1 DEF OpenInsert, Fresh, Record, DueInsert, Passed
      <4>2. CASE v # t
        BY <3>3, <4>2 DEF OpenInsert, Passed
      <4>3. CASE v = t
        <5>1. /\ Record(u).call \in Calls /\ Record(u).seq \in Nat /\ InSlots(Record(u))
          BY DEF TypeOK, Invalidation, SlotInv, Record
        <5>2. ins[t].key \in Keys /\ ins[t].tags \in SUBSET Tags /\ ins[t].since \in Nat
          BY DEF TypeOK, Insert, FrontEntry
        <5>3. ~invalidated_since(ins[t].key, ins[t].tags, ins[t].since)
          BY <3>3 DEF Passed
        <5>4. Covers(Record(u).call, ins[t].key, ins[t].tags) => ins[t].since >= Record(u).seq
          BY <5>1, <5>2, <5>3, CheckIsExact
        <5>. QED  BY <4>3, <5>4 DEF Fresh
      <4>. QED  BY <4>2, <4>3
    <3>. QED  BY <3>0, <3>2, <3>3
  <2>5. CASE index_tags(t)
    BY <2>5, <2>0, OpenInsertKept DEF index_tags, Goto, Checked, Published, Numbered, InvalSteps
  <2>6. CASE InsertFront(t)
    BY <2>6, <2>0, OpenInsertKept DEF InsertFront, Goto, Checked, Published, Numbered, InvalSteps
  <2>7. CASE InsertInner(t)
    BY <2>7, <2>0, OpenInsertKept DEF InsertInner, Goto, Checked, Published, Numbered, InvalSteps
  <2>8. CASE InsertLand(t)
    BY <2>8, <2>0, OpenInsertKept DEF InsertLand, Goto, Checked, Published, Numbered, InvalSteps, InsertReturn
  <2>9. CASE read_stamp(t)
    BY <2>9, <2>0, OpenInsertKept DEF read_stamp, Goto, Checked, Published, Numbered, InvalSteps
  <2>10. CASE Invalidate(t)
    BY <2>10, <2>0, OpenInsertKept DEF Invalidate, Goto, Checked, Published, Numbered, InvalSteps
  <2>11. CASE InvalGate(t)
    BY <2>11, <2>0, OpenInsertKept DEF InvalGate, Goto, Checked, Published, Numbered, InvalSteps
  <2>12. CASE next_inval(t)
    BY <2>12, <2>0, OpenInsertKept DEF next_inval, Goto, Checked, Published, Numbered, InvalSteps
  <2>13. CASE Publish(t)
    <3>1. /\ inv' = inv /\ ins' = ins /\ pc[t] = "publish" /\ inv[t].shard = 0
          /\ pc'[t] = CASE inv[t].call.kind = "tags" -> "take"
                         [] inv[t].call.kind = "clear" -> "wipe"
                         [] OTHER -> "scan"
      BY <2>13 DEF Publish, Goto, LockInv, CallInv
    <3>. SUFFICES ASSUME NEW u \in Threads, NEW v \in Threads,
                         pc'[u] \in Published, pc'[v] \in Checked
                  PROVE  Fresh(ins[v], Record(u)) \/ DueInsert(u, ins[v])'
      BY <3>1 DEF OpenInsert, Fresh, Record
    <3>2. pc[v] \in Checked /\ v # t
      BY <2>0, <3>1 DEF Only, Checked
    <3>3. CASE u # t
      BY <2>0, <3>1, <3>2, <3>3 DEF Only, OpenInsert, DueInsert
    <3>4. CASE u = t
      <4>1. ~Exclusive(inv[t].call)
        BY <3>1, <3>2 DEF LockInv, GateInv, GateSteps, ExclusiveSteps, Checked
      <4>2. shard_of(ins[v].key) >= 0
        BY DEF Insert, FrontEntry, Shards
      <4>. QED  BY <3>1, <3>4, <4>1, <4>2 DEF DueInsert, Exclusive
    <3>. QED  BY <3>3, <3>4
  <2>14. CASE take_tagged(t)
    <3>1. /\ pc'[t] \notin Checked /\ pc[t] \in Published
          /\ inv'[t].call = inv[t].call /\ inv'[t].seq = inv[t].seq
      BY <2>14 DEF take_tagged, Goto, Invalidation, Checked, Published, Numbered, InvalSteps
    <3>2. \A v \in Threads : ~DueInsert(t, ins[v])
      BY <2>14 DEF take_tagged, DueInsert, DropSteps
    <3>. QED  BY <2>0, <3>1, <3>2, OpenInsertKept
  <2>15. CASE RemoveStripe(t)
    <3>1. /\ pc'[t] \notin Checked /\ pc[t] \in Published
          /\ inv'[t].call = inv[t].call /\ inv'[t].seq = inv[t].seq
      BY <2>15 DEF RemoveStripe, Goto, Invalidation, Checked, Published, Numbered, InvalSteps
    <3>2. \A v \in Threads : ~DueInsert(t, ins[v])
      BY <2>15 DEF RemoveStripe, DueInsert, DropSteps
    <3>. QED  BY <2>0, <3>1, <3>2, OpenInsertKept
  <2>16. CASE ScanStripe(t)
    <3>1. /\ pc'[t] \notin Checked /\ pc[t] \in Published /\ ins' = ins
          /\ inv'[t].call = inv[t].call /\ inv'[t].seq = inv[t].seq
      BY <2>16 DEF ScanStripe, Goto, Invalidation, Checked, Published, Numbered, InvalSteps
    <3>2. inv'[t].shard = inv[t].shard /\ pc'[t] \in DropSteps
      BY <2>16 DEF ScanStripe, Goto, Invalidation, DropSteps
    <3>3. \A v \in Threads : DueInsert(t, ins[v]) => DueInsert(t, ins[v])'
      BY <3>1, <3>2 DEF DueInsert
    <3>. QED  BY <2>0, <3>1, <3>3, OpenInsertKept
  <2>17. CASE DropInner(t)
    <3>1. /\ pc'[t] \notin Checked /\ pc[t] \in Published /\ ins' = ins
          /\ inv'[t].call = inv[t].call /\ inv'[t].seq = inv[t].seq
      BY <2>17 DEF DropInner, Goto, Invalidation, Checked, Published, Numbered, InvalSteps
    <3>2. inv'[t].shard = inv[t].shard /\ pc'[t] \in DropSteps
      BY <2>17 DEF DropInner, Goto, Invalidation, DropSteps
    <3>3. \A v \in Threads : DueInsert(t, ins[v]) => DueInsert(t, ins[v])'
      BY <3>1, <3>2 DEF DueInsert
    <3>. QED  BY <2>0, <3>1, <3>3, OpenInsertKept
  <2>18. CASE DropFront(t)
    <3>1. /\ pc'[t] \notin Checked /\ pc[t] \in Published /\ ins' = ins
          /\ inv'[t].call = inv[t].call /\ inv'[t].seq = inv[t].seq
      BY <2>18 DEF DropFront, Goto, Invalidation, Checked, Published, Numbered, InvalSteps
    <3>2. inv'[t].shard = inv[t].shard /\ pc'[t] \in DropSteps
      BY <2>18 DEF DropFront, Goto, Invalidation, DropSteps
    <3>3. \A v \in Threads : DueInsert(t, ins[v]) => DueInsert(t, ins[v])'
      BY <3>1, <3>2 DEF DueInsert
    <3>. QED  BY <2>0, <3>1, <3>3, OpenInsertKept
  <2>19. CASE DropDone(t)
    <3>. HIDE DEF TypeOK
    <3>1. /\ pc'[t] \in {"remove", "scan"} /\ pc[t] = "drop" /\ ins' = ins
          /\ inv'[t].call = inv[t].call /\ inv'[t].seq = inv[t].seq
      BY <2>19, DropDoneFrame DEF DropDone, Goto, TypeOK
    <3>2. ASSUME NEW v \in Threads, pc[v] \in Checked, DueInsert(t, ins[v])
          PROVE  DueInsert(t, ins[v])'
      <4>1. ~Exclusive(inv[t].call) /\ shard_of(ins[v].key) >= inv[t].shard
        BY <3>2 DEF DueInsert
      <4>2. pc'[t] = "scan" /\ inv'[t].shard = inv[t].shard + 1
        BY <2>19, <4>1 DEF DropDone, Goto, TypeOK, Invalidation
      <4>3. shard_of(ins[v].key) \in Shards /\ inv[t].shard \in Shards
        BY <3>1 DEF TypeOK, Insert, FrontEntry
      <4>4. shard_of(ins[v].key) # inv[t].shard
        <5>. SUFFICES ASSUME shard_of(ins[v].key) = inv[t].shard  PROVE FALSE
          OBVIOUS
        <5>1. t \in stripes[inv[t].shard] /\ v \in stripes[inv[t].shard]
          BY <3>1, <3>2, <4>3 DEF LockInv, StripeInv, HoldsStripe, StripeSteps, GateSteps,
                                  DropSteps, Checked
        <5>. QED  BY <3>1, <3>2, <4>3, <5>1 DEF LockInv, StripeInv, Checked
      <4>. QED  BY <3>1, <4>1, <4>2, <4>3, <4>4 DEF DueInsert, Shards
    <3>3. pc'[t] \notin Checked /\ pc[t] \in Published
      BY <3>1 DEF Checked, Published, Numbered, InvalSteps
    <3>. QED  BY <2>0, <3>1, <3>2, <3>3, OpenInsertKept
  <2>20. CASE WipeIndex(t)
    <3>1. /\ pc'[t] \notin Checked /\ pc[t] \in Published
          /\ inv'[t].call = inv[t].call /\ inv'[t].seq = inv[t].seq
      BY <2>20 DEF WipeIndex, Goto, Invalidation, Checked, Published, Numbered, InvalSteps
    <3>2. \A v \in Threads : ~DueInsert(t, ins[v])
      BY <2>20 DEF WipeIndex, DueInsert, DropSteps
    <3>. QED  BY <2>0, <3>1, <3>2, OpenInsertKept
  <2>21. CASE WipeInner(t)
    <3>1. /\ pc'[t] \notin Checked /\ pc[t] \in Published
          /\ inv'[t].call = inv[t].call /\ inv'[t].seq = inv[t].seq
      BY <2>21 DEF WipeInner, Goto, Invalidation, Checked, Published, Numbered, InvalSteps
    <3>2. \A v \in Threads : ~DueInsert(t, ins[v])
      BY <2>21 DEF WipeInner, DueInsert, DropSteps
    <3>. QED  BY <2>0, <3>1, <3>2, OpenInsertKept
  <2>22. CASE WipeFront(t)
    <3>1. /\ pc'[t] \notin Checked /\ pc[t] \in Published
          /\ inv'[t].call = inv[t].call /\ inv'[t].seq = inv[t].seq
      BY <2>22 DEF WipeFront, Goto, Invalidation, Checked, Published, Numbered, InvalSteps
    <3>2. \A v \in Threads : ~DueInsert(t, ins[v])
      BY <2>22 DEF WipeFront, DueInsert, DropSteps
    <3>. QED  BY <2>0, <3>1, <3>2, OpenInsertKept
  <2>23. CASE InvalUngate(t)
    <3>1. /\ pc'[t] = "pending" /\ inv' = inv /\ pc[t] \in {"remove", "scan", "wipe_front"}
          /\ pc[t] = "scan" => inv[t].shard = SHARDS
      BY <2>23 DEF InvalUngate, Goto, Removed
    <3>2. \A v \in Threads : ~DueInsert(t, ins[v])
      <4>1. \A v \in Threads : shard_of(ins[v].key) \in Shards
        BY DEF Insert, FrontEntry
      <4>. QED  BY <3>1, <4>1 DEF DueInsert, DropSteps, Shards
    <3>3. pc'[t] \notin Checked /\ pc[t] \in Published
      BY <3>1 DEF Checked, Published, Numbered, InvalSteps
    <3>. QED  BY <2>0, <3>1, <3>2, <3>3, OpenInsertKept
  <2>24. CASE InvalReturn(t)
    BY <2>24, <2>0, OpenInsertKept DEF InvalReturn, Goto, Checked, Published, Numbered, InvalSteps
  <2>. QED
    BY <2>1, <2>2, <2>3, <2>4, <2>5, <2>6, <2>7, <2>8, <2>9, <2>10, <2>11, <2>12, <2>13,
       <2>14, <2>15, <2>16, <2>17, <2>18, <2>19, <2>20, <2>21, <2>22, <2>23, <2>24
       DEF InsertNext, InvalNext
<1>7. CASE Quiescent
  <2>1. pc' = pc /\ ins' = ins /\ inv' = inv
    BY <1>7 DEF Quiescent, vars
  <2>. QED  BY <2>1 DEF OpenInsert, Fresh, Record, DueInsert
<1>. QED
  BY <1>1, <1>2, <1>3, <1>4, <1>5, <1>6, <1>7 DEF Next, Listener

LEMMA OpenFrontQuiet ==
    ASSUME OpenFront, front' \subseteq front, pc' = pc, inv' = inv,
           \A e \in front' : Dropping(e, {"front"}, Threads \cup {Maintenance})
                             => Dropping(e, {"front"}, Threads \cup {Maintenance})'
    PROVE  OpenFront'
<1>. SUFFICES ASSUME NEW u \in Threads, NEW e \in front', pc[u] \in Published
              PROVE  \/ Fresh(e, Record(u))
                     \/ Due(u, e)'
                     \/ /\ inv[u].call.kind = "tags"
                        /\ Dropping(e, {"front"}, Threads \cup {Maintenance})'
  BY DEF OpenFront, Fresh, Record
<1>1. Due(u, e) => Due(u, e)'
  BY DEF Due
<1>. QED  BY <1>1 DEF OpenFront

-----------------------------------------------------------------------------
(* A covered page is fresh, still to be reached, or already being dropped. *)
LEMMA OpenFrontStep == TypeOK /\ LockInv /\ LiveEntriesIndexed /\ OpenInsert /\ OpenFront /\ [Next]_vars => OpenFront'
<1>. SUFFICES ASSUME TypeOK, LockInv, LiveEntriesIndexed, OpenInsert, OpenFront, [Next]_vars PROVE OpenFront'
  OBVIOUS
<1>. USE L1Assumption DEF TypeOK, tables, locks, stores
<1>1. CASE UNCHANGED vars
  <2>1. Keeps /\ pc' = pc /\ inv' = inv
    BY <1>1 DEF vars, Keeps
  <2>. QED  BY <2>1, OpenFrontQuiet, DroppingKept DEF Keeps
<1>2. CASE WriteData
  <2>1. Keeps /\ pc' = pc /\ inv' = inv
    BY <1>2 DEF WriteData, Keeps
  <2>. QED  BY <2>1, OpenFrontQuiet, DroppingKept DEF Keeps
<1>3. CASE Evict
  <2>1. Keeps /\ pc' = pc /\ inv' = inv
    BY <1>3 DEF Evict, Notify, Keeps
  <2>. QED  BY <2>1, OpenFrontQuiet, DroppingKept DEF Keeps
<1>4. ASSUME NEW n \in notices, prune_tags(n)  PROVE OpenFront'
  <2>1. Keeps /\ pc' = pc /\ inv' = inv
    BY <1>4 DEF prune_tags, Keeps
  <2>. QED  BY <2>1, OpenFrontQuiet, DroppingKept DEF Keeps
<1>5. ASSUME NEW n \in notices, remove_front(n)  PROVE OpenFront'
  <2>1. /\ front' = {e \in front : ~(e.key = n.slot.key /\ e.generation = n.slot.generation)}
        /\ notices' = notices \ {n} /\ pc' = pc /\ inv' = inv
    BY <1>5 DEF remove_front
  <2>2. \A e \in front' : Dropping(e, {"front"}, Threads \cup {Maintenance})
                          => Dropping(e, {"front"}, Threads \cup {Maintenance})'
    BY <2>1 DEF Dropping
  <2>. QED  BY <2>1, <2>2, OpenFrontQuiet
<1>6. ASSUME NEW t \in Threads
      PROVE  read_stamp(t) \/ Invalidate(t) \/ InsertNext(t) \/ InvalNext(t) => OpenFront'
  <2>. SUFFICES ASSUME read_stamp(t) \/ Invalidate(t) \/ InsertNext(t) \/ InvalNext(t)
                PROVE  OpenFront'
    OBVIOUS
  <2>0. Only(t)
    BY OneThread
  <2>1. CASE Render(t)
    BY <2>1, <2>0, OpenFrontKept DEF Render, Keeps, Goto, Published, Numbered, InvalSteps
  <2>2. CASE InsertGate(t)
    BY <2>2, <2>0, OpenFrontKept DEF InsertGate, Keeps, Goto, Published, Numbered, InvalSteps
  <2>3. CASE InsertStripe(t)
    BY <2>3, <2>0, OpenFrontKept DEF InsertStripe, Keeps, Goto, Published, Numbered, InvalSteps
  <2>4. CASE InsertCheck(t)
    BY <2>4, <2>0, OpenFrontKept DEF InsertCheck, Keeps, Goto, Published, Numbered, InvalSteps, InsertReturn
  <2>5. CASE index_tags(t)
    BY <2>5, <2>0, OpenFrontKept DEF index_tags, Keeps, Goto, Published, Numbered, InvalSteps
  <2>6. CASE InsertFront(t)
    <3>1. /\ front' = {e \in front : e.key # ins[t].key} \cup {ins[t]}
          /\ notices' = notices /\ inv' = inv /\ pc[t] = "front" /\ pc'[t] = "inner"
      BY <2>6 DEF InsertFront, Goto
    <3>. SUFFICES ASSUME NEW u \in Threads, NEW e \in front', pc'[u] \in Published
                  PROVE  \/ Fresh(e, Record(u))
                         \/ Due(u, e)'
                         \/ /\ inv[u].call.kind = "tags"
                            /\ Dropping(e, {"front"}, Threads \cup {Maintenance})
      BY <3>1 DEF OpenFront, Fresh, Record, Dropping
    <3>2. pc'[u] = pc[u] /\ u # t
      BY <2>0, <3>1 DEF Only, Published, Numbered, InvalSteps
    <3>3. Due(u, e) => Due(u, e)'
      BY <3>1, <3>2 DEF Due
    <3>4. CASE e \in front
      BY <3>2, <3>3, <3>4 DEF OpenFront
    <3>5. CASE e = ins[t] /\ ~Fresh(ins[t], Record(u))
      <4>1. DueInsert(u, ins[t])
        BY <3>1, <3>2, <3>5 DEF OpenInsert, Checked
      <4>2. /\ shard_of(ins[t].key) \in Shards /\ inv[u].shard \in Int
        BY DEF Insert, FrontEntry, Invalidation
      <4>3. CASE pc[u] = "scan"
        BY <3>3, <3>5, <4>1, <4>3 DEF DueInsert, Due
      <4>4. CASE pc[u] \in DropSteps
        <5>1. shard_of(ins[t].key) # inv[u].shard
          <6>. SUFFICES ASSUME shard_of(ins[t].key) = inv[u].shard  PROVE FALSE
            OBVIOUS
          <6>1. t \in stripes[inv[u].shard] /\ u \in stripes[inv[u].shard]
            BY <3>1, <4>2, <4>4 DEF LockInv, StripeInv, HoldsStripe, StripeSteps, GateSteps
          <6>. QED  BY <3>2, <4>2, <6>1 DEF LockInv, StripeInv
        <5>2. shard_of(ins[t].key) > inv[u].shard
          BY <4>1, <4>2, <5>1 DEF DueInsert, Shards
        <5>. QED  BY <3>3, <3>5, <4>1, <4>4, <5>2 DEF DueInsert, Due
      <4>. QED  BY <4>1, <4>3, <4>4 DEF DueInsert
    <3>. QED  BY <3>1, <3>4, <3>5
  <2>7. CASE InsertInner(t)
    BY <2>7, <2>0, OpenFrontKept DEF InsertInner, Keeps, Goto, Published, Numbered, InvalSteps, Notify
  <2>8. CASE InsertLand(t)
    BY <2>8, <2>0, OpenFrontKept DEF InsertLand, Keeps, Goto, Published, Numbered, InvalSteps, InsertReturn
  <2>9. CASE read_stamp(t)
    BY <2>9, <2>0, OpenFrontKept DEF read_stamp, Keeps, Goto, Published, Numbered, InvalSteps
  <2>10. CASE Invalidate(t)
    BY <2>10, <2>0, OpenFrontKept DEF Invalidate, Keeps, Goto, Published, Numbered, InvalSteps
  <2>11. CASE InvalGate(t)
    BY <2>11, <2>0, OpenFrontKept DEF InvalGate, Keeps, Goto, Published, Numbered, InvalSteps
  <2>12. CASE next_inval(t)
    BY <2>12, <2>0, OpenFrontKept DEF next_inval, Keeps, Goto, Published, Numbered, InvalSteps
  <2>13. CASE Publish(t)
    <3>1. /\ inv' = inv /\ front' = front /\ notices' = notices /\ pc[t] = "publish"
          /\ inv[t].shard = 0
          /\ pc'[t] \in {"take", "wipe", "scan"}
      BY <2>13 DEF Publish, Goto, LockInv, CallInv
    <3>. SUFFICES ASSUME NEW u \in Threads, NEW e \in front, pc'[u] \in Published
                  PROVE  \/ Fresh(e, Record(u))
                         \/ Due(u, e)'
                         \/ /\ inv[u].call.kind = "tags"
                            /\ Dropping(e, {"front"}, Threads \cup {Maintenance})
      BY <3>1 DEF OpenFront, Fresh, Record, Dropping
    <3>2. CASE u # t
      <4>1. pc'[u] = pc[u]
        BY <2>0, <3>2 DEF Only
      <4>2. Due(u, e) => Due(u, e)'
        BY <3>1, <4>1 DEF Due
      <4>. QED  BY <4>1, <4>2 DEF OpenFront
    <3>3. CASE u = t
      <4>1. shard_of(e.key) >= 0
        BY DEF FrontEntry, Shards
      <4>. QED  BY <3>1, <3>3, <4>1 DEF Due
    <3>. QED  BY <3>2, <3>3
  <2>14. CASE take_tagged(t)
    <3>. DEFINE c == inv[t].call
               taken == {x \in tag_index : x.tag \in c.tags /\ Selects(c, x.key)}
    <3>1. /\ front' = front /\ notices' = notices /\ pc[t] = "take" /\ pc'[t] = "remove"
          /\ inv'[t].keys = {x.key : x \in taken}
          /\ inv'[t].call = inv[t].call /\ inv'[t].seq = inv[t].seq
      BY <2>14 DEF take_tagged, Goto, Invalidation
    <3>2. /\ t \in gate.exclusive /\ c.kind = "tags" /\ \A e \in front : ~Removing(t, e)
      BY <3>1 DEF Removing, LockInv, CallInv, GateInv, ExclusiveSteps, Exclusive
    <3>3. ASSUME NEW e \in front, Covers(c, e.key, e.tags)
          PROVE  e.key \in inv'[t].keys \/ Dropping(e, {"front"}, Threads \cup {Maintenance})
      <4>1. PICK g \in c.tags : g \in e.tags /\ Selects(c, e.key)
        BY <3>2, <3>3 DEF Covers
      <4>2. ~BeingRemoved(e)
        BY <3>2 DEF BeingRemoved, LockInv, GateInv
      <4>3. ~BeingReplaced(e)
        BY <3>2 DEF BeingReplaced, LockInv, GateInv
      <4>. DEFINE x == [tag |-> g, key |-> e.key, generation |-> e.generation]
      <4>4. x \in tag_index \/ Dropping(e, {"front"}, Threads \cup {Maintenance})
        BY <4>1, <4>2, <4>3 DEF LiveEntriesIndexed
      <4>5. x \in tag_index => x \in taken
        BY <4>1
      <4>6. x \in taken => e.key \in inv'[t].keys
        BY <3>1
      <4>. QED  BY <4>4, <4>5, <4>6
    <3>. HIDE DEF taken, c
    <3>. SUFFICES ASSUME NEW u \in Threads, NEW e \in front, pc'[u] \in Published
                  PROVE  \/ Fresh(e, Record(u)')
                         \/ Due(u, e)'
                         \/ /\ inv'[u].call.kind = "tags"
                            /\ Dropping(e, {"front"}, Threads \cup {Maintenance})
      BY <3>1 DEF OpenFront, Fresh, Dropping
    <3>4. CASE u # t
      <4>1. pc'[u] = pc[u] /\ inv'[u] = inv[u]
        BY <2>0, <3>4 DEF Only
      <4>2. (Due(u, e) => Due(u, e)') /\ Record(u)' = Record(u)
        BY <4>1 DEF Due, Record
      <4>. QED  BY <4>1, <4>2 DEF OpenFront
    <3>5. CASE u = t
      <4>1. Covers(c, e.key, e.tags) \/ Fresh(e, Record(u)')
        BY <3>1, <3>5 DEF Fresh, Record, c
      <4>2. inv'[t].call.kind = "tags"
        BY <3>1, <3>2 DEF c
      <4>3. e.key \in inv'[t].keys => Due(t, e)'
        BY <3>1 DEF Due
      <4>. QED  BY <3>3, <3>5, <4>1, <4>2, <4>3
    <3>. QED  BY <3>4, <3>5
  <2>15. CASE RemoveStripe(t)
    <3>1. Keeps
      BY <2>15 DEF RemoveStripe, Keeps
    <3>2. /\ pc[t] \in Published
          /\ inv'[t].call = inv[t].call /\ inv'[t].seq = inv[t].seq
      BY <2>15 DEF RemoveStripe, Invalidation, Published, Numbered, InvalSteps
    <3>3. ASSUME NEW e \in front', Covers(inv[t].call, e.key, e.tags), Due(t, e)
          PROVE  Due(t, e)'
      <4>1. PICK k \in inv[t].keys :
                inv' = [inv EXCEPT ![t] = [inv[t] EXCEPT !.keys = inv[t].keys \ {k},
                                              !.batch = {k}, !.shard = shard_of(k)]]
        BY <2>15 DEF RemoveStripe
      <4>2. inv'[t].keys = inv[t].keys \ {k} /\ inv'[t].batch = {k}
        BY <4>1 DEF Invalidation
      <4>3. pc[t] = "remove" /\ pc'[t] = "drop" /\ inv[t].call.kind = "tags"
        BY <2>15 DEF RemoveStripe, Goto, LockInv, CallInv
      <4>. QED  BY <3>2, <3>3, <4>2, <4>3 DEF Due, DropSteps, Exclusive
    <3>. QED  BY <2>0, <3>1, <3>2, <3>3, OpenFrontKept
  <2>16. CASE ScanStripe(t)
    <3>1. Keeps
      BY <2>16 DEF ScanStripe, Keeps
    <3>2. /\ pc[t] \in Published
          /\ inv'[t].call = inv[t].call /\ inv'[t].seq = inv[t].seq
      BY <2>16 DEF ScanStripe, Invalidation, Published, Numbered, InvalSteps
    <3>3. ASSUME NEW e \in front', Covers(inv[t].call, e.key, e.tags), Due(t, e)
          PROVE  Due(t, e)'
      <4>1. /\ inv'[t].shard = inv[t].shard /\ pc[t] = "scan" /\ pc'[t] = "drop"
            /\ inv'[t].batch = {f.key : f \in {h \in front : /\ shard_of(h.key) = inv[t].shard
                                                              /\ Selects(inv[t].call, h.key)}}
        BY <2>16 DEF ScanStripe, Goto, Invalidation
      <4>2. ~Exclusive(inv[t].call)
        BY <4>1 DEF LockInv, CallInv
      <4>3. /\ shard_of(e.key) >= inv[t].shard /\ Selects(inv[t].call, e.key) /\ e \in front
        BY <3>1, <3>3, <4>1 DEF Due, DropSteps, Covers, Keeps
      <4>4. shard_of(e.key) \in Int /\ inv[t].shard \in Int
        BY <4>3 DEF FrontEntry, Shards, Invalidation
      <4>5. CASE shard_of(e.key) = inv[t].shard
        BY <4>1, <4>3, <4>5 DEF Due, DropSteps
      <4>6. CASE shard_of(e.key) > inv[t].shard
        BY <3>2, <4>1, <4>2, <4>6 DEF Due, DropSteps
      <4>. QED  BY <4>3, <4>4, <4>5, <4>6
    <3>. QED  BY <2>0, <3>1, <3>2, <3>3, OpenFrontKept
  <2>17. CASE DropInner(t)
    <3>1. Keeps
      BY <2>17 DEF DropInner, Keeps, Notify
    <3>2. /\ pc[t] \in Published
          /\ inv'[t].call = inv[t].call /\ inv'[t].seq = inv[t].seq
      BY <2>17 DEF DropInner, Invalidation, Published, Numbered, InvalSteps
    <3>3. ASSUME NEW e \in front', Covers(inv[t].call, e.key, e.tags), Due(t, e)
          PROVE  Due(t, e)'
      <4>1. PICK k \in inv[t].batch :
                inv' = [inv EXCEPT ![t] = [inv[t] EXCEPT !.batch = inv[t].batch \ {k}, !.key = k]]
        BY <2>17 DEF DropInner
      <4>2. /\ inv'[t].batch = inv[t].batch \ {k} /\ inv'[t].key = k
            /\ inv'[t].keys = inv[t].keys /\ inv'[t].shard = inv[t].shard
        BY <4>1 DEF Invalidation
      <4>3. pc[t] = "drop" /\ pc'[t] = "drop_front"
        BY <2>17 DEF DropInner, Goto
      <4>. QED  BY <3>2, <3>3, <4>2, <4>3 DEF Due, DropSteps
    <3>. QED  BY <2>0, <3>1, <3>2, <3>3, OpenFrontKept
  <2>18. CASE DropFront(t)
    <3>1. Keeps
      BY <2>18 DEF DropFront, Keeps
    <3>2. /\ pc[t] \in Published
          /\ inv'[t].call = inv[t].call /\ inv'[t].seq = inv[t].seq
      BY <2>18 DEF DropFront, Invalidation, Published, Numbered, InvalSteps
    <3>3. ASSUME NEW e \in front', Covers(inv[t].call, e.key, e.tags), Due(t, e)
          PROVE  Due(t, e)'
      <4>1. pc[t] = "drop_front" /\ pc'[t] = "drop" /\ inv' = inv /\ e.key # inv[t].key
        BY <2>18 DEF DropFront, Goto
      <4>. QED  BY <3>3, <4>1 DEF Due, DropSteps
    <3>. QED  BY <2>0, <3>1, <3>2, <3>3, OpenFrontKept
  <2>19. CASE DropDone(t)
    <3>. HIDE DEF TypeOK
    <3>1. Keeps
      BY <2>19 DEF DropDone, Keeps
    <3>2. /\ pc[t] = "drop" /\ inv[t].batch = {} /\ inv'[t].keys = inv[t].keys
          /\ inv'[t].call = inv[t].call /\ inv'[t].seq = inv[t].seq
      BY <2>19, DropDoneFrame DEF DropDone
    <3>3. ASSUME NEW e \in front', Covers(inv[t].call, e.key, e.tags), Due(t, e)
          PROVE  Due(t, e)'
      <4>1. CASE Exclusive(inv[t].call)
        <5>1. pc'[t] = "remove"
          BY <2>19, <4>1 DEF DropDone, Goto, TypeOK
        <5>2. e.key \in inv[t].keys
          BY <3>2, <3>3, <4>1 DEF Due, DropSteps
        <5>. QED  BY <3>2, <5>1, <5>2 DEF Due
      <4>2. CASE ~Exclusive(inv[t].call)
        <5>1. pc'[t] = "scan" /\ inv'[t].shard = inv[t].shard + 1
          BY <2>19, <4>2 DEF DropDone, Goto, TypeOK, Invalidation
        <5>2. shard_of(e.key) > inv[t].shard
          BY <3>2, <3>3, <4>2 DEF Due, DropSteps
        <5>3. shard_of(e.key) \in Int /\ inv[t].shard \in Int
          <6>1. e \in front /\ e.key \in Keys
            BY <3>1 DEF TypeOK, Keeps, FrontEntry
          <6>2. inv[t].shard \in 0 .. SHARDS
            BY DEF TypeOK, Invalidation
          <6>. QED  BY <6>1, <6>2 DEF Shards
        <5>4. shard_of(e.key) >= inv'[t].shard
          BY <5>1, <5>2, <5>3
        <5>. QED  BY <5>1, <5>4 DEF Due
      <4>. QED  BY <4>1, <4>2
    <3>4. pc[t] \in Published
      BY <3>2 DEF Published, Numbered, InvalSteps
    <3>. QED  BY <2>0, <3>1, <3>2, <3>3, <3>4, OpenFrontKept
  <2>20. CASE WipeIndex(t)
    <3>1. Keeps
      BY <2>20 DEF WipeIndex, Keeps
    <3>2. /\ pc[t] \in Published
          /\ inv'[t].call = inv[t].call /\ inv'[t].seq = inv[t].seq
      BY <2>20 DEF WipeIndex, Invalidation, Published, Numbered, InvalSteps
    <3>3. ASSUME NEW e \in front', Covers(inv[t].call, e.key, e.tags), Due(t, e)
          PROVE  Due(t, e)'
      BY <2>20 DEF WipeIndex, Goto, Due
    <3>. QED  BY <2>0, <3>1, <3>2, <3>3, OpenFrontKept
  <2>21. CASE WipeInner(t)
    <3>1. Keeps
      BY <2>21 DEF WipeInner, Keeps, Notify
    <3>2. /\ pc[t] \in Published
          /\ inv'[t].call = inv[t].call /\ inv'[t].seq = inv[t].seq
      BY <2>21 DEF WipeInner, Invalidation, Published, Numbered, InvalSteps
    <3>3. ASSUME NEW e \in front', Covers(inv[t].call, e.key, e.tags), Due(t, e)
          PROVE  Due(t, e)'
      <4>1. pc'[t] = "wipe_front" /\ inv'[t].shard = 0 /\ e \in front
        BY <2>21, <3>1 DEF WipeInner, Goto, LockInv, CallInv, Keeps
      <4>2. shard_of(e.key) >= 0
        BY <4>1 DEF FrontEntry, Shards
      <4>. QED  BY <4>1, <4>2 DEF Due
    <3>. QED  BY <2>0, <3>1, <3>2, <3>3, OpenFrontKept
  <2>22. CASE WipeFront(t)
    <3>1. Keeps
      BY <2>22 DEF WipeFront, Keeps
    <3>2. /\ pc[t] \in Published
          /\ inv'[t].call = inv[t].call /\ inv'[t].seq = inv[t].seq
      BY <2>22 DEF WipeFront, Invalidation, Published, Numbered, InvalSteps
    <3>3. ASSUME NEW e \in front', Covers(inv[t].call, e.key, e.tags), Due(t, e)
          PROVE  Due(t, e)'
      <4>1. /\ pc[t] = "wipe_front" /\ pc' = pc /\ inv'[t].shard = inv[t].shard + 1
            /\ e \in front /\ shard_of(e.key) # inv[t].shard
        BY <2>22 DEF WipeFront, Invalidation
      <4>2. shard_of(e.key) \in Int /\ inv[t].shard \in Int
        BY <4>1 DEF FrontEntry, Shards, Invalidation
      <4>3. shard_of(e.key) >= inv[t].shard
        BY <3>3, <4>1 DEF Due, DropSteps
      <4>4. shard_of(e.key) >= inv'[t].shard
        BY <4>1, <4>2, <4>3
      <4>. QED  BY <4>1, <4>4 DEF Due
    <3>. QED  BY <2>0, <3>1, <3>2, <3>3, OpenFrontKept
  <2>23. CASE InvalUngate(t)
    <3>1. /\ Keeps /\ pc[t] \in {"remove", "scan", "wipe_front"} /\ inv' = inv
          /\ pc[t] = "remove" => inv[t].keys = {}
          /\ pc[t] # "remove" => inv[t].shard = SHARDS
      BY <2>23 DEF InvalUngate, Keeps, Removed
    <3>2. \A e \in front' : ~Due(t, e)
      <4>1. \A e \in front' : shard_of(e.key) \in Shards
        BY <3>1 DEF Keeps, FrontEntry
      <4>. QED  BY <3>1, <4>1 DEF Due, DropSteps, Shards
    <3>3. pc[t] \in Published
      BY <3>1 DEF Published, Numbered, InvalSteps
    <3>. QED  BY <2>0, <3>1, <3>2, <3>3, OpenFrontKept
  <2>24. CASE InvalReturn(t)
    BY <2>24, <2>0, OpenFrontKept DEF InvalReturn, Keeps, Goto, Published, Numbered, InvalSteps
  <2>. QED
    BY <2>1, <2>2, <2>3, <2>4, <2>5, <2>6, <2>7, <2>8, <2>9, <2>10, <2>11, <2>12, <2>13,
       <2>14, <2>15, <2>16, <2>17, <2>18, <2>19, <2>20, <2>21, <2>22, <2>23, <2>24
       DEF InsertNext, InvalNext
<1>7. CASE Quiescent
  <2>1. Keeps /\ pc' = pc /\ inv' = inv
    BY <1>7 DEF Quiescent, vars, Keeps
  <2>. QED  BY <2>1, OpenFrontQuiet, DroppingKept DEF Keeps
<1>. QED
  BY <1>1, <1>2, <1>3, <1>4, <1>5, <1>6, <1>7 DEF Next, Listener


-----------------------------------------------------------------------------
LEMMA L1InvInit == Init => L1Inv
<1>. SUFFICES ASSUME Init PROVE L1Inv
  OBVIOUS
<1>1. TypeOK
  BY TypeInit
<1>2. LockInv
  BY LockInit
<1>3. NumberInv /\ DataInv /\ SlotInv /\ GenerationInv /\ IndexInv /\ FreshInv
  BY DEF Init, NumberInv, DataInv, SlotInv, GenerationInv, IndexInv, FreshInv, Numbered,
         Published, Rendered, InFlight, Checked, InsertSteps, InvalSteps, LiveEntriesIndexed,
         OwnTagsIndexed, WipedShardsEmpty, DoneFront, DoneInsert, OpenFront, OpenInsert
<1>. QED  BY <1>1, <1>2, <1>3 DEF L1Inv

LEMMA L1InvStep == L1Inv /\ [Next]_vars => L1Inv'
<1>. SUFFICES ASSUME L1Inv, [Next]_vars PROVE L1Inv'
  OBVIOUS
<1>. USE DEF L1Inv
<1>1. TypeOK'
  BY TypeStep
<1>2. LockInv'
  BY CallStep, GateStep, StripeStep DEF LockInv
<1>3. NumberInv' /\ DataInv' /\ SlotInv' /\ GenerationInv'
  BY NumberStep, DataStep, SlotStep, GenerationStep
<1>4. IndexInv'
  BY OwnTagsStep, WipedStep, LiveStep DEF IndexInv
<1>5. FreshInv'
  BY DoneInsertStep, DoneFrontStep, OpenInsertStep, OpenFrontStep DEF FreshInv, IndexInv
<1>. QED  BY <1>1, <1>2, <1>3, <1>4, <1>5

(* No request is served a page rendered from data older than a covering    *)
(* invalidation that has returned, but in the listener's window.           *)
THEOREM NoStaleHits == Spec => []NoStaleHit
<1>1. L1Inv => NoStaleHit
  <2>. SUFFICES ASSUME L1Inv, NEW k \in Keys, NEW e \in get_with(k), NEW d \in done,
                       Covers(d.call, k, e.tags), e.data < d.data
                PROVE  d.call.kind = "tags" /\ Dropping(e, {"front"}, Threads)
    BY DEF NoStaleHit
  <2>1. e \in front /\ e.key = k
    BY DEF get_with
  <2>2. e.data \in Nat /\ d.data \in Nat
    BY <2>1 DEF L1Inv, TypeOK, FrontEntry
  <2>3. ~(e.since >= d.seq)
    BY <2>1, <2>2 DEF L1Inv, DataInv, StampSeesData
  <2>. QED  BY <2>1, <2>3 DEF L1Inv, FreshInv, DoneFront, Fresh
<1>. QED  BY <1>1, L1InvInit, L1InvStep, PTL DEF Spec

(* A tagged page in the front can be found by its tags, or is on its way   *)
(* out.                                                                    *)
THEOREM LiveEntriesFound == Spec => []LiveEntriesIndexed
<1>1. L1Inv => LiveEntriesIndexed
  BY DEF L1Inv, IndexInv
<1>. QED  BY <1>1, L1InvInit, L1InvStep, PTL DEF Spec
=============================================================================
