--------------------------- MODULE L1CacheProofs ---------------------------
(***************************************************************************)
(* Proofs about L1Cache, for any threads, keys, tags, shards and slots.    *)
(***************************************************************************)
EXTENDS L1CacheInv, TLAPS

(* A page's render and an invalidation start from well-typed locals. *)
LEMMA Defaults ==
    /\ AKey \in Keys
    /\ NoInsert \in Insert
    /\ NoInvalidation \in Invalidation
<1>1. AKey \in Keys
  BY L1Assumption DEF AKey
<1>2. (CHOOSE c \in Calls : TRUE) \in Calls
  BY L1Assumption
<1>3. NoInsert \in Insert
  BY <1>1 DEF NoInsert, Insert, FrontEntry
<1>4. NoInvalidation \in Invalidation
  BY <1>1, <1>2, L1Assumption DEF NoInvalidation, Invalidation
<1>. QED  BY <1>1, <1>3, <1>4

(* The locals of a render and of a call that has just begun. *)
LEMMA Begun ==
    ASSUME clock \in Nat, data \in Nat
    PROVE  /\ \A k \in Keys, T \in TagSets :
                  /\ NewInsert(k, T) \in Insert
                  /\ NewInsert(k, T).key = k /\ NewInsert(k, T).tags = T
                  /\ NewInsert(k, T).since = clock
           /\ \A c \in Calls :
                  /\ NewCall(c) \in Invalidation
                  /\ NewCall(c).call = c /\ NewCall(c).data = data /\ NewCall(c).seq = 0
                  /\ NewCall(c).keys = {} /\ NewCall(c).batch = {} /\ NewCall(c).shard = 0
<1>1. ASSUME NEW c \in Calls
      PROVE  /\ NewCall(c) \in Invalidation
             /\ NewCall(c).call = c /\ NewCall(c).data = data /\ NewCall(c).seq = 0
             /\ NewCall(c).keys = {} /\ NewCall(c).batch = {} /\ NewCall(c).shard = 0
  BY Defaults, L1Assumption DEF NewCall, NoInvalidation, Invalidation
<1>2. ASSUME NEW k \in Keys, NEW T \in TagSets
      PROVE  /\ NewInsert(k, T) \in Insert
             /\ NewInsert(k, T).key = k /\ NewInsert(k, T).tags = T
             /\ NewInsert(k, T).since = clock
  BY Defaults, L1Assumption DEF NewInsert, NoInsert, Insert, FrontEntry
<1>. QED  BY <1>1, <1>2

(* Updates of an invalidation's locals keep their type. *)
LEMMA InvalidationUpdates ==
    ASSUME NEW i \in Invalidation
    PROVE  /\ \A n \in Nat : [i EXCEPT !.seq = n] \in Invalidation
           /\ \A n \in 0 .. SHARDS : [i EXCEPT !.shard = n] \in Invalidation
           /\ \A S \in SUBSET Keys : [i EXCEPT !.keys = S] \in Invalidation
           /\ \A S \in SUBSET Keys : [i EXCEPT !.batch = S] \in Invalidation
           /\ \A k \in i.keys : [i EXCEPT !.keys = i.keys \ {k}, !.batch = {k},
                                          !.shard = shard_of(k)] \in Invalidation
           /\ \A k \in i.batch : [i EXCEPT !.batch = i.batch \ {k}, !.key = k] \in Invalidation
<1>1. \A k \in Keys : shard_of(k) \in 0 .. SHARDS
  BY L1Assumption DEF Shards
<1>2. \A n \in Nat : [i EXCEPT !.seq = n] \in Invalidation
  BY DEF Invalidation
<1>3. \A n \in 0 .. SHARDS : [i EXCEPT !.shard = n] \in Invalidation
  BY DEF Invalidation
<1>4. \A S \in SUBSET Keys : /\ [i EXCEPT !.keys = S] \in Invalidation
                             /\ [i EXCEPT !.batch = S] \in Invalidation
  BY DEF Invalidation
<1>5. ASSUME NEW k \in i.keys
      PROVE  [i EXCEPT !.keys = i.keys \ {k}, !.batch = {k}, !.shard = shard_of(k)] \in Invalidation
  <2>1. k \in Keys /\ i.keys \ {k} \in SUBSET Keys /\ {k} \in SUBSET Keys
    BY DEF Invalidation
  <2>. QED  BY <1>1, <2>1 DEF Invalidation
<1>6. ASSUME NEW k \in i.batch
      PROVE  [i EXCEPT !.batch = i.batch \ {k}, !.key = k] \in Invalidation
  BY DEF Invalidation
<1>. QED  BY <1>2, <1>3, <1>4, <1>5, <1>6

LEMMA TypeStep == TypeOK /\ [Next]_vars => TypeOK'
<1>. SUFFICES ASSUME TypeOK, [Next]_vars PROVE TypeOK'
  OBVIOUS
<1>. USE DEF TypeOK, tables, locks, stores
<1>1. CASE UNCHANGED vars
  BY <1>1 DEF vars
<1>2. CASE WriteData
  BY <1>2 DEF WriteData
<1>3. CASE Evict
  BY <1>3 DEF Evict, Notify, Notice
<1>4. ASSUME NEW n \in notices, prune_tags(n)  PROVE TypeOK'
  BY <1>4 DEF prune_tags, PruneFrom, Notice
<1>5. ASSUME NEW n \in notices, remove_front(n)  PROVE TypeOK'
  BY <1>5 DEF remove_front
<1>6. ASSUME NEW t \in Threads
      PROVE  read_stamp(t) \/ Invalidate(t) \/ InsertNext(t) \/ InvalNext(t) => TypeOK'
  <2>1. CASE Render(t)
    BY <2>1, Defaults, L1Assumption DEF Render, Goto, InsertSteps, InvalSteps, Insert, FrontEntry
  <2>2. CASE InsertGate(t)
    BY <2>2, Defaults, L1Assumption DEF InsertGate, Goto, InsertSteps, InvalSteps
  <2>3. CASE InsertStripe(t)
    BY <2>3, Defaults, L1Assumption DEF InsertStripe, Goto, InsertSteps, InvalSteps, Insert, FrontEntry
  <2>4. CASE InsertCheck(t)
    <3>1. [ins[t] EXCEPT !.generation = next_generation] \in Insert
      BY DEF Insert, FrontEntry
    <3>2. ins' \in [Threads -> Insert]
      BY <2>4, <3>1, Defaults DEF InsertCheck, InsertReturn
    <3>3. gate' \in [shared : SUBSET Threads, exclusive : SUBSET Threads]
      BY <2>4 DEF InsertCheck, InsertReturn
    <3>4. stripes' \in [Shards -> SUBSET Threads]
      BY <2>4 DEF InsertCheck, InsertReturn
    <3>. QED
      BY <2>4, <3>2, <3>3, <3>4 DEF InsertCheck, InsertReturn, Goto, InsertSteps
  <2>5. CASE index_tags(t)
    BY <2>5, Defaults, L1Assumption DEF index_tags, Goto, InsertSteps, InvalSteps, Insert, FrontEntry, Indexed
  <2>6. CASE InsertFront(t)
    BY <2>6, Defaults, L1Assumption DEF InsertFront, Goto, InsertSteps, InvalSteps, Insert
  <2>7. CASE InsertInner(t)
    BY <2>7, Defaults, L1Assumption DEF InsertInner, Goto, InsertSteps, InvalSteps, Insert, FrontEntry, Slot, Notify, Notice
  <2>8. CASE InsertLand(t)
    BY <2>8, Defaults, L1Assumption DEF InsertLand, Goto, InsertSteps, InvalSteps, InsertReturn
  <2>9. CASE read_stamp(t)
    <3>1. PICK k \in Keys, T \in TagSets : ins' = [ins EXCEPT ![t] = NewInsert(k, T)]
      BY <2>9 DEF read_stamp
    <3>2. NewInsert(k, T) \in Insert
      BY Begun
    <3>. QED
      BY <2>9, <3>1, <3>2 DEF read_stamp, Goto, InsertSteps
  <2>10. CASE Invalidate(t)
    <3>1. PICK c \in Calls : /\ inv' = [inv EXCEPT ![t] = NewCall(c)]
                             /\ Goto(t, IF Exclusive(c) THEN "gate" ELSE "seq")
      BY <2>10 DEF Invalidate
    <3>2. NewCall(c) \in Invalidation
      BY Begun
    <3>. QED
      BY <2>10, <3>1, <3>2 DEF Invalidate, Goto, InvalSteps
  <2>11. CASE InvalGate(t)
    BY <2>11, Defaults, L1Assumption DEF InvalGate, Goto, InsertSteps, InvalSteps
  <2>12. CASE next_inval(t)
    <3>1. clock + 1 \in Nat
      OBVIOUS
    <3>2. [inv[t] EXCEPT !.seq = clock + 1] \in Invalidation
      BY <3>1, InvalidationUpdates
    <3>. QED
      BY <2>12, <3>1, <3>2 DEF next_inval, Goto, InvalSteps
  <2>13. CASE Publish(t)
    <3>1. inv[t].seq \in Nat
      BY DEF Invalidation
    <3>2. /\ tag_inval' \in [Slots -> Nat]
          /\ path_inval' \in [Slots -> Nat]
          /\ prefix_inval' \in [Slots -> Nat]
          /\ cleared_at' \in Nat
      BY <2>13, <3>1 DEF Publish, Max2
    <3>. QED
      BY <2>13, <3>2 DEF Publish, Goto, InvalSteps
  <2>14. CASE take_tagged(t)
    <3>. DEFINE taken == {x \in tag_index : x.tag \in inv[t].call.tags
                                            /\ Selects(inv[t].call, x.key)}
    <3>1. {x.key : x \in taken} \in SUBSET Keys
      BY DEF Indexed
    <3>2. [inv[t] EXCEPT !.keys = {x.key : x \in taken}] \in Invalidation
      BY <3>1, InvalidationUpdates
    <3>3. inv' = [inv EXCEPT ![t].keys = {x.key : x \in taken}]
      BY <2>14 DEF take_tagged
    <3>4. inv' \in [Threads -> Invalidation]
      BY <3>2, <3>3
    <3>. QED
      BY <2>14, <3>4 DEF take_tagged, Goto, InvalSteps
  <2>15. CASE RemoveStripe(t)
    <3>. DEFINE next(k) == [inv[t] EXCEPT !.keys = inv[t].keys \ {k}, !.batch = {k},
                                             !.shard = shard_of(k)]
    <3>1. PICK k \in inv[t].keys : /\ stripes' = [stripes EXCEPT ![shard_of(k)] = {t}]
                                   /\ inv' = [inv EXCEPT ![t] = next(k)]
      BY <2>15 DEF RemoveStripe
    <3>2. shard_of(k) \in Shards
      BY L1Assumption DEF Invalidation
    <3>3. next(k) \in Invalidation /\ next(k).shard = shard_of(k)
      <4>1. next(k) \in Invalidation
        BY InvalidationUpdates
      <4>2. next(k).shard = shard_of(k)
        BY DEF Invalidation
      <4>. QED  BY <4>1, <4>2
    <3>. HIDE DEF next
    <3>4. inv' \in [Threads -> Invalidation]
      BY <3>1, <3>3
    <3>5. pc' = [pc EXCEPT ![t] = "drop"]
      BY <2>15 DEF RemoveStripe, Goto
    <3>6. \A u \in Threads : pc'[u] \in {"drop", "drop_front"} => inv'[u].shard \in Shards
      BY <3>1, <3>2, <3>3, <3>5
    <3>. QED
      BY <2>15, <3>1, <3>2, <3>4, <3>5, <3>6 DEF RemoveStripe, InvalSteps
  <2>16. CASE ScanStripe(t)
    <3>. DEFINE listed == {e.key : e \in {f \in front : /\ shard_of(f.key) = inv[t].shard
                                                      /\ Selects(inv[t].call, f.key)}}
    <3>1. listed \in SUBSET Keys
      BY DEF FrontEntry
    <3>2. [inv[t] EXCEPT !.batch = listed] \in Invalidation
      BY <3>1, InvalidationUpdates
    <3>3. inv' = [inv EXCEPT ![t].batch = listed]
      BY <2>16 DEF ScanStripe
    <3>. HIDE DEF listed
    <3>4. inv' \in [Threads -> Invalidation]
      BY <3>2, <3>3
    <3>5. inv[t].shard \in 0 .. SHARDS /\ inv[t].shard < SHARDS
      BY <2>16 DEF ScanStripe, Invalidation
    <3>6. inv[t].shard \in Shards
      BY <3>5, L1Assumption DEF Shards
    <3>7. inv'[t].shard = inv[t].shard /\ \A u \in Threads : u # t => inv'[u] = inv[u]
      BY <3>3 DEF Invalidation
    <3>. QED
      BY <2>16, <3>4, <3>6, <3>7 DEF ScanStripe, Goto, InvalSteps
  <2>17. CASE DropInner(t)
    <3>. DEFINE next(k) == [inv[t] EXCEPT !.batch = inv[t].batch \ {k}, !.key = k]
    <3>1. PICK k \in inv[t].batch : /\ inner' = inner \ {s \in inner : s.key = k}
                                    /\ notices' = Notify({s \in inner : s.key = k}, t)
                                    /\ inv' = [inv EXCEPT ![t] = next(k)]
      BY <2>17 DEF DropInner
    <3>2. next(k) \in Invalidation /\ next(k).shard = inv[t].shard
      <4>1. next(k) \in Invalidation
        BY InvalidationUpdates
      <4>2. next(k).shard = inv[t].shard
        BY DEF Invalidation
      <4>. QED  BY <4>1, <4>2
    <3>. HIDE DEF next
    <3>3. inv' \in [Threads -> Invalidation]
      BY <3>1, <3>2
    <3>4. notices' \subseteq Notice
      BY <3>1 DEF Notify, Notice
    <3>. QED
      BY <2>17, <3>1, <3>2, <3>3, <3>4 DEF DropInner, Goto, InvalSteps
  <2>18. CASE DropFront(t)
    BY <2>18, Defaults, L1Assumption DEF DropFront, Goto, InsertSteps, InvalSteps
  <2>19. CASE DropDone(t)
    <3>1. inv[t].shard + 1 \in 0 .. SHARDS
      <4>1. pc[t] = "drop"
        BY <2>19 DEF DropDone
      <4>2. inv[t].shard \in Shards
        BY <4>1
      <4>. QED
        BY ONLY <4>2, L1Assumption DEF Shards, L1Assumption
    <3>2. [inv[t] EXCEPT !.shard = @ + 1] \in Invalidation
      BY <3>1, InvalidationUpdates
    <3>. QED
      BY <2>19, <3>2 DEF DropDone, Goto, InvalSteps
  <2>20. CASE WipeIndex(t)
    BY <2>20, Defaults, L1Assumption DEF WipeIndex, Goto, InsertSteps, InvalSteps
  <2>21. CASE WipeInner(t)
    BY <2>21, Defaults, L1Assumption DEF WipeInner, Goto, InsertSteps, InvalSteps, Notify, Notice
  <2>22. CASE WipeFront(t)
    <3>1. inv[t].shard + 1 \in 0 .. SHARDS
      BY <2>22, L1Assumption DEF WipeFront, Invalidation
    <3>2. [inv[t] EXCEPT !.shard = @ + 1] \in Invalidation
      BY <3>1, InvalidationUpdates
    <3>. QED
      BY <2>22, <3>2 DEF WipeFront
  <2>23. CASE InvalUngate(t)
    BY <2>23, Defaults, L1Assumption DEF InvalUngate, Goto, InsertSteps, InvalSteps
  <2>24. CASE InvalReturn(t)
    BY <2>24, Defaults, L1Assumption DEF InvalReturn, Goto, InsertSteps, InvalSteps, Invalidation
  <2>. QED
    BY <2>1, <2>2, <2>3, <2>4, <2>5, <2>6, <2>7, <2>8, <2>9, <2>10, <2>11, <2>12, <2>13,
       <2>14, <2>15, <2>16, <2>17, <2>18, <2>19, <2>20, <2>21, <2>22, <2>23, <2>24
       DEF InsertNext, InvalNext
<1>7. CASE Quiescent
  BY <1>7 DEF Quiescent, vars
<1>. QED
  BY <1>1, <1>2, <1>3, <1>4, <1>5, <1>6, <1>7 DEF Next, Listener

LEMMA TypeInit == Init => TypeOK
BY Defaults, L1Assumption DEF Init, TypeOK

(* Every variable keeps its type in every reachable state. *)
THEOREM TypeCorrect == Spec => []TypeOK
BY TypeInit, TypeStep, PTL DEF Spec

-----------------------------------------------------------------------------
(* The step of a thread says what its call is doing. *)
LEMMA CallStep == TypeOK /\ CallInv /\ [Next]_vars => CallInv'
<1>. SUFFICES ASSUME TypeOK, CallInv, [Next]_vars PROVE CallInv'
  OBVIOUS
<1>. USE L1Assumption DEF TypeOK, CallInv, Exclusive, DropSteps, tables, locks, stores
<1>1. CASE UNCHANGED vars
  BY <1>1 DEF vars
<1>2. CASE WriteData
  BY <1>2 DEF WriteData
<1>3. CASE Evict
  BY <1>3 DEF Evict
<1>4. ASSUME NEW n \in notices, prune_tags(n)  PROVE CallInv'
  BY <1>4 DEF prune_tags
<1>5. ASSUME NEW n \in notices, remove_front(n)  PROVE CallInv'
  BY <1>5 DEF remove_front
<1>6. ASSUME NEW t \in Threads
      PROVE  read_stamp(t) \/ Invalidate(t) \/ InsertNext(t) \/ InvalNext(t) => CallInv'
  <2>1. CASE Render(t)
    BY <2>1 DEF Render, Goto
  <2>2. CASE InsertGate(t)
    BY <2>2 DEF InsertGate, Goto
  <2>3. CASE InsertStripe(t)
    BY <2>3 DEF InsertStripe, Goto
  <2>4. CASE InsertCheck(t)
    BY <2>4 DEF InsertCheck, Goto, InsertReturn
  <2>5. CASE index_tags(t)
    BY <2>5 DEF index_tags, Goto
  <2>6. CASE InsertFront(t)
    BY <2>6 DEF InsertFront, Goto
  <2>7. CASE InsertInner(t)
    BY <2>7 DEF InsertInner, Goto
  <2>8. CASE InsertLand(t)
    BY <2>8 DEF InsertLand, Goto, InsertReturn
  <2>9. CASE read_stamp(t)
    BY <2>9 DEF read_stamp, Goto
  <2>10. CASE Invalidate(t)
    <3>1. PICK c \in Calls : /\ inv' = [inv EXCEPT ![t] = NewCall(c)]
                             /\ Goto(t, IF Exclusive(c) THEN "gate" ELSE "seq")
      BY <2>10 DEF Invalidate
    <3>2. pc' = [pc EXCEPT ![t] = IF Exclusive(c) THEN "gate" ELSE "seq"]
      BY <3>1 DEF Goto
    <3>. QED
      BY <2>10, <3>1, <3>2, Begun DEF Invalidate
  <2>11. CASE InvalGate(t)
    BY <2>11 DEF InvalGate, Goto
  <2>12. CASE next_inval(t)
    BY <2>12 DEF next_inval, Goto
  <2>13. CASE Publish(t)
    BY <2>13 DEF Publish, Goto
  <2>14. CASE take_tagged(t)
    BY <2>14 DEF take_tagged, Goto
  <2>15. CASE RemoveStripe(t)
    <3>. DEFINE next(k) == [inv[t] EXCEPT !.keys = inv[t].keys \ {k}, !.batch = {k},
                                             !.shard = shard_of(k)]
    <3>1. PICK k \in inv[t].keys : inv' = [inv EXCEPT ![t] = next(k)]
      BY <2>15 DEF RemoveStripe
    <3>2. next(k).call = inv[t].call /\ next(k).shard = shard_of(k) /\ shard_of(k) \in Shards
      BY DEF Invalidation
    <3>. HIDE DEF next
    <3>. QED
      BY <2>15, <3>1, <3>2 DEF RemoveStripe, Goto
  <2>16. CASE ScanStripe(t)
    <3>. DEFINE listed == {e.key : e \in {f \in front : /\ shard_of(f.key) = inv[t].shard
                                                      /\ Selects(inv[t].call, f.key)}}
    <3>1. inv' = [inv EXCEPT ![t].batch = listed]
      BY <2>16 DEF ScanStripe
    <3>. HIDE DEF listed
    <3>2. inv'[t].call = inv[t].call /\ inv'[t].shard = inv[t].shard
      BY <3>1 DEF Invalidation
    <3>3. \A u \in Threads : u # t => inv'[u] = inv[u]
      BY <3>1
    <3>4. inv[t].shard \in 0 .. SHARDS /\ inv[t].shard < SHARDS
      BY <2>16 DEF ScanStripe, Invalidation
    <3>5. inv[t].shard \in Shards
      BY <3>4 DEF Shards
    <3>. QED
      BY <2>16, <3>2, <3>3, <3>5 DEF ScanStripe, Goto
  <2>17. CASE DropInner(t)
    BY <2>17 DEF DropInner, Goto
  <2>18. CASE DropFront(t)
    BY <2>18 DEF DropFront, Goto
  <2>19. CASE DropDone(t)
    <3>1. CASE Exclusive(inv[t].call)
      BY <2>19, <3>1 DEF DropDone, Goto, Call
    <3>2. CASE ~Exclusive(inv[t].call)
      <4>1. inv' = [inv EXCEPT ![t].shard = @ + 1] /\ pc' = [pc EXCEPT ![t] = "scan"]
        BY <2>19, <3>2 DEF DropDone, Goto
      <4>2. /\ inv'[t].call = inv[t].call /\ inv'[t].keys = inv[t].keys
            /\ inv'[t].batch = inv[t].batch
            /\ \A u \in Threads : u # t => inv'[u] = inv[u]
        BY <4>1 DEF Invalidation
      <4>. QED  BY <2>19, <3>2, <4>1, <4>2 DEF DropDone
    <3>. QED  BY <3>1, <3>2
  <2>20. CASE WipeIndex(t)
    BY <2>20 DEF WipeIndex, Goto
  <2>21. CASE WipeInner(t)
    BY <2>21 DEF WipeInner, Goto
  <2>22. CASE WipeFront(t)
    BY <2>22 DEF WipeFront, Goto
  <2>23. CASE InvalUngate(t)
    BY <2>23 DEF InvalUngate, Goto, Removed
  <2>24. CASE InvalReturn(t)
    BY <2>24 DEF InvalReturn, Goto
  <2>. QED
    BY <2>1, <2>2, <2>3, <2>4, <2>5, <2>6, <2>7, <2>8, <2>9, <2>10, <2>11, <2>12, <2>13,
       <2>14, <2>15, <2>16, <2>17, <2>18, <2>19, <2>20, <2>21, <2>22, <2>23, <2>24
       DEF InsertNext, InvalNext
<1>7. CASE Quiescent
  BY <1>7 DEF Quiescent, vars
<1>. QED
  BY <1>1, <1>2, <1>3, <1>4, <1>5, <1>6, <1>7 DEF Next, Listener

-----------------------------------------------------------------------------
(* The gate: who holds it, and that an exclusive holder is alone. *)
LEMMA GateStep == TypeOK /\ CallInv /\ GateInv /\ [Next]_vars => GateInv'
<1>. SUFFICES ASSUME TypeOK, CallInv, GateInv, [Next]_vars PROVE GateInv'
  OBVIOUS
<1>. USE L1Assumption DEF TypeOK, GateInv, GateSteps, ExclusiveSteps, DropSteps, tables, locks, stores
<1>1. CASE UNCHANGED vars
  BY <1>1 DEF vars
<1>2. CASE WriteData
  BY <1>2 DEF WriteData
<1>3. CASE Evict
  BY <1>3 DEF Evict
<1>4. ASSUME NEW n \in notices, prune_tags(n)  PROVE GateInv'
  BY <1>4 DEF prune_tags
<1>5. ASSUME NEW n \in notices, remove_front(n)  PROVE GateInv'
  BY <1>5 DEF remove_front
<1>6. ASSUME NEW t \in Threads
      PROVE  read_stamp(t) \/ Invalidate(t) \/ InsertNext(t) \/ InvalNext(t) => GateInv'
  <2>1. CASE Render(t)
    BY <2>1 DEF Render, Goto
  <2>2. CASE InsertGate(t)
    BY <2>2 DEF InsertGate, Goto
  <2>3. CASE InsertStripe(t)
    BY <2>3 DEF InsertStripe, Goto
  <2>4. CASE InsertCheck(t)
    BY <2>4 DEF InsertCheck, Goto, InsertReturn
  <2>5. CASE index_tags(t)
    BY <2>5 DEF index_tags, Goto
  <2>6. CASE InsertFront(t)
    BY <2>6 DEF InsertFront, Goto
  <2>7. CASE InsertInner(t)
    BY <2>7 DEF InsertInner, Goto
  <2>8. CASE InsertLand(t)
    BY <2>8 DEF InsertLand, Goto, InsertReturn
  <2>9. CASE read_stamp(t)
    BY <2>9 DEF read_stamp, Goto
  <2>10. CASE Invalidate(t)
    <3>1. PICK c \in Calls : /\ inv' = [inv EXCEPT ![t] = NewCall(c)]
                             /\ Goto(t, IF Exclusive(c) THEN "gate" ELSE "seq")
      BY <2>10 DEF Invalidate
    <3>2. pc' = [pc EXCEPT ![t] = IF Exclusive(c) THEN "gate" ELSE "seq"]
      BY <3>1 DEF Goto
    <3>3. \A u \in Threads : u # t => pc'[u] = pc[u] /\ inv'[u] = inv[u]
      BY <3>1, <3>2
    <3>4. inv'[t].call = c
      BY <3>1, Begun
    <3>. QED
      BY <2>10, <3>2, <3>3, <3>4 DEF Invalidate
  <2>11. CASE InvalGate(t)
    BY <2>11 DEF InvalGate, Goto, CallInv
  <2>12. CASE next_inval(t)
    BY <2>12 DEF next_inval, Goto
  <2>13. CASE Publish(t)
    BY <2>13 DEF Publish, Goto, Exclusive
  <2>14. CASE take_tagged(t)
    BY <2>14 DEF take_tagged, Goto
  <2>15. CASE RemoveStripe(t)
    BY <2>15 DEF RemoveStripe, Goto
  <2>16. CASE ScanStripe(t)
    <3>1. ~Exclusive(inv[t].call)
      BY <2>16 DEF ScanStripe, CallInv
    <3>2. \A u \in Threads : inv'[u].call = inv[u].call
      BY <2>16 DEF ScanStripe, Invalidation
    <3>. QED
      BY <2>16, <3>1, <3>2 DEF ScanStripe, Goto
  <2>17. CASE DropInner(t)
    BY <2>17 DEF DropInner, Goto
  <2>18. CASE DropFront(t)
    BY <2>18 DEF DropFront, Goto
  <2>19. CASE DropDone(t)
    BY <2>19 DEF DropDone, Goto
  <2>20. CASE WipeIndex(t)
    BY <2>20 DEF WipeIndex, Goto
  <2>21. CASE WipeInner(t)
    BY <2>21 DEF WipeInner, Goto
  <2>22. CASE WipeFront(t)
    BY <2>22 DEF WipeFront, Goto
  <2>23. CASE InvalUngate(t)
    BY <2>23 DEF InvalUngate, Goto, Removed
  <2>24. CASE InvalReturn(t)
    BY <2>24 DEF InvalReturn, Goto
  <2>. QED
    BY <2>1, <2>2, <2>3, <2>4, <2>5, <2>6, <2>7, <2>8, <2>9, <2>10, <2>11, <2>12, <2>13,
       <2>14, <2>15, <2>16, <2>17, <2>18, <2>19, <2>20, <2>21, <2>22, <2>23, <2>24
       DEF InsertNext, InvalNext
<1>7. CASE Quiescent
  BY <1>7 DEF Quiescent, vars
<1>. QED
  BY <1>1, <1>2, <1>3, <1>4, <1>5, <1>6, <1>7 DEF Next, Listener

-----------------------------------------------------------------------------
(* The stripes: each has one holder at most. *)
LEMMA StripeStep == TypeOK /\ CallInv /\ StripeInv /\ [Next]_vars => StripeInv'
<1>. SUFFICES ASSUME TypeOK, CallInv, StripeInv, [Next]_vars PROVE StripeInv'
  OBVIOUS
<1>. USE L1Assumption DEF TypeOK, StripeInv, HoldsStripe, StripeSteps, GateSteps, DropSteps, tables, locks, stores
<1>1. CASE UNCHANGED vars
  BY <1>1 DEF vars
<1>2. CASE WriteData
  BY <1>2 DEF WriteData
<1>3. CASE Evict
  BY <1>3 DEF Evict
<1>4. ASSUME NEW n \in notices, prune_tags(n)  PROVE StripeInv'
  BY <1>4 DEF prune_tags
<1>5. ASSUME NEW n \in notices, remove_front(n)  PROVE StripeInv'
  BY <1>5 DEF remove_front
<1>6. ASSUME NEW t \in Threads
      PROVE  read_stamp(t) \/ Invalidate(t) \/ InsertNext(t) \/ InvalNext(t) => StripeInv'
  <2>1. CASE Render(t)
    BY <2>1 DEF Render, Goto
  <2>2. CASE InsertGate(t)
    BY <2>2 DEF InsertGate, Goto
  <2>3. CASE InsertStripe(t)
    BY <2>3 DEF InsertStripe, Goto
  <2>4. CASE InsertCheck(t)
    <3>. DEFINE s == shard_of(ins[t].key)
    <3>1. t \in stripes[s] /\ s \in Shards
      BY <2>4 DEF InsertCheck, Insert, FrontEntry
    <3>2. CASE InsertReturn(t)
      <4>1. stripes' = [stripes EXCEPT ![s] = {}] /\ pc' = [pc EXCEPT ![t] = "idle"]
            /\ ins' = [ins EXCEPT ![t] = NoInsert]
        BY <3>2 DEF InsertReturn, Goto
      <4>2. inv' = inv
        BY <2>4 DEF InsertCheck
      <4>3. \A u \in Threads : u # t => ~HoldsStripe(u, s)
        BY <3>1
      <4>4. \A r \in Shards : t \in stripes[r] => r = s
        BY <2>4 DEF InsertCheck
      <4>. HIDE DEF s
      <4>. QED  BY <3>1, <4>1, <4>2, <4>3, <4>4
    <3>3. CASE ~InsertReturn(t)
      <4>1. /\ ins' = [ins EXCEPT ![t].generation = next_generation]
            /\ pc' = [pc EXCEPT ![t] = "index"] /\ inv' = inv /\ stripes' = stripes
        BY <2>4, <3>3 DEF InsertCheck, Goto
      <4>2. \A u \in Threads : ins'[u].key = ins[u].key
        BY <4>1 DEF Insert, FrontEntry
      <4>. QED  BY <2>4, <4>1, <4>2 DEF InsertCheck
    <3>. QED  BY <3>2, <3>3
  <2>5. CASE index_tags(t)
    BY <2>5 DEF index_tags, Goto
  <2>6. CASE InsertFront(t)
    BY <2>6 DEF InsertFront, Goto
  <2>7. CASE InsertInner(t)
    BY <2>7 DEF InsertInner, Goto
  <2>8. CASE InsertLand(t)
    BY <2>8 DEF InsertLand, Goto, InsertReturn
  <2>9. CASE read_stamp(t)
    <3>1. \A u \in Threads : u # t => pc'[u] = pc[u] /\ ins'[u] = ins[u]
      BY <2>9 DEF read_stamp, Goto
    <3>2. pc[t] = "idle" /\ pc'[t] = "render"
      BY <2>9 DEF read_stamp, Goto
    <3>3. stripes' = stripes /\ inv' = inv
      BY <2>9 DEF read_stamp
    <3>. QED
      BY <3>1, <3>2, <3>3
  <2>10. CASE Invalidate(t)
    <3>1. \A u \in Threads : u # t => pc'[u] = pc[u] /\ inv'[u] = inv[u]
      BY <2>10 DEF Invalidate, Goto
    <3>2. pc[t] = "idle" /\ pc'[t] \in {"gate", "seq"}
      BY <2>10 DEF Invalidate, Goto
    <3>3. stripes' = stripes /\ ins' = ins
      BY <2>10 DEF Invalidate
    <3>. QED
      BY <3>1, <3>2, <3>3
  <2>11. CASE InvalGate(t)
    BY <2>11 DEF InvalGate, Goto
  <2>12. CASE next_inval(t)
    BY <2>12 DEF next_inval, Goto
  <2>13. CASE Publish(t)
    BY <2>13 DEF Publish, Goto
  <2>14. CASE take_tagged(t)
    BY <2>14 DEF take_tagged, Goto
  <2>15. CASE RemoveStripe(t)
    BY <2>15 DEF RemoveStripe, Goto
  <2>16. CASE ScanStripe(t)
    BY <2>16 DEF ScanStripe, Goto
  <2>17. CASE DropInner(t)
    BY <2>17 DEF DropInner, Goto
  <2>18. CASE DropFront(t)
    BY <2>18 DEF DropFront, Goto
  <2>19. CASE DropDone(t)
    BY <2>19 DEF DropDone, Goto
  <2>20. CASE WipeIndex(t)
    BY <2>20 DEF WipeIndex, Goto
  <2>21. CASE WipeInner(t)
    BY <2>21 DEF WipeInner, Goto
  <2>22. CASE WipeFront(t)
    BY <2>22 DEF WipeFront, Goto
  <2>23. CASE InvalUngate(t)
    BY <2>23 DEF InvalUngate, Goto, Removed
  <2>24. CASE InvalReturn(t)
    BY <2>24 DEF InvalReturn, Goto
  <2>. QED
    BY <2>1, <2>2, <2>3, <2>4, <2>5, <2>6, <2>7, <2>8, <2>9, <2>10, <2>11, <2>12, <2>13,
       <2>14, <2>15, <2>16, <2>17, <2>18, <2>19, <2>20, <2>21, <2>22, <2>23, <2>24
       DEF InsertNext, InvalNext
<1>7. CASE Quiescent
  BY <1>7 DEF Quiescent, vars
<1>. QED
  BY <1>1, <1>2, <1>3, <1>4, <1>5, <1>6, <1>7 DEF Next, Listener

LEMMA LockInit == Init => LockInv
BY L1Assumption DEF Init, LockInv, GateInv, StripeInv, CallInv, HoldsStripe, GateSteps,
   StripeSteps, ExclusiveSteps, DropSteps

(* The gate and the stripes exclude: no insert is between its check and    *)
(* its writes while a tag invalidation or a clear holds the gate, and two  *)
(* writers are never in one shard.                                         *)
THEOREM LocksExclude == Spec => []LockInv
<1>1. TypeOK /\ LockInv /\ [Next]_vars => LockInv'
  BY CallStep, GateStep, StripeStep DEF LockInv
<1>. QED
  BY <1>1, LockInit, TypeCorrect, PTL DEF Spec

-----------------------------------------------------------------------------
(* What two steps leave of a thread's locals. *)
LEMMA DropDoneFrame ==
    ASSUME TypeOK, NEW t \in Threads, DropDone(t)
    PROVE  \A u \in Threads : /\ inv'[u].call = inv[u].call /\ inv'[u].seq = inv[u].seq
                              /\ inv'[u].data = inv[u].data /\ inv'[u].keys = inv[u].keys
                              /\ inv'[u].batch = inv[u].batch /\ inv'[u].key = inv[u].key
                              /\ u # t => inv'[u] = inv[u]
<1>1. CASE inv' = inv
  BY <1>1
<1>2. CASE inv' = [inv EXCEPT ![t].shard = @ + 1]
  BY <1>2 DEF TypeOK, Invalidation
<1>. QED  BY <1>1, <1>2 DEF DropDone

(* The check of an insert: rejected, or passed with a new generation. *)
Rejected(t) ==
    /\ ins' = [ins EXCEPT ![t] = NoInsert]
    /\ pc' = [pc EXCEPT ![t] = "idle"]
    /\ next_generation' = next_generation

Passed(t) ==
    /\ ~invalidated_since(ins[t].key, ins[t].tags, ins[t].since)
    /\ pc[t] = "check" /\ pc'[t] = "index"
    /\ next_generation' = next_generation + 1
    /\ ins'[t].generation = next_generation
    /\ \A u \in Threads : /\ ins'[u].key = ins[u].key /\ ins'[u].tags = ins[u].tags
                          /\ ins'[u].since = ins[u].since /\ ins'[u].data = ins[u].data
                          /\ u # t => ins'[u] = ins[u] /\ pc'[u] = pc[u]

LEMMA InsertCheckFrame ==
    ASSUME TypeOK, NEW t \in Threads, InsertCheck(t)
    PROVE  Rejected(t) \/ Passed(t)
<1>1. CASE invalidated_since(ins[t].key, ins[t].tags, ins[t].since)
  BY <1>1 DEF InsertCheck, InsertReturn, Goto, Rejected
<1>2. CASE ~invalidated_since(ins[t].key, ins[t].tags, ins[t].since)
  <2>1. /\ ins' = [ins EXCEPT ![t].generation = next_generation]
        /\ next_generation' = next_generation + 1
        /\ pc[t] = "check" /\ pc' = [pc EXCEPT ![t] = "index"]
    BY <1>2 DEF InsertCheck, Goto
  <2>. QED  BY <1>2, <2>1 DEF TypeOK, Insert, FrontEntry, Passed
<1>. QED  BY <1>1, <1>2

-----------------------------------------------------------------------------
(* A generation in flight is in neither moka nor a notice. *)
LEMMA GenerationStep == TypeOK /\ GenerationInv /\ [Next]_vars => GenerationInv'
<1>. SUFFICES ASSUME TypeOK, GenerationInv, [Next]_vars PROVE GenerationInv'
  OBVIOUS
<1>. USE L1Assumption DEF TypeOK, GenerationInv, InFlight, InsertSteps, InvalSteps, tables, locks, stores
<1>1. CASE UNCHANGED vars
  BY <1>1 DEF vars
<1>2. CASE WriteData
  BY <1>2 DEF WriteData
<1>3. CASE Evict
  <2>1. \A n \in notices' : n \in notices \/ n.slot \in inner
    BY <1>3 DEF Evict, Notify
  <2>2. inner' \subseteq inner /\ pc' = pc /\ ins' = ins /\ next_generation' = next_generation
    BY <1>3 DEF Evict
  <2>. QED  BY <2>1, <2>2
<1>4. ASSUME NEW n \in notices, prune_tags(n)  PROVE GenerationInv'
  <2>1. \A m \in notices' : \E o \in notices : m.slot = o.slot
    BY <1>4 DEF prune_tags, Notice
  <2>. QED  BY <1>4, <2>1 DEF prune_tags
<1>5. ASSUME NEW n \in notices, remove_front(n)  PROVE GenerationInv'
  BY <1>5 DEF remove_front
<1>6. ASSUME NEW t \in Threads
      PROVE  read_stamp(t) \/ Invalidate(t) \/ InsertNext(t) \/ InvalNext(t) => GenerationInv'
  <2>1. CASE Render(t)
    BY <2>1 DEF Render, Goto
  <2>2. CASE InsertGate(t)
    BY <2>2 DEF InsertGate, Goto
  <2>3. CASE InsertStripe(t)
    BY <2>3 DEF InsertStripe, Goto
  <2>4. CASE InsertCheck(t)
    <3>. HIDE DEF TypeOK
    <3>0. Rejected(t) \/ Passed(t)
      BY <2>4, InsertCheckFrame
    <3>1. inner' = inner /\ notices' = notices /\ pc[t] = "check"
      BY <2>4 DEF InsertCheck
    <3>2. /\ next_generation \in Nat /\ \A s \in inner : s.generation \in Nat
          /\ \A n \in notices : n.slot.generation \in Nat
          /\ \A u \in Threads : ins[u].generation \in Nat
      BY DEF Slot, Notice, Insert, FrontEntry, TypeOK
    <3>8. CASE Rejected(t)
      BY <3>8, <3>1, <3>2 DEF Rejected, TypeOK
    <3>9. CASE Passed(t)
      BY <3>9, <3>1, <3>2 DEF Passed
    <3>. QED  BY <3>0, <3>8, <3>9
  <2>5. CASE index_tags(t)
    BY <2>5 DEF index_tags, Goto
  <2>6. CASE InsertFront(t)
    BY <2>6 DEF InsertFront, Goto
  <2>7. CASE InsertInner(t)
    <3>. DEFINE new == [key |-> ins[t].key, tags |-> ins[t].tags,
                        generation |-> ins[t].generation]
    <3>1. \A n \in notices' : n \in notices \/ n.slot \in inner
      BY <2>7 DEF InsertInner, Notify
    <3>2. \A s \in inner' : s \in inner \/ s.generation = ins[t].generation
      BY <2>7 DEF InsertInner
    <3>3. pc[t] = "inner" /\ pc' = [pc EXCEPT ![t] = "land"]
          /\ ins' = ins /\ next_generation' = next_generation
      BY <2>7 DEF InsertInner, Goto
    <3>. QED  BY <3>1, <3>2, <3>3
  <2>8. CASE InsertLand(t)
    BY <2>8 DEF InsertLand, Goto, InsertReturn
  <2>9. CASE read_stamp(t)
    BY <2>9 DEF read_stamp, Goto
  <2>10. CASE Invalidate(t)
    BY <2>10 DEF Invalidate, Goto
  <2>11. CASE InvalGate(t)
    BY <2>11 DEF InvalGate, Goto
  <2>12. CASE next_inval(t)
    BY <2>12 DEF next_inval, Goto
  <2>13. CASE Publish(t)
    BY <2>13 DEF Publish, Goto
  <2>14. CASE take_tagged(t)
    BY <2>14 DEF take_tagged, Goto
  <2>15. CASE RemoveStripe(t)
    BY <2>15 DEF RemoveStripe, Goto
  <2>16. CASE ScanStripe(t)
    BY <2>16 DEF ScanStripe, Goto
  <2>17. CASE DropInner(t)
    <3>1. \A n \in notices' : n \in notices \/ n.slot \in inner
      BY <2>17 DEF DropInner, Notify
    <3>2. inner' \subseteq inner
      BY <2>17 DEF DropInner
    <3>3. pc'[t] \notin InFlight /\ \A u \in Threads : u # t => pc'[u] = pc[u]
      BY <2>17 DEF DropInner, Goto
    <3>4. ins' = ins /\ next_generation' = next_generation
      BY <2>17 DEF DropInner
    <3>. QED  BY <3>1, <3>2, <3>3, <3>4
  <2>18. CASE DropFront(t)
    BY <2>18 DEF DropFront, Goto
  <2>19. CASE DropDone(t)
    BY <2>19 DEF DropDone, Goto
  <2>20. CASE WipeIndex(t)
    BY <2>20 DEF WipeIndex, Goto
  <2>21. CASE WipeInner(t)
    <3>1. \A n \in notices' : n \in notices \/ n.slot \in inner
      BY <2>21 DEF WipeInner, Notify
    <3>2. inner' \subseteq inner
      BY <2>21 DEF WipeInner
    <3>3. pc'[t] \notin InFlight /\ \A u \in Threads : u # t => pc'[u] = pc[u]
      BY <2>21 DEF WipeInner, Goto
    <3>4. ins' = ins /\ next_generation' = next_generation
      BY <2>21 DEF WipeInner
    <3>. QED  BY <3>1, <3>2, <3>3, <3>4
  <2>22. CASE WipeFront(t)
    BY <2>22 DEF WipeFront, Goto
  <2>23. CASE InvalUngate(t)
    BY <2>23 DEF InvalUngate, Goto, Removed
  <2>24. CASE InvalReturn(t)
    BY <2>24 DEF InvalReturn, Goto
  <2>. QED
    BY <2>1, <2>2, <2>3, <2>4, <2>5, <2>6, <2>7, <2>8, <2>9, <2>10, <2>11, <2>12, <2>13,
       <2>14, <2>15, <2>16, <2>17, <2>18, <2>19, <2>20, <2>21, <2>22, <2>23, <2>24
       DEF InsertNext, InvalNext
<1>7. CASE Quiescent
  BY <1>7 DEF Quiescent, vars
<1>. QED
  BY <1>1, <1>2, <1>3, <1>4, <1>5, <1>6, <1>7 DEF Next, Listener

-----------------------------------------------------------------------------

(* A step of thread `t` leaves the other threads and their gate alone. *)
Only(t) ==
    \A u \in Threads : u # t =>
        /\ pc'[u] = pc[u] /\ ins'[u] = ins[u] /\ inv'[u] = inv[u]
        /\ u \in gate'.shared <=> u \in gate.shared
        /\ u \in gate'.exclusive <=> u \in gate.exclusive

LEMMA OneThread ==
    ASSUME TypeOK, NEW t \in Threads,
           read_stamp(t) \/ Invalidate(t) \/ InsertNext(t) \/ InvalNext(t)
    PROVE  Only(t)
<1>. USE DEF TypeOK, Only, locks
<1>1. CASE Render(t)
  BY <1>1 DEF Render, Goto
<1>2. CASE InsertGate(t)
  BY <1>2 DEF InsertGate, Goto
<1>3. CASE InsertStripe(t)
  BY <1>3 DEF InsertStripe, Goto
<1>4. CASE InsertCheck(t)
  BY <1>4 DEF InsertCheck, Goto, InsertReturn
<1>5. CASE index_tags(t)
  BY <1>5 DEF index_tags, Goto
<1>6. CASE InsertFront(t)
  BY <1>6 DEF InsertFront, Goto
<1>7. CASE InsertInner(t)
  BY <1>7 DEF InsertInner, Goto
<1>8. CASE InsertLand(t)
  BY <1>8 DEF InsertLand, Goto, InsertReturn
<1>9. CASE read_stamp(t)
  BY <1>9 DEF read_stamp, Goto
<1>10. CASE Invalidate(t)
  BY <1>10 DEF Invalidate, Goto
<1>11. CASE InvalGate(t)
  BY <1>11 DEF InvalGate, Goto
<1>12. CASE next_inval(t)
  BY <1>12 DEF next_inval, Goto
<1>13. CASE Publish(t)
  BY <1>13 DEF Publish, Goto
<1>14. CASE take_tagged(t)
  BY <1>14 DEF take_tagged, Goto
<1>15. CASE RemoveStripe(t)
  BY <1>15 DEF RemoveStripe, Goto
<1>16. CASE ScanStripe(t)
  BY <1>16 DEF ScanStripe, Goto
<1>17. CASE DropInner(t)
  BY <1>17 DEF DropInner, Goto
<1>18. CASE DropFront(t)
  BY <1>18 DEF DropFront, Goto
<1>19. CASE DropDone(t)
  BY <1>19 DEF DropDone, Goto
<1>20. CASE WipeIndex(t)
  BY <1>20 DEF WipeIndex, Goto
<1>21. CASE WipeInner(t)
  BY <1>21 DEF WipeInner, Goto
<1>22. CASE WipeFront(t)
  BY <1>22 DEF WipeFront, Goto
<1>23. CASE InvalUngate(t)
  BY <1>23 DEF InvalUngate, Goto, Removed
<1>24. CASE InvalReturn(t)
  BY <1>24 DEF InvalReturn, Goto
<1>. QED
  BY <1>1, <1>2, <1>3, <1>4, <1>5, <1>6, <1>7, <1>8, <1>9, <1>10, <1>11, <1>12, <1>13,
     <1>14, <1>15, <1>16, <1>17, <1>18, <1>19, <1>20, <1>21, <1>22, <1>23, <1>24
     DEF InsertNext, InvalNext

-----------------------------------------------------------------------------
(* An insert about to write the front is indexed under its tags. *)
LEMMA OwnTagsStep == TypeOK /\ LockInv /\ GenerationInv /\ OwnTagsIndexed /\ [Next]_vars => OwnTagsIndexed'
<1>. SUFFICES ASSUME TypeOK, LockInv, GenerationInv, OwnTagsIndexed, [Next]_vars PROVE OwnTagsIndexed'
  OBVIOUS
<1>. USE L1Assumption DEF TypeOK, tables, locks, stores, OwnTagsIndexed
<1>1. CASE UNCHANGED vars
  BY <1>1 DEF vars
<1>2. CASE WriteData
  BY <1>2 DEF WriteData
<1>3. CASE Evict
  BY <1>3 DEF Evict
<1>4. ASSUME NEW n \in notices, prune_tags(n)  PROVE OwnTagsIndexed'
  <2>1. \A u \in Threads : pc[u] = "front" => n.slot.generation # ins[u].generation
    BY DEF GenerationInv, InFlight
  <2>. QED  BY <1>4, <2>1 DEF prune_tags, PruneFrom
<1>5. ASSUME NEW n \in notices, remove_front(n)  PROVE OwnTagsIndexed'
  BY <1>5 DEF remove_front
<1>6. ASSUME NEW t \in Threads
      PROVE  read_stamp(t) \/ Invalidate(t) \/ InsertNext(t) \/ InvalNext(t) => OwnTagsIndexed'
  <2>1. CASE Render(t)
    BY <2>1 DEF Render, Goto
  <2>2. CASE InsertGate(t)
    BY <2>2 DEF InsertGate, Goto
  <2>3. CASE InsertStripe(t)
    BY <2>3 DEF InsertStripe, Goto
  <2>4. CASE InsertCheck(t)
    BY <2>4 DEF InsertCheck, Goto, InsertReturn
  <2>5. CASE index_tags(t)
    <3>1. \A u \in Threads : pc[u] = "front" => u # t /\ ins[u].key # ins[t].key
      <4>. SUFFICES ASSUME NEW u \in Threads, pc[u] = "front", ins[u].key = ins[t].key
                    PROVE  FALSE
        BY <2>5 DEF index_tags
      <4>. DEFINE s == shard_of(ins[t].key)
      <4>1. s \in Shards
        BY DEF Insert, FrontEntry
      <4>2. u \in stripes[s] /\ t \in stripes[s]
        BY <2>5, <4>1 DEF index_tags, LockInv, StripeInv, HoldsStripe, StripeSteps, GateSteps
      <4>. QED  BY <2>5, <4>1, <4>2 DEF index_tags, LockInv, StripeInv
    <3>2. /\ \A g \in ins[t].tags : [tag |-> g, key |-> ins[t].key,
                                      generation |-> ins[t].generation] \in tag_index'
          /\ \A x \in tag_index : x.key # ins[t].key => x \in tag_index'
      BY <2>5 DEF index_tags
    <3>. QED  BY <2>5, <3>1, <3>2 DEF index_tags, Goto
  <2>6. CASE InsertFront(t)
    BY <2>6 DEF InsertFront, Goto
  <2>7. CASE InsertInner(t)
    BY <2>7 DEF InsertInner, Goto
  <2>8. CASE InsertLand(t)
    BY <2>8 DEF InsertLand, Goto, InsertReturn
  <2>9. CASE read_stamp(t)
    BY <2>9 DEF read_stamp, Goto
  <2>10. CASE Invalidate(t)
    BY <2>10 DEF Invalidate, Goto
  <2>11. CASE InvalGate(t)
    BY <2>11 DEF InvalGate, Goto
  <2>12. CASE next_inval(t)
    BY <2>12 DEF next_inval, Goto
  <2>13. CASE Publish(t)
    BY <2>13 DEF Publish, Goto
  <2>14. CASE take_tagged(t)
    <3>1. \A u \in Threads : pc[u] # "front"
      BY <2>14 DEF take_tagged, LockInv, GateInv, GateSteps, CallInv, ExclusiveSteps, Exclusive
    <3>. QED  BY <2>14, <3>1 DEF take_tagged, Goto
  <2>15. CASE RemoveStripe(t)
    BY <2>15 DEF RemoveStripe, Goto
  <2>16. CASE ScanStripe(t)
    BY <2>16 DEF ScanStripe, Goto
  <2>17. CASE DropInner(t)
    BY <2>17 DEF DropInner, Goto
  <2>18. CASE DropFront(t)
    BY <2>18 DEF DropFront, Goto
  <2>19. CASE DropDone(t)
    BY <2>19 DEF DropDone, Goto
  <2>20. CASE WipeIndex(t)
    <3>1. \A u \in Threads : pc[u] # "front"
      BY <2>20 DEF WipeIndex, LockInv, GateInv, GateSteps, CallInv, ExclusiveSteps, Exclusive
    <3>. QED  BY <2>20, <3>1 DEF WipeIndex, Goto
  <2>21. CASE WipeInner(t)
    BY <2>21 DEF WipeInner, Goto
  <2>22. CASE WipeFront(t)
    BY <2>22 DEF WipeFront, Goto
  <2>23. CASE InvalUngate(t)
    BY <2>23 DEF InvalUngate, Goto, Removed
  <2>24. CASE InvalReturn(t)
    BY <2>24 DEF InvalReturn, Goto
  <2>. QED
    BY <2>1, <2>2, <2>3, <2>4, <2>5, <2>6, <2>7, <2>8, <2>9, <2>10, <2>11, <2>12, <2>13,
       <2>14, <2>15, <2>16, <2>17, <2>18, <2>19, <2>20, <2>21, <2>22, <2>23, <2>24
       DEF InsertNext, InvalNext
<1>7. CASE Quiescent
  BY <1>7 DEF Quiescent, vars
<1>. QED
  BY <1>1, <1>2, <1>3, <1>4, <1>5, <1>6, <1>7 DEF Next, Listener

-----------------------------------------------------------------------------
(* A clear leaves no page in the shards it has wiped. *)
LEMMA WipedStep == TypeOK /\ LockInv /\ WipedShardsEmpty /\ [Next]_vars => WipedShardsEmpty'
<1>. SUFFICES ASSUME TypeOK, LockInv, WipedShardsEmpty, [Next]_vars PROVE WipedShardsEmpty'
  OBVIOUS
<1>. USE L1Assumption DEF TypeOK, tables, locks, stores, WipedShardsEmpty
<1>1. CASE UNCHANGED vars
  BY <1>1 DEF vars
<1>2. CASE WriteData
  BY <1>2 DEF WriteData
<1>3. CASE Evict
  BY <1>3 DEF Evict
<1>4. ASSUME NEW n \in notices, prune_tags(n)  PROVE WipedShardsEmpty'
  BY <1>4 DEF prune_tags
<1>5. ASSUME NEW n \in notices, remove_front(n)  PROVE WipedShardsEmpty'
  BY <1>5 DEF remove_front
<1>6. ASSUME NEW t \in Threads
      PROVE  read_stamp(t) \/ Invalidate(t) \/ InsertNext(t) \/ InvalNext(t) => WipedShardsEmpty'
  <2>1. CASE Render(t)
    BY <2>1 DEF Render, Goto
  <2>2. CASE InsertGate(t)
    BY <2>2 DEF InsertGate, Goto
  <2>3. CASE InsertStripe(t)
    BY <2>3 DEF InsertStripe, Goto
  <2>4. CASE InsertCheck(t)
    BY <2>4 DEF InsertCheck, Goto, InsertReturn
  <2>5. CASE index_tags(t)
    BY <2>5 DEF index_tags, Goto
  <2>6. CASE InsertFront(t)
    <3>1. \A u \in Threads : pc[u] # "wipe_front"
      <4>1. t \in gate.shared
        BY <2>6 DEF InsertFront, LockInv, GateInv, GateSteps
      <4>. QED  BY <4>1 DEF LockInv, GateInv, CallInv, ExclusiveSteps, Exclusive
    <3>. QED  BY <2>6, <3>1 DEF InsertFront, Goto
  <2>7. CASE InsertInner(t)
    BY <2>7 DEF InsertInner, Goto
  <2>8. CASE InsertLand(t)
    BY <2>8 DEF InsertLand, Goto, InsertReturn
  <2>9. CASE read_stamp(t)
    BY <2>9 DEF read_stamp, Goto
  <2>10. CASE Invalidate(t)
    BY <2>10 DEF Invalidate, Goto
  <2>11. CASE InvalGate(t)
    BY <2>11 DEF InvalGate, Goto
  <2>12. CASE next_inval(t)
    BY <2>12 DEF next_inval, Goto
  <2>13. CASE Publish(t)
    BY <2>13 DEF Publish, Goto
  <2>14. CASE take_tagged(t)
    BY <2>14 DEF take_tagged, Goto
  <2>15. CASE RemoveStripe(t)
    BY <2>15 DEF RemoveStripe, Goto
  <2>16. CASE ScanStripe(t)
    BY <2>16 DEF ScanStripe, Goto
  <2>17. CASE DropInner(t)
    BY <2>17 DEF DropInner, Goto
  <2>18. CASE DropFront(t)
    BY <2>18 DEF DropFront, Goto
  <2>19. CASE DropDone(t)
    BY <2>19 DEF DropDone, Goto
  <2>20. CASE WipeIndex(t)
    BY <2>20 DEF WipeIndex, Goto
  <2>21. CASE WipeInner(t)
    <3>1. inv[t].shard = 0
      BY <2>21 DEF WipeInner, LockInv, CallInv
    <3>2. \A e \in front : shard_of(e.key) >= 0
      BY DEF FrontEntry, Shards
    <3>. QED  BY <2>21, <3>1, <3>2 DEF WipeInner, Goto
  <2>22. CASE WipeFront(t)
    <3>0. Shards \subseteq Nat /\ 0 .. SHARDS \subseteq Nat
      BY DEF Shards
    <3>1. /\ \A e \in front : shard_of(e.key) \in Nat
          /\ inv[t].shard \in Nat
      BY <3>0 DEF FrontEntry, Invalidation
    <3>2. inv'[t].shard = inv[t].shard + 1 /\ \A u \in Threads : u # t => inv'[u] = inv[u]
      BY <2>22 DEF WipeFront, Invalidation
    <3>. QED  BY <2>22, <3>1, <3>2 DEF WipeFront
  <2>23. CASE InvalUngate(t)
    BY <2>23 DEF InvalUngate, Goto, Removed
  <2>24. CASE InvalReturn(t)
    BY <2>24 DEF InvalReturn, Goto
  <2>. QED
    BY <2>1, <2>2, <2>3, <2>4, <2>5, <2>6, <2>7, <2>8, <2>9, <2>10, <2>11, <2>12, <2>13,
       <2>14, <2>15, <2>16, <2>17, <2>18, <2>19, <2>20, <2>21, <2>22, <2>23, <2>24
       DEF InsertNext, InvalNext
<1>7. CASE Quiescent
  BY <1>7 DEF Quiescent, vars
<1>. QED
  BY <1>1, <1>2, <1>3, <1>4, <1>5, <1>6, <1>7 DEF Next, Listener

-----------------------------------------------------------------------------
(* The page `e` is indexed under its tag `g`, or on its way out. *)
Found(e, g) ==
    \/ [tag |-> g, key |-> e.key, generation |-> e.generation] \in tag_index
    \/ Dropping(e, {"front"}, Threads \cup {Maintenance})
    \/ BeingRemoved(e)
    \/ BeingReplaced(e)

(* A step of `t` takes no page out of another thread's hands. *)
LEMMA HandsKept ==
    ASSUME TypeOK, NEW t \in Threads, Only(t), NEW e
    PROVE  /\ BeingRemoved(e) => BeingRemoved(e)' \/ (t \in gate.exclusive /\ Removing(t, e))
           /\ BeingReplaced(e) => BeingReplaced(e)' \/ (pc[t] = "front" /\ ins[t].key = e.key)
<1>1. \A u \in gate.exclusive : u \in Threads
  BY DEF TypeOK
<1>2. \A u \in gate.shared : u \in Threads
  BY DEF TypeOK
<1>3. \A u \in Threads : u # t /\ u \in gate.exclusive /\ Removing(u, e) => BeingRemoved(e)'
  BY DEF Only, BeingRemoved, Removing
<1>4. \A u \in Threads : u # t /\ u \in gate.shared /\ pc[u] = "front" /\ ins[u].key = e.key
                         => BeingReplaced(e)'
  BY DEF Only, BeingReplaced
<1>. QED  BY <1>1, <1>2, <1>3, <1>4 DEF BeingRemoved, BeingReplaced

(* A step that adds no page and takes nothing that leads to one. *)
LEMMA LiveKept ==
    ASSUME LiveEntriesIndexed, front' \subseteq front, tag_index \subseteq tag_index',
           \A n \in notices : n.step = "front" => n \in notices',
           \A e \in front' : /\ BeingRemoved(e) => BeingRemoved(e)'
                             /\ BeingReplaced(e) => BeingReplaced(e)'
    PROVE  LiveEntriesIndexed'
<1>. SUFFICES ASSUME NEW e \in front', NEW g \in e.tags
              PROVE  Found(e, g)'
  BY DEF LiveEntriesIndexed, Found
<1>1. Found(e, g)
  BY DEF LiveEntriesIndexed, Found
<1>2. Dropping(e, {"front"}, Threads \cup {Maintenance})
      => Dropping(e, {"front"}, Threads \cup {Maintenance})'
  BY DEF Dropping
<1>. QED  BY <1>1, <1>2 DEF Found

-----------------------------------------------------------------------------
(* A live page is found by its tags. *)
LEMMA LiveStep == TypeOK /\ LockInv /\ OwnTagsIndexed /\ WipedShardsEmpty /\ LiveEntriesIndexed /\ [Next]_vars => LiveEntriesIndexed'
<1>. SUFFICES ASSUME TypeOK, LockInv, OwnTagsIndexed, WipedShardsEmpty, LiveEntriesIndexed, [Next]_vars PROVE LiveEntriesIndexed'
  OBVIOUS
<1>. USE L1Assumption DEF TypeOK, tables, locks, stores
<1>1. CASE UNCHANGED vars
  <2>1. /\ front' = front /\ tag_index' = tag_index /\ notices' = notices
        /\ gate' = gate /\ pc' = pc /\ ins' = ins /\ inv' = inv
    BY <1>1 DEF vars
  <2>. QED  BY <2>1 DEF LiveEntriesIndexed, Dropping, BeingRemoved, Removing, BeingReplaced
<1>2. CASE WriteData
  <2>1. /\ front' = front /\ tag_index' = tag_index /\ notices' = notices
        /\ gate' = gate /\ pc' = pc /\ ins' = ins /\ inv' = inv
    BY <1>2 DEF WriteData
  <2>. QED  BY <2>1 DEF LiveEntriesIndexed, Dropping, BeingRemoved, Removing, BeingReplaced
<1>3. CASE Evict
  <2>1. /\ front' = front /\ tag_index' = tag_index /\ notices \subseteq notices'
        /\ gate' = gate /\ pc' = pc /\ ins' = ins /\ inv' = inv
    BY <1>3 DEF Evict, Notify
  <2>2. \A e \in front' : /\ BeingRemoved(e) => BeingRemoved(e)'
                          /\ BeingReplaced(e) => BeingReplaced(e)'
    BY <2>1 DEF BeingRemoved, Removing, BeingReplaced
  <2>. QED  BY <2>1, <2>2, LiveKept
<1>4. ASSUME NEW n \in notices, prune_tags(n)  PROVE LiveEntriesIndexed'
  <2>1. /\ front' = front /\ gate' = gate /\ pc' = pc /\ ins' = ins /\ inv' = inv
        /\ tag_index' = PruneFrom(tag_index, n.slot) /\ n.step = "prune"
        /\ notices' = (notices \ {n}) \cup {[n EXCEPT !.step = "front"]}
    BY <1>4 DEF prune_tags
  <2>. SUFFICES ASSUME NEW e \in front', NEW g \in e.tags
                PROVE  Found(e, g)'
    BY DEF LiveEntriesIndexed, Found
  <2>2. Found(e, g)
    BY <2>1 DEF LiveEntriesIndexed, Found
  <2>3. /\ BeingRemoved(e) => BeingRemoved(e)'
        /\ BeingReplaced(e) => BeingReplaced(e)'
    BY <2>1 DEF BeingRemoved, Removing, BeingReplaced
  <2>4. Dropping(e, {"front"}, Threads \cup {Maintenance})
        => Dropping(e, {"front"}, Threads \cup {Maintenance})'
    BY <2>1 DEF Dropping
  <2>5. CASE e.key = n.slot.key /\ e.generation = n.slot.generation
    <3>. DEFINE m == [n EXCEPT !.step = "front"]
    <3>1. m \in notices' /\ m.slot = n.slot /\ m.step = "front" /\ m.by \in Threads \cup {Maintenance}
      BY <2>1 DEF Notice
    <3>. HIDE DEF m
    <3>. QED  BY <2>5, <3>1 DEF Found, Dropping
  <2>6. CASE ~(e.key = n.slot.key /\ e.generation = n.slot.generation)
    <3>. DEFINE x == [tag |-> g, key |-> e.key, generation |-> e.generation]
    <3>1. x \in tag_index => x \in tag_index'
      BY <2>1, <2>6 DEF PruneFrom
    <3>. QED  BY <2>2, <2>3, <2>4, <3>1 DEF Found
  <2>. QED  BY <2>5, <2>6
<1>5. ASSUME NEW n \in notices, remove_front(n)  PROVE LiveEntriesIndexed'
  <2>1. /\ front' = {e \in front : ~(e.key = n.slot.key /\ e.generation = n.slot.generation)}
        /\ gate' = gate /\ pc' = pc /\ ins' = ins /\ inv' = inv
        /\ tag_index' = tag_index /\ notices' = notices \ {n}
    BY <1>5 DEF remove_front
  <2>. SUFFICES ASSUME NEW e \in front', NEW g \in e.tags
                PROVE  Found(e, g)'
    BY DEF LiveEntriesIndexed, Found
  <2>2. Found(e, g)
    BY <2>1 DEF LiveEntriesIndexed, Found
  <2>3. /\ BeingRemoved(e) => BeingRemoved(e)'
        /\ BeingReplaced(e) => BeingReplaced(e)'
    BY <2>1 DEF BeingRemoved, Removing, BeingReplaced
  <2>4. Dropping(e, {"front"}, Threads \cup {Maintenance})
        => Dropping(e, {"front"}, Threads \cup {Maintenance})'
    BY <2>1 DEF Dropping
  <2>. QED  BY <2>1, <2>2, <2>3, <2>4 DEF Found
<1>6. ASSUME NEW t \in Threads
      PROVE  read_stamp(t) \/ Invalidate(t) \/ InsertNext(t) \/ InvalNext(t) => LiveEntriesIndexed'
  <2>. SUFFICES ASSUME read_stamp(t) \/ Invalidate(t) \/ InsertNext(t) \/ InvalNext(t)
                PROVE  LiveEntriesIndexed'
    OBVIOUS
  <2>0. Only(t)
    BY OneThread
  <2>1. CASE Render(t)
    <3>1. front' \subseteq front /\ tag_index \subseteq tag_index' /\ pc[t] # "front"
          /\ \A n \in notices : n.step = "front" => n \in notices'
      BY <2>1 DEF Render
    <3>2. t \in gate.exclusive => \A e \in front' : Removing(t, e) => BeingRemoved(e)'
      BY <2>1 DEF Render, LockInv, CallInv, GateInv, ExclusiveSteps, DropSteps, Removing
    <3>. QED  BY <2>0, <3>1, <3>2, HandsKept, LiveKept
  <2>2. CASE InsertGate(t)
    <3>1. front' \subseteq front /\ tag_index \subseteq tag_index' /\ pc[t] # "front"
          /\ \A n \in notices : n.step = "front" => n \in notices'
      BY <2>2 DEF InsertGate
    <3>2. t \in gate.exclusive => \A e \in front' : Removing(t, e) => BeingRemoved(e)'
      BY <2>2 DEF InsertGate, LockInv, CallInv, GateInv, ExclusiveSteps, DropSteps, Removing
    <3>. QED  BY <2>0, <3>1, <3>2, HandsKept, LiveKept
  <2>3. CASE InsertStripe(t)
    <3>1. front' \subseteq front /\ tag_index \subseteq tag_index' /\ pc[t] # "front"
          /\ \A n \in notices : n.step = "front" => n \in notices'
      BY <2>3 DEF InsertStripe
    <3>2. t \in gate.exclusive => \A e \in front' : Removing(t, e) => BeingRemoved(e)'
      BY <2>3 DEF InsertStripe, LockInv, CallInv, GateInv, ExclusiveSteps, DropSteps, Removing
    <3>. QED  BY <2>0, <3>1, <3>2, HandsKept, LiveKept
  <2>4. CASE InsertCheck(t)
    <3>1. front' \subseteq front /\ tag_index \subseteq tag_index' /\ pc[t] # "front"
          /\ \A n \in notices : n.step = "front" => n \in notices'
      BY <2>4 DEF InsertCheck, InsertReturn
    <3>2. t \in gate.exclusive => \A e \in front' : Removing(t, e) => BeingRemoved(e)'
      BY <2>4 DEF InsertCheck, LockInv, CallInv, GateInv, ExclusiveSteps, DropSteps, Removing
    <3>. QED  BY <2>0, <3>1, <3>2, HandsKept, LiveKept
  <2>5. CASE index_tags(t)
    <3>1. /\ front' = front /\ notices' = notices /\ gate' = gate /\ ins' = ins
          /\ pc[t] = "index" /\ pc'[t] = "front"
          /\ \A x \in tag_index : x.key # ins[t].key => x \in tag_index'
      BY <2>5 DEF index_tags, Goto
    <3>2. t \in gate.shared /\ t \notin gate.exclusive
      BY <3>1 DEF LockInv, GateInv, GateSteps
    <3>. SUFFICES ASSUME NEW e \in front', NEW g \in e.tags
                  PROVE  Found(e, g)'
      BY DEF LiveEntriesIndexed, Found
    <3>3. Found(e, g)
      BY <3>1 DEF LiveEntriesIndexed, Found
    <3>4. CASE e.key = ins[t].key
      BY <3>1, <3>2, <3>4 DEF Found, BeingReplaced
    <3>5. CASE e.key # ins[t].key
      <4>1. BeingRemoved(e) => BeingRemoved(e)'
        BY <2>0, <3>2, HandsKept
      <4>2. BeingReplaced(e) => BeingReplaced(e)'
        BY <2>0, <3>1, HandsKept
      <4>. QED  BY <3>1, <3>3, <3>5, <4>1, <4>2 DEF Found, Dropping
    <3>. QED  BY <3>4, <3>5
  <2>6. CASE InsertFront(t)
    <3>1. /\ front' = {e \in front : e.key # ins[t].key} \cup {ins[t]}
          /\ tag_index' = tag_index /\ notices' = notices /\ pc[t] = "front"
      BY <2>6 DEF InsertFront
    <3>2. t \notin gate.exclusive
      BY <3>1 DEF LockInv, GateInv, ExclusiveSteps, DropSteps
    <3>. SUFFICES ASSUME NEW e \in front', NEW g \in e.tags
                  PROVE  Found(e, g)'
      BY DEF LiveEntriesIndexed, Found
    <3>3. CASE e = ins[t]
      BY <3>1, <3>3 DEF OwnTagsIndexed, Found
    <3>4. CASE e \in front /\ e.key # ins[t].key
      <4>1. Found(e, g)
        BY <3>4 DEF LiveEntriesIndexed, Found
      <4>2. BeingRemoved(e) => BeingRemoved(e)'
        BY <2>0, <3>2, HandsKept
      <4>3. BeingReplaced(e) => BeingReplaced(e)'
        BY <2>0, <3>4, HandsKept
      <4>. QED  BY <3>1, <4>1, <4>2, <4>3 DEF Found, Dropping
    <3>. QED  BY <3>1, <3>3, <3>4
  <2>7. CASE InsertInner(t)
    <3>1. front' \subseteq front /\ tag_index \subseteq tag_index' /\ pc[t] # "front"
          /\ \A n \in notices : n.step = "front" => n \in notices'
      BY <2>7 DEF InsertInner, Notify
    <3>2. t \in gate.exclusive => \A e \in front' : Removing(t, e) => BeingRemoved(e)'
      BY <2>7 DEF InsertInner, LockInv, CallInv, GateInv, ExclusiveSteps, DropSteps, Removing
    <3>. QED  BY <2>0, <3>1, <3>2, HandsKept, LiveKept
  <2>8. CASE InsertLand(t)
    <3>1. front' \subseteq front /\ tag_index \subseteq tag_index' /\ pc[t] # "front"
          /\ \A n \in notices : n.step = "front" => n \in notices'
      BY <2>8 DEF InsertLand, InsertReturn
    <3>2. t \in gate.exclusive => \A e \in front' : Removing(t, e) => BeingRemoved(e)'
      BY <2>8 DEF InsertLand, LockInv, CallInv, GateInv, ExclusiveSteps, DropSteps, Removing
    <3>. QED  BY <2>0, <3>1, <3>2, HandsKept, LiveKept
  <2>9. CASE read_stamp(t)
    <3>1. front' \subseteq front /\ tag_index \subseteq tag_index' /\ pc[t] # "front"
          /\ \A n \in notices : n.step = "front" => n \in notices'
      BY <2>9 DEF read_stamp
    <3>2. t \in gate.exclusive => \A e \in front' : Removing(t, e) => BeingRemoved(e)'
      BY <2>9 DEF read_stamp, LockInv, CallInv, GateInv, ExclusiveSteps, DropSteps, Removing
    <3>. QED  BY <2>0, <3>1, <3>2, HandsKept, LiveKept
  <2>10. CASE Invalidate(t)
    <3>1. front' \subseteq front /\ tag_index \subseteq tag_index' /\ pc[t] # "front"
          /\ \A n \in notices : n.step = "front" => n \in notices'
      BY <2>10 DEF Invalidate
    <3>2. t \in gate.exclusive => \A e \in front' : Removing(t, e) => BeingRemoved(e)'
      BY <2>10 DEF Invalidate, LockInv, CallInv, GateInv, ExclusiveSteps, DropSteps, Removing
    <3>. QED  BY <2>0, <3>1, <3>2, HandsKept, LiveKept
  <2>11. CASE InvalGate(t)
    <3>1. front' \subseteq front /\ tag_index \subseteq tag_index' /\ pc[t] # "front"
          /\ \A n \in notices : n.step = "front" => n \in notices'
      BY <2>11 DEF InvalGate
    <3>2. t \in gate.exclusive => \A e \in front' : Removing(t, e) => BeingRemoved(e)'
      BY <2>11 DEF InvalGate, LockInv, CallInv, GateInv, ExclusiveSteps, DropSteps, Removing
    <3>. QED  BY <2>0, <3>1, <3>2, HandsKept, LiveKept
  <2>12. CASE next_inval(t)
    <3>1. front' \subseteq front /\ tag_index \subseteq tag_index' /\ pc[t] # "front"
          /\ \A n \in notices : n.step = "front" => n \in notices'
      BY <2>12 DEF next_inval
    <3>2. t \in gate.exclusive => \A e \in front' : Removing(t, e) => BeingRemoved(e)'
      BY <2>12 DEF next_inval, LockInv, CallInv, GateInv, ExclusiveSteps, DropSteps, Removing
    <3>. QED  BY <2>0, <3>1, <3>2, HandsKept, LiveKept
  <2>13. CASE Publish(t)
    <3>1. front' \subseteq front /\ tag_index \subseteq tag_index' /\ pc[t] # "front"
          /\ \A n \in notices : n.step = "front" => n \in notices'
      BY <2>13 DEF Publish
    <3>2. t \in gate.exclusive => \A e \in front' : Removing(t, e) => BeingRemoved(e)'
      BY <2>13 DEF Publish, LockInv, CallInv, GateInv, ExclusiveSteps, DropSteps, Removing
    <3>. QED  BY <2>0, <3>1, <3>2, HandsKept, LiveKept
  <2>14. CASE take_tagged(t)
    <3>. DEFINE c == inv[t].call
               taken == {x \in tag_index : x.tag \in c.tags /\ Selects(c, x.key)}
    <3>1. /\ front' = front /\ notices' = notices /\ tag_index' = tag_index \ taken
          /\ gate' = gate /\ pc[t] = "take"
          /\ inv'[t].keys = {x.key : x \in taken}
      BY <2>14 DEF take_tagged, Invalidation
    <3>2. t \in gate.exclusive /\ \A e \in front : ~Removing(t, e)
      BY <3>1 DEF Removing, LockInv, CallInv, GateInv, ExclusiveSteps, Exclusive
    <3>. SUFFICES ASSUME NEW e \in front', NEW g \in e.tags
                  PROVE  Found(e, g)'
      BY DEF LiveEntriesIndexed, Found
    <3>3. Found(e, g)
      BY <3>1 DEF LiveEntriesIndexed, Found
    <3>. DEFINE x == [tag |-> g, key |-> e.key, generation |-> e.generation]
    <3>4. CASE x \in taken
      <4>1. e.key \in inv'[t].keys
        BY <3>1, <3>4
      <4>. QED  BY <3>1, <3>2, <4>1 DEF Found, BeingRemoved, Removing
    <3>5. CASE x \in tag_index /\ x \notin taken
      BY <3>1, <3>5 DEF Found
    <3>6. CASE x \notin tag_index
      <4>1. BeingRemoved(e) => BeingRemoved(e)'
        BY <2>0, <3>1, <3>2, HandsKept
      <4>2. BeingReplaced(e) => BeingReplaced(e)'
        BY <2>0, <3>1, HandsKept
      <4>. HIDE DEF taken
      <4>. QED  BY <3>1, <3>3, <3>6, <4>1, <4>2 DEF Found, Dropping
    <3>. QED  BY <3>4, <3>5, <3>6
  <2>15. CASE RemoveStripe(t)
    <3>1. front' \subseteq front /\ tag_index \subseteq tag_index' /\ pc[t] # "front"
          /\ \A n \in notices : n.step = "front" => n \in notices'
      BY <2>15 DEF RemoveStripe
    <3>2. t \in gate.exclusive => \A e \in front' : Removing(t, e) => BeingRemoved(e)'
      <4>1. PICK k \in inv[t].keys :
                inv' = [inv EXCEPT ![t] = [inv[t] EXCEPT !.keys = inv[t].keys \ {k},
                                              !.batch = {k}, !.shard = shard_of(k)]]
        BY <2>15 DEF RemoveStripe
      <4>2. inv'[t].keys \cup inv'[t].batch = inv[t].keys
        BY <4>1 DEF Invalidation
      <4>3. inv[t].batch = {} /\ pc[t] = "remove" /\ gate' = gate
        BY <2>15 DEF RemoveStripe, LockInv, CallInv
      <4>. QED  BY <4>2, <4>3 DEF Removing, BeingRemoved
    <3>. QED  BY <2>0, <3>1, <3>2, HandsKept, LiveKept
  <2>16. CASE ScanStripe(t)
    <3>1. front' \subseteq front /\ tag_index \subseteq tag_index' /\ pc[t] # "front"
          /\ \A n \in notices : n.step = "front" => n \in notices'
      BY <2>16 DEF ScanStripe
    <3>2. t \in gate.exclusive => \A e \in front' : Removing(t, e) => BeingRemoved(e)'
      BY <2>16 DEF ScanStripe, LockInv, CallInv, GateInv, ExclusiveSteps, DropSteps, Removing
    <3>. QED  BY <2>0, <3>1, <3>2, HandsKept, LiveKept
  <2>17. CASE DropInner(t)
    <3>1. front' \subseteq front /\ tag_index \subseteq tag_index' /\ pc[t] # "front"
          /\ \A n \in notices : n.step = "front" => n \in notices'
      BY <2>17 DEF DropInner, Notify
    <3>2. t \in gate.exclusive => \A e \in front' : Removing(t, e) => BeingRemoved(e)'
      BY <2>17 DEF DropInner, Goto, Removing, BeingRemoved, Invalidation
    <3>. QED  BY <2>0, <3>1, <3>2, HandsKept, LiveKept
  <2>18. CASE DropFront(t)
    <3>1. front' \subseteq front /\ tag_index \subseteq tag_index' /\ pc[t] # "front"
          /\ \A n \in notices : n.step = "front" => n \in notices'
      BY <2>18 DEF DropFront
    <3>2. t \in gate.exclusive => \A e \in front' : Removing(t, e) => BeingRemoved(e)'
      BY <2>18 DEF DropFront, Goto, Removing, BeingRemoved
    <3>. QED  BY <2>0, <3>1, <3>2, HandsKept, LiveKept
  <2>19. CASE DropDone(t)
    <3>1. front' \subseteq front /\ tag_index \subseteq tag_index' /\ pc[t] # "front"
          /\ \A n \in notices : n.step = "front" => n \in notices'
      BY <2>19 DEF DropDone
    <3>2. /\ inv'[t].keys = inv[t].keys /\ inv'[t].batch = inv[t].batch
          /\ gate' = gate /\ pc[t] = "drop"
      BY <2>19, DropDoneFrame DEF DropDone
    <3>3. t \in gate.exclusive => \A e \in front' : Removing(t, e) => BeingRemoved(e)'
      BY <3>2 DEF Removing, BeingRemoved
    <3>. QED  BY <2>0, <3>1, <3>3, HandsKept, LiveKept
  <2>20. CASE WipeIndex(t)
    <3>1. t \in gate'.exclusive /\ pc'[t] = "wipe_inner"
      BY <2>20 DEF WipeIndex, Goto, LockInv, GateInv, CallInv, ExclusiveSteps, Exclusive
    <3>2. \A e \in front' : BeingRemoved(e)'
      BY <3>1 DEF BeingRemoved, Removing
    <3>. QED  BY <3>2 DEF LiveEntriesIndexed
  <2>21. CASE WipeInner(t)
    <3>1. front' \subseteq front /\ tag_index \subseteq tag_index' /\ pc[t] # "front"
          /\ \A n \in notices : n.step = "front" => n \in notices'
      BY <2>21 DEF WipeInner, Notify
    <3>2. t \in gate.exclusive => \A e \in front' : Removing(t, e) => BeingRemoved(e)'
      BY <2>21 DEF WipeInner, Goto, Removing, BeingRemoved
    <3>. QED  BY <2>0, <3>1, <3>2, HandsKept, LiveKept
  <2>22. CASE WipeFront(t)
    <3>1. front' \subseteq front /\ tag_index \subseteq tag_index' /\ pc[t] # "front"
          /\ \A n \in notices : n.step = "front" => n \in notices'
      BY <2>22 DEF WipeFront
    <3>2. t \in gate.exclusive => \A e \in front' : Removing(t, e) => BeingRemoved(e)'
      BY <2>22 DEF WipeFront, Goto, Removing, BeingRemoved
    <3>. QED  BY <2>0, <3>1, <3>2, HandsKept, LiveKept
  <2>23. CASE InvalUngate(t)
    <3>1. front' = front /\ tag_index' = tag_index /\ notices' = notices /\ pc[t] # "front"
      BY <2>23 DEF InvalUngate, Removed
    <3>2. CASE pc[t] = "wipe_front"
      <4>1. inv[t].shard = SHARDS
        BY <2>23, <3>2 DEF InvalUngate, Removed
      <4>2. \A e \in front : shard_of(e.key) < SHARDS
        BY DEF FrontEntry, Shards
      <4>3. \A e \in front : shard_of(e.key) \in Int
        BY DEF FrontEntry, Shards
      <4>4. \A e \in front : shard_of(e.key) >= inv[t].shard
        BY <3>2 DEF WipedShardsEmpty
      <4>5. front = {}
        BY <4>1, <4>2, <4>3, <4>4
      <4>. QED  BY <3>1, <4>5 DEF LiveEntriesIndexed
    <3>3. CASE pc[t] # "wipe_front"
      <4>1. \A e \in front' : ~Removing(t, e)
        BY <2>23, <3>3 DEF InvalUngate, Removed, Removing, LockInv, CallInv
      <4>. QED  BY <2>0, <3>1, <4>1, HandsKept, LiveKept
    <3>. QED  BY <3>2, <3>3
  <2>24. CASE InvalReturn(t)
    <3>1. front' \subseteq front /\ tag_index \subseteq tag_index' /\ pc[t] # "front"
          /\ \A n \in notices : n.step = "front" => n \in notices'
      BY <2>24 DEF InvalReturn
    <3>2. t \in gate.exclusive => \A e \in front' : Removing(t, e) => BeingRemoved(e)'
      BY <2>24 DEF InvalReturn, LockInv, CallInv, GateInv, ExclusiveSteps, DropSteps, Removing
    <3>. QED  BY <2>0, <3>1, <3>2, HandsKept, LiveKept
  <2>. QED
    BY <2>1, <2>2, <2>3, <2>4, <2>5, <2>6, <2>7, <2>8, <2>9, <2>10, <2>11, <2>12, <2>13,
       <2>14, <2>15, <2>16, <2>17, <2>18, <2>19, <2>20, <2>21, <2>22, <2>23, <2>24
       DEF InsertNext, InvalNext
<1>7. CASE Quiescent
  <2>1. /\ front' = front /\ tag_index' = tag_index /\ notices' = notices
        /\ gate' = gate /\ pc' = pc /\ ins' = ins /\ inv' = inv
    BY <1>7 DEF Quiescent, vars
  <2>. QED  BY <2>1 DEF LiveEntriesIndexed, Dropping, BeingRemoved, Removing, BeingReplaced
<1>. QED
  BY <1>1, <1>2, <1>3, <1>4, <1>5, <1>6, <1>7 DEF Next, Listener

-----------------------------------------------------------------------------
(* A step after which every page of the front has the reason it had, or a  *)
(* notice: moka reports to the listener all it drops.                      *)
Reported ==
    /\ front' \subseteq front /\ notices \subseteq notices'
    /\ \A s \in inner \ inner' :
           \E n \in notices' : /\ n.slot = s /\ n.step = "prune"
                               /\ n.by \in Threads \cup {Maintenance}
    /\ \A u \in Threads : pc[u] = "inner" => pc'[u] = "inner" /\ ins'[u] = ins[u]

(* The three reasons FrontFollowsMoka gives. *)
Owned(e) == [key |-> e.key, tags |-> e.tags, generation |-> e.generation] \in inner
Leaving(e) == Dropping(e, {"prune", "front"}, Threads \cup {Maintenance})
Landing(e) == \E u \in Threads : pc[u] = "inner" /\ ins[u] = e

FrontReasons == \A e \in front : Owned(e) \/ Leaving(e) \/ Landing(e)

LEMMA MokaLeaves ==
    ASSUME NEW e \in front, Owned(e), ~Owned(e)',
           \A s \in inner \ inner' :
               \E n \in notices' : /\ n.slot = s /\ n.step = "prune"
                                   /\ n.by \in Threads \cup {Maintenance}
    PROVE  Leaving(e)'
<1>. DEFINE s == [key |-> e.key, tags |-> e.tags, generation |-> e.generation]
<1>1. s \in inner \ inner'
  BY DEF Owned
<1>2. PICK n \in notices' : n.slot = s /\ n.step = "prune" /\ n.by \in Threads \cup {Maintenance}
  BY <1>1
<1>3. n.slot.key = e.key /\ n.slot.generation = e.generation
  BY <1>2
<1>. QED  BY <1>2, <1>3 DEF Leaving, Dropping

LEMMA MokaReported == ASSUME FrontReasons, Reported PROVE FrontReasons'
<1>1. \A e \in front : Owned(e) => Owned(e)' \/ Leaving(e)'
  BY MokaLeaves DEF Reported
<1>2. \A e \in front : Leaving(e) => Leaving(e)'
  BY DEF Leaving, Dropping, Reported
<1>3. \A e \in front : Landing(e) => Landing(e)'
  BY DEF Landing, Reported
<1>. QED  BY <1>1, <1>2, <1>3 DEF Reported, FrontReasons

(* What the listener is called with. *)
LEMMA Noticed ==
    ASSUME NEW S, NEW by
    PROVE  /\ notices \subseteq Notify(S, by)
           /\ \A s \in S : \E n \in Notify(S, by) : n.slot = s /\ n.step = "prune" /\ n.by = by
<1>. SUFFICES ASSUME NEW s \in S
             PROVE  \E n \in Notify(S, by) : n.slot = s /\ n.step = "prune" /\ n.by = by
  BY DEF Notify
<1>. DEFINE n == [slot |-> s, step |-> "prune", by |-> by]
<1>1. n \in Notify(S, by)
  BY DEF Notify
<1>2. n.slot = s /\ n.step = "prune" /\ n.by = by
  OBVIOUS
<1>. QED  BY <1>1, <1>2

(* moka's entry, its listener or its insert accounts for every page of the *)
(* front.                                                                  *)
LEMMA MokaStep == TypeOK /\ FrontReasons /\ [Next]_vars => FrontReasons'
<1>. SUFFICES ASSUME TypeOK, FrontReasons, [Next]_vars PROVE FrontReasons'
  OBVIOUS
<1>. USE DEF TypeOK, tables, locks, stores
<1>1. CASE UNCHANGED vars
  BY <1>1, MokaReported DEF vars, Reported
<1>2. CASE WriteData
  BY <1>2, MokaReported DEF WriteData, Reported
<1>3. CASE Evict
  <2>1. PICK s \in inner : inner' = inner \ {s} /\ notices' = Notify({s}, Maintenance)
    BY <1>3 DEF Evict
  <2>2. front' = front /\ pc' = pc /\ ins' = ins
    BY <1>3 DEF Evict
  <2>. DEFINE S == {s}
  <2>3. \A r \in inner \ inner' : r \in S
    BY <2>1
  <2>4. notices' = Notify(S, Maintenance)
    BY <2>1
  <2>. HIDE DEF S
  <2>5. Reported
    BY <2>2, <2>3, <2>4, Noticed DEF Reported
  <2>. QED  BY <2>5, MokaReported
<1>4. ASSUME NEW n \in notices, prune_tags(n)  PROVE FrontReasons'
  <2>. DEFINE o == [n EXCEPT !.step = "front"]
  <2>1. o \in notices' /\ \A m \in notices : m # n => m \in notices'
    BY <1>4 DEF prune_tags
  <2>2. o.slot = n.slot /\ o.by = n.by /\ o.step = "front"
    BY DEF Notice
  <2>3. \A e \in front : Leaving(e) => Leaving(e)'
    BY <2>1, <2>2 DEF Leaving, Dropping
  <2>4. front' = front /\ inner' = inner /\ pc' = pc /\ ins' = ins
    BY <1>4 DEF prune_tags
  <2>5. \A e \in front : (Owned(e) => Owned(e)') /\ (Landing(e) => Landing(e)')
    BY <2>4 DEF Owned, Landing
  <2>. QED  BY <2>3, <2>4, <2>5 DEF FrontReasons
<1>5. ASSUME NEW n \in notices, remove_front(n)  PROVE FrontReasons'
  <2>1. \A e \in front' : Leaving(e) => Leaving(e)'
    BY <1>5 DEF remove_front, Leaving, Dropping
  <2>2. front' \subseteq front /\ inner' = inner /\ pc' = pc /\ ins' = ins
    BY <1>5 DEF remove_front
  <2>3. \A e \in front : (Owned(e) => Owned(e)') /\ (Landing(e) => Landing(e)')
    BY <2>2 DEF Owned, Landing
  <2>. QED  BY <2>1, <2>2, <2>3 DEF FrontReasons
<1>6. ASSUME NEW t \in Threads
      PROVE  read_stamp(t) \/ Invalidate(t) \/ InsertNext(t) \/ InvalNext(t) => FrontReasons'
  <2>1. CASE Render(t)
    <3>1. Reported
      BY <2>1 DEF Render, Goto, Reported
    <3>. QED  BY <3>1, MokaReported
  <2>2. CASE InsertGate(t)
    <3>1. Reported
      BY <2>2 DEF InsertGate, Goto, Reported
    <3>. QED  BY <3>1, MokaReported
  <2>3. CASE InsertStripe(t)
    <3>1. Reported
      BY <2>3 DEF InsertStripe, Goto, Reported
    <3>. QED  BY <3>1, MokaReported
  <2>4. CASE InsertCheck(t)
    <3>1. Reported
      BY <2>4 DEF InsertCheck, Goto, InsertReturn, Reported
    <3>. QED  BY <3>1, MokaReported
  <2>5. CASE index_tags(t)
    <3>1. Reported
      BY <2>5 DEF index_tags, Goto, Reported
    <3>. QED  BY <3>1, MokaReported
  <2>6. CASE InsertFront(t)
    <3>1. pc'[t] = "inner" /\ ins' = ins /\ pc[t] = "front"
      BY <2>6 DEF InsertFront, Goto
    <3>2. \A e \in front' : e \in front \/ e = ins[t]
      BY <2>6 DEF InsertFront
    <3>3. inner' = inner /\ notices' = notices /\ \A u \in Threads : u # t => pc'[u] = pc[u]
      BY <2>6 DEF InsertFront, Goto
    <3>4. \A e \in front : (Owned(e) => Owned(e)') /\ (Leaving(e) => Leaving(e)') /\ (Landing(e) => Landing(e)')
      BY <3>1, <3>3 DEF Owned, Leaving, Landing, Dropping
    <3>5. \A e : e = ins[t] => Landing(e)'
      BY <3>1 DEF Landing
    <3>. QED  BY <3>2, <3>4, <3>5 DEF FrontReasons
  <2>7. CASE InsertInner(t)
    <3>. DEFINE new == [key |-> ins[t].key, tags |-> ins[t].tags,
                        generation |-> ins[t].generation]
                old == {s \in inner : s.key = ins[t].key}
    <3>1. front' = front /\ notices \subseteq notices' /\ new \in inner'
      BY <2>7 DEF InsertInner, Notify
    <3>2. notices' = Notify(old, t) /\ \A s \in inner \ inner' : s \in old
      BY <2>7 DEF InsertInner
    <3>3. \A s \in inner \ inner' :
             \E n \in notices' : /\ n.slot = s /\ n.step = "prune"
                                 /\ n.by \in Threads \cup {Maintenance}
      <4>. HIDE DEF old
      <4>. QED  BY <3>2, Noticed
    <3>4. ins' = ins /\ \A u \in Threads : u # t => pc'[u] = pc[u]
      BY <2>7 DEF InsertInner, Goto
    <3>5. \A e \in front : Owned(e) => Owned(e)' \/ Leaving(e)'
      BY <3>3, MokaLeaves
    <3>6. \A e \in front : Leaving(e) => Leaving(e)'
      BY <3>1 DEF Leaving, Dropping
    <3>7. \A e \in front : Landing(e) => Owned(e)' \/ Landing(e)'
      BY <3>1, <3>4 DEF Landing, Owned
    <3>. QED  BY <3>1, <3>5, <3>6, <3>7 DEF FrontReasons
  <2>8. CASE InsertLand(t)
    <3>1. Reported
      BY <2>8 DEF InsertLand, Goto, InsertReturn, Reported
    <3>. QED  BY <3>1, MokaReported
  <2>9. CASE read_stamp(t)
    <3>1. Reported
      BY <2>9 DEF read_stamp, Goto, Reported
    <3>. QED  BY <3>1, MokaReported
  <2>10. CASE Invalidate(t)
    <3>1. Reported
      BY <2>10 DEF Invalidate, Goto, Reported
    <3>. QED  BY <3>1, MokaReported
  <2>11. CASE InvalGate(t)
    <3>1. Reported
      BY <2>11 DEF InvalGate, Goto, Reported
    <3>. QED  BY <3>1, MokaReported
  <2>12. CASE next_inval(t)
    <3>1. Reported
      BY <2>12 DEF next_inval, Goto, Reported
    <3>. QED  BY <3>1, MokaReported
  <2>13. CASE Publish(t)
    <3>1. Reported
      BY <2>13 DEF Publish, Goto, Reported
    <3>. QED  BY <3>1, MokaReported
  <2>14. CASE take_tagged(t)
    <3>1. Reported
      BY <2>14 DEF take_tagged, Goto, Reported
    <3>. QED  BY <3>1, MokaReported
  <2>15. CASE RemoveStripe(t)
    <3>1. Reported
      BY <2>15 DEF RemoveStripe, Goto, Reported
    <3>. QED  BY <3>1, MokaReported
  <2>16. CASE ScanStripe(t)
    <3>1. Reported
      BY <2>16 DEF ScanStripe, Goto, Reported
    <3>. QED  BY <3>1, MokaReported
  <2>17. CASE DropInner(t)
    <3>0. PICK k \in inv[t].batch : LET old == {s \in inner : s.key = k}
                                    IN  inner' = inner \ old /\ notices' = Notify(old, t)
      BY <2>17 DEF DropInner
    <3>. DEFINE old == {s \in inner : s.key = k}
    <3>1. inner' = inner \ old /\ notices' = Notify(old, t)
      BY <3>0
    <3>. HIDE DEF old
    <3>2. front' = front /\ ins' = ins /\ tag_index' = tag_index
          /\ pc[t] \notin {"front", "inner"} /\ \A u \in Threads : u # t => pc'[u] = pc[u]
      BY <2>17 DEF DropInner, Goto
    <3>3. Reported
      BY <3>1, <3>2, Noticed DEF Reported
    <3>. QED  BY <3>3, MokaReported
  <2>18. CASE DropFront(t)
    <3>1. Reported
      BY <2>18 DEF DropFront, Goto, Reported
    <3>. QED  BY <3>1, MokaReported
  <2>19. CASE DropDone(t)
    <3>1. Reported
      BY <2>19 DEF DropDone, Goto, Reported
    <3>. QED  BY <3>1, MokaReported
  <2>20. CASE WipeIndex(t)
    <3>1. Reported
      BY <2>20 DEF WipeIndex, Goto, Reported
    <3>. QED  BY <3>1, MokaReported
  <2>21. CASE WipeInner(t)
    <3>1. inner' = {} /\ notices' = Notify(inner, Maintenance)
      BY <2>21 DEF WipeInner
    <3>2. front' = front /\ ins' = ins /\ tag_index' = tag_index
          /\ pc[t] \notin {"front", "inner"} /\ \A u \in Threads : u # t => pc'[u] = pc[u]
      BY <2>21 DEF WipeInner, Goto
    <3>3. Reported
      BY <3>1, <3>2, Noticed DEF Reported
    <3>. QED  BY <3>3, MokaReported
  <2>22. CASE WipeFront(t)
    <3>1. Reported
      BY <2>22 DEF WipeFront, Goto, Reported
    <3>. QED  BY <3>1, MokaReported
  <2>23. CASE InvalUngate(t)
    <3>1. Reported
      BY <2>23 DEF InvalUngate, Goto, Removed, Reported
    <3>. QED  BY <3>1, MokaReported
  <2>24. CASE InvalReturn(t)
    <3>1. Reported
      BY <2>24 DEF InvalReturn, Goto, Reported
    <3>. QED  BY <3>1, MokaReported
  <2>. QED
    BY <2>1, <2>2, <2>3, <2>4, <2>5, <2>6, <2>7, <2>8, <2>9, <2>10, <2>11, <2>12, <2>13,
       <2>14, <2>15, <2>16, <2>17, <2>18, <2>19, <2>20, <2>21, <2>22, <2>23, <2>24
       DEF InsertNext, InvalNext
<1>7. CASE Quiescent
  <2>1. Reported
    BY <1>7 DEF Quiescent, vars, Reported
  <2>. QED  BY <2>1, MokaReported
<1>. QED
  BY <1>1, <1>2, <1>3, <1>4, <1>5, <1>6, <1>7 DEF Next, Listener

-----------------------------------------------------------------------------
(* What accounts for a slot of the index: IndexBounded, with the tag among *)
(* those of the insert in flight.                                          *)
InInner(x) == \E s \in inner : s.key = x.key /\ s.generation = x.generation /\ x.tag \in s.tags

InNotice(x) ==
    \E n \in notices : /\ n.step = "prune" /\ n.slot.key = x.key
                       /\ n.slot.generation = x.generation /\ x.tag \in n.slot.tags

InInsert(x) ==
    \E u \in Threads : /\ pc[u] \in {"front", "inner"} /\ x.tag \in ins[u].tags
                       /\ ins[u].key = x.key /\ ins[u].generation = x.generation

SlotsBounded == \A x \in tag_index : InInner(x) \/ InNotice(x) \/ InInsert(x)

(* A step after which every slot has the reason it had, or a notice. *)
Accounted ==
    /\ tag_index' \subseteq tag_index
    /\ \A s \in inner \ inner' : \E n \in notices' : n.slot = s /\ n.step = "prune"
    /\ \A n \in notices : n.step = "prune" => n \in notices'
    /\ \A u \in Threads : pc[u] \in {"front", "inner"}
                           => pc'[u] \in {"front", "inner"} /\ ins'[u] = ins[u]

LEMMA BoundKept == ASSUME SlotsBounded, Accounted PROVE SlotsBounded'
<1>1. \A x \in tag_index : InInsert(x) => InInsert(x)'
  BY DEF Accounted, InInsert
<1>2. \A x \in tag_index : InNotice(x) => InNotice(x)'
  BY DEF Accounted, InNotice
<1>3. \A x \in tag_index : InInner(x) => InInner(x)' \/ InNotice(x)'
  BY DEF Accounted, InNotice, InInner
<1>. QED  BY <1>1, <1>2, <1>3 DEF Accounted, SlotsBounded

(* moka's entry, its listener or its insert accounts for every slot of the *)
(* index.                                                                  *)
LEMMA BoundStep == TypeOK /\ SlotsBounded /\ [Next]_vars => SlotsBounded'
<1>. SUFFICES ASSUME TypeOK, SlotsBounded, [Next]_vars PROVE SlotsBounded'
  OBVIOUS
<1>. USE DEF TypeOK, tables, locks, stores
<1>1. CASE UNCHANGED vars
  BY <1>1, BoundKept DEF vars, Accounted
<1>2. CASE WriteData
  BY <1>2, BoundKept DEF WriteData, Accounted
<1>3. CASE Evict
  <2>1. PICK s \in inner : inner' = inner \ {s} /\ notices' = Notify({s}, Maintenance)
    BY <1>3 DEF Evict
  <2>2. tag_index' = tag_index /\ pc' = pc /\ ins' = ins
    BY <1>3 DEF Evict
  <2>3. Accounted
    BY <2>1, <2>2, Noticed DEF Accounted
  <2>. QED  BY <2>3, BoundKept
<1>4. ASSUME NEW n \in notices, prune_tags(n)  PROVE SlotsBounded'
  <2>1. inner' = inner /\ pc' = pc /\ ins' = ins /\ tag_index' \subseteq tag_index
    BY <1>4 DEF prune_tags, PruneFrom
  <2>2. \A m \in notices : m # n => m \in notices'
    BY <1>4 DEF prune_tags
  <2>3. \A x \in tag_index' : ~(/\ x.key = n.slot.key /\ x.tag \in n.slot.tags
                                /\ x.generation = n.slot.generation)
    BY <1>4 DEF prune_tags, PruneFrom
  <2>4. \A x \in tag_index' : InNotice(x) => InNotice(x)'
    BY <2>2, <2>3 DEF InNotice
  <2>. QED  BY <2>1, <2>4 DEF SlotsBounded, InInner, InInsert
<1>5. ASSUME NEW n \in notices, remove_front(n)  PROVE SlotsBounded'
  <2>1. Accounted
    BY <1>5 DEF remove_front, Accounted
  <2>. QED  BY <2>1, BoundKept
<1>6. ASSUME NEW t \in Threads
      PROVE  read_stamp(t) \/ Invalidate(t) \/ InsertNext(t) \/ InvalNext(t) => SlotsBounded'
  <2>1. CASE Render(t)
    <3>1. Accounted
      BY <2>1 DEF Render, Goto, Accounted
    <3>. QED  BY <3>1, BoundKept
  <2>2. CASE InsertGate(t)
    <3>1. Accounted
      BY <2>2 DEF InsertGate, Goto, Accounted
    <3>. QED  BY <3>1, BoundKept
  <2>3. CASE InsertStripe(t)
    <3>1. Accounted
      BY <2>3 DEF InsertStripe, Goto, Accounted
    <3>. QED  BY <3>1, BoundKept
  <2>4. CASE InsertCheck(t)
    <3>1. Accounted
      BY <2>4 DEF InsertCheck, Goto, InsertReturn, Accounted
    <3>. QED  BY <3>1, BoundKept
  <2>5. CASE index_tags(t)
    <3>1. \A x \in tag_index' : x \in tag_index \/ (/\ x.tag \in ins[t].tags /\ x.key = ins[t].key
                                                    /\ x.generation = ins[t].generation)
      BY <2>5 DEF index_tags
    <3>2. /\ inner' = inner /\ notices' = notices /\ ins' = ins /\ pc[t] = "index" /\ pc'[t] = "front"
          /\ \A u \in Threads : u # t => pc'[u] = pc[u]
      BY <2>5 DEF index_tags, Goto
    <3>3. \A x \in tag_index' : x \notin tag_index => InInsert(x)'
      BY <3>1, <3>2 DEF InInsert
    <3>4. \A x \in tag_index : InInsert(x) => InInsert(x)'
      BY <3>2 DEF InInsert
    <3>. QED  BY <3>2, <3>3, <3>4 DEF SlotsBounded, InInner, InNotice
  <2>6. CASE InsertFront(t)
    <3>1. Accounted
      BY <2>6 DEF InsertFront, Goto, Accounted
    <3>. QED  BY <3>1, BoundKept
  <2>7. CASE InsertInner(t)
    <3>. DEFINE new == [key |-> ins[t].key, tags |-> ins[t].tags,
                        generation |-> ins[t].generation]
                old == {s \in inner : s.key = ins[t].key}
    <3>1. tag_index' = tag_index /\ notices \subseteq notices' /\ new \in inner'
      BY <2>7 DEF InsertInner, Notify
    <3>0. notices' = Notify(old, t) /\ \A s \in inner \ inner' : s \in old
      BY <2>7 DEF InsertInner
    <3>2. \A s \in inner \ inner' : \E n \in notices' : n.slot = s /\ n.step = "prune"
      <4>. HIDE DEF old
      <4>. QED  BY <3>0, Noticed
    <3>3. ins' = ins /\ \A u \in Threads : u # t => pc'[u] = pc[u]
      BY <2>7 DEF InsertInner, Goto
    <3>4. \A x \in tag_index : InInsert(x) => InInner(x)' \/ InInsert(x)'
      BY <3>1, <3>3 DEF InInner, InInsert
    <3>5. \A x \in tag_index : InNotice(x) => InNotice(x)'
      BY <3>1 DEF InNotice
    <3>6. \A x \in tag_index : InInner(x) => InInner(x)' \/ InNotice(x)'
      BY <3>2 DEF InInner, InNotice
    <3>. QED  BY <3>1, <3>4, <3>5, <3>6 DEF SlotsBounded
  <2>8. CASE InsertLand(t)
    <3>1. Accounted
      BY <2>8 DEF InsertLand, Goto, InsertReturn, Accounted
    <3>. QED  BY <3>1, BoundKept
  <2>9. CASE read_stamp(t)
    <3>1. Accounted
      BY <2>9 DEF read_stamp, Goto, Accounted
    <3>. QED  BY <3>1, BoundKept
  <2>10. CASE Invalidate(t)
    <3>1. Accounted
      BY <2>10 DEF Invalidate, Goto, Accounted
    <3>. QED  BY <3>1, BoundKept
  <2>11. CASE InvalGate(t)
    <3>1. Accounted
      BY <2>11 DEF InvalGate, Goto, Accounted
    <3>. QED  BY <3>1, BoundKept
  <2>12. CASE next_inval(t)
    <3>1. Accounted
      BY <2>12 DEF next_inval, Goto, Accounted
    <3>. QED  BY <3>1, BoundKept
  <2>13. CASE Publish(t)
    <3>1. Accounted
      BY <2>13 DEF Publish, Goto, Accounted
    <3>. QED  BY <3>1, BoundKept
  <2>14. CASE take_tagged(t)
    <3>1. Accounted
      BY <2>14 DEF take_tagged, Goto, Accounted
    <3>. QED  BY <3>1, BoundKept
  <2>15. CASE RemoveStripe(t)
    <3>1. Accounted
      BY <2>15 DEF RemoveStripe, Goto, Accounted
    <3>. QED  BY <3>1, BoundKept
  <2>16. CASE ScanStripe(t)
    <3>1. Accounted
      BY <2>16 DEF ScanStripe, Goto, Accounted
    <3>. QED  BY <3>1, BoundKept
  <2>17. CASE DropInner(t)
    <3>0. PICK k \in inv[t].batch : LET old == {s \in inner : s.key = k}
                                    IN  inner' = inner \ old /\ notices' = Notify(old, t)
      BY <2>17 DEF DropInner
    <3>. DEFINE old == {s \in inner : s.key = k}
    <3>1. inner' = inner \ old /\ notices' = Notify(old, t)
      BY <3>0
    <3>. HIDE DEF old
    <3>2. front' = front /\ ins' = ins /\ tag_index' = tag_index
          /\ pc[t] \notin {"front", "inner"} /\ \A u \in Threads : u # t => pc'[u] = pc[u]
      BY <2>17 DEF DropInner, Goto
    <3>3. Accounted
      BY <3>1, <3>2, Noticed DEF Accounted
    <3>. QED  BY <3>3, BoundKept
  <2>18. CASE DropFront(t)
    <3>1. Accounted
      BY <2>18 DEF DropFront, Goto, Accounted
    <3>. QED  BY <3>1, BoundKept
  <2>19. CASE DropDone(t)
    <3>1. Accounted
      BY <2>19 DEF DropDone, Goto, Accounted
    <3>. QED  BY <3>1, BoundKept
  <2>20. CASE WipeIndex(t)
    <3>1. Accounted
      BY <2>20 DEF WipeIndex, Goto, Accounted
    <3>. QED  BY <3>1, BoundKept
  <2>21. CASE WipeInner(t)
    <3>1. inner' = {} /\ notices' = Notify(inner, Maintenance)
      BY <2>21 DEF WipeInner
    <3>2. front' = front /\ ins' = ins /\ tag_index' = tag_index
          /\ pc[t] \notin {"front", "inner"} /\ \A u \in Threads : u # t => pc'[u] = pc[u]
      BY <2>21 DEF WipeInner, Goto
    <3>3. Accounted
      BY <3>1, <3>2, Noticed DEF Accounted
    <3>. QED  BY <3>3, BoundKept
  <2>22. CASE WipeFront(t)
    <3>1. Accounted
      BY <2>22 DEF WipeFront, Goto, Accounted
    <3>. QED  BY <3>1, BoundKept
  <2>23. CASE InvalUngate(t)
    <3>1. Accounted
      BY <2>23 DEF InvalUngate, Goto, Removed, Accounted
    <3>. QED  BY <3>1, BoundKept
  <2>24. CASE InvalReturn(t)
    <3>1. Accounted
      BY <2>24 DEF InvalReturn, Goto, Accounted
    <3>. QED  BY <3>1, BoundKept
  <2>. QED
    BY <2>1, <2>2, <2>3, <2>4, <2>5, <2>6, <2>7, <2>8, <2>9, <2>10, <2>11, <2>12, <2>13,
       <2>14, <2>15, <2>16, <2>17, <2>18, <2>19, <2>20, <2>21, <2>22, <2>23, <2>24
       DEF InsertNext, InvalNext
<1>7. CASE Quiescent
  <2>1. Accounted
    BY <1>7 DEF Quiescent, vars, Accounted
  <2>. QED  BY <2>1, BoundKept
<1>. QED
  BY <1>1, <1>2, <1>3, <1>4, <1>5, <1>6, <1>7 DEF Next, Listener

-----------------------------------------------------------------------------
(* The struct's invariant holds for any threads, keys and tags: a front    *)
(* entry of generation G exists only while moka holds G, or G's insert is  *)
(* in flight, or G's listener is still to run to its end.                  *)
THEOREM FrontFollows == Spec => []FrontFollowsMoka
<1>1. Init => FrontReasons
  BY DEF Init, FrontReasons
<1>2. TypeOK /\ FrontReasons /\ [Next]_vars => FrontReasons'
  BY MokaStep
<1>3. FrontReasons => FrontFollowsMoka
  BY DEF FrontReasons, FrontFollowsMoka, Owned, Leaving, Landing
<1>. QED  BY <1>1, <1>2, <1>3, TypeCorrect, PTL DEF Spec

(* The tag index is bounded by the live entries, for any threads, keys and *)
(* tags: each slot belongs to an entry of moka, to an insert in flight, or *)
(* to an entry whose listener will prune it.                               *)
THEOREM IndexIsBounded == Spec => []IndexBounded
<1>1. Init => SlotsBounded
  BY DEF Init, SlotsBounded
<1>2. TypeOK /\ SlotsBounded /\ [Next]_vars => SlotsBounded'
  BY BoundStep
<1>3. LockInv /\ SlotsBounded => IndexBounded
  <2>1. ASSUME LockInv  PROVE \A u \in Threads : pc[u] \in {"front", "inner"} => u \in gate.shared
    BY <2>1 DEF LockInv, GateInv, GateSteps
  <2>. QED  BY <2>1 DEF SlotsBounded, IndexBounded, InInner, InNotice, InInsert
<1>. QED  BY <1>1, <1>2, <1>3, TypeCorrect, LocksExclude, PTL DEF Spec

=============================================================================
