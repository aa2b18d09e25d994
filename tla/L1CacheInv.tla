---------------------------- MODULE L1CacheInv ----------------------------
(***************************************************************************)
(* The inductive invariant behind NoStaleHit, in the layers the proof      *)
(* takes: locks, numbers, generations, the tag index, and freshness.       *)
(***************************************************************************)
EXTENDS L1Cache

(* Locks: who holds the gate and the stripes follows from the steps, and   *)
(* each lock excludes.                                                     *)
GateSteps == {"gated", "check", "index", "front", "inner", "land"}
StripeSteps == GateSteps \ {"gated"}
DropSteps == {"drop", "drop_front"}
ExclusiveSteps == {"seq", "publish", "take", "remove", "wipe", "wipe_inner", "wipe_front"}
                  \cup DropSteps

HoldsStripe(t, s) ==
    \/ pc[t] \in StripeSteps /\ shard_of(ins[t].key) = s
    \/ pc[t] \in DropSteps /\ inv[t].shard = s

GateInv ==
    /\ gate.shared = {t \in Threads : pc[t] \in GateSteps}
    /\ gate.exclusive = {t \in Threads : pc[t] \in ExclusiveSteps /\ Exclusive(inv[t].call)}
    /\ \A t, u \in gate.exclusive : t = u
    /\ gate.shared = {} \/ gate.exclusive = {}

StripeInv ==
    \A s \in Shards : /\ stripes[s] = {t \in Threads : HoldsStripe(t, s)}
                      /\ \A t, u \in stripes[s] : t = u

(* What the step of an invalidation says about the call in hand. *)
CallInv ==
    \A t \in Threads :
        /\ pc[t] = "gate" => Exclusive(inv[t].call)
        /\ pc[t] \in {"take", "remove"} => inv[t].call.kind = "tags"
        /\ pc[t] \in {"wipe", "wipe_inner", "wipe_front"} => inv[t].call.kind = "clear"
        /\ pc[t] = "scan" => ~Exclusive(inv[t].call)
        /\ pc[t] \in DropSteps => inv[t].call.kind # "clear" /\ inv[t].shard \in Shards
        /\ pc[t] \in DropSteps /\ ~Exclusive(inv[t].call) => inv[t].keys = {}
        /\ pc[t] \in {"gate", "seq", "publish", "take", "wipe", "wipe_inner"}
           => inv[t].keys = {} /\ inv[t].batch = {} /\ inv[t].shard = 0
        /\ pc[t] \in {"remove", "scan"} => inv[t].batch = {}
        /\ pc[t] \in {"wipe_front", "scan"} => inv[t].keys = {} /\ inv[t].batch = {}

LockInv == GateInv /\ StripeInv /\ CallInv

(* Numbers: the invalidations that have a sequence number, and what it and *)
(* a stamp say about the data each has seen.                               *)
Numbered == InvalSteps \ {"gate", "seq"}
Published == Numbered \ {"publish"}
Rendered == InsertSteps \ {"render"}

Record(t) == [call |-> inv[t].call, seq |-> inv[t].seq, data |-> inv[t].data]

(* A page stamped after invalidation `i` was numbered holds the data `i`   *)
(* was called for.                                                         *)
StampSeesData(e, i) == e.since >= i.seq => e.data >= i.data

InSlots(i) ==
    /\ i.call.kind = "tags" => \A g \in i.call.tags : tag_inval[tag_slot(g)] >= i.seq
    /\ i.call.kind = "path" => path_inval[path_slot(i.call.method, i.call.path)] >= i.seq
    /\ i.call.kind = "prefix" => prefix_inval[prefix_slot(i.call.prefix)] >= i.seq
    /\ i.call.kind = "clear" => cleared_at >= i.seq

NumberInv ==
    /\ \A e \in front : e.since <= clock
    /\ \A t \in Threads : pc[t] \in InsertSteps => ins[t].since <= clock
    /\ \A d \in done : d.data <= data /\ d.seq <= clock
    /\ \A u \in Threads : /\ pc[u] \in InvalSteps => inv[u].data <= data
                          /\ pc[u] \in Numbered => inv[u].seq <= clock

DataInv ==
    /\ \A d \in done : /\ \A e \in front : StampSeesData(e, d)
                       /\ \A t \in Threads : pc[t] \in Rendered => StampSeesData(ins[t], d)
    /\ \A u \in Threads : pc[u] \in Numbered =>
           /\ \A e \in front : StampSeesData(e, Record(u))
           /\ \A t \in Threads : pc[t] \in Rendered => StampSeesData(ins[t], Record(u))

SlotInv ==
    /\ \A d \in done : InSlots(d)
    /\ \A u \in Threads : pc[u] \in Published => InSlots(Record(u))

(* Generations: one in flight is nobody else's. *)
InFlight == {"index", "front", "inner"}

GenerationInv ==
    /\ \A s \in inner : s.generation < next_generation
    /\ \A n \in notices : n.slot.generation < next_generation
    /\ \A t \in Threads : pc[t] \in InFlight =>
           /\ ins[t].generation < next_generation
           /\ \A s \in inner : s.generation # ins[t].generation
           /\ \A n \in notices : n.slot.generation # ins[t].generation
           /\ \A u \in Threads : pc[u] \in InFlight /\ ins[u].generation = ins[t].generation
                                 => u = t

(* The index: besides LiveEntriesIndexed, an insert about to write the     *)
(* front is indexed, and a clear leaves no page in the shards it wiped.    *)
OwnTagsIndexed ==
    \A t \in Threads : pc[t] = "front" =>
        \A g \in ins[t].tags :
            [tag |-> g, key |-> ins[t].key, generation |-> ins[t].generation] \in tag_index

WipedShardsEmpty ==
    \A t \in Threads : pc[t] = "wipe_front" =>
        \A e \in front : shard_of(e.key) >= inv[t].shard

IndexInv == LiveEntriesIndexed /\ OwnTagsIndexed /\ WipedShardsEmpty

(* Freshness: a page covered by invalidation `i` was stamped after it. *)
Fresh(e, i) == Covers(i.call, e.key, e.tags) => e.since >= i.seq

(* Invalidation `u` has still to reach the page `e` of the front. *)
Due(u, e) ==
    \/ pc[u] \in {"take", "wipe", "wipe_inner"}
    \/ pc[u] = "remove" /\ e.key \in inv[u].keys
    \/ pc[u] \in {"scan", "wipe_front"} /\ shard_of(e.key) >= inv[u].shard
    \/ /\ pc[u] \in DropSteps
       /\ \/ e.key \in inv[u].batch
          \/ pc[u] = "drop_front" /\ e.key = inv[u].key
          \/ Exclusive(inv[u].call) /\ e.key \in inv[u].keys
          \/ ~Exclusive(inv[u].call) /\ shard_of(e.key) > inv[u].shard

(* A checked insert that is not fresh is in a shard `u` has yet to scan. *)
DueInsert(u, e) ==
    /\ pc[u] \in {"scan"} \cup DropSteps
    /\ ~Exclusive(inv[u].call)
    /\ shard_of(e.key) >= inv[u].shard

Checked == {"index", "front"}

(* Of the invalidations that have returned, and of those under way. *)
DoneFront ==
    \A d \in done, e \in front :
        Fresh(e, d) \/ (d.call.kind = "tags" /\ Dropping(e, {"front"}, Threads))

DoneInsert == \A d \in done, t \in Threads : pc[t] \in Checked => Fresh(ins[t], d)

OpenFront ==
    \A u \in Threads, e \in front : pc[u] \in Published =>
        \/ Fresh(e, Record(u))
        \/ Due(u, e)
        \/ inv[u].call.kind = "tags" /\ Dropping(e, {"front"}, Threads \cup {Maintenance})

OpenInsert ==
    \A u, t \in Threads : pc[u] \in Published /\ pc[t] \in Checked
                          => Fresh(ins[t], Record(u)) \/ DueInsert(u, ins[t])

FreshInv == DoneFront /\ DoneInsert /\ OpenFront /\ OpenInsert

(* The inductive invariant. *)
L1Inv ==
    /\ TypeOK /\ LockInv /\ NumberInv /\ DataInv /\ SlotInv
    /\ GenerationInv /\ IndexInv /\ FreshInv
===========================================================================
