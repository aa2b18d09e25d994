----------------------------- MODULE MCL1Cache -----------------------------
(* A small instance of L1Cache: one page, its tag, and every kind of call, *)
(* the prefix call for another prefix that shares the page's slot.        *)
EXTENDS L1Cache, TLC

MCKeys == {[prefix |-> "p", method |-> "GET", path |-> "/", query |-> ""]}

MCshard_of(k) == SHARDS - 1
MCtag_slot(t) == 0
MCpath_slot(m, p) == 0
MCprefix_slot(p) == 0

MCTagSets == {Tags}

TagCall(p) == [kind |-> "tags", tags |-> Tags, method |-> Wild, path |-> Wild, prefix |-> p]
PathCall == [kind |-> "path", tags |-> {}, method |-> "GET", path |-> "/", prefix |-> Wild]
PrefixCall(p) == [kind |-> "prefix", tags |-> {}, method |-> Wild, path |-> Wild, prefix |-> p]
ClearCall == [kind |-> "clear", tags |-> {}, method |-> Wild, path |-> Wild, prefix |-> Wild]

MCCalls == {TagCall("p"), PathCall, PrefixCall("q"), ClearCall}

(* Threads are interchangeable. *)
ThreadSymmetry == Permutations(Threads)
=============================================================================
