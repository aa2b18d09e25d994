--------------------------- MODULE MCSharedPages ---------------------------
(* Instances of SharedPages. *)
EXTENDS SharedPages

Symmetry == Permutations(Procs)

OnePage == {[path |-> "/", prefix |-> "a", tags |-> {"t"}]}

Args == [tags |-> {}, path |-> Wild, prefix |-> Wild, key |-> FALSE]
ByTag == [Args EXCEPT !.tags = {"t"}]
ByPrefixTag == [ByTag EXCEPT !.prefix = "a"]

(* Failures of Redis are combined with pages that use no job, a prefix     *)
(* with neither, and two calls, by tag, with one request and no replay.    *)
Combined ==
    /\ planned = {} \/ faults = 0
    /\ \A i \in DOMAIN task : task[i].call = ByPrefixTag => planned = {} /\ faults = 0
    /\ Len(task) = 2 => /\ adapter /\ planned = {} /\ faults = 0 /\ begun <= 1
                        /\ \A i \in DOMAIN task : task[i].call = ByTag
                        /\ \A p \in Procs : pos[p] = 0

JobT == {"t"}
TagCalls == {ByTag}
TagAndPrefixCalls == {ByTag, ByPrefixTag}
=============================================================================
