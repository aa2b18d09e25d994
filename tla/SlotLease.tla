----------------------------- MODULE SlotLease ------------------------------
(***************************************************************************)
(* What the worker pool promises: a slot (its part of the shared buffer    *)
(* and its cells) is leased to one call at a time, a worker works on       *)
(* behalf of a call only while that call has its lease, and a lease ends   *)
(* only when the work has.  How slots are found, waited for and released,  *)
(* what becomes of the client, deadlines and dead workers do not show.     *)
(***************************************************************************)
CONSTANTS Requests, Slots, None

VARIABLES lease,    \* [Slots -> Requests \cup {None}]
          working   \* the requests a worker is working for

Leased(r) == \E s \in Slots : lease[s] = r

Init == /\ lease = [s \in Slots |-> None]
        /\ working = {}

Acquire(r, s) == /\ lease[s] = None /\ ~Leased(r)
                 /\ lease' = [lease EXCEPT ![s] = r]
                 /\ working' = working

Begin(r) == /\ Leased(r) /\ r \notin working
            /\ working' = working \cup {r}
            /\ lease' = lease

End(r) == /\ r \in working
          /\ working' = working \ {r}
          /\ lease' = lease

Release(r, s) == /\ lease[s] = r /\ r \notin working
                 /\ lease' = [lease EXCEPT ![s] = None]
                 /\ working' = working

Next == \E r \in Requests : \/ Begin(r) \/ End(r)
                            \/ \E s \in Slots : Acquire(r, s) \/ Release(r, s)

Spec == Init /\ [][Next]_<<lease, working>>
=============================================================================
