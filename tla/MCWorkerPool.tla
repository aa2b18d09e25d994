---------------------------- MODULE MCWorkerPool ----------------------------
(* Small instances of WorkerPool: requests are interchangeable.            *)
EXTENDS WorkerPool

SymRequests == Permutations(Requests)

(* The death of a worker is combined with deadlines that pass where there  *)
(* are two requests; with three, the sweeper then has nothing to do.       *)
Combined == dead # {} => \A s \in Slots : deadline[s] # 0
=============================================================================
