----------------------------- MODULE MCPushSync -----------------------------
(* Small instances of PushSync. *)
EXTENDS PushSync, TLC

(* Pages are interchangeable. *)
PageSymmetry == Permutations(Pages)
=============================================================================
