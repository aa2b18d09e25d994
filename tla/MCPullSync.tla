----------------------------- MODULE MCPullSync -----------------------------
(* Small instances of PullSync. *)
EXTENDS PullSync

(* One page is rendered.  The others are only invalidated, to push its     *)
(* name out of the floor, which does not depend on renders: they are       *)
(* combined with neither a render nor a restart of the object.             *)
Rendered == CHOOSE p \in Pages : TRUE

Others ==
    \/ \E n \in DOMAIN log : log[n].page # Rendered
    \/ \E t \in owed : t.page # Rendered

OneRendered ==
    /\ \A e \in tier1 \cup renders : e.page = Rendered
    /\ Others => gen = 1 /\ tier1 \cup renders = {}
=============================================================================
