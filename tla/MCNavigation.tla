---------------------------- MODULE MCNavigation ----------------------------
(* Small instances of Navigation: three pages, one of which redirects and  *)
(* one of which is not for keeping.                                        *)
EXTENDS Navigation

MCPages == {"a", "b", "c"}
TwoPages == {"a", "b"}
Straight == [p \in TwoPages |-> p]
Redirected == [p \in MCPages |-> IF p = "c" THEN "b" ELSE p]

(* The third navigation and the third fetch are combined with neither a    *)
(* mutation nor a fetch of the page that redirects, and a navigation store *)
(* that is evaluated or read only once navigations have begun with none of *)
(* the four.                                                               *)
OneOf ==
    /\ version = 0
    /\ \A f \in DOMAIN fetches : fetches[f] = Gone \/ fetches[f].page # "c"

Combined ==
    /\ (Len(navs) = 3 \/ Len(fetches) = 3) => OneOf
    /\ (Len(navs) > 0 /\ (store.bound # 0 \/ store.url = None)) =>
           OneOf /\ Len(navs) < 3 /\ Len(fetches) < 3
=============================================================================
