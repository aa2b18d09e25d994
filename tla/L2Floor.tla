------------------------------ MODULE L2Floor ------------------------------
(***************************************************************************)
(* The names of an invalidation floor (crates/brust-core/src/l2.rs): what  *)
(* an instance remembers of the invalidations it replayed, to refuse the   *)
(* pages tier 2 still holds from before.  A floor is a sequence of names,  *)
(* the one raised longest ago first (the code keeps a tick with each).     *)
(***************************************************************************)
EXTENDS Integers, Sequences, FiniteSets, SequencesExt

CONSTANT FLOOR_NAMES    \* names a floor remembers

ASSUME FloorAssumption == FLOOR_NAMES \in Nat \ {0}

(* The floors over a set of names; a floor has a name once. *)
FloorName(N) == [name : N, seq : Nat]
Floors(N) == Seq(FloorName(N))
Once(f) == \A j, k \in DOMAIN f : f[j].name = f[k].name => j = k

(* Mutant of raise_name: the name raised last drops out. *)
raise_name_drops_youngest(f, n, s) ==
    LET old == {i \in DOMAIN f : f[i].name = n}
        rest == IF old = {} THEN f ELSE RemoveAt(f, CHOOSE i \in old : TRUE)
        new == Append(rest, [name |-> n, seq |-> Max({s} \cup {f[i].seq : i \in old})])
    IN  IF Len(new) > FLOOR_NAMES THEN Front(new) ELSE new

(* raise_name: a name raised again is the youngest; the oldest drops out. *)
raise_name(f, n, s) ==
    LET old == {i \in DOMAIN f : f[i].name = n}
        rest == IF old = {} THEN f ELSE RemoveAt(f, CHOOSE i \in old : TRUE)
        new == Append(rest, [name |-> n, seq |-> Max({s} \cup {f[i].seq : i \in old})])
    IN  IF Len(new) > FLOOR_NAMES THEN Tail(new) ELSE new
=============================================================================
