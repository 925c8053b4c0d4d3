------------------------------ MODULE HandleMap ------------------------------
(***************************************************************************)
(* What the handle table promises (spec sections 3 and 4.3): a map from    *)
(* opaque, non-zero handles to (owner zone, pointer, size).  insert hands  *)
(* out a handle not issued before in this driver's lifetime; remove by the *)
(* owner deletes the entry, remove by anyone else changes nothing; owner,  *)
(* pointer and size of an entry never change; cleanup drops every entry    *)
(* and ends the lifetime.                                                  *)
(***************************************************************************)
EXTENDS Naturals

CONSTANTS
    Zones,
    Ptrs,
    Sizes,
    Handles     \* the handle values; 0 is not one of them

VARIABLES
    map,        \* the live handles and what they stand for
    issued      \* the handles handed out in this lifetime

mapVars == <<map, issued>>

Init ==
    /\ map = [h \in {} |-> [zone |-> {}, ptr |-> {}, size |-> 0]]
    /\ issued = {}

(* An insert that hands out handle h. *)
InsertAs(z, p, s, h) ==
    /\ h \in Handles \ issued
    /\ map' = [x \in DOMAIN map \cup {h} |->
                 IF x = h THEN [zone |-> z, ptr |-> p, size |-> s] ELSE map[x]]
    /\ issued' = issued \cup {h}

Insert(z, p, s) == \E h \in Handles : InsertAs(z, p, s, h)

Remove(z, h) ==
    /\ h \in DOMAIN map
    /\ map[h].zone = z
    /\ map' = [x \in DOMAIN map \ {h} |-> map[x]]
    /\ UNCHANGED issued

Cleanup ==
    /\ map' = [h \in {} |-> [zone |-> {}, ptr |-> {}, size |-> 0]]
    /\ issued' = {}

Next ==
    \/ \E z \in Zones, p \in Ptrs, s \in Sizes : Insert(z, p, s)
    \/ \E z \in Zones, h \in Handles : Remove(z, h)
    \/ Cleanup

Spec == Init /\ [][Next]_mapVars

====
