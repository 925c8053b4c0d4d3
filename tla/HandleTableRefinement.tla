------------------------ MODULE HandleTableRefinement ------------------------
(***************************************************************************)
(* TLAPS proof that the handle table of handle_table.c (HandleTable)      *)
(* implements the abstract map of spec section 3 (HandleMap) under the     *)
(* refinement mapping of HandleTable: the live handles are the handles of  *)
(* the entries, each standing for the entry the chain walk finds, and the  *)
(* handles issued in this lifetime are 1 .. next_handle - 1.               *)
(*                                                                         *)
(* The mapping is a function of the entry sequence.  The lemmas below are *)
(* stated for any sequence es of entries with strictly decreasing handles *)
(* (newest first), so that they apply to entries and to entries' alike:   *)
(* in such a sequence the chain walk finds the one entry of a handle, so   *)
(* the map sends each entry's handle to that entry.                        *)
(***************************************************************************)
EXTENDS HandleTableProofs

(* The chain walk and the abstract map over any sequence of entries. *)
FoundIn(es, h) == {k \in 1 .. Len(es) : es[k].handle = h}

FirstIn(es, h) == CHOOSE i \in FoundIn(es, h) : \A j \in FoundIn(es, h) : i <= j

MapOf(es) ==
    [h \in {es[i].handle : i \in 1 .. Len(es)} |->
        [zone |-> es[FirstIn(es, h)].zone, ptr |-> es[FirstIn(es, h)].ptr,
         size |-> es[FirstIn(es, h)].size]]

(* What an entry stands for in the abstract map. *)
Rec(e) == [zone |-> e.zone, ptr |-> e.ptr, size |-> e.size]

(* Newest first: strictly decreasing handles. *)
Decreasing(es) ==
    \A i, j \in 1 .. Len(es) : i < j => es[j].handle < es[i].handle

-----------------------------------------------------------------------------
(* The refinement mapping is MapOf applied to the table, now and next. *)
LEMMA AbstractMapIsMapOf ==
    /\ AbstractMap = MapOf(entries)
    /\ AbstractMap' = MapOf(entries')
BY DEF AbstractMap, MapOf, LiveHandles, First, Found, FirstIn, FoundIn

(* In a decreasing sequence the walk for an entry's handle finds it. *)
LEMMA FirstInAt ==
    ASSUME NEW es \in Seq(Entry), Decreasing(es), NEW i \in 1 .. Len(es)
    PROVE  /\ FoundIn(es, es[i].handle) = {i}
           /\ FirstIn(es, es[i].handle) = i
<1>1. \A k \in 1 .. Len(es) : es[k].handle \in Nat
  <2>1. \A k \in 1 .. Len(es) : es[k] \in Entry
    BY ElementOfSeq
  <2>. QED
    BY <2>1, HandleTableAssumption DEF Entry
<1>2. FoundIn(es, es[i].handle) = {i}
  <2>1. SUFFICES ASSUME NEW k \in FoundIn(es, es[i].handle), k # i PROVE FALSE
    BY DEF FoundIn
  <2>2. k \in 1 .. Len(es) /\ es[k].handle = es[i].handle
    BY DEF FoundIn
  <2>. QED
    BY <1>1, <2>1, <2>2 DEF Decreasing
<1>. QED
  BY <1>2 DEF FirstIn

(* The abstract map of a decreasing sequence sends each entry's handle to *)
(* that entry.                                                             *)
LEMMA MapOfAt ==
    ASSUME NEW es \in Seq(Entry), Decreasing(es), NEW i \in 1 .. Len(es)
    PROVE  /\ es[i].handle \in DOMAIN MapOf(es)
           /\ MapOf(es)[es[i].handle] = Rec(es[i])
BY FirstInAt DEF MapOf, Rec

(* Handles of a sequence of entries are numbers. *)
LEMMA HandlesNat ==
    ASSUME NEW es \in Seq(Entry), NEW k \in 1 .. Len(es)
    PROVE  es[k] \in Entry /\ es[k].handle \in Nat
<1>1. es[k] \in Entry
  BY ElementOfSeq
<1>. QED
  BY <1>1, HandleTableAssumption DEF Entry

(* handle_table_insert pushes the new entry in front of its chain: the    *)
(* abstract map gains the new handle, bound to the new entry, and keeps   *)
(* every other binding.                                                   *)
LEMMA MapOfPush ==
    ASSUME NEW es \in Seq(Entry), NEW e \in Entry, Decreasing(<<e>> \o es)
    PROVE  MapOf(<<e>> \o es) =
             [x \in DOMAIN MapOf(es) \cup {e.handle} |->
                IF x = e.handle THEN Rec(e) ELSE MapOf(es)[x]]
<1> DEFINE ps == <<e>> \o es
           n == Len(es)
<1>1. /\ ps \in Seq(Entry)
      /\ Len(ps) = n + 1
      /\ ps[1] = e
      /\ \A k \in 2 .. n + 1 : ps[k] = es[k - 1]
  BY PushProperties
<1>2. Decreasing(es)
  <2>1. SUFFICES ASSUME NEW i \in 1 .. n, NEW j \in 1 .. n, i < j
                 PROVE  es[j].handle < es[i].handle
    BY DEF Decreasing
  <2>2. i + 1 \in 1 .. Len(ps) /\ j + 1 \in 1 .. Len(ps) /\ i + 1 < j + 1
    BY <1>1, <2>1
  <2>3. ps[j + 1].handle < ps[i + 1].handle
    BY <2>2 DEF Decreasing
  <2>. QED
    BY <1>1, <2>1, <2>3
<1>3. \A k \in 1 .. n : es[k].handle # e.handle
  <2>1. SUFFICES ASSUME NEW k \in 1 .. n, es[k].handle = e.handle PROVE FALSE
    OBVIOUS
  <2>2. k + 1 \in 1 .. Len(ps) /\ 1 \in 1 .. Len(ps) /\ 1 < k + 1
    BY <1>1
  <2>3. ps[k + 1].handle < ps[1].handle
    BY <2>2 DEF Decreasing
  <2>4. es[k].handle \in Nat
    BY HandlesNat
  <2>. QED
    BY <1>1, <2>1, <2>3, <2>4
<1>4. DOMAIN MapOf(es) = {es[k].handle : k \in 1 .. n}
  BY DEF MapOf
<1>5. DOMAIN MapOf(ps) = DOMAIN MapOf(es) \cup {e.handle}
  <2>1. DOMAIN MapOf(ps) = {ps[k].handle : k \in 1 .. n + 1}
    BY <1>1 DEF MapOf
  <2>2. \A k \in 1 .. n + 1 : ps[k].handle \in DOMAIN MapOf(es) \cup {e.handle}
    BY <1>1, <1>4
  <2>3. ASSUME NEW x \in DOMAIN MapOf(es) \cup {e.handle}
        PROVE  \E k \in 1 .. n + 1 : ps[k].handle = x
    <3>1. CASE x = e.handle
      BY <1>1, <3>1
    <3>2. CASE x # e.handle
      <4>1. PICK j \in 1 .. n : x = es[j].handle
        BY <3>2, <1>4
      <4>. WITNESS j + 1 \in 1 .. n + 1
      <4>. QED
        BY <1>1, <4>1
    <3>. QED
      BY <3>1, <3>2
  <2>. QED
    BY <2>1, <2>2, <2>3
<1>6. MapOf(ps)[e.handle] = Rec(e)
  <2>1. 1 \in 1 .. Len(ps)
    BY <1>1
  <2>2. MapOf(ps)[ps[1].handle] = Rec(ps[1])
    BY <1>1, <2>1, MapOfAt
  <2>. QED
    BY <1>1, <2>2
<1>7. ASSUME NEW k \in 1 .. n
      PROVE  MapOf(ps)[es[k].handle] = MapOf(es)[es[k].handle]
  <2>1. k + 1 \in 1 .. Len(ps)
    BY <1>1
  <2>2. MapOf(ps)[ps[k + 1].handle] = Rec(ps[k + 1])
    BY <1>1, <2>1, MapOfAt
  <2>3. MapOf(es)[es[k].handle] = Rec(es[k])
    BY <1>2, MapOfAt
  <2>. QED
    BY <1>1, <2>2, <2>3
<1>8. MapOf(ps) = [x \in DOMAIN MapOf(ps) |-> MapOf(ps)[x]]
  BY DEF MapOf
<1>9. \A x \in DOMAIN MapOf(es) \cup {e.handle} :
         MapOf(ps)[x] = IF x = e.handle THEN Rec(e) ELSE MapOf(es)[x]
  BY <1>3, <1>4, <1>6, <1>7
<1>. QED
  BY <1>5, <1>8, <1>9

(* handle_table_remove unlinks the one entry of the handle: the abstract *)
(* map loses that handle and keeps every other binding.                   *)
LEMMA MapOfWithout ==
    ASSUME NEW es \in Seq(Entry), Decreasing(es), NEW f \in 1 .. Len(es)
    PROVE  MapOf(Without(es, f)) =
             [x \in DOMAIN MapOf(es) \ {es[f].handle} |-> MapOf(es)[x]]
<1> DEFINE ws == Without(es, f)
           n == Len(es)
           m(k) == IF k < f THEN k ELSE k + 1
<1>1. /\ ws \in Seq(Entry)
      /\ Len(ws) = n - 1
      /\ \A k \in 1 .. n - 1 : ws[k] = es[m(k)]
  BY WithoutProperties
<1>2. \A k \in 1 .. n - 1 : m(k) \in (1 .. n) \ {f}
  OBVIOUS
<1>3. \A j \in (1 .. n) \ {f} : \E k \in 1 .. n - 1 : m(k) = j
  <2>1. SUFFICES ASSUME NEW j \in (1 .. n) \ {f}
                 PROVE  \E k \in 1 .. n - 1 : m(k) = j
    OBVIOUS
  <2>1a. CASE j < f
    <3>. WITNESS j \in 1 .. n - 1
    <3>. QED  BY <2>1a
  <2>1b. CASE j > f
    <3>. WITNESS j - 1 \in 1 .. n - 1
    <3>. QED  BY <2>1b
  <2>. QED
    BY <2>1a, <2>1b
<1>4. \A j \in (1 .. n) \ {f} : es[j].handle # es[f].handle
  <2>1. SUFFICES ASSUME NEW j \in (1 .. n) \ {f}, es[j].handle = es[f].handle
                 PROVE  FALSE
    OBVIOUS
  <2>2. es[j].handle \in Nat /\ es[f].handle \in Nat
    BY HandlesNat
  <2>. QED
    BY <2>1, <2>2 DEF Decreasing
<1>5. Decreasing(ws)
  <2>1. SUFFICES ASSUME NEW i \in 1 .. n - 1, NEW j \in 1 .. n - 1, i < j
                 PROVE  ws[j].handle < ws[i].handle
    BY <1>1 DEF Decreasing
  <2>2. m(i) < m(j) /\ m(i) \in 1 .. n /\ m(j) \in 1 .. n
    BY <2>1
  <2>. QED
    BY <1>1, <2>2 DEF Decreasing
<1>6. DOMAIN MapOf(ws) = DOMAIN MapOf(es) \ {es[f].handle}
  <2>1. DOMAIN MapOf(ws) = {es[m(k)].handle : k \in 1 .. n - 1}
    BY <1>1 DEF MapOf
  <2>2. DOMAIN MapOf(es) = {es[j].handle : j \in 1 .. n}
    BY DEF MapOf
  <2>. QED
    BY <1>2, <1>3, <1>4, <2>1, <2>2
<1>7. ASSUME NEW k \in 1 .. n - 1
      PROVE  MapOf(ws)[ws[k].handle] = MapOf(es)[ws[k].handle]
  <2>1. MapOf(ws)[ws[k].handle] = Rec(ws[k])
    BY <1>1, <1>5, MapOfAt
  <2>2. MapOf(es)[es[m(k)].handle] = Rec(es[m(k)])
    BY <1>2, MapOfAt
  <2>. QED
    BY <1>1, <2>1, <2>2
<1>8. MapOf(ws) = [x \in DOMAIN MapOf(ws) |-> MapOf(ws)[x]]
  BY DEF MapOf
<1>9. \A x \in DOMAIN MapOf(ws) : MapOf(ws)[x] = MapOf(es)[x]
  <2>1. DOMAIN MapOf(ws) = {ws[k].handle : k \in 1 .. n - 1}
    BY <1>1 DEF MapOf
  <2>. QED
    BY <1>7, <2>1
<1>. QED
  BY <1>6, <1>8, <1>9

(* The empty table stands for the empty map. *)
LEMMA MapOfEmpty ==
    MapOf(<<>>) = [h \in {} |-> [zone |-> {}, ptr |-> {}, size |-> 0]]
BY DEF MapOf

-----------------------------------------------------------------------------
(* Step refinement, one lemma per operation of handle_table.c.            *)

(* A driver start is the abstract initial state: no handle, none issued. *)
LEMMA InitRefines == TableInit => Abstract!Init
<1>1. SUFFICES ASSUME TableInit PROVE Abstract!Init
  OBVIOUS
<1>2. AbstractMap = MapOf(<<>>)
  BY <1>1, AbstractMapIsMapOf DEF TableInit
<1>. QED
  BY <1>1, <1>2, MapOfEmpty DEF TableInit, Abstract!Init

(* handle_table_insert hands out next_handle, a handle of 1 .. Word - 1  *)
(* not issued before in this lifetime, and binds it to the allocation.  *)
LEMMA InsertRefines ==
    ASSUME NoWrap, TableInv,
           NEW z \in Zones, NEW p \in Ptrs, NEW s \in Sizes, Insert(z, p, s)
    PROVE  Abstract!InsertAs(z, p, s, nextHandle)
<1> DEFINE e == [handle |-> nextHandle, zone |-> z, ptr |-> p, size |-> s]
<1>1. nextHandle \in 1 .. MaxInserts /\ nextHandle + 1 < Word
  BY HandleTableAssumption
     DEF NoWrap, TableInv, TableTypeOK, CounterBound, Insert
<1>2. e \in Entry /\ entries \in Seq(Entry)
  BY <1>1, HandleTableAssumption DEF Entry, TableInv, TableTypeOK
<1>3. entries' = <<e>> \o entries
  BY DEF Insert
<1>4. Decreasing(<<e>> \o entries)
  <2>1. TableInv'
    BY InsertInv
  <2>. QED
    BY <1>3, <2>1 DEF TableInv, Ordered, Decreasing
<1>5. AbstractMap' =
        [x \in DOMAIN AbstractMap \cup {nextHandle} |->
           IF x = nextHandle THEN [zone |-> z, ptr |-> p, size |-> s]
                             ELSE AbstractMap[x]]
  <2>1. MapOf(<<e>> \o entries) =
          [x \in DOMAIN MapOf(entries) \cup {e.handle} |->
             IF x = e.handle THEN Rec(e) ELSE MapOf(entries)[x]]
    BY <1>2, <1>4, MapOfPush
  <2>2. e.handle = nextHandle /\ Rec(e) = [zone |-> z, ptr |-> p, size |-> s]
    BY DEF Rec
  <2>3. AbstractMap = MapOf(entries) /\ AbstractMap' = MapOf(<<e>> \o entries)
    BY <1>3, AbstractMapIsMapOf
  <2>. QED
    BY <2>1, <2>2, <2>3
<1>6. nextHandle' = nextHandle + 1
  BY <1>1, HandleTableAssumption DEF Insert
<1>7. (1 .. nextHandle - 1)' = (1 .. nextHandle - 1) \cup {nextHandle}
  BY <1>1, <1>6
<1>8. nextHandle \in (1 .. Word - 1) \ (1 .. nextHandle - 1)
  BY <1>1, HandleTableAssumption
<1>. QED
  BY <1>5, <1>7, <1>8 DEF Abstract!InsertAs

(* handle_table_remove(z, h) succeeds only for a live handle owned by z, *)
(* and the handle is no longer live after it.                            *)
LEMMA RemoveRefines ==
    ASSUME TableInv, NEW z \in Zones, NEW h \in 0 .. Word - 1, Remove(z, h)
    PROVE  /\ h \in 1 .. Word - 1
           /\ Abstract!Remove(z, h)
<1> DEFINE f == First(h)
<1>1. Found(h) # {} /\ entries[f].zone = z
  BY DEF Remove, Owned
<1>2. f \in 1 .. Len(entries) /\ entries[f].handle = h
  BY <1>1, FirstFound DEF Found
<1>3. entries \in Seq(Entry) /\ Decreasing(entries)
  BY DEF TableInv, TableTypeOK, Ordered, Decreasing
<1>4. h \in 1 .. Word - 1
  BY <1>2 DEF TableInv, Issued, TableTypeOK
<1>5. h \in DOMAIN AbstractMap /\ AbstractMap[h].zone = z
  <2>1. /\ entries[f].handle \in DOMAIN MapOf(entries)
        /\ MapOf(entries)[entries[f].handle] = Rec(entries[f])
    BY <1>2, <1>3, MapOfAt
  <2>. QED
    BY <1>1, <1>2, <2>1, AbstractMapIsMapOf DEF Rec
<1>6. AbstractMap' = [x \in DOMAIN AbstractMap \ {h} |-> AbstractMap[x]]
  <2>1. entries' = Without(entries, f)
    BY DEF Remove
  <2>. QED
    BY <1>2, <1>3, <2>1, MapOfWithout, AbstractMapIsMapOf
<1>7. UNCHANGED nextHandle
  BY DEF Remove
<1>. QED
  BY <1>4, <1>5, <1>6, <1>7 DEF Abstract!Remove

(* handle_table_cleanup, and a restart of the driver, empty the map and *)
(* start a new lifetime of handles.                                     *)
LEMMA CleanupRefines ==
    ASSUME Cleanup
    PROVE  Abstract!Cleanup
<1>1. AbstractMap' = MapOf(<<>>)
  BY AbstractMapIsMapOf DEF Cleanup
<1>. QED
  BY <1>1, MapOfEmpty DEF Cleanup, Abstract!Cleanup

(* A step of the table is a step of the abstract map or leaves it and   *)
(* the issued handles unchanged.                                        *)
LEMMA NextRefines ==
    ASSUME NoWrap, TableInv, [TableNext]_tableVars
    PROVE  [Abstract!Next]_Abstract!mapVars
<1>1. CASE \E z \in Zones, p \in Ptrs, s \in Sizes : Insert(z, p, s)
  <2>1. PICK z \in Zones, p \in Ptrs, s \in Sizes : Insert(z, p, s)
    BY <1>1
  <2>2. Abstract!InsertAs(z, p, s, nextHandle)
    BY <2>1, InsertRefines
  <2>3. Abstract!Insert(z, p, s)
    BY <2>2 DEF Abstract!Insert, Abstract!InsertAs
  <2>. QED
    BY <2>1, <2>3 DEF Abstract!Next
<1>2. CASE \E z \in Zones, h \in 0 .. Word - 1 : Remove(z, h)
  BY <1>2, RemoveRefines DEF Abstract!Next
<1>3. CASE Cleanup
  BY <1>3, CleanupRefines DEF Abstract!Next
<1>4. CASE UNCHANGED tableVars
  BY <1>4, AbstractMapIsMapOf DEF tableVars, Abstract!mapVars
<1>. QED
  BY <1>1, <1>2, <1>3, <1>4 DEF TableNext, ZoneCall

(* The handle table implements the abstract map of spec section 3: every *)
(* behaviour of handle_table_insert, handle_table_remove and             *)
(* handle_table_cleanup is a behaviour of HandleMap under the mapping,   *)
(* as long as next_handle does not wrap within a lifetime.               *)
THEOREM MapRefined ==
    ASSUME NoWrap
    PROVE  TableSpec => MapRefinement
<1>1. TableSpec => []TableInv
  BY InvAlways
<1>2. TableInit => Abstract!Init
  BY InitRefines
<1>3. TableInv /\ [TableNext]_tableVars => [Abstract!Next]_Abstract!mapVars
  BY NextRefines
<1>. QED
  BY <1>1, <1>2, <1>3, PTL DEF TableSpec, MapRefinement, Abstract!Spec

====
