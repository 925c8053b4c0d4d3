------------------------- MODULE HandleTableProofs -------------------------
(***************************************************************************)
(* TLAPS proofs about the handle table of handle_table.c (HandleTable).    *)
(*                                                                         *)
(* The properties hold as long as next_handle does not wrap, that is for   *)
(* fewer than 2^64 - 1 insertions: NoWrap says the insert bound stays      *)
(* below the counter's modulus.  The inductive invariant TableInv says     *)
(* that every live handle was issued in this lifetime (1 .. next_handle-1) *)
(* and that the table, newest first, lists handles in strictly decreasing  *)
(* order: handle_table_insert pushes next_handle, larger than every live   *)
(* handle, in front, and remove and cleanup only delete entries.           *)
(***************************************************************************)
EXTENDS HandleTable, SequenceTheorems, TLAPS

(* The counter cannot wrap within the insert bound. *)
NoWrap == MaxInserts + 1 < Word

(* next_handle counts the insertions of this lifetime, from 1. *)
CounterBound == nextHandle \in 1 .. inserts + 1

(* Every live handle was issued by an earlier insert of this lifetime. *)
Issued == \A i \in 1 .. Len(entries) : entries[i].handle \in 1 .. nextHandle - 1

(* Newer entries carry larger handles. *)
Ordered ==
    \A i, j \in 1 .. Len(entries) : i < j => entries[j].handle < entries[i].handle

TableInv == TableTypeOK /\ CounterBound /\ Issued /\ Ordered

-----------------------------------------------------------------------------
(* The sequence Without(s, i) is s with its i-th element cut out. *)
LEMMA WithoutProperties ==
    ASSUME NEW S, NEW s \in Seq(S), NEW i \in 1 .. Len(s)
    PROVE  /\ Without(s, i) \in Seq(S)
           /\ Len(Without(s, i)) = Len(s) - 1
           /\ \A k \in 1 .. Len(s) - 1 :
                 Without(s, i)[k] = IF k < i THEN s[k] ELSE s[k + 1]
BY DEF Without

(* Pushing an entry in front of the table. *)
LEMMA PushProperties ==
    ASSUME NEW S, NEW e \in S, NEW s \in Seq(S)
    PROVE  /\ <<e>> \o s \in Seq(S)
           /\ Len(<<e>> \o s) = Len(s) + 1
           /\ (<<e>> \o s)[1] = e
           /\ \A k \in 2 .. Len(s) + 1 : (<<e>> \o s)[k] = s[k - 1]
<1>1. <<e>> \in Seq(S) /\ Len(<<e>>) = 1
  OBVIOUS
<1>. QED
  BY <1>1, ConcatProperties

(* With strictly ordered handles, the chain walk finds the one entry of a *)
(* live handle.                                                           *)
LEMMA FirstFound ==
    ASSUME TableInv, NEW h, Found(h) # {}
    PROVE  /\ First(h) \in Found(h)
           /\ Found(h) = {First(h)}
<1>1. PICK i \in Found(h) : TRUE
  OBVIOUS
<1>2. \A j \in Found(h) : j = i
  <2>1. SUFFICES ASSUME NEW j \in Found(h), j # i PROVE FALSE
    OBVIOUS
  <2>2. i \in 1 .. Len(entries) /\ j \in 1 .. Len(entries)
        /\ entries[i].handle = h /\ entries[j].handle = h
    BY DEF Found
  <2>3. entries \in Seq(Entry)
    BY DEF TableInv, TableTypeOK
  <2>4. \A a, b \in 1 .. Len(entries) : a < b => entries[b].handle < entries[a].handle
    BY DEF TableInv, Ordered
  <2>5. entries[i] \in Entry /\ entries[j] \in Entry
    BY <2>2, <2>3, ElementOfSeq
  <2>6. entries[i].handle \in Nat /\ entries[j].handle \in Nat
    BY <2>5, HandleTableAssumption DEF Entry
  <2>7. i < j \/ j < i
    BY <2>1, <2>2
  <2>8. CASE i < j
    BY <2>8, <2>2, <2>4, <2>6
  <2>9. CASE j < i
    BY <2>9, <2>2, <2>4, <2>6
  <2>. QED
    BY <2>7, <2>8, <2>9
<1>3. \A j \in Found(h) : i <= j
  BY <1>2 DEF Found
<1>4. First(h) \in Found(h)
  BY <1>3 DEF First
<1>. QED
  BY <1>2, <1>4
-----------------------------------------------------------------------------
LEMMA TableInvInit == TableInit => TableInv
BY HandleTableAssumption DEF TableInit, TableInv, TableTypeOK, CounterBound,
                             Issued, Ordered

(* handle_table_insert keeps the invariant: the new handle next_handle is *)
(* above every live one, and it does not wrap.                            *)
LEMMA InsertInv ==
    ASSUME NoWrap, TableInv,
           NEW z \in Zones, NEW p \in Ptrs, NEW s \in Sizes, Insert(z, p, s)
    PROVE  TableInv'
<1> DEFINE e == [handle |-> nextHandle, zone |-> z, ptr |-> p, size |-> s]
<1>0. e.handle = nextHandle
  OBVIOUS
<1>1. /\ entries \in Seq(Entry)
      /\ nextHandle \in 1 .. inserts + 1
      /\ inserts \in 0 .. MaxInserts - 1
  BY HandleTableAssumption DEF TableInv, TableTypeOK, CounterBound, Insert
<1>2. nextHandle + 1 < Word /\ nextHandle' = nextHandle + 1
  <2>1. nextHandle + 1 \in 0 .. Word - 1
    BY <1>1, HandleTableAssumption DEF NoWrap
  <2>2. nextHandle' = (nextHandle + 1) % Word
    BY DEF Insert
  <2>. QED
    BY <2>1, <2>2, HandleTableAssumption
<1>3. e \in Entry
  BY <1>1, <1>2, HandleTableAssumption DEF Entry
<1>4. entries' = <<e>> \o entries
  BY DEF Insert
<1>5. /\ entries' \in Seq(Entry)
      /\ Len(entries') = Len(entries) + 1
      /\ entries'[1] = e
      /\ \A k \in 2 .. Len(entries) + 1 : entries'[k] = entries[k - 1]
  BY <1>1, <1>3, <1>4, PushProperties
<1>6. TableTypeOK'
  <2>1. /\ totalHandles' = (totalHandles + 1) % Word
        /\ totalMemory' = (totalMemory + s) % Word
        /\ inserts' = inserts + 1
    BY DEF Insert
  <2>2. totalHandles \in 0 .. Word - 1 /\ totalMemory \in 0 .. Word - 1
    BY DEF TableInv, TableTypeOK
  <2>3. s \in Nat
    BY HandleTableAssumption
  <2>4. totalHandles' \in 0 .. Word - 1
    BY <2>1, <2>2, HandleTableAssumption
  <2>5. totalMemory' \in 0 .. Word - 1
    BY <2>1, <2>2, <2>3, HandleTableAssumption
  <2>6. nextHandle' \in 0 .. Word - 1 /\ inserts' \in 0 .. MaxInserts
    BY <1>1, <1>2, <2>1, HandleTableAssumption
  <2>. QED
    BY <1>5, <2>4, <2>5, <2>6 DEF TableTypeOK
<1>7. CounterBound'
  BY <1>1, <1>2 DEF CounterBound, Insert
<1>8. \A k \in 1 .. Len(entries) : entries[k].handle \in 1 .. nextHandle - 1
  BY DEF TableInv, Issued
<1>9. Issued'
  <2>1. SUFFICES ASSUME NEW k \in 1 .. Len(entries')
                 PROVE  entries'[k].handle \in 1 .. nextHandle' - 1
    BY DEF Issued
  <2>2. CASE k = 1
    BY <2>2, <1>0, <1>1, <1>2, <1>5
  <2>3. CASE k # 1
    <3>1. k - 1 \in 1 .. Len(entries)
      BY <2>1, <2>3, <1>1, <1>5
    <3>2. entries'[k] = entries[k - 1]
      BY <3>1, <1>5
    <3>3. entries[k - 1].handle \in 1 .. nextHandle - 1
      BY <3>1, <1>8
    <3>. QED
      BY <3>2, <3>3, <1>1, <1>2
  <2>. QED
    BY <2>2, <2>3
<1>10. Ordered'
  <2>1. SUFFICES ASSUME NEW i \in 1 .. Len(entries'), NEW j \in 1 .. Len(entries'),
                        i < j
                 PROVE  entries'[j].handle < entries'[i].handle
    BY DEF Ordered
  <2>2. entries'[j] = entries[j - 1] /\ j - 1 \in 1 .. Len(entries)
    BY <1>1, <1>5, <2>1
  <2>3. CASE i = 1
    <3>1. entries'[i].handle = nextHandle
      BY <2>3, <1>0, <1>5
    <3>2. entries'[j].handle \in 1 .. nextHandle - 1
      BY <2>2, <1>8
    <3>. QED
      BY <3>1, <3>2, <1>1
  <2>4. CASE i # 1
    <3>1. entries'[i] = entries[i - 1] /\ i - 1 \in 1 .. Len(entries)
      BY <1>1, <1>5, <2>1, <2>4
    <3>2. \A a, b \in 1 .. Len(entries) :
              a < b => entries[b].handle < entries[a].handle
      BY DEF TableInv, Ordered
    <3>. QED
      BY <2>1, <2>2, <3>1, <3>2
  <2>. QED
    BY <2>3, <2>4
<1>. QED
  BY <1>6, <1>7, <1>9, <1>10 DEF TableInv

(* handle_table_remove keeps the invariant: it cuts one entry out and    *)
(* leaves the rest in order.                                              *)
LEMMA RemoveInv ==
    ASSUME TableInv, NEW z \in Zones, NEW h \in 0 .. Word - 1, Remove(z, h)
    PROVE  TableInv'
<1> DEFINE f == First(h)
           m(k) == IF k < f THEN k ELSE k + 1
<1>1. entries \in Seq(Entry)
  BY DEF TableInv, TableTypeOK
<1>2. f \in 1 .. Len(entries)
  <2>1. Found(h) # {}
    BY DEF Remove, Owned
  <2>. QED
    BY <2>1, FirstFound DEF Found
<1>3. entries' = Without(entries, f)
  BY DEF Remove
<1>4. /\ entries' \in Seq(Entry)
      /\ Len(entries') = Len(entries) - 1
      /\ \A k \in 1 .. Len(entries) - 1 : entries'[k] = entries[m(k)]
  BY <1>1, <1>2, <1>3, WithoutProperties
<1>5. \A k \in 1 .. Len(entries) - 1 : m(k) \in 1 .. Len(entries)
  BY <1>1, <1>2
<1>6. TableTypeOK'
  <2>1. entries[f].size \in Nat
    <3>1. entries[f] \in Entry
      BY <1>1, <1>2, ElementOfSeq
    <3>. QED
      BY <3>1, HandleTableAssumption DEF Entry
  <2>2. /\ totalHandles' = (totalHandles - 1) % Word
        /\ totalMemory' = (totalMemory - entries[f].size) % Word
        /\ UNCHANGED <<nextHandle, inserts>>
    BY DEF Remove
  <2>3. totalHandles \in 0 .. Word - 1 /\ totalMemory \in 0 .. Word - 1
        /\ nextHandle \in 0 .. Word - 1 /\ inserts \in 0 .. MaxInserts
    BY DEF TableInv, TableTypeOK
  <2>4. totalHandles' \in 0 .. Word - 1
    BY <2>2, <2>3, HandleTableAssumption
  <2>5. totalMemory' \in 0 .. Word - 1
    BY <2>1, <2>2, <2>3, HandleTableAssumption
  <2>. QED
    BY <1>4, <2>2, <2>3, <2>4, <2>5 DEF TableTypeOK
<1>7. CounterBound'
  BY DEF TableInv, CounterBound, Remove
<1>8. Issued'
  <2>1. \A k \in 1 .. Len(entries) : entries[k].handle \in 1 .. nextHandle - 1
    BY DEF TableInv, Issued
  <2>2. nextHandle' = nextHandle
    BY DEF Remove
  <2>. QED
    BY <1>1, <1>4, <1>5, <2>1, <2>2 DEF Issued
<1>9. Ordered'
  <2>1. SUFFICES ASSUME NEW i \in 1 .. Len(entries'), NEW j \in 1 .. Len(entries'),
                        i < j
                 PROVE  entries'[j].handle < entries'[i].handle
    BY DEF Ordered
  <2>2. i \in 1 .. Len(entries) - 1 /\ j \in 1 .. Len(entries) - 1
    BY <1>1, <1>4, <2>1
  <2>3. m(i) < m(j)
    BY <2>1, <2>2, <1>2
  <2>4. \A a, b \in 1 .. Len(entries) :
            a < b => entries[b].handle < entries[a].handle
    BY DEF TableInv, Ordered
  <2>. QED
    BY <1>4, <1>5, <2>2, <2>3, <2>4
<1>. QED
  BY <1>6, <1>7, <1>8, <1>9 DEF TableInv

(* handle_table_cleanup and the start of a new driver leave an empty      *)
(* table with next_handle = 1.                                            *)
LEMMA CleanupInv ==
    ASSUME TableInv, Cleanup
    PROVE  TableInv'
BY HandleTableAssumption
   DEF TableInv, Cleanup, TableTypeOK, CounterBound, Issued, Ordered

LEMMA TableInvNext ==
    ASSUME NoWrap, TableInv, [TableNext]_tableVars
    PROVE  TableInv'
<1>1. CASE \E z \in Zones, p \in Ptrs, s \in Sizes : Insert(z, p, s)
  BY <1>1, InsertInv
<1>2. CASE \E z \in Zones, h \in 0 .. Word - 1 : Remove(z, h)
  BY <1>2, RemoveInv
<1>3. CASE Cleanup
  BY <1>3, CleanupInv
<1>4. CASE UNCHANGED tableVars
  BY <1>4 DEF TableInv, TableTypeOK, CounterBound, Issued, Ordered, tableVars
<1>. QED
  BY <1>1, <1>2, <1>3, <1>4 DEF TableNext, ZoneCall

LEMMA InvDistinct == TableInv => HandlesDistinct
<1>1. SUFFICES ASSUME TableInv, NEW i \in 1 .. Len(entries),
                      NEW j \in 1 .. Len(entries)
               PROVE  /\ entries[i].handle # 0
                      /\ i # j => entries[i].handle # entries[j].handle
  BY DEF HandlesDistinct
<1>2. entries[i].handle \in 1 .. nextHandle - 1
      /\ entries[j].handle \in 1 .. nextHandle - 1
  BY <1>1 DEF TableInv, Issued
<1>3. i < j => entries[j].handle < entries[i].handle
  BY <1>1 DEF TableInv, Ordered
<1>4. j < i => entries[i].handle < entries[j].handle
  BY <1>1 DEF TableInv, Ordered
<1>. QED
  BY <1>2, <1>3, <1>4

(* One call of zone z leaves every entry of the other zones in the table. *)
LEMMA IsolationStep ==
    ASSUME TableInv, NEW z \in Zones, ZoneCall(z)
    PROVE  OthersUntouched(z)
<1>1. entries \in Seq(Entry)
  BY DEF TableInv, TableTypeOK
<1>2. CASE \E p \in Ptrs, s \in Sizes : Insert(z, p, s)
  <2>1. PICK p \in Ptrs, s \in Sizes : Insert(z, p, s)
    BY <1>2
  <2>2. [handle |-> nextHandle, zone |-> z, ptr |-> p, size |-> s] \in Entry
    BY <2>1, HandleTableAssumption DEF TableInv, TableTypeOK, Entry
  <2>3. /\ Len(entries') = Len(entries) + 1
        /\ \A k \in 2 .. Len(entries) + 1 : entries'[k] = entries[k - 1]
    BY <1>1, <2>1, <2>2, PushProperties DEF Insert
  <2>4. SUFFICES ASSUME NEW i \in 1 .. Len(entries)
                 PROVE  \E k \in 1 .. Len(entries') : entries'[k] = entries[i]
    BY DEF OthersUntouched
  <2>5. i + 1 \in 2 .. Len(entries) + 1 /\ (i + 1) - 1 = i
    BY <1>1
  <2>6. entries'[i + 1] = entries[i]
    BY <2>3, <2>5
  <2>7. i + 1 \in 1 .. Len(entries')
    BY <1>1, <2>3, <2>5
  <2>. QED
    BY <2>6, <2>7
<1>3. CASE \E h \in 0 .. Word - 1 : Remove(z, h)
  <2>1. PICK h \in 0 .. Word - 1 : Remove(z, h)
    BY <1>3
  <2> DEFINE f == First(h)
             m(k) == IF k < f THEN k ELSE k + 1
  <2>2. f \in 1 .. Len(entries) /\ entries[f].zone = z
    <3>1. Found(h) # {} /\ entries[First(h)].zone = z
      BY <2>1 DEF Remove, Owned
    <3>. QED
      BY <3>1, FirstFound DEF Found
  <2>3. /\ Len(entries') = Len(entries) - 1
        /\ \A k \in 1 .. Len(entries) - 1 : entries'[k] = entries[m(k)]
    BY <1>1, <2>1, <2>2, WithoutProperties DEF Remove
  <2>4. SUFFICES ASSUME NEW i \in 1 .. Len(entries), entries[i].zone # z
                 PROVE  \E k \in 1 .. Len(entries') : entries'[k] = entries[i]
    BY DEF OthersUntouched
  <2>5. i # f
    BY <2>2, <2>4
  <2>6. CASE i < f
    <3>1. i \in 1 .. Len(entries) - 1 /\ m(i) = i
      BY <1>1, <2>2, <2>6
    <3>. QED
      BY <2>3, <3>1
  <2>7. CASE f < i
    <3>1. i - 1 \in 1 .. Len(entries) - 1 /\ m(i - 1) = i
      BY <1>1, <2>2, <2>7
    <3>. QED
      BY <2>3, <3>1
  <2>. QED
    BY <1>1, <2>2, <2>5, <2>6, <2>7
<1>. QED
  BY <1>2, <1>3 DEF ZoneCall

-----------------------------------------------------------------------------
(* The invariant holds in every reachable state of the table. *)
LEMMA InvAlways ==
    ASSUME NoWrap
    PROVE  TableSpec => []TableInv
BY TableInvInit, TableInvNext, PTL DEF TableSpec

(* Type correctness of handle_table.c's state: the counters stay 64-bit   *)
(* values and every entry is well formed, after any sequence of calls    *)
(* that does not wrap next_handle.                                       *)
THEOREM TableTyped ==
    ASSUME NoWrap
    PROVE  TableSpec => []TableTypeOK
<1>1. TableInv => TableTypeOK
  BY DEF TableInv
<1>. QED
  BY <1>1, InvAlways, PTL

(* Every live handle is non-zero and unique, so handle_table_lookup and   *)
(* handle_table_remove always reach the allocation the handle was issued *)
(* for, for every table size and every insert bound below 2^64 - 1.      *)
THEOREM HandlesUnique ==
    ASSUME NoWrap
    PROVE  TableSpec => []HandlesDistinct
BY InvDistinct, InvAlways, PTL

(* No insert or remove made for zone z removes or alters an entry of     *)
(* another zone: the ownership check of handle_table_remove protects     *)
(* every other zone's allocations.                                        *)
THEOREM Isolation ==
    ASSUME NoWrap
    PROVE  TableSpec => ZoneIsolation
<1>1. TableInv => \A z \in Zones : ZoneCall(z) => OthersUntouched(z)
  BY IsolationStep
<1>2. TableInv => [\A z \in Zones : ZoneCall(z) => OthersUntouched(z)]_tableVars
  BY <1>1
<1>. QED
  BY <1>2, InvAlways, PTL DEF ZoneIsolation

====
