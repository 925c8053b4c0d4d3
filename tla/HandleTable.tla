---------------------------- MODULE HandleTable ----------------------------
(***************************************************************************)
(* The driver-side handle table of src/gpu-proxy/handle_table.c.           *)
(*                                                                         *)
(* Each operation runs under table_lock, so it is one atomic step.  The    *)
(* hash buckets are abstracted away: an entry is only ever found in the    *)
(* bucket of its own handle, and within a bucket the chain is newest      *)
(* first, so the whole table is modelled as one sequence of entries,      *)
(* newest first, and a search returns the first entry with the handle.    *)
(* next_handle, total_handles and total_memory are uint64_t: Word stands  *)
(* for 2^64 and every update of them is taken modulo Word.                *)
(***************************************************************************)
EXTENDS Naturals, Sequences

CONSTANTS
    Zones,      \* zone ids that call the table
    Ptrs,       \* non-NULL device pointers
    Sizes,      \* allocation sizes
    Word,       \* 2^64: the uint64_t counters wrap modulo this
    MaxInserts  \* bound on the number of insertions

ASSUME HandleTableAssumption ==
    /\ Sizes \subseteq Nat
    /\ Word \in Nat \ {0, 1}
    /\ MaxInserts \in Nat

VARIABLES
    entries,        \* hash_table[]: the live entries, newest first
    nextHandle,     \* next_handle
    totalHandles,   \* total_handles
    totalMemory,    \* total_memory
    inserts         \* ghost: insertions so far, bounded by MaxInserts

tableVars == <<entries, nextHandle, totalHandles, totalMemory, inserts>>

Entry == [handle : 0 .. Word - 1, zone : Zones, ptr : Ptrs, size : Sizes]

(* The positions in the table holding an entry for handle h. *)
Found(h) == {i \in 1 .. Len(entries) : entries[i].handle = h}

(* The chain walk: the position of the first entry for handle h. *)
First(h) == CHOOSE i \in Found(h) : \A j \in Found(h) : i <= j

(* The entry handle_table_lookup and handle_table_remove find for h, if   *)
(* it exists and is owned by zone z.                                      *)
Owned(z, h) == Found(h) # {} /\ entries[First(h)].zone = z

(* Sum of the sizes of a sequence of entries. *)
MemSum(s) ==
    LET sum[i \in 0 .. Len(s)] == IF i = 0 THEN 0 ELSE sum[i - 1] + s[i].size
    IN  sum[Len(s)]

(* The sequence s without its element at position i. *)
Without(s, i) == [k \in 1 .. Len(s) - 1 |-> IF k < i THEN s[k] ELSE s[k + 1]]

-----------------------------------------------------------------------------
(* handle_table_init, and the static initializers. *)
TableInit ==
    /\ entries = <<>>
    /\ nextHandle = 1
    /\ totalHandles = 0
    /\ totalMemory = 0
    /\ inserts = 0

(* The handle handle_table_insert hands out: the old value of next_handle. *)
NewHandle == nextHandle

(* Mutant: "entry->handle = next_handle" without the increment. *)
InsertNoIncrement(z, p, s) ==
    /\ inserts < MaxInserts
    /\ entries' = <<[handle |-> nextHandle, zone |-> z, ptr |-> p,
                     size |-> s]>> \o entries
    /\ UNCHANGED nextHandle
    /\ totalHandles' = (totalHandles + 1) % Word
    /\ totalMemory' = (totalMemory + s) % Word
    /\ inserts' = inserts + 1

(* Mutant: the byte counter kept in an integer that does not wrap. *)
InsertNoWrap(z, p, s) ==
    /\ inserts < MaxInserts
    /\ entries' = <<[handle |-> nextHandle, zone |-> z, ptr |-> p,
                     size |-> s]>> \o entries
    /\ nextHandle' = (nextHandle + 1) % Word
    /\ totalHandles' = (totalHandles + 1) % Word
    /\ totalMemory' = totalMemory + s
    /\ inserts' = inserts + 1

(* handle_table_insert(z, p, s) with a non-NULL p and a successful malloc: *)
(* take next_handle++, push the entry on its chain, update the statistics. *)
(* The NULL-pointer and malloc-failure returns change nothing.            *)
Insert(z, p, s) ==
    /\ inserts < MaxInserts
    /\ entries' = <<[handle |-> nextHandle, zone |-> z, ptr |-> p,
                     size |-> s]>> \o entries
    /\ nextHandle' = (nextHandle + 1) % Word
    /\ totalHandles' = (totalHandles + 1) % Word
    /\ totalMemory' = (totalMemory + s) % Word
    /\ inserts' = inserts + 1

(* Mutant: the entry is unlinked but total_memory is not reduced. *)
RemoveKeepsMemory(z, h) ==
    /\ Owned(z, h)
    /\ entries' = Without(entries, First(h))
    /\ totalHandles' = (totalHandles - 1) % Word
    /\ UNCHANGED <<nextHandle, totalMemory, inserts>>

(* Mutant: the ownership check is left out. *)
RemoveAnyOwner(z, h) ==
    /\ Found(h) # {}
    /\ entries' = Without(entries, First(h))
    /\ totalHandles' = (totalHandles - 1) % Word
    /\ totalMemory' = (totalMemory - entries[First(h)].size) % Word
    /\ UNCHANGED <<nextHandle, inserts>>

(* handle_table_remove(z, h) that finds h owned by z: unlink the entry    *)
(* and update the statistics.  When h is absent or owned by another zone  *)
(* it returns NULL and changes nothing.                                   *)
Remove(z, h) ==
    /\ Owned(z, h)
    /\ entries' = Without(entries, First(h))
    /\ totalHandles' = (totalHandles - 1) % Word
    /\ totalMemory' = (totalMemory - entries[First(h)].size) % Word
    /\ UNCHANGED <<nextHandle, inserts>>

(* handle_table_lookup(z, h): the pointer and size of h if z owns it.     *)
LookupPtr(z, h) == entries[First(h)].ptr

LookupSize(z, h) == entries[First(h)].size

(* handle_table_cleanup: free every entry and reset the counters. *)
Cleanup ==
    /\ entries' = <<>>
    /\ nextHandle' = 1
    /\ totalHandles' = 0
    /\ totalMemory' = 0
    /\ UNCHANGED inserts

(* A call of the table API by zone z: insert a fresh allocation, or       *)
(* remove a handle (any value of the 64-bit field, owned or not).        *)
ZoneCall(z) ==
    \/ \E p \in Ptrs, s \in Sizes : Insert(z, p, s)
    \/ \E h \in 0 .. Word - 1 : Remove(z, h)

(* The driver shuts down (handle_table_cleanup) and a new driver process  *)
(* starts with a fresh table; both leave the table in the same state.     *)
TableNext == (\E z \in Zones : ZoneCall(z)) \/ Cleanup

TableSpec == TableInit /\ [][TableNext]_tableVars

-----------------------------------------------------------------------------
TableTypeOK ==
    /\ entries \in Seq(Entry)
    /\ nextHandle \in 0 .. Word - 1
    /\ totalHandles \in 0 .. Word - 1
    /\ totalMemory \in 0 .. Word - 1
    /\ inserts \in 0 .. MaxInserts

(* The statistics handle_table_stats reports (and main.c prints) agree    *)
(* with the table: total_handles counts the live entries and              *)
(* total_memory sums their sizes, modulo 2^64, after any mix of inserts,  *)
(* removes, refused removes and cleanups (spec 8, invariant 6).           *)
StatsAgree ==
    /\ totalHandles = Len(entries) % Word
    /\ totalMemory = MemSum(entries) % Word

(* Every live handle is non-zero and names exactly one entry, so the       *)
(* chain walk of lookup and remove can never reach a different allocation *)
(* than the one the handle was issued for (spec 3, handle-table entry).   *)
HandlesDistinct ==
    \A i, j \in 1 .. Len(entries) :
        /\ entries[i].handle # 0
        /\ i # j => entries[i].handle # entries[j].handle

(* A call made on behalf of zone z never removes or alters an entry of    *)
(* another zone: a cross-zone remove returns NULL with the table          *)
(* unchanged (spec 8, invariant 5; the ownership check of                 *)
(* handle_table_remove).                                                  *)
OthersUntouched(z) ==
    \A i \in 1 .. Len(entries) :
        entries[i].zone # z =>
            \E k \in 1 .. Len(entries') : entries'[k] = entries[i]

ZoneIsolation ==
    [][\A z \in Zones : ZoneCall(z) => OthersUntouched(z)]_tableVars


(* The table implements the map of HandleMap: each live handle stands    *)
(* for the entry the chain walk finds, and the handles issued in this     *)
(* lifetime are 1 .. next_handle - 1.  This holds as long as next_handle  *)
(* has not wrapped, i.e. for fewer than 2^64 - 1 insertions per lifetime. *)
LiveHandles == {entries[i].handle : i \in 1 .. Len(entries)}

AbstractMap ==
    [h \in LiveHandles |-> [zone |-> entries[First(h)].zone,
                            ptr |-> entries[First(h)].ptr,
                            size |-> entries[First(h)].size]]

Abstract == INSTANCE HandleMap
    WITH map <- AbstractMap, issued <- 1 .. nextHandle - 1,
         Handles <- 1 .. Word - 1

MapRefinement == Abstract!Spec

====
