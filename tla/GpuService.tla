------------------------------ MODULE GpuService ------------------------------
(***************************************************************************)
(* What the GPU proxy promises the application (spec sections 4.4 and     *)
(* 4.5): each cuMem* call is one remote operation.  The call is sent; the *)
(* driver performs it once, on its handle map (HandleMap) and its device   *)
(* memory, and answers; the answer is returned to that call, which keeps   *)
(* the handle an ALLOC returns and drops the handle a FREE releases.       *)
(* Handles and device pointers are values, not bytes; the copied data is   *)
(* not part of the promise.                                                *)
(***************************************************************************)
EXTENDS Naturals

CONSTANTS
    ClientZone,     \* the zone of the application
    ClientOps,      \* the calls the application makes
    Ptrs,           \* device allocations
    Sizes,          \* allocation and copy sizes
    Offsets,        \* copy offsets
    Handles         \* handle values; 0 is not one of them

VARIABLES
    map,        \* the driver's live handles (HandleMap)
    issued,     \* the handles issued in this driver lifetime (HandleMap)
    dev,        \* device memory allocated by the driver
    held,       \* the handles the application holds -> device pointer
    phase,      \* "idle", "sent" (not yet performed) or "done" (answered)
    call,       \* the call in progress
    answer,     \* the driver's answer to it, once performed
    result      \* what the last call returned

serviceVars == <<map, issued, dev, held, phase, call, answer, result>>

Table == INSTANCE HandleMap WITH Zones <- {ClientZone}

NoCall == [type |-> "NONE", handle |-> 0, off |-> 0, size |-> 0]

Ok(h, p) == [type |-> "OK", handle |-> h, ptr |-> p, err |-> "NONE"]

Err(e) == [type |-> "ERROR", handle |-> 0, ptr |-> 0, err |-> e]

NoAnswer == [type |-> "NONE", handle |-> 0, ptr |-> 0, err |-> "NONE"]

(* The calls the application can make: FREE and the copies name a handle *)
(* it holds.                                                              *)
Calls ==
    LET C(t, h, o, s) == [type |-> t, handle |-> h, off |-> o, size |-> s]
    IN  {C(t, 0, 0, s) : t \in ClientOps \cap {"ALLOC"}, s \in Sizes}
        \cup {C(t, 0, 0, 0) : t \in ClientOps \cap {"SYNC"}}
        \cup {C(t, h, 0, 0) : t \in ClientOps \cap {"FREE"}, h \in DOMAIN held}
        \cup {C(t, h, o, s) : t \in ClientOps \cap {"H2D", "D2H", "D2D"},
                              h \in DOMAIN held, o \in Offsets, s \in Sizes}

(* The application's handle h names a live allocation of its zone. *)
Owns(h) == h \in DOMAIN map /\ map[h].zone = ClientZone

(* Spec 4.5: the error translation of the correlator. *)
Translate(a) ==
    IF a.type = "OK" THEN "SUCCESS"
    ELSE IF a.err \in {"OUT_OF_MEMORY", "INVALID_HANDLE"} THEN a.err
    ELSE "INVALID_VALUE"

(* cuMemAlloc keeps the handle it gets; cuMemFree gives up the handle. *)
Keep(c, a) ==
    CASE a.type = "OK" /\ c.type = "ALLOC" ->
            [h \in DOMAIN held \cup {a.handle} |->
                IF h = a.handle THEN a.ptr ELSE held[h]]
      [] a.type = "OK" /\ c.type = "FREE" ->
            [h \in DOMAIN held \ {c.handle} |-> held[h]]
      [] OTHER -> held

-----------------------------------------------------------------------------
Init ==
    /\ Table!Init
    /\ dev = {}
    /\ held = [h \in {} |-> 0]
    /\ phase = "idle"
    /\ call = NoCall
    /\ answer = NoAnswer
    /\ result = "SUCCESS"

(* The application makes a call. *)
Call ==
    /\ phase = "idle"
    /\ \E c \in Calls : call' = c
    /\ phase' = "sent"
    /\ UNCHANGED <<map, issued, dev, held, answer, result>>

(* The driver answers the call with a. *)
Answer(a) ==
    /\ phase' = "done"
    /\ answer' = a
    /\ UNCHANGED <<held, call, result>>

(* ALLOC: a new allocation under a new handle, or a backend error and    *)
(* nothing allocated.                                                     *)
DoAlloc ==
    /\ phase = "sent"
    /\ call.type = "ALLOC"
    /\ \/ \E p \in Ptrs \ dev, h \in Handles :
             /\ Table!InsertAs(ClientZone, p, call.size, h)
             /\ dev' = dev \cup {p}
             /\ Answer(Ok(h, p))
       \/ /\ UNCHANGED <<map, issued, dev>>
          /\ \E e \in {"OUT_OF_MEMORY", "DRIVER_ERROR"} : Answer(Err(e))

(* FREE: remove the owned handle and free its memory; an unknown handle  *)
(* is INVALID_HANDLE; a failed backend free destroys nothing (spec 3).    *)
DoFree ==
    /\ phase = "sent"
    /\ call.type = "FREE"
    /\ \/ /\ Table!Remove(ClientZone, call.handle)
          /\ dev' = dev \ {map[call.handle].ptr}
          /\ Answer(Ok(0, 0))
       \/ /\ ~Owns(call.handle)
          /\ UNCHANGED <<map, issued, dev>>
          /\ Answer(Err("INVALID_HANDLE"))
       \/ /\ UNCHANGED <<map, issued, dev>>
          /\ Answer(Err("DRIVER_ERROR"))

(* The copies: INVALID_HANDLE, INVALID_SIZE when offset + size exceeds   *)
(* the allocation (spec 8, invariant 8), else the copy's outcome.         *)
DoCopy ==
    /\ phase = "sent"
    /\ call.type \in {"H2D", "D2H", "D2D"}
    /\ UNCHANGED <<map, issued, dev>>
    /\ \/ ~Owns(call.handle) /\ Answer(Err("INVALID_HANDLE"))
       \/ /\ Owns(call.handle)
          /\ call.off + call.size > map[call.handle].size
          /\ Answer(Err("INVALID_SIZE"))
       \/ /\ Owns(call.handle)
          /\ call.off + call.size <= map[call.handle].size
          /\ \E a \in {Ok(0, 0), Err("DRIVER_ERROR"), Err("OUT_OF_MEMORY")} :
                Answer(a)

(* SYNC: the outcome of synchronize. *)
DoSync ==
    /\ phase = "sent"
    /\ call.type = "SYNC"
    /\ UNCHANGED <<map, issued, dev>>
    /\ \E a \in {Ok(0, 0), Err("DRIVER_ERROR")} : Answer(a)

(* The call returns its answer. *)
Return ==
    /\ phase = "done"
    /\ held' = Keep(call, answer)
    /\ result' = Translate(answer)
    /\ phase' = "idle"
    /\ call' = NoCall
    /\ answer' = NoAnswer
    /\ UNCHANGED <<map, issued, dev>>

Next == Call \/ DoAlloc \/ DoFree \/ DoCopy \/ DoSync \/ Return

Spec == Init /\ [][Next]_serviceVars

====
