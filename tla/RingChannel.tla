---------------------------- MODULE RingChannel ----------------------------
(***************************************************************************)
(* One direction of the IDM transport of src/idm-protocol/transport.c      *)
(* (stub mode): a ring in shared memory, written by the producer with      *)
(* idm_send and read by the consumer with idm_recv, and the named POSIX    *)
(* semaphore that idm_send posts and idm_recv waits on.                    *)
(*                                                                         *)
(* The producer and the consumer are two processes in two zones.  Each     *)
(* call is split into the steps between which the other process, or a      *)
(* restart, can act:                                                       *)
(*   idm_send: read the indices and check for room (SendCheck), copy the   *)
(*             message into the slot (SendCopy), publish producer + 1      *)
(*             (SendPublish), sem_post (SendNotify);                       *)
(*   idm_recv: sem wait (RecvWait), read the indices and the slot          *)
(*             (RecvRead), publish consumer + 1 (RecvAdvance).             *)
(* Returns that change no state (ENOSPC, a receive timeout) are stutters.  *)
(*                                                                         *)
(* One of the two processes is the server (the driver zone, idm_init with  *)
(* is_server): when it (re)starts, init_shm zeroes the ring.  The other    *)
(* attaches without zeroing.  Either may restart at any point; the         *)
(* semaphore is named and survives both.                                   *)
(***************************************************************************)
EXTENDS IdmRing, Sequences

CONSTANTS
    MaxSends,           \* bound on the number of messages ever copied in
    MaxServerRestarts,  \* bound on restarts of the server-side process
    MaxClientRestarts,  \* bound on restarts of the client-side process
    ServerIsProducer,   \* TRUE: the server writes this ring (driver->user)
    RecvMallocFails     \* TRUE: the malloc of idm_recv may return NULL

ASSUME ChannelAssumption ==
    /\ MaxSends \in Nat
    /\ MaxServerRestarts \in Nat
    /\ MaxClientRestarts \in Nat
    /\ ServerIsProducer \in BOOLEAN
    /\ RecvMallocFails \in BOOLEAN

VARIABLES
    prod,       \* ring->producer
    cons,       \* ring->consumer
    slot,       \* ring->entries[]: a message ordinal or Zeroed
    sem,        \* value of the semaphore the consumer waits on
    spc,        \* where the producer is in idm_send
    sidx,       \* the producer index idm_send read (local "prod")
    rpc,        \* where the consumer is in idm_recv
    ridx,       \* the consumer index idm_recv read (local "cons")
    rmsg,       \* the slot content idm_recv read
    nsent,      \* ghost: ordinals handed out so far (the last message sent)
    got,        \* ghost: the messages idm_recv returned, in order
    restarts    \* ghost: restarts so far, per side

vars == <<prod, cons, slot, sem, spc, sidx, rpc, ridx, rmsg, nsent, got,
          restarts>>

Msgs == 1 .. MaxSends

Sides == {"producer", "consumer"}

ServerSide == IF ServerIsProducer THEN "producer" ELSE "consumer"

MaxRestarts(side) ==
    IF side = ServerSide THEN MaxServerRestarts ELSE MaxClientRestarts

(* The published, unconsumed messages, oldest first. *)
Backlog == [k \in 1 .. Used(prod, cons) |-> slot[Idx(cons + k - 1)]]

-----------------------------------------------------------------------------
Init ==
    /\ prod = 0
    /\ cons = 0
    /\ slot = [i \in Slots |-> Zeroed]
    /\ sem = 0
    /\ spc = "idle"
    /\ sidx = 0
    /\ rpc = "idle"
    /\ ridx = 0
    /\ rmsg = Zeroed
    /\ nsent = 0
    /\ got = <<>>
    /\ restarts = [s \in Sides |-> 0]

(* idm_send: load producer and consumer; go on only if the ring has room. *)
SendCheck ==
    /\ spc = "idle"
    /\ nsent < MaxSends
    /\ ~Full(prod, cons)
    /\ sidx' = prod
    /\ spc' = "checked"
    /\ UNCHANGED <<prod, cons, slot, sem, rpc, ridx, rmsg, nsent, got,
                   restarts>>

(* idm_send: memcpy the message into entries[prod % IDM_RING_SIZE]. *)
SendCopy ==
    /\ spc = "checked"
    /\ nsent' = nsent + 1
    /\ slot' = [slot EXCEPT ![Idx(sidx)] = nsent + 1]
    /\ spc' = "copied"
    /\ UNCHANGED <<prod, cons, sem, sidx, rpc, ridx, rmsg, got, restarts>>

(* idm_send: wmb(); ring->producer = prod + 1. *)
SendPublish ==
    /\ spc = "copied"
    /\ prod' = Inc(sidx)
    /\ spc' = "published"
    /\ UNCHANGED <<cons, slot, sem, sidx, rpc, ridx, rmsg, nsent, got,
                   restarts>>

(* Mutant: idm_send returns without sem_post. *)
SendNotifyNoPost ==
    /\ spc = "published"
    /\ spc' = "idle"
    /\ UNCHANGED <<prod, cons, slot, sem, sidx, rpc, ridx, rmsg, nsent, got,
                   restarts>>

(* idm_send: sem_post(conn->tx_sem); return 0. *)
SendNotify ==
    /\ spc = "published"
    /\ sem' = sem + 1
    /\ spc' = "idle"
    /\ UNCHANGED <<prod, cons, slot, sidx, rpc, ridx, rmsg, nsent, got,
                   restarts>>

(* idm_recv: sem_wait/sem_trywait/sem_timedwait succeeds.  When it times  *)
(* out, idm_recv returns -EAGAIN without touching the ring (a stutter).   *)
RecvWait ==
    /\ rpc = "idle"
    /\ sem > 0
    /\ sem' = sem - 1
    /\ rpc' = "woken"
    /\ UNCHANGED <<prod, cons, slot, spc, sidx, ridx, rmsg, nsent, got,
                   restarts>>

(* Mutant: the -ENOMEM path also advances the consumer, as the -EINVAL  *)
(* path does, dropping the message.                                       *)
RecvReadDropOnNoMem ==
    /\ rpc = "woken"
    /\ \/ /\ cons = prod
          /\ rpc' = "idle"
          /\ UNCHANGED <<ridx, rmsg>>
       \/ /\ cons # prod
          /\ ~Valid(slot[Idx(cons)])
          /\ rpc' = "read"
          /\ ridx' = cons
          /\ rmsg' = Zeroed
       \/ /\ cons # prod
          /\ Valid(slot[Idx(cons)])
          /\ RecvMallocFails
          /\ rpc' = "read"
          /\ ridx' = cons
          /\ rmsg' = Zeroed
       \/ /\ cons # prod
          /\ Valid(slot[Idx(cons)])
          /\ rpc' = "read"
          /\ ridx' = cons
          /\ rmsg' = slot[Idx(cons)]
    /\ UNCHANGED <<prod, cons, slot, sem, spc, sidx, nsent, got, restarts>>

(* idm_recv: load consumer and producer; -EAGAIN if equal; validate the  *)
(* slot (an invalid one is skipped by RecvAdvance); for a valid one,     *)
(* malloc the copy (-ENOMEM leaves the message in the ring) and memcpy.  *)
RecvRead ==
    /\ rpc = "woken"
    /\ \/ /\ cons = prod
          /\ rpc' = "idle"
          /\ UNCHANGED <<ridx, rmsg>>
       \/ /\ cons # prod
          /\ ~Valid(slot[Idx(cons)])
          /\ rpc' = "read"
          /\ ridx' = cons
          /\ rmsg' = Zeroed
       \/ /\ cons # prod
          /\ Valid(slot[Idx(cons)])
          /\ RecvMallocFails
          /\ rpc' = "idle"
          /\ UNCHANGED <<ridx, rmsg>>
       \/ /\ cons # prod
          /\ Valid(slot[Idx(cons)])
          /\ rpc' = "read"
          /\ ridx' = cons
          /\ rmsg' = slot[Idx(cons)]
    /\ UNCHANGED <<prod, cons, slot, sem, spc, sidx, nsent, got, restarts>>

(* idm_recv: ring->consumer = cons + 1; return the copy (0) or -EINVAL. *)
RecvAdvance ==
    /\ rpc = "read"
    /\ cons' = Inc(ridx)
    /\ got' = IF Valid(rmsg) THEN Append(got, rmsg) ELSE got
    /\ rpc' = "idle"
    /\ UNCHANGED <<prod, slot, sem, spc, sidx, ridx, rmsg, nsent, restarts>>

(* idm_init when the server starts: init_shm memsets the ring to zero. *)
ZeroRing ==
    /\ prod' = 0
    /\ cons' = 0
    /\ slot' = [i \in Slots |-> Zeroed]

(* Mutant: the restarting producer zeroes the ring whatever its role. *)
ProducerRestartZeroes ==
    /\ restarts["producer"] < MaxRestarts("producer")
    /\ restarts' = [restarts EXCEPT !["producer"] = @ + 1]
    /\ spc' = "idle"
    /\ sidx' = 0
    /\ ZeroRing
    /\ UNCHANGED <<sem, rpc, ridx, rmsg, nsent, got>>

(* The producer's process dies wherever it is and idm_init runs again. *)
ProducerRestart ==
    /\ restarts["producer"] < MaxRestarts("producer")
    /\ restarts' = [restarts EXCEPT !["producer"] = @ + 1]
    /\ spc' = "idle"
    /\ sidx' = 0
    /\ IF ServerIsProducer THEN ZeroRing ELSE UNCHANGED <<prod, cons, slot>>
    /\ UNCHANGED <<sem, rpc, ridx, rmsg, nsent, got>>

(* Mutant: the restarting consumer zeroes the ring whatever its role. *)
ConsumerRestartZeroes ==
    /\ restarts["consumer"] < MaxRestarts("consumer")
    /\ restarts' = [restarts EXCEPT !["consumer"] = @ + 1]
    /\ rpc' = "idle"
    /\ ridx' = 0
    /\ rmsg' = Zeroed
    /\ ZeroRing
    /\ UNCHANGED <<sem, spc, sidx, nsent, got>>

(* The consumer's process dies wherever it is and idm_init runs again. *)
ConsumerRestart ==
    /\ restarts["consumer"] < MaxRestarts("consumer")
    /\ restarts' = [restarts EXCEPT !["consumer"] = @ + 1]
    /\ rpc' = "idle"
    /\ ridx' = 0
    /\ rmsg' = Zeroed
    /\ IF ServerIsProducer THEN UNCHANGED <<prod, cons, slot>> ELSE ZeroRing
    /\ UNCHANGED <<sem, spc, sidx, nsent, got>>

Next ==
    \/ SendCheck \/ SendCopy \/ SendPublish \/ SendNotify
    \/ RecvWait \/ RecvRead \/ RecvAdvance
    \/ ProducerRestart \/ ConsumerRestart

(* The consumer is a loop around idm_recv (the driver's main loop), and  *)
(* an idm_send that has begun runs to its end: no step of it blocks.     *)
Fairness ==
    /\ WF_vars(SendCopy) /\ WF_vars(SendPublish) /\ WF_vars(SendNotify)
    /\ WF_vars(RecvWait) /\ WF_vars(RecvRead) /\ WF_vars(RecvAdvance)

Spec == Init /\ [][Next]_vars

FairSpec == Spec /\ Fairness

-----------------------------------------------------------------------------
TypeOK ==
    /\ prod \in Index
    /\ cons \in Index
    /\ slot \in [Slots -> {Zeroed} \cup Msgs]
    /\ sem \in 0 .. MaxSends
    /\ spc \in {"idle", "checked", "copied", "published"}
    /\ sidx \in Index
    /\ rpc \in {"idle", "woken", "read"}
    /\ ridx \in Index
    /\ rmsg \in {Zeroed} \cup Msgs
    /\ nsent \in 0 .. MaxSends
    /\ got \in Seq(Msgs)
    /\ restarts \in [Sides -> Nat]

(* Spec invariant 1: the unsigned difference producer - consumer stays   *)
(* within 0 .. IDM_RING_SIZE, across index wrap-around, for every        *)
(* interleaving of idm_send and idm_recv.                                *)
OccupancyBound == Used(prod, cons) <= Size

(* idm_recv hands messages to its callers in the order idm_send wrote    *)
(* them and never the same one twice.                                    *)
InOrderDelivery ==
    \A i, j \in 1 .. Len(got) : i < j => got[i] < got[j]

(* The ring implements the bounded FIFO queue of IdmQueue: the published, *)
(* unconsumed slots are the queue.  A step of idm_send that does not      *)
(* publish, and a receive that fails, leave that queue unchanged; so no   *)
(* slot copy ever overwrites a message the consumer has not yet taken.    *)
Queue == INSTANCE IdmQueue WITH Capacity <- Size, queue <- Backlog

QueueRefinement == Queue!Spec

(* Every message published into the ring is eventually returned by       *)
(* idm_recv: the semaphore wake-up of idm_send is never lost for good.   *)
EveryMessageReceived ==
    \A n \in Msgs :
        (\E k \in 1 .. Len(Backlog) : Backlog[k] = n)
            ~> (\E k \in 1 .. Len(got) : got[k] = n)

=============================================================================
