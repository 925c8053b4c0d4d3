------------------------- MODULE RingChannelProofs -------------------------
(***************************************************************************)
(* Proofs about RingChannel, for every ring size, index width and bound.  *)
(***************************************************************************)
EXTENDS RingChannel, TLAPS

-----------------------------------------------------------------------------
(* Arithmetic of the uint32_t indices.                                     *)

(* "x + 1" stored back into an index stays an index. *)
LEMMA IncIndex ==
    ASSUME NEW i \in Index
    PROVE  Inc(i) \in Index
  BY RingAssumption DEF Inc, Index

(* "prod - cons" on uint32_t is a count between 0 and 2^32 - 1. *)
LEMMA UsedIndex ==
    ASSUME NEW p \in Index, NEW c \in Index
    PROVE  Used(p, c) \in Index
  BY RingAssumption DEF Used, Index

(* A slot number computed from any natural number is a slot. *)
LEMMA IdxSlot ==
    ASSUME NEW i \in Nat
    PROVE  Idx(i) \in Slots
  BY RingAssumption DEF Idx, Slots

(* The count is zero exactly when the two indices are equal. *)
LEMMA UsedZero ==
    ASSUME NEW p \in Index, NEW c \in Index
    PROVE  Used(p, c) = 0 <=> p = c
  BY RingAssumption DEF Used, Index

(* Publishing one more message into a ring with room adds one. *)
LEMMA UsedInc ==
    ASSUME NEW p \in Index, NEW c \in Index, Used(p, c) < Size
    PROVE  Used(Inc(p), c) = Used(p, c) + 1
  BY RingAssumption DEF Used, Inc, Index

(* Consuming one message of a non-empty ring takes one away. *)
LEMMA UsedDec ==
    ASSUME NEW p \in Index, NEW c \in Index, Used(p, c) >= 1
    PROVE  Used(p, Inc(c)) = Used(p, c) - 1
  BY RingAssumption DEF Used, Inc, Index

-----------------------------------------------------------------------------
(* Type correctness.  TypeOK alone is not inductive: the semaphore bound  *)
(* and the range of the ordinal SendCopy writes rest on two facts about   *)
(* the producer, that it posts once per message it counted and that it    *)
(* passed the MaxSends guard before copying.                              *)

SendCounted ==
    sem + (IF spc \in {"copied", "published"} THEN 1 ELSE 0) <= nsent

CheckedHasRoom == spc = "checked" => nsent < MaxSends

TypeInv == TypeOK /\ SendCounted /\ CheckedHasRoom

LEMMA TypeInvInit == Init => TypeInv
  <1> SUFFICES ASSUME Init PROVE TypeInv
    OBVIOUS
  <1>1. TypeOK
    BY RingAssumption, ChannelAssumption
    DEF Init, TypeOK, Index, Slots, Zeroed, Msgs, Sides
  <1>2. SendCounted /\ CheckedHasRoom
    BY DEF Init, SendCounted, CheckedHasRoom
  <1>3. QED
    BY <1>1, <1>2 DEF TypeInv

LEMMA TypeInvNext == TypeInv /\ [Next]_vars => TypeInv'
  <1> SUFFICES ASSUME TypeInv, [Next]_vars PROVE TypeInv'
    OBVIOUS
  <1> USE ChannelAssumption DEF TypeInv, TypeOK, SendCounted, CheckedHasRoom
  <1>1. CASE SendCheck
    BY <1>1 DEF SendCheck
  <1>2. CASE SendCopy
    <2>1. Idx(sidx) \in Slots
      BY IdxSlot DEF Index
    <2>2. QED
      BY <1>2, <2>1 DEF SendCopy, Msgs
  <1>3. CASE SendPublish
    BY <1>3, IncIndex DEF SendPublish
  <1>4. CASE SendNotify
    BY <1>4 DEF SendNotify
  <1>5. CASE RecvWait
    BY <1>5 DEF RecvWait
  <1>6. CASE RecvRead
    <2>1. Idx(cons) \in Slots
      BY IdxSlot DEF Index
    <2>2. QED
      BY <1>6, <2>1 DEF RecvRead, Valid, Zeroed
  <1>7. CASE RecvAdvance
    BY <1>7, IncIndex DEF RecvAdvance, Valid, Zeroed
  <1>8. CASE ProducerRestart
    BY <1>8, RingAssumption DEF ProducerRestart, ZeroRing, Index, Slots, Sides
  <1>9. CASE ConsumerRestart
    BY <1>9, RingAssumption DEF ConsumerRestart, ZeroRing, Index, Slots, Sides
  <1>10. CASE UNCHANGED vars
    BY <1>10 DEF vars
  <1>11. QED
    BY <1>1, <1>2, <1>3, <1>4, <1>5, <1>6, <1>7, <1>8, <1>9, <1>10 DEF Next

(* Every reachable state of the ring, its semaphore and the two           *)
(* processes is well typed, whatever Size, IndexMod and the bounds are.   *)
THEOREM TypeCorrect == Spec => []TypeOK
  <1>1. Spec => []TypeInv
    BY TypeInvInit, TypeInvNext, PTL DEF Spec
  <1>2. QED
    BY <1>1, PTL DEF TypeInv

-----------------------------------------------------------------------------
(* Occupancy.  OccupancyBound is not inductive either: a producer between *)
(* its full check and its publish still relies on the room it saw, and a  *)
(* consumer between reading a slot and publishing consumer + 1 on the     *)
(* message it saw.  Both facts hold only while no one else writes the     *)
(* indices, which a server restart does (init_shm zeroes the ring), so    *)
(* the theorem assumes the server never restarts.                         *)

ProducerSawRoom ==
    spc \in {"checked", "copied"} => sidx = prod /\ Used(prod, cons) < Size

ConsumerSawMessage ==
    rpc = "read" => ridx = cons /\ Used(prod, cons) >= 1

OccInv == OccupancyBound /\ ProducerSawRoom /\ ConsumerSawMessage

LEMMA OccInvInit == Init => OccInv
  BY RingAssumption DEF Init, OccInv, OccupancyBound, ProducerSawRoom,
                        ConsumerSawMessage, Used

LEMMA OccInvNext ==
    ASSUME MaxServerRestarts = 0
    PROVE  TypeOK /\ OccInv /\ [Next]_vars => OccInv'
  <1> SUFFICES ASSUME TypeOK, OccInv, [Next]_vars PROVE OccInv'
    OBVIOUS
  <1> USE DEF OccInv, OccupancyBound, ProducerSawRoom, ConsumerSawMessage
  <1>a. prod \in Index /\ cons \in Index
    BY DEF TypeOK
  <1>b. Used(prod, cons)' = Used(prod', cons')
    BY DEF Used
  <1>c. Used(prod, cons) \in Nat
    BY <1>a, UsedIndex DEF Index
  <1>1. CASE SendCheck
    <2>0. prod' = prod /\ cons' = cons
      BY <1>1 DEF SendCheck
    <2>1. Used(prod', cons') = Used(prod, cons) /\ Used(prod, cons) < Size
      <3>1. Used(prod', cons') = Used(prod, cons)
        BY <2>0, Zenon
      <3>2. ~Full(prod, cons)
        BY <1>1 DEF SendCheck
      <3>3. QED
        BY <3>1, <3>2, <1>c, RingAssumption DEF Full
    <2>2. OccupancyBound'
      BY <2>1, <1>b, <1>c
    <2>3. ProducerSawRoom'
      BY <1>1, <2>1, <1>b DEF SendCheck
    <2>4. ConsumerSawMessage'
      BY <1>1, <1>b DEF SendCheck
    <2>5. QED
      BY <2>2, <2>3, <2>4
  <1>2. CASE SendCopy
    BY <1>2 DEF SendCopy
  <1>3. CASE SendPublish
    <2>1. Used(prod', cons') = Used(prod, cons) + 1
      BY <1>3, <1>a, UsedInc DEF SendPublish
    <2>2. QED
      BY <1>3, <2>1, <1>b, <1>c, RingAssumption DEF SendPublish
  <1>4. CASE SendNotify
    BY <1>4 DEF SendNotify
  <1>5. CASE RecvWait
    BY <1>5 DEF RecvWait
  <1>6. CASE RecvRead
    <2>1. cons # prod => Used(prod, cons) >= 1
      BY <1>a, UsedZero, UsedIndex DEF Index
    <2>2. QED
      BY <1>6, <2>1 DEF RecvRead
  <1>7. CASE RecvAdvance
    <2>1. Used(prod', cons') = Used(prod, cons) - 1
      BY <1>7, <1>a, UsedDec DEF RecvAdvance
    <2>2. /\ prod' = prod /\ spc' = spc /\ sidx' = sidx /\ rpc' = "idle"
      BY <1>7 DEF RecvAdvance
    <2>3. Used(prod, cons) \in Nat
      BY <1>a, UsedIndex DEF Index
    <2>4. QED
      BY <2>1, <2>2, <2>3, <1>b, RingAssumption
  <1>8. CASE ProducerRestart
    <2>1. ~ServerIsProducer
      BY <1>8 DEF ProducerRestart, MaxRestarts, ServerSide, TypeOK, Sides
    <2>2. QED
      BY <1>8, <2>1 DEF ProducerRestart
  <1>9. CASE ConsumerRestart
    <2>1. ServerIsProducer
      BY <1>9 DEF ConsumerRestart, MaxRestarts, ServerSide, TypeOK, Sides
    <2>2. QED
      BY <1>9, <2>1 DEF ConsumerRestart
  <1>10. CASE UNCHANGED vars
    BY <1>10 DEF vars
  <1>11. QED
    BY <1>1, <1>2, <1>3, <1>4, <1>5, <1>6, <1>7, <1>8, <1>9, <1>10 DEF Next

(* Spec invariant 1: as long as the driver zone does not restart, the     *)
(* unsigned difference producer - consumer never exceeds IDM_RING_SIZE,   *)
(* for every interleaving of idm_send, idm_recv and client restarts, and  *)
(* for every ring size that divides 2^32.                                 *)
THEOREM Occupancy ==
    ASSUME MaxServerRestarts = 0
    PROVE  Spec => []OccupancyBound
  <1>1. Spec => []OccInv
    BY TypeCorrect, OccInvInit, OccInvNext, PTL DEF Spec
  <1>2. QED
    BY <1>1, PTL DEF OccInv

=============================================================================
