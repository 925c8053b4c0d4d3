------------------------------ MODULE IdmRing ------------------------------
(***************************************************************************)
(* The arithmetic of one IDM ring (src/idm-protocol/idm.h, struct          *)
(* idm_ring, and the index computations of idm_send/idm_recv in            *)
(* src/idm-protocol/transport.c).                                          *)
(*                                                                         *)
(* A ring is an array of Size page-sized slots with a producer and a       *)
(* consumer index.  The indices are uint32_t: they grow by one per message *)
(* and wrap at 2^32.  IndexMod stands for 2^32; the code relies on Size    *)
(* dividing it, so that "index % Size" names the same slot on both sides   *)
(* of the wrap.  A message is abstracted to a ghost ordinal (1, 2, ...);   *)
(* Zeroed is the content of a slot that was cleared by memset: its magic   *)
(* is 0, so idm_message_valid rejects it.                                  *)
(***************************************************************************)
EXTENDS Naturals

CONSTANTS
    Size,       \* IDM_RING_SIZE: number of slots
    IndexMod    \* 2^32: the producer and consumer indices wrap modulo this

ASSUME RingAssumption ==
    /\ Size \in Nat \ {0}
    /\ IndexMod \in Nat \ {0}
    /\ Size < IndexMod
    /\ IndexMod % Size = 0

(* The content of a memset-zeroed slot: not a valid message. *)
Zeroed == 0

(* idm_message_valid: a zeroed slot fails the magic check. *)
Valid(m) == m # Zeroed

(* Number of published, unconsumed messages: "prod - cons" on uint32_t. *)
Used(p, c) == (p - c) % IndexMod

(* Mutant: the full check written with ">" instead of ">=". *)
FullOffByOne(p, c) == Used(p, c) > Size

(* The full check of idm_send: "prod - cons >= IDM_RING_SIZE". *)
Full(p, c) == Used(p, c) >= Size

(* The slot an index names: "prod % IDM_RING_SIZE", "cons % IDM_RING_SIZE". *)
Idx(i) == i % Size

(* Mutant: the indices kept in a wider type that never wraps at 2^32. *)
IncNoWrap(i) == i + 1

(* "prod + 1" and "cons + 1" stored back into a uint32_t. *)
Inc(i) == (i + 1) % IndexMod

(* The indices a uint32_t producer or consumer field can hold. *)
Index == 0 .. IndexMod - 1

(* The slot numbers of entries[IDM_RING_SIZE]. *)
Slots == 0 .. Size - 1

=============================================================================
