----------------------- MODULE RingChannelRefinement -----------------------
(***************************************************************************)
(* TLAPS proof that one direction of the IDM transport (RingChannel)      *)
(* implements the bounded FIFO queue of IdmQueue, under the mapping of    *)
(* RingChannel: the queue is the published, unconsumed slots, oldest     *)
(* first, and the received messages are the ones idm_recv returned.      *)
(* As for OccupancyBound, the server must not restart: init_shm zeroes   *)
(* the ring under the other process, and the messages in it are lost     *)
(* (run ring_server_restart_occupancy).                                   *)
(***************************************************************************)
EXTENDS RingChannelProofs, SequenceTheorems

-----------------------------------------------------------------------------
(* Slot arithmetic.  IDM_RING_SIZE divides 2^32, so "i % IDM_RING_SIZE"  *)
(* names the same slot before and after an index wraps.                  *)

(* Division by the ring size, or by 2^32, leaves a quotient and a slot. *)
LEMMA DivMod ==
    ASSUME NEW i \in Nat, NEW m \in Nat \ {0}
    PROVE  /\ i = m * (i \div m) + (i % m)
           /\ i \div m \in Nat /\ i % m \in 0 .. m - 1
OBVIOUS

(* The remainder of a quotient-and-slot decomposition is the slot. *)
LEMMA ModUnique ==
    ASSUME NEW m \in Nat \ {0}, NEW q \in Nat, NEW r \in 0 .. m - 1
    PROVE  (m * q + r) % m = r
OBVIOUS

(* Multiplying by a natural number is monotone. *)
LEMMA MulMono ==
    ASSUME NEW m \in Nat, NEW x \in Nat, NEW y \in Nat, x <= y
    PROVE  m * x <= m * y
OBVIOUS

(* A multiple of the ring size added to an index names the same slot. *)
LEMMA IdxShift ==
    ASSUME NEW x \in Nat, NEW y \in Nat
    PROVE  Idx(Size * y + x) = Idx(x)
<1>1. x = Size * (x \div Size) + Idx(x) /\ x \div Size \in Nat
      /\ Idx(x) \in 0 .. Size - 1
  BY DivMod, RingAssumption DEF Idx
<1>2. Size * y + x = Size * (y + x \div Size) + Idx(x)
  BY <1>1, RingAssumption
<1>3. y + x \div Size \in Nat
  BY <1>1
<1>4. (Size * (y + x \div Size) + Idx(x)) % Size = Idx(x)
  BY <1>1, <1>3, ModUnique, RingAssumption
<1>. QED
  BY <1>2, <1>4 DEF Idx

(* Reducing an index modulo 2^32 does not change the slot it, or an     *)
(* index j further on, names.                                             *)
LEMMA IdxMod ==
    ASSUME NEW i \in Nat, NEW j \in Nat
    PROVE  Idx((i % IndexMod) + j) = Idx(i + j)
<1>1. IndexMod = Size * (IndexMod \div Size) + (IndexMod % Size)
      /\ IndexMod \div Size \in Nat
  <2>1. IndexMod \in Nat /\ Size \in Nat \ {0}
    BY RingAssumption
  <2>. QED
    BY <2>1, DivMod
<1>2. PICK d \in Nat : IndexMod = Size * d
  BY <1>1, RingAssumption
<1>3. i = IndexMod * (i \div IndexMod) + (i % IndexMod)
      /\ i \div IndexMod \in Nat /\ i % IndexMod \in Nat
  <2>1. IndexMod \in Nat \ {0}
    BY RingAssumption
  <2>. QED
    BY <2>1, DivMod
<1>4. PICK q \in Nat : q = i \div IndexMod
  BY <1>3
<1>5. PICK r \in Nat : r = i % IndexMod
  BY <1>3
<1>6. PICK n \in Nat : n = d * q
  OBVIOUS
<1>7. IndexMod * q = Size * n
  BY <1>2, <1>6, RingAssumption
<1>8. i = IndexMod * q + r
  BY <1>3, <1>4, <1>5
<1>9. i + j = Size * n + (r + j)
  BY <1>7, <1>8, RingAssumption
<1>. QED
  BY <1>5, <1>9, IdxShift

(* The producer index names the slot Used(prod, cons) after the consumer's. *)
LEMMA IdxProd ==
    ASSUME NEW p \in Index, NEW c \in Index
    PROVE  Idx(p) = Idx(c + Used(p, c))
<1>1. (c + Used(p, c)) % IndexMod = p
  BY RingAssumption DEF Used, Index
<1>2. Used(p, c) \in Nat
  BY UsedIndex DEF Index
<1>3. Idx(((c + Used(p, c)) % IndexMod) + 0) = Idx(c + Used(p, c) + 0)
  BY <1>2, IdxMod DEF Index
<1>. QED
  BY <1>1, <1>3, <1>2 DEF Index

(* Two indices less than IDM_RING_SIZE apart name different slots. *)
LEMMA IdxDistinct ==
    ASSUME NEW a \in Nat, NEW k \in 1 .. Size - 1
    PROVE  Idx(a + k) # Idx(a)
<1>1. /\ a + k = Size * ((a + k) \div Size) + Idx(a + k)
      /\ a = Size * (a \div Size) + Idx(a)
      /\ (a + k) \div Size \in Nat /\ a \div Size \in Nat
  BY DivMod, RingAssumption DEF Idx
<1>2. SUFFICES ASSUME Idx(a + k) = Idx(a) PROVE FALSE
  OBVIOUS
<1>3. PICK q1 \in Nat : q1 = (a + k) \div Size
  BY <1>1
<1>4. PICK q2 \in Nat : q2 = a \div Size
  BY <1>1
<1>7. a + k = Size * q1 + Idx(a) /\ a = Size * q2 + Idx(a)
  BY <1>1, <1>2, <1>3, <1>4
<1>5. CASE q1 <= q2
  <2>1. Size * q1 <= Size * q2
    BY <1>5, MulMono, RingAssumption
  <2>2. a + k <= a
    BY <1>7, <2>1, RingAssumption DEF Idx
  <2>. QED
    BY <2>2
<1>6. CASE q1 >= q2 + 1
  <2>1. Size * q1 >= Size * (q2 + 1)
    BY <1>6, MulMono, RingAssumption
  <2>2. Size * (q2 + 1) = Size * q2 + Size
    BY RingAssumption
  <2>3. a + k >= a + Size
    BY <1>7, <2>1, <2>2, RingAssumption DEF Idx
  <2>. QED
    BY <2>3, RingAssumption
<1>. QED
  BY <1>5, <1>6

-----------------------------------------------------------------------------
(* The backlog of a ring state: the published, unconsumed slots from the *)
(* consumer index on.  A constant operator, so that its lemmas apply to  *)
(* the state before and after a step alike.                              *)
BacklogOf(p, c, s) == [k \in 1 .. Used(p, c) |-> s[Idx(c + k - 1)]]

LEMMA BacklogIsBacklogOf ==
    /\ Backlog = BacklogOf(prod, cons, slot)
    /\ Backlog' = BacklogOf(prod', cons', slot')
  BY DEF Backlog, BacklogOf

(* memcpy into entries[prod % IDM_RING_SIZE] of a ring with room leaves  *)
(* every published, unconsumed slot as it was.                            *)
LEMMA BacklogWrite ==
    ASSUME NEW p \in Index, NEW c \in Index, Used(p, c) < Size,
           NEW s, NEW t, \A i \in Slots : i # Idx(p) => t[i] = s[i]
    PROVE  BacklogOf(p, c, t) = BacklogOf(p, c, s)
<1>1. Used(p, c) \in Nat
  BY UsedIndex DEF Index
<1>2. ASSUME NEW k \in 1 .. Used(p, c)
      PROVE  Idx(c + k - 1) # Idx(p)
  <2>1. c + k - 1 \in Nat /\ Used(p, c) - k + 1 \in 1 .. Size - 1
    BY <1>1, RingAssumption DEF Index
  <2>2. Idx((c + k - 1) + (Used(p, c) - k + 1)) # Idx(c + k - 1)
    BY <2>1, IdxDistinct
  <2>3. Idx(p) = Idx(c + Used(p, c))
    BY IdxProd
  <2>. QED
    BY <2>2, <2>3, <1>1 DEF Index
<1>3. \A k \in 1 .. Used(p, c) : Idx(c + k - 1) \in Slots
  BY <1>1, IdxSlot DEF Index
<1>. QED
  BY <1>2, <1>3 DEF BacklogOf

(* Publishing producer + 1 appends the slot at the producer index. *)
LEMMA BacklogPut ==
    ASSUME NEW p \in Index, NEW c \in Index, Used(p, c) < Size,
           NEW S, NEW s \in [Slots -> S]
    PROVE  BacklogOf(Inc(p), c, s) = Append(BacklogOf(p, c, s), s[Idx(p)])
<1> DEFINE u == Used(p, c)
<1>1. u \in Nat /\ Used(Inc(p), c) = u + 1
  BY UsedIndex, UsedInc DEF Index
<1>2. Idx(c + (u + 1) - 1) = Idx(p)
  BY <1>1, IdxProd DEF Index
<1>3. BacklogOf(p, c, s) \in Seq(S) /\ Len(BacklogOf(p, c, s)) = u
  <2>1. \A k \in 1 .. u : Idx(c + k - 1) \in Slots
    BY <1>1, IdxSlot DEF Index
  <2>. QED
    BY <1>1, <2>1 DEF BacklogOf
<1>4. s[Idx(p)] \in S
  BY IdxSlot DEF Index
<1>. QED
  BY <1>1, <1>2, <1>3, <1>4 DEF BacklogOf

(* Publishing consumer + 1 drops the oldest slot, the one idm_recv read. *)
LEMMA BacklogTake ==
    ASSUME NEW p \in Index, NEW c \in Index, Used(p, c) >= 1,
           NEW S, NEW s \in [Slots -> S]
    PROVE  /\ BacklogOf(p, c, s) # << >>
           /\ Head(BacklogOf(p, c, s)) = s[Idx(c)]
           /\ BacklogOf(p, Inc(c), s) = Tail(BacklogOf(p, c, s))
<1> DEFINE u == Used(p, c)
<1>1. u \in Nat /\ Used(p, Inc(c)) = u - 1
  BY UsedIndex, UsedDec DEF Index
<1>2. \A k \in 1 .. u : Idx(c + k - 1) \in Slots
  BY <1>1, IdxSlot DEF Index
<1>3. BacklogOf(p, c, s) \in Seq(S) /\ Len(BacklogOf(p, c, s)) = u
  BY <1>1, <1>2 DEF BacklogOf
<1>4. \A k \in 1 .. u - 1 : Idx(Inc(c) + k - 1) = Idx(c + (k + 1) - 1)
  <2> TAKE k \in 1 .. u - 1
  <2>1. Idx(c + 1 + (k - 1)) = Idx(((c + 1) % IndexMod) + (k - 1))
    BY <1>1, IdxMod DEF Index
  <2>. QED
    BY <2>1 DEF Inc, Index
<1>5. Head(BacklogOf(p, c, s)) = s[Idx(c)]
  <2>1. BacklogOf(p, c, s)[1] = s[Idx(c + 1 - 1)]
    BY <1>1 DEF BacklogOf
  <2>2. c + 1 - 1 = c
    BY DEF Index
  <2>. QED
    BY <2>1, <2>2
<1>6. BacklogOf(p, c, s) # << >>
  BY <1>1, <1>3
<1>7. /\ Tail(BacklogOf(p, c, s)) \in Seq(S)
      /\ Len(Tail(BacklogOf(p, c, s))) = u - 1
      /\ \A k \in 1 .. u - 1 : Tail(BacklogOf(p, c, s))[k] = BacklogOf(p, c, s)[k + 1]
  BY <1>3, <1>6, HeadTailProperties
<1>8. BacklogOf(p, Inc(c), s) \in Seq(S) /\ Len(BacklogOf(p, Inc(c), s)) = u - 1
  <2>1. Inc(c) \in Nat /\ \A k \in 1 .. u - 1 : Idx(Inc(c) + k - 1) \in Slots
    BY <1>1, IncIndex, IdxSlot DEF Index
  <2>. QED
    BY <1>1, <2>1 DEF BacklogOf
<1>9. ASSUME NEW k \in 1 .. u - 1
      PROVE  BacklogOf(p, Inc(c), s)[k] = BacklogOf(p, c, s)[k + 1]
  <2>1. BacklogOf(p, Inc(c), s)[k] = s[Idx(Inc(c) + k - 1)]
    BY <1>1 DEF BacklogOf
  <2>2. BacklogOf(p, c, s)[k + 1] = s[Idx(c + (k + 1) - 1)]
    BY <1>1 DEF BacklogOf
  <2>. QED
    BY <1>4, <2>1, <2>2
<1>10. BacklogOf(p, Inc(c), s) = Tail(BacklogOf(p, c, s))
  BY <1>7, <1>8, <1>9, SeqEqual
<1>. QED
  BY <1>5, <1>6, <1>10

-----------------------------------------------------------------------------
(* The invariant behind the refinement.  Besides the type and occupancy  *)
(* facts, three facts about the slots: every published, unconsumed slot  *)
(* holds a message (nothing but a server restart zeroes one); the slot   *)
(* idm_send copied into and has not yet published holds its message;    *)
(* and the message idm_recv copied out is still the one at the consumer  *)
(* index, since a producer with room never writes that slot.             *)

BacklogValid == \A k \in DOMAIN Backlog : Valid(Backlog[k])

CopiedValid == spc = "copied" => Valid(slot[Idx(sidx)])

ReadCurrent == rpc = "read" => rmsg = slot[Idx(cons)]

RefInv == TypeInv /\ OccInv /\ BacklogValid /\ CopiedValid /\ ReadCurrent

(* The backlog of an index pair is a sequence of Used(p, c) slots. *)
LEMMA BacklogSeq ==
    ASSUME NEW p \in Index, NEW c \in Index, NEW S, NEW s \in [Slots -> S]
    PROVE  BacklogOf(p, c, s) \in Seq(S) /\ Len(BacklogOf(p, c, s)) = Used(p, c)
<1>1. Used(p, c) \in Nat
  BY UsedIndex DEF Index
<1>2. \A k \in 1 .. Used(p, c) : Idx(c + k - 1) \in Slots
  BY <1>1, IdxSlot DEF Index
<1>. QED
  BY <1>1, <1>2 DEF BacklogOf

LEMMA RefInvInit == Init => RefInv
<1> SUFFICES ASSUME Init PROVE RefInv
  OBVIOUS
<1>1. TypeInv /\ OccInv
  BY TypeInvInit, OccInvInit
<1>2. Used(prod, cons) = 0
  BY RingAssumption DEF Init, Used
<1>. QED
  BY <1>1, <1>2 DEF RefInv, BacklogValid, Backlog, CopiedValid, ReadCurrent,
                   Init

(* idm_send's memcpy leaves the backlog as it was. *)
LEMMA CopyKeepsBacklog ==
    ASSUME TypeOK, OccInv, SendCopy
    PROVE  Backlog' = Backlog
<1>1. prod \in Index /\ cons \in Index /\ slot \in [Slots -> {Zeroed} \cup Msgs]
  BY DEF TypeOK
<1>2. sidx = prod /\ Used(prod, cons) < Size
  BY DEF SendCopy, OccInv, ProducerSawRoom
<1>3. prod' = prod /\ cons' = cons
      /\ slot' = [slot EXCEPT ![Idx(prod)] = nsent + 1]
  BY <1>2 DEF SendCopy
<1>4. \A i \in Slots : i # Idx(prod) => slot'[i] = slot[i]
  BY <1>1, <1>3
<1>5. BacklogOf(prod, cons, slot') = BacklogOf(prod, cons, slot)
  BY <1>1, <1>2, <1>4, BacklogWrite
<1>. QED
  BY <1>3, <1>5, BacklogIsBacklogOf

(* The three slot facts survive every step while the server stays up. *)
LEMMA RefInvNext ==
    ASSUME MaxServerRestarts = 0
    PROVE  RefInv /\ [Next]_vars => RefInv'
<1> SUFFICES ASSUME RefInv, [Next]_vars PROVE RefInv'
  OBVIOUS
<1>a. TypeOK /\ OccInv /\ BacklogValid /\ CopiedValid /\ ReadCurrent
  BY DEF RefInv, TypeInv
<1>b. prod \in Index /\ cons \in Index /\ slot \in [Slots -> {Zeroed} \cup Msgs]
  BY <1>a DEF TypeOK
<1>c. TypeInv' /\ OccInv'
  BY <1>a, TypeInvNext, OccInvNext DEF RefInv
<1>d. Backlog = BacklogOf(prod, cons, slot)
      /\ Backlog' = BacklogOf(prod', cons', slot')
  BY BacklogIsBacklogOf
<1> USE DEF BacklogValid, CopiedValid, ReadCurrent
<1> HIDE DEF Backlog
<1>1. CASE SendCheck
  BY <1>1, <1>a, <1>c, <1>d DEF SendCheck, RefInv
<1>2. CASE SendCopy
  <2>1. sidx = prod /\ Used(prod, cons) < Size
    BY <1>2, <1>a DEF SendCopy, OccInv, ProducerSawRoom
  <2>2. Backlog' = Backlog
    BY <1>2, <1>a, CopyKeepsBacklog
  <2>3. CopiedValid'
    <3>1. Idx(sidx) \in Slots
      BY <1>b, <2>1, IdxSlot DEF Index
    <3>2. nsent \in Nat
      BY <1>a DEF TypeOK
    <3>. QED
      BY <1>2, <1>b, <3>1, <3>2 DEF SendCopy, Valid, Zeroed
  <2>4. ReadCurrent'
    <3> SUFFICES ASSUME rpc' = "read" PROVE rmsg' = slot'[Idx(cons')]
      OBVIOUS
    <3>1. rpc = "read" /\ Used(prod, cons) >= 1
      BY <1>2, <1>a DEF SendCopy, OccInv, ConsumerSawMessage
    <3>2. Idx(cons + Used(prod, cons)) # Idx(cons)
      <4>1. Used(prod, cons) \in 1 .. Size - 1
        BY <1>b, <2>1, <3>1, UsedIndex, RingAssumption DEF Index
      <4>. QED
        BY <1>b, <4>1, IdxDistinct DEF Index
    <3>3. Idx(prod) = Idx(cons + Used(prod, cons))
      BY <1>b, IdxProd
    <3>4. Idx(cons) \in Slots
      BY <1>b, IdxSlot DEF Index
    <3>. QED
      BY <1>2, <1>a, <1>b, <2>1, <3>1, <3>2, <3>3, <3>4 DEF SendCopy
  <2>. QED
    BY <1>2, <1>c, <2>2, <2>3, <2>4 DEF SendCopy, RefInv
<1>3. CASE SendPublish
  <2>1. sidx = prod /\ Used(prod, cons) < Size /\ Valid(slot[Idx(prod)])
    BY <1>3, <1>a DEF SendPublish, OccInv, ProducerSawRoom
  <2>2. Backlog' = Append(Backlog, slot[Idx(prod)])
    BY <1>3, <1>b, <1>d, <2>1, BacklogPut DEF SendPublish
  <2>3. Backlog \in Seq({Zeroed} \cup Msgs)
    BY <1>b, <1>d, BacklogSeq
  <2>4. slot[Idx(prod)] \in {Zeroed} \cup Msgs
    BY <1>b, IdxSlot DEF Index
  <2>5. BacklogValid'
    BY <1>a, <2>1, <2>2, <2>3, <2>4, AppendProperties
  <2>. QED
    BY <1>3, <1>a, <1>c, <2>5 DEF SendPublish, RefInv
<1>4. CASE SendNotify
  BY <1>4, <1>a, <1>c, <1>d DEF SendNotify, RefInv
<1>5. CASE RecvWait
  BY <1>5, <1>a, <1>c, <1>d DEF RecvWait, RefInv
<1>6. CASE RecvRead
  <2>1. ReadCurrent'
    BY <1>6 DEF RecvRead, Valid
  <2>. QED
    BY <1>6, <1>a, <1>c, <1>d, <2>1 DEF RecvRead, RefInv
<1>7. CASE RecvAdvance
  <2>1. ridx = cons /\ Used(prod, cons) >= 1
    BY <1>7, <1>a DEF RecvAdvance, OccInv, ConsumerSawMessage
  <2>2. Backlog' = Tail(Backlog) /\ Backlog # << >>
    BY <1>7, <1>b, <1>d, <2>1, BacklogTake DEF RecvAdvance
  <2>3. Backlog \in Seq({Zeroed} \cup Msgs)
    BY <1>b, <1>d, BacklogSeq
  <2>4. BacklogValid'
    BY <1>a, <2>2, <2>3, HeadTailProperties
  <2>. QED
    BY <1>7, <1>a, <1>c, <2>4 DEF RecvAdvance, RefInv
<1>8. CASE ProducerRestart
  <2>1. ~ServerIsProducer
    BY <1>8, <1>a DEF ProducerRestart, MaxRestarts, ServerSide, TypeOK, Sides
  <2>. QED
    BY <1>8, <1>a, <1>c, <1>d, <2>1 DEF ProducerRestart, RefInv
<1>9. CASE ConsumerRestart
  <2>1. ServerIsProducer
    BY <1>9, <1>a DEF ConsumerRestart, MaxRestarts, ServerSide, TypeOK, Sides
  <2>. QED
    BY <1>9, <1>a, <1>c, <1>d, <2>1 DEF ConsumerRestart, RefInv
<1>10. CASE UNCHANGED vars
  BY <1>10, <1>a, <1>c, <1>d DEF vars, RefInv
<1>. QED
  BY <1>1, <1>2, <1>3, <1>4, <1>5, <1>6, <1>7, <1>8, <1>9, <1>10 DEF Next

-----------------------------------------------------------------------------
(* The refinement: SendPublish is a Put of the copied message, a         *)
(* RecvAdvance over a message is a Take, and every other step of either  *)
(* process, or of a client restart, leaves the queue and got unchanged.  *)

LEMMA RefInitStep == Init => Queue!Init
<1> SUFFICES ASSUME Init PROVE Backlog = << >> /\ got = << >>
  BY DEF Queue!Init
<1>1. Used(prod, cons) = 0
  BY RingAssumption DEF Init, Used
<1>. QED
  BY <1>1 DEF Init, Backlog

LEMMA RefNextStep ==
    ASSUME MaxServerRestarts = 0
    PROVE  RefInv /\ [Next]_vars => [Queue!Next]_<<Backlog, got>>
<1> SUFFICES ASSUME RefInv, [Next]_vars
             PROVE  [Queue!Next]_<<Backlog, got>>
  OBVIOUS
<1>a. TypeOK /\ OccInv /\ CopiedValid /\ ReadCurrent
  BY DEF RefInv, TypeInv
<1>b. prod \in Index /\ cons \in Index /\ slot \in [Slots -> {Zeroed} \cup Msgs]
  BY <1>a DEF TypeOK
<1>d. Backlog = BacklogOf(prod, cons, slot)
      /\ Backlog' = BacklogOf(prod', cons', slot')
  BY BacklogIsBacklogOf
<1>s. ASSUME prod' = prod, cons' = cons, slot' = slot, got' = got
      PROVE  [Queue!Next]_<<Backlog, got>>
  BY <1>s, <1>d
<1> HIDE DEF Backlog
<1>1. CASE SendCheck
  BY <1>1, <1>s DEF SendCheck
<1>2. CASE SendCopy
  <2>2. Backlog' = Backlog
    BY <1>2, <1>a, CopyKeepsBacklog
  <2>. QED
    BY <1>2, <2>2 DEF SendCopy
<1>3. CASE SendPublish
  <2>1. sidx = prod /\ Used(prod, cons) < Size /\ Valid(slot[Idx(prod)])
    BY <1>3, <1>a DEF SendPublish, OccInv, ProducerSawRoom, CopiedValid
  <2>2. Backlog' = Append(Backlog, slot[Idx(prod)])
    BY <1>3, <1>b, <1>d, <2>1, BacklogPut DEF SendPublish
  <2>3. Len(Backlog) < Size
    BY <1>b, <1>d, <2>1, BacklogSeq
  <2>4. slot[Idx(prod)] \in Msgs
    BY <1>b, <2>1, IdxSlot DEF Index, Valid
  <2>5. Queue!Put(slot[Idx(prod)])
    BY <1>3, <2>2, <2>3 DEF SendPublish, Queue!Put
  <2>. QED
    BY <2>4, <2>5 DEF Queue!Next
<1>4. CASE SendNotify
  BY <1>4, <1>s DEF SendNotify
<1>5. CASE RecvWait
  BY <1>5, <1>s DEF RecvWait
<1>6. CASE RecvRead
  BY <1>6, <1>s DEF RecvRead
<1>7. CASE RecvAdvance
  <2>1. ridx = cons /\ Used(prod, cons) >= 1 /\ rmsg = slot[Idx(cons)]
    BY <1>7, <1>a DEF RecvAdvance, OccInv, ConsumerSawMessage, ReadCurrent
  <2>2. /\ Backlog # << >>
        /\ Head(Backlog) = slot[Idx(cons)]
        /\ Backlog' = Tail(Backlog)
    BY <1>7, <1>b, <1>d, <2>1, BacklogTake DEF RecvAdvance
  <2>3. Valid(rmsg)
    <3>1. Valid(Backlog[1])
      <4>1. 1 \in DOMAIN Backlog
        BY <1>b, <1>d, <2>1, UsedIndex DEF BacklogOf, Index
      <4>. QED
        BY <4>1 DEF RefInv, BacklogValid
    <3>2. Backlog[1] = slot[Idx(cons)]
      BY <2>2
    <3>. QED
      BY <2>1, <3>1, <3>2
  <2>4. got' = Append(got, Head(Backlog))
    BY <1>7, <2>1, <2>2, <2>3 DEF RecvAdvance
  <2>. QED
    BY <2>2, <2>4 DEF Queue!Next, Queue!Take
<1>8. CASE ProducerRestart
  <2>1. ~ServerIsProducer
    BY <1>8, <1>a DEF ProducerRestart, MaxRestarts, ServerSide, TypeOK, Sides
  <2>. QED
    BY <1>8, <1>s, <2>1 DEF ProducerRestart
<1>9. CASE ConsumerRestart
  <2>1. ServerIsProducer
    BY <1>9, <1>a DEF ConsumerRestart, MaxRestarts, ServerSide, TypeOK, Sides
  <2>. QED
    BY <1>9, <1>s, <2>1 DEF ConsumerRestart
<1>10. CASE UNCHANGED vars
  BY <1>10, <1>s DEF vars
<1>. QED
  BY <1>1, <1>2, <1>3, <1>4, <1>5, <1>6, <1>7, <1>8, <1>9, <1>10 DEF Next

(* Spec section 4.2: as long as the driver zone does not restart, each    *)
(* ring of idm_send/idm_recv implements the bounded FIFO queue IdmQueue,  *)
(* for every interleaving of their steps and of client restarts, every   *)
(* ring size that divides 2^32 and every bound on the messages: idm_send *)
(* never overwrites an unconsumed message, and idm_recv returns exactly  *)
(* the oldest one.                                                       *)
THEOREM RingIsQueue ==
    ASSUME MaxServerRestarts = 0
    PROVE  Spec => QueueRefinement
<1>1. Spec => []RefInv
  BY RefInvInit, RefInvNext, PTL DEF Spec
<1>. QED
  BY <1>1, RefInitStep, RefNextStep, PTL DEF Spec, QueueRefinement, Queue!Spec

-----------------------------------------------------------------------------
(* In-order delivery.  The order of got rests on the order of the ring:  *)
(* the backlog is increasing and above everything already received,     *)
(* nothing received or published exceeds the last ordinal idm_send       *)
(* counted, and a message copied but not yet published is that last one  *)
(* and so above everything else.                                         *)

BacklogSorted ==
    \A i, j \in DOMAIN Backlog : i < j => Backlog[i] < Backlog[j]

GotBeforeBacklog ==
    \A i \in DOMAIN got, j \in DOMAIN Backlog : got[i] < Backlog[j]

SentBound ==
    /\ \A j \in DOMAIN Backlog : Backlog[j] <= nsent
    /\ \A i \in DOMAIN got : got[i] <= nsent

CopiedLatest ==
    spc = "copied" =>
        /\ slot[Idx(sidx)] = nsent
        /\ \A j \in DOMAIN Backlog : Backlog[j] < nsent
        /\ \A i \in DOMAIN got : got[i] < nsent

OrderInv ==
    /\ RefInv /\ InOrderDelivery /\ BacklogSorted /\ GotBeforeBacklog
    /\ SentBound /\ CopiedLatest

LEMMA OrderInvInit == Init => OrderInv
<1> SUFFICES ASSUME Init PROVE OrderInv
  OBVIOUS
<1>1. RefInv
  BY RefInvInit
<1>2. Used(prod, cons) = 0
  BY RingAssumption DEF Init, Used
<1>3. DOMAIN Backlog = {} /\ DOMAIN got = {}
  BY <1>2 DEF Init, Backlog
<1>. QED
  BY <1>1, <1>3 DEF OrderInv, InOrderDelivery, BacklogSorted,
                   GotBeforeBacklog, SentBound, CopiedLatest, Init

(* The order facts of a state whose backlog is a sequence of ordinals. *)
OrderFacts(b, g, n, copied, c) ==
    /\ \A i, j \in DOMAIN g : i < j => g[i] < g[j]
    /\ \A i, j \in DOMAIN b : i < j => b[i] < b[j]
    /\ \A i \in DOMAIN g, j \in DOMAIN b : g[i] < b[j]
    /\ \A j \in DOMAIN b : b[j] <= n
    /\ \A i \in DOMAIN g : g[i] <= n
    /\ copied =>
        /\ c = n
        /\ \A j \in DOMAIN b : b[j] < n
        /\ \A i \in DOMAIN g : g[i] < n

LEMMA OrderFactsState ==
    /\ OrderInv <=> RefInv /\ OrderFacts(Backlog, got, nsent, spc = "copied",
                                          slot[Idx(sidx)])
    /\ OrderInv' <=> RefInv' /\ OrderFacts(Backlog', got', nsent',
                                            spc' = "copied", slot'[Idx(sidx')])
  BY DEF OrderInv, OrderFacts, InOrderDelivery, BacklogSorted,
         GotBeforeBacklog, SentBound, CopiedLatest

(* idm_send's copy: the next ordinal goes into a slot outside the backlog. *)
LEMMA OrderCopy ==
    ASSUME NEW b, NEW g, NEW n \in Nat,
           \A j \in DOMAIN b : b[j] \in Nat, \A i \in DOMAIN g : g[i] \in Nat,
           OrderFacts(b, g, n, FALSE, 0)
    PROVE  OrderFacts(b, g, n + 1, TRUE, n + 1)
  BY DEF OrderFacts

(* idm_send's publish: the copied ordinal joins the end of the backlog. *)
LEMMA OrderPut ==
    ASSUME NEW S, NEW b \in Seq(S), NEW g \in Seq(S), NEW n \in Nat,
           S \subseteq Nat, NEW c,
           OrderFacts(b, g, n, TRUE, c)
    PROVE  OrderFacts(Append(b, c), g, n, FALSE, 0)
<1>1. c = n /\ c \in S \cup Nat
  BY DEF OrderFacts
<1>2. /\ DOMAIN Append(b, c) = 1 .. Len(b) + 1
      /\ \A j \in 1 .. Len(b) : Append(b, c)[j] = b[j]
      /\ Append(b, c)[Len(b) + 1] = c
  OBVIOUS
<1>3. DOMAIN b = 1 .. Len(b) /\ DOMAIN g = 1 .. Len(g)
  OBVIOUS
<1>. QED
  BY <1>1, <1>2, <1>3 DEF OrderFacts

(* idm_recv's advance: the oldest message of the backlog joins got. *)
LEMMA OrderTake ==
    ASSUME NEW S, NEW b \in Seq(S), NEW g \in Seq(S), NEW n \in Nat,
           S \subseteq Nat, b # << >>, NEW copied \in BOOLEAN, NEW c,
           OrderFacts(b, g, n, copied, c)
    PROVE  OrderFacts(Tail(b), Append(g, Head(b)), n, copied, c)
<1>1. /\ DOMAIN Tail(b) = 1 .. Len(b) - 1
      /\ \A j \in 1 .. Len(b) - 1 : Tail(b)[j] = b[j + 1]
      /\ Head(b) = b[1] /\ Len(b) >= 1
  BY HeadTailProperties
<1>2. /\ DOMAIN Append(g, Head(b)) = 1 .. Len(g) + 1
      /\ \A i \in 1 .. Len(g) : Append(g, Head(b))[i] = g[i]
      /\ Append(g, Head(b))[Len(g) + 1] = Head(b)
  OBVIOUS
<1>3. DOMAIN b = 1 .. Len(b) /\ DOMAIN g = 1 .. Len(g)
  OBVIOUS
<1>4. /\ \A j \in 1 .. Len(b) : b[j] \in Nat
      /\ \A i \in 1 .. Len(g) : g[i] \in Nat
  <2>1. /\ \A j \in 1 .. Len(b) : b[j] \in S
        /\ \A i \in 1 .. Len(g) : g[i] \in S
    OBVIOUS
  <2>. QED
    BY <2>1
<1> DEFINE tb == Tail(b)
           ag == Append(g, Head(b))
<1>5. \A i, j \in DOMAIN ag : i < j => ag[i] < ag[j]
  BY <1>1, <1>2, <1>3, <1>4 DEF OrderFacts
<1>6. \A i, j \in DOMAIN tb : i < j => tb[i] < tb[j]
  BY <1>1, <1>3, <1>4 DEF OrderFacts
<1>7. \A i \in DOMAIN ag, j \in DOMAIN tb : ag[i] < tb[j]
  BY <1>1, <1>2, <1>3, <1>4 DEF OrderFacts
<1>8. /\ \A j \in DOMAIN tb : tb[j] <= n
      /\ \A i \in DOMAIN ag : ag[i] <= n
  BY <1>1, <1>2, <1>3, <1>4 DEF OrderFacts
<1>9. copied =>
        /\ c = n
        /\ \A j \in DOMAIN tb : tb[j] < n
        /\ \A i \in DOMAIN ag : ag[i] < n
  BY <1>1, <1>2, <1>3, <1>4 DEF OrderFacts
<1>. QED
  BY <1>5, <1>6, <1>7, <1>8, <1>9 DEF OrderFacts

(* A step that keeps the backlog, got and the count, and copies nothing. *)
LEMMA OrderKeep ==
    ASSUME NEW b, NEW g, NEW n, NEW cp, NEW c, NEW cp2, NEW c2,
           OrderFacts(b, g, n, cp, c), cp2 => cp /\ c2 = c
    PROVE  OrderFacts(b, g, n, cp2, c2)
  BY DEF OrderFacts

(* In-order delivery holds, with its strengthening, at every step while  *)
(* the server stays up.                                                   *)
LEMMA OrderInvNext ==
    ASSUME MaxServerRestarts = 0
    PROVE  OrderInv /\ [Next]_vars => OrderInv'
<1> SUFFICES ASSUME OrderInv, [Next]_vars PROVE OrderInv'
  OBVIOUS
<1> DEFINE copyPending == spc = "copied"
           lastCopy == slot[Idx(sidx)]
<1>a. RefInv /\ OrderFacts(Backlog, got, nsent, copyPending, lastCopy)
  BY OrderFactsState
<1>b. RefInv'
  BY <1>a, RefInvNext
<1>c. SUFFICES OrderFacts(Backlog', got', nsent', copyPending', lastCopy')
  BY <1>b, OrderFactsState
<1>d. TypeOK /\ OccInv /\ ReadCurrent /\ CopiedValid
  BY <1>a DEF RefInv, TypeInv
<1>e. /\ prod \in Index /\ cons \in Index /\ sidx \in Index
      /\ slot \in [Slots -> Nat] /\ nsent \in Nat
      /\ got \in Seq(Nat)
  <2>1. Msgs \subseteq Nat /\ {Zeroed} \cup Msgs \subseteq Nat
    BY DEF Msgs, Zeroed
  <2>2. got \in Seq(Msgs)
    BY <1>d DEF TypeOK
  <2>3. got \in Seq(Nat)
    BY <2>1, <2>2, SeqMonotonic
  <2>. QED
    BY <1>d, <2>1, <2>3 DEF TypeOK
<1>f. Backlog = BacklogOf(prod, cons, slot)
      /\ Backlog' = BacklogOf(prod', cons', slot')
      /\ Backlog \in Seq(Nat)
  BY <1>e, BacklogIsBacklogOf, BacklogSeq
<1>k. ASSUME Backlog' = Backlog, got' = got, nsent' = nsent,
             copyPending' => copyPending /\ lastCopy' = lastCopy
      PROVE  OrderFacts(Backlog', got', nsent', copyPending', lastCopy')
  BY <1>a, <1>k, OrderKeep
<1> HIDE DEF Backlog, copyPending, lastCopy
<1>1. CASE SendCheck
  BY <1>1, <1>k, <1>f DEF SendCheck, copyPending
<1>2. CASE SendCopy
  <2>1. OrderFacts(Backlog, got, nsent, FALSE, 0)
    BY <1>2, <1>a, OrderKeep DEF SendCopy, copyPending
  <2>2. \A j \in DOMAIN Backlog : Backlog[j] \in Nat
    BY <1>f
  <2>3. \A i \in DOMAIN got : got[i] \in Nat
    BY <1>e
  <2>4. OrderFacts(Backlog, got, nsent + 1, TRUE, nsent + 1)
    BY <1>e, <2>1, <2>2, <2>3, OrderCopy
  <2>5. sidx = prod /\ Used(prod, cons) < Size
    BY <1>2, <1>d DEF SendCopy, OccInv, ProducerSawRoom
  <2>6. Backlog' = Backlog
    BY <1>2, <1>d, CopyKeepsBacklog
  <2>7. copyPending' /\ lastCopy' = nsent + 1
    <3>1. Idx(sidx) \in Slots
      BY <1>e, IdxSlot DEF Index
    <3>. QED
      BY <1>2, <1>e, <3>1 DEF SendCopy, copyPending, lastCopy
  <2>. QED
    BY <1>2, <2>4, <2>6, <2>7 DEF SendCopy
<1>3. CASE SendPublish
  <2>1. sidx = prod /\ Used(prod, cons) < Size /\ copyPending
    BY <1>3, <1>d DEF SendPublish, OccInv, ProducerSawRoom, copyPending
  <2>2. Backlog' = Append(Backlog, lastCopy)
    BY <1>3, <1>e, <1>f, <2>1, BacklogPut DEF SendPublish, lastCopy
  <2>3. OrderFacts(Backlog, got, nsent, TRUE, lastCopy)
    BY <1>a, <2>1
  <2>4. OrderFacts(Append(Backlog, lastCopy), got, nsent, FALSE, 0)
    BY <1>e, <1>f, <2>3, OrderPut
  <2>5. ~copyPending'
    BY <1>3 DEF SendPublish, copyPending
  <2>. QED
    BY <1>3, <2>2, <2>4, <2>5, OrderKeep DEF SendPublish
<1>4. CASE SendNotify
  BY <1>4, <1>k, <1>f DEF SendNotify, copyPending
<1>5. CASE RecvWait
  BY <1>5, <1>k, <1>f DEF RecvWait, copyPending, lastCopy
<1>6. CASE RecvRead
  BY <1>6, <1>k, <1>f DEF RecvRead, copyPending, lastCopy
<1>7. CASE RecvAdvance
  <2>1. ridx = cons /\ Used(prod, cons) >= 1 /\ rmsg = slot[Idx(cons)]
    BY <1>7, <1>d DEF RecvAdvance, OccInv, ConsumerSawMessage, ReadCurrent
  <2>2. /\ Backlog # << >>
        /\ Head(Backlog) = slot[Idx(cons)]
        /\ Backlog' = Tail(Backlog)
    BY <1>7, <1>e, <1>f, <2>1, BacklogTake DEF RecvAdvance
  <2>3. Valid(rmsg)
    <3>1. 1 \in DOMAIN Backlog
      BY <1>e, <1>f, <2>1, UsedIndex DEF BacklogOf, Index
    <3>. QED
      BY <1>a, <2>1, <2>2, <3>1 DEF RefInv, BacklogValid
  <2>4. got' = Append(got, Head(Backlog))
    BY <1>7, <2>1, <2>2, <2>3 DEF RecvAdvance
  <2>5. copyPending \in BOOLEAN
    BY DEF copyPending
  <2>6. OrderFacts(Tail(Backlog), Append(got, Head(Backlog)), nsent, copyPending, lastCopy)
    BY <1>a, <1>e, <1>f, <2>2, <2>5, OrderTake
  <2>. QED
    BY <1>7, <2>2, <2>4, <2>6 DEF RecvAdvance, copyPending, lastCopy
<1>8. CASE ProducerRestart
  <2>1. ~ServerIsProducer
    BY <1>8, <1>d DEF ProducerRestart, MaxRestarts, ServerSide, TypeOK, Sides
  <2>. QED
    BY <1>8, <1>f, <2>1, <1>k DEF ProducerRestart, copyPending
<1>9. CASE ConsumerRestart
  <2>1. ServerIsProducer
    BY <1>9, <1>d DEF ConsumerRestart, MaxRestarts, ServerSide, TypeOK, Sides
  <2>. QED
    BY <1>9, <1>f, <2>1, <1>k DEF ConsumerRestart, copyPending, lastCopy
<1>10. CASE UNCHANGED vars
  BY <1>10, <1>f, <1>k DEF vars, copyPending, lastCopy
<1>. QED
  BY <1>1, <1>2, <1>3, <1>4, <1>5, <1>6, <1>7, <1>8, <1>9, <1>10 DEF Next

(* idm_recv hands messages to its callers in the order idm_send wrote    *)
(* them and never the same one twice, as long as the driver zone does    *)
(* not restart: for every interleaving of the two processes and of       *)
(* client restarts, every ring size dividing 2^32 and every bound.       *)
THEOREM InOrder ==
    ASSUME MaxServerRestarts = 0
    PROVE  Spec => []InOrderDelivery
<1>1. Spec => []OrderInv
  BY OrderInvInit, OrderInvNext, PTL DEF Spec
<1>. QED
  BY <1>1, PTL DEF OrderInv

====
