------------------------------ MODULE IdmQueue ------------------------------
(***************************************************************************)
(* What one direction of the IDM transport promises (spec sections 4.2    *)
(* and 5): a bounded FIFO queue.  A send appends a message when fewer than *)
(* Capacity are waiting (otherwise it fails with RING_FULL and nothing     *)
(* changes); a receive removes the oldest message and hands it to the      *)
(* caller.  got is the sequence of messages handed out so far.             *)
(***************************************************************************)
EXTENDS Naturals, Sequences

CONSTANTS
    Capacity,   \* IDM_RING_SIZE
    Msgs        \* the messages that can be sent

VARIABLES
    queue,      \* the messages sent and not yet received, oldest first
    got         \* the messages received, in order

Init ==
    /\ queue = <<>>
    /\ got = <<>>

(* A send that finds room. *)
Put(m) ==
    /\ Len(queue) < Capacity
    /\ queue' = Append(queue, m)
    /\ UNCHANGED got

(* A receive that finds a message. *)
Take ==
    /\ queue # <<>>
    /\ queue' = Tail(queue)
    /\ got' = Append(got, Head(queue))

Next == (\E m \in Msgs : Put(m)) \/ Take

Spec == Init /\ [][Next]_<<queue, got>>

=============================================================================
