--------------------------- MODULE MCRingChannel ---------------------------
(***************************************************************************)
(* RingChannel on a small instance: 2 slots and indices that wrap at 4,    *)
(* so that 6 messages drive both indices across the wrap-around and fill   *)
(* the ring.                                                               *)
(***************************************************************************)
EXTENDS RingChannel

MCSize == 2
MCIndexMod == 4
MCMaxSends == 6

(* Bounds the ghost history so that restarts cannot run forever. *)
MCConstraint == \A s \in Sides : restarts[s] <= MaxRestarts(s)

=============================================================================
