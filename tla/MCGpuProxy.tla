---------------------------- MODULE MCGpuProxy ----------------------------
(***************************************************************************)
(* GpuProxy with rings of 2 slots, 2 receive attempts per call, 3 calls,   *)
(* allocation sizes 1 and 2, and 64-bit counters shrunk to 8.              *)
(***************************************************************************)
EXTENDS GpuProxy

CONSTANTS user

MCZones == {user}
MCSizes == {1, 2}
MCWord == 8
MCMaxCalls == 3
MCPtrs == 1 .. MCMaxCalls

(* Offset 0, and the largest 64-bit offset (2^64 - 1 shrunk to 7). *)
MCOffsets == {0, MCWord - 1}

====
