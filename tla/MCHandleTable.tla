--------------------------- MODULE MCHandleTable ---------------------------
(***************************************************************************)
(* HandleTable with two zones, one device pointer, two sizes, counters     *)
(* that wrap at 8 and four insertions.                                     *)
(***************************************************************************)
EXTENDS HandleTable

CONSTANTS z1, z2, p1

MCZones == {z1, z2}
MCPtrs == {p1}
MCSizes == {1, 3}
MCWord == 8
MCMaxInserts == 4

====
