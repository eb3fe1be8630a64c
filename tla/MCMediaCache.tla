---------------------------- MODULE MCMediaCache ----------------------------
(* Small instances of MediaCache for TLC: videos of different lengths. *)
EXTENDS MediaCache

CONSTANTS v1, v2

MCSizeOf == [v \in Videos |-> IF v = v1 THEN 2 ELSE 1]
===============================================================================
