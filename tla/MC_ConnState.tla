---------------------------- MODULE MC_ConnState ----------------------------
(***************************************************************************)
(* Model of ConnState for TLC: the five registered values with one value   *)
(* below and two above the range (5 is the boundary len(index)-1), and     *)
(* slices of up to two values.                                              *)
(***************************************************************************)
EXTENDS ConnState

MCInts == -1 .. 6

====
