------------------------- MODULE MC_NumberOptions -------------------------
(***************************************************************************)
(* Model of the Number options for TLC: two caller maps with one key, one *)
(* caller array of capacity 2 seen through a slice of length 1 (with spare *)
(* room) and one of length 2, one id for an array append allocates, and  *)
(* calls of up to two options.                                             *)
(***************************************************************************)
EXTENDS NumberOptions

CONSTANTS m1, m2, k1, A1, F1

MCCallerArrs == (A1 :> <<1, 2>>)

MCCallerSlices == {[arr |-> A1, len |-> 1, cap |-> 2], [arr |-> A1, len |-> 2, cap |-> 2]}

====
