--------------------------- MODULE NumberOptions ---------------------------
(***************************************************************************)
(* The functional options go-option generates, in the generated code for  *)
(* type Number kept in src/tools/cmd/go-options/options.go: ApplyOptions  *)
(* and the With... options for a string, a map and a slice field.          *)
(*                                                                         *)
(* Maps and slice backing arrays are references, so the state is a heap:  *)
(* maps by id, arrays by id (each of its capacity), and the Number's       *)
(* fields as references into it.  The caller owns some maps and arrays     *)
(* and keeps slice headers over its arrays; it builds options from them,  *)
(* applies them, and writes to its own maps and slices between calls.     *)
(***************************************************************************)
EXTENDS Integers, Sequences, SequencesExt, FiniteSets

CONSTANTS
    MapIds,        \* maps the caller created
    Keys, Vals,    \* map keys and slice/map values
    Names,         \* values of the name field
    CallerArrs,    \* arrays the caller created: id -> initial contents
    FreshArrs,     \* ids append may allocate
    CallerSlices,  \* slice headers the caller holds: [arr, len, cap]
    MaxOpts,       \* longest option list given to ApplyOptions
    ZeroName,      \* the zero value of the name field
    NilMap, NilArr, None

VARIABLES maps, arrs, o

vars == <<maps, arrs, o>>

NilSlice == [arr |-> NilArr, len |-> 0, cap |-> 0]

\* The elements a slice header shows: s[0:len].
Elems(heap, s) == IF s.arr = NilArr THEN << >> ELSE SubSeq(heap[s.arr], 1, s.len)

(***************************************************************************)
(* Go's append(s, e...): in place when len+n fits the capacity, otherwise *)
(* into a new array with the old elements copied.  The new capacity is     *)
(* unspecified by the language; the model gives it exactly len+n, so      *)
(* arrays append allocates are never shared with spare room.              *)
(***************************************************************************)
\* A full heap (no id of FreshArrs left) ends the call: ok = FALSE.
GoAppend(h, s, e) ==
    LET n    == Len(e)
        free == {a \in FreshArrs : a \notin DOMAIN h.arrs}
    IN
    IF n = 0 THEN [h EXCEPT !.out = s]
    ELSE IF s.arr # NilArr /\ s.len + n <= s.cap
    THEN [h EXCEPT !.arrs[s.arr] = [k \in DOMAIN @ |->
                                       IF k > s.len /\ k <= s.len + n THEN e[k - s.len] ELSE @[k]],
                   !.out = [s EXCEPT !.len = s.len + n]]
    ELSE IF free = {} THEN [h EXCEPT !.ok = FALSE]
    ELSE LET f == CHOOSE a \in free : TRUE IN
         [h EXCEPT !.arrs = (f :> (Elems(h.arrs, s) \o e)) @@ @,
                   !.out = [arr |-> f, len |-> s.len + n, cap |-> s.len + n]]

(***************************************************************************)
(* The options.  Each is applied to h = [maps, arrs, o, out, ok]; the     *)
(* closures capture the caller's map or slice header, whose contents are  *)
(* read when the option is applied.                                        *)
(***************************************************************************)
Options ==
    [kind : {"Name"}, v : Names] \cup
    [kind : {"MapType", "MapTypeReplace"}, v : MapIds \cup {NilMap}] \cup
    [kind : {"SliceType", "SliceTypeReplace"}, v : CallerSlices \cup {NilSlice}] \cup
    {[kind |-> "nil", v |-> None], [kind |-> "Empty", v |-> None]}

\* WithNumberName, WithNumberArrayType, WithNumberInterfaceType: o.f = v.
WithNumberName(h, v) == [h EXCEPT !.o.name = v]

\* if o.mapType == nil { o.mapType = m; return }; for k, v := range m { o.mapType[k] = v }
WithNumberMapType(h, m) ==
    IF h.o.mapType = NilMap THEN [h EXCEPT !.o.mapType = m]
    ELSE IF m = NilMap THEN h
    ELSE [h EXCEPT !.maps[h.o.mapType] =
                       [k \in Keys |-> IF h.maps[m][k] # None THEN h.maps[m][k] ELSE @[k]]]

WithNumberMapTypeReplace(h, m) == [h EXCEPT !.o.mapType = m]

\* o.sliceType = append(o.sliceType, v...)
WithNumberSliceType(h, v) ==
    LET r == GoAppend(h, h.o.sliceType, Elems(h.arrs, v)) IN [r EXCEPT !.o.sliceType = r.out]

WithNumberSliceTypeReplace(h, v) == [h EXCEPT !.o.sliceType = v]

ApplyOne(h, opt) ==
    CASE opt.kind = "Name"             -> WithNumberName(h, opt.v)
      [] opt.kind = "MapType"          -> WithNumberMapType(h, opt.v)
      [] opt.kind = "MapTypeReplace"   -> WithNumberMapTypeReplace(h, opt.v)
      [] opt.kind = "SliceType"        -> WithNumberSliceType(h, opt.v)
      [] opt.kind = "SliceTypeReplace" -> WithNumberSliceTypeReplace(h, opt.v)
      [] OTHER                         -> h   \* nil is skipped; Empty does nothing

\* The heap after the options are applied in order.
Run(opts) ==
    FoldLeft(LAMBDA h, opt : IF h.ok THEN ApplyOne(h, opt) ELSE h,
             [maps |-> maps, arrs |-> arrs, o |-> o, out |-> NilSlice, ok |-> TRUE], opts)

\* for _, opt := range options { if opt == nil { continue }; opt.apply(o) }
ApplyOptions(opts) ==
    LET h == Run(opts) IN
    /\ h.ok
    /\ maps' = h.maps /\ arrs' = h.arrs /\ o' = h.o

(***************************************************************************)
(* The caller's own writes between calls.                                  *)
(***************************************************************************)
CallerWriteMap(m, k, v) ==
    /\ maps' = [maps EXCEPT ![m][k] = v]
    /\ UNCHANGED <<arrs, o>>

\* s[k] = v, for k < len(s).
CallerWriteSlice(s, k, v) ==
    /\ arrs' = [arrs EXCEPT ![s.arr][k] = v]
    /\ UNCHANGED <<maps, o>>

Init ==
    /\ maps \in [MapIds -> [Keys -> Vals \cup {None}]]
    /\ arrs = CallerArrs
    /\ o = [name |-> ZeroName, mapType |-> NilMap, sliceType |-> NilSlice]

Next ==
    \/ \E opts \in BoundedSeq(Options, MaxOpts) : ApplyOptions(opts)
    \/ \E m \in MapIds, k \in Keys, v \in Vals : CallerWriteMap(m, k, v)
    \/ \E s \in CallerSlices, v \in Vals : \E k \in 1 .. s.len : CallerWriteSlice(s, k, v)

Spec == Init /\ [][Next]_vars

(***************************************************************************)
(* Properties                                                              *)
(***************************************************************************)
\* The options that only append: WithNumberMapType, WithNumberSliceType.
AppendOptions == {op \in Options : op.kind \in {"MapType", "SliceType"}}

\* ApplyOptions with appending options never writes to an array the
\* caller created: WithNumberSliceType "appends sliceType in Number" (its
\* doc comment), not into a caller's slice.  It fails once
\* WithNumberSliceTypeReplace(s...) has made the Number's slice a caller
\* slice with spare capacity: append then fills that capacity in place,
\* and every caller slice over the array sees the new elements.
CallerArraysUnchangedByAppend ==
    \A opts \in BoundedSeq(AppendOptions, MaxOpts) :
        LET h == Run(opts) IN
        h.ok => \A a \in DOMAIN CallerArrs : h.arrs[a] = arrs[a]

\* While the Number has no map, ApplyOptions with appending options never
\* changes a map the caller created: WithNumberMapType "appends mapType
\* in Number" (its doc comment), not into the caller's map.
CallerMapsUnchangedByAppend ==
    o.mapType = NilMap =>
    \A opts \in BoundedSeq(AppendOptions, MaxOpts) :
        LET h == Run(opts) IN h.ok => h.maps = maps

====
