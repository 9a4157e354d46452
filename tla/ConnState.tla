----------------------------- MODULE ConnState -----------------------------
(***************************************************************************)
(* The generated ConnState enum of package cmux (connstate_enum.go): the   *)
(* name table, String, ParseConnStateString, the Binary, Text, JSON, YAML  *)
(* and SQL codecs, and the two slice-membership helpers.                   *)
(*                                                                         *)
(* A string or byte slice is a sequence of one-character strings, because  *)
(* the properties are about what the conversions do to the text.  The     *)
(* state is one ConnState variable, the receiver *i of the Unmarshal and   *)
(* Scan methods, and the error its last method returned.                   *)
(***************************************************************************)
EXTENDS Integers, Sequences, SequencesExt

\* The integers a ConnState variable is given: every registered value and
\* values on both sides of the registered range.
CONSTANT Ints

\* Longest enums and sunEnums slices given to ConnStateSliceContains(Any).
CONSTANT MaxSlice

VARIABLES recv, err, wire

vars == <<recv, err, wire>>

(***************************************************************************)
(* The name table.                                                         *)
(***************************************************************************)
_ConnState_name ==
    <<"N","e","w","A","c","t","i","v","e","I","d","l","e",
      "H","i","j","a","c","k","e","d","C","l","o","s","e","d">>

\* Mutant of _ConnState_index: one name boundary miscounted.
_ConnState_index_Miscounted == <<0, 3, 9, 14, 21, 27>>

_ConnState_index == <<0, 3, 9, 13, 21, 27>>

\* Go's s[lo:hi] on a sequence indexed from 1.
Slice(s, lo, hi) == SubSeq(s, lo + 1, hi)

\* strconv.FormatInt(n, 10).
RECURSIVE Digits(_)
Digits(n) ==
    LET d == <<"0","1","2","3","4","5","6","7","8","9">>[(n % 10) + 1]
    IN IF n < 10 THEN << d >> ELSE Digits(n \div 10) \o << d >>

FormatInt(n) == IF n < 0 THEN << "-" >> \o Digits(-n) ELSE Digits(n)

String(i) ==
    IF i < 0 \/ i >= Len(_ConnState_index) - 1
    THEN <<"C","o","n","n","S","t","a","t","e","(">> \o FormatInt(i) \o << ")" >>
    ELSE Slice(_ConnState_name, _ConnState_index[i + 1], _ConnState_index[i + 2])

_ConnState_values == <<0, 1, 2, 3, 4>>

\* Mutant of _ConnState_name_to_values: each name mapped to its offset in
\* _ConnState_name instead of to its value.
_ConnState_name_to_values_ByOffset ==
    Slice(_ConnState_name, 0, 3) :> 0 @@
    Slice(_ConnState_name, 3, 9) :> 3 @@
    Slice(_ConnState_name, 9, 13) :> 9 @@
    Slice(_ConnState_name, 13, 21) :> 13 @@
    Slice(_ConnState_name, 21, 27) :> 21

_ConnState_name_to_values ==
    Slice(_ConnState_name, 0, 3) :> 0 @@
    Slice(_ConnState_name, 3, 9) :> 1 @@
    Slice(_ConnState_name, 9, 13) :> 2 @@
    Slice(_ConnState_name, 13, 21) :> 3 @@
    Slice(_ConnState_name, 21, 27) :> 4

\* (value, error): a name missing from the table gives 0 and an error.
ParseConnStateString(s) ==
    IF s \in DOMAIN _ConnState_name_to_values
    THEN [val |-> _ConnState_name_to_values[s], err |-> FALSE]
    ELSE [val |-> 0, err |-> TRUE]

Registered(i) == \E k \in 1 .. Len(_ConnState_values) : _ConnState_values[k] = i

(***************************************************************************)
(* The codecs.  MarshalBinary, MarshalText, MarshalYAML and Value all      *)
(* return String(); MarshalJSON returns it as a JSON string.  json.Marshal *)
(* of a string without quotes, backslashes, control characters or <>&     *)
(* only adds the quotes, and every String() result is such a string.       *)
(***************************************************************************)
Quote == << "\"" >>

MarshalJSON(i) == Quote \o String(i) \o Quote

\* json.Unmarshal(data, &s) for s a string: a JSON string gives its text,
\* null leaves s at "", anything else is an error.
IsJSONString(d) ==
    /\ Len(d) >= 2 /\ d[1] = "\"" /\ d[Len(d)] = "\""
    /\ \A k \in 2 .. Len(d) - 1 : d[k] \notin {"\"", "\\"}

JSONNull == <<"n","u","l","l">>

UnmarshalJSONString(d) ==
    IF IsJSONString(d) THEN [s |-> SubSeq(d, 2, Len(d) - 1), err |-> FALSE]
    ELSE IF d = JSONNull THEN [s |-> << >>, err |-> FALSE]
    ELSE [s |-> << >>, err |-> TRUE]

(***************************************************************************)
(* Inputs: the texts String() produces, a name that is a prefix of two     *)
(* names, the empty text and a lower-case name.                            *)
(***************************************************************************)
Texts == {String(x) : x \in Ints} \cup
         {<<"N","e","w","A">>, << >>, <<"n","e","w">>}

JSONData == {Quote \o t : t \in Texts} \cup {JSONNull, <<"1">>}

\* The dynamic type of the value Scan is given: nil, string, []byte or
\* anything else (an int64 from a driver, say).
ScanValues ==
    {[kind |-> "nil", s |-> << >>], [kind |-> "int", s |-> << >>]} \cup
    [kind : {"string", "bytes"}, s : Texts]

(***************************************************************************)
(* The methods that change the receiver, as results [recv, err] from the  *)
(* receiver r they are called on.  *i, err = Parse(...) assigns the       *)
(* receiver whether or not Parse failed.                                   *)
(***************************************************************************)
Parsed(p) == [recv |-> p.val, err |-> p.err]

Failed(r) == [recv |-> r, err |-> TRUE]

UnmarshalBinary(r, data) == Parsed(ParseConnStateString(data))

UnmarshalText(r, text) == Parsed(ParseConnStateString(text))

UnmarshalJSON(r, data) ==
    LET u == UnmarshalJSONString(data) IN
    IF u.err THEN Failed(r) ELSE Parsed(ParseConnStateString(u.s))

\* The unmarshal callback either fails or decodes the string s.
UnmarshalYAML(r, ok, s) ==
    IF ~ok THEN Failed(r) ELSE Parsed(ParseConnStateString(s))

\* Scan assigns the receiver only after Parse succeeded.
Scan(r, value) ==
    CASE value.kind = "nil" -> [recv |-> r, err |-> FALSE]
      [] value.kind = "int" -> Failed(r)
      [] OTHER ->
           LET p == ParseConnStateString(value.s) IN
           IF p.err THEN Failed(r) ELSE [recv |-> p.val, err |-> FALSE]

(***************************************************************************)
(* A value stored through one codec: what Marshal wrote, and the value it  *)
(* came from.  The SQL codec writes Value() and reads the string back     *)
(* through Scan.                                                           *)
(***************************************************************************)
Codecs == {"binary", "text", "json", "yaml", "sql"}

NoWire == [codec |-> "none", data |-> << >>, src |-> 0]

Encode(c, i) == IF c = "json" THEN MarshalJSON(i) ELSE String(i)

Decode(c, r, data) ==
    CASE c = "binary" -> UnmarshalBinary(r, data)
      [] c = "text"   -> UnmarshalText(r, data)
      [] c = "json"   -> UnmarshalJSON(r, data)
      [] c = "yaml"   -> UnmarshalYAML(r, TRUE, data)
      [] c = "sql"    -> Scan(r, [kind |-> "string", s |-> data])

(***************************************************************************)
(* The slice helpers.  The seen map is folded over enums.                  *)
(***************************************************************************)
\* Mutant of ConnStateSliceContains: seenEnums[e] starts at true.
ConnStateSliceContainsSeenInit(enums, sunEnums) ==
    LET seen0 == [e \in ToSet(sunEnums) |-> TRUE]
        seen  == FoldLeft(LAMBDA m, v : IF v \in DOMAIN m THEN [m EXCEPT ![v] = TRUE] ELSE m,
                          seen0, enums)
    IN \A e \in DOMAIN seen : seen[e]

ConnStateSliceContains(enums, sunEnums) ==
    LET seen0 == [e \in ToSet(sunEnums) |-> FALSE]
        seen  == FoldLeft(LAMBDA m, v : IF v \in DOMAIN m THEN [m EXCEPT ![v] = TRUE] ELSE m,
                          seen0, enums)
    IN \A e \in DOMAIN seen : seen[e]

ConnStateSliceContainsAny(enums, sunEnums) ==
    \E k \in 1 .. Len(enums) : enums[k] \in ToSet(sunEnums)

(***************************************************************************)
(* Actions.                                                                *)
(***************************************************************************)
Call(res) == recv' = res.recv /\ err' = res.err /\ UNCHANGED wire

\* The program stores any integer in a ConnState variable.
Set(x) == recv' = x /\ err' = FALSE /\ UNCHANGED wire

\* Marshalling never fails; its output is stored.
Marshal(c) == wire' = [codec |-> c, data |-> Encode(c, recv), src |-> recv] /\ UNCHANGED <<recv, err>>

Init == recv \in Ints /\ err = FALSE /\ wire = NoWire

Next ==
    \/ \E x \in Ints : Set(x)
    \/ \E c \in Codecs : Marshal(c)
    \/ \E t \in Texts : Call(UnmarshalBinary(recv, t))
    \/ \E t \in Texts : Call(UnmarshalText(recv, t))
    \/ \E d \in JSONData : Call(UnmarshalJSON(recv, d))
    \/ \E ok \in BOOLEAN, t \in Texts : Call(UnmarshalYAML(recv, ok, t))
    \/ \E v \in ScanValues : Call(Scan(recv, v))

Spec == Init /\ [][Next]_vars

(***************************************************************************)
(* Properties                                                              *)
(***************************************************************************)
TypeOK ==
    /\ recv \in Ints
    /\ err \in BOOLEAN
    /\ wire.codec \in Codecs \cup {"none"}
    /\ wire.src \in Ints

\* Every registered value survives a round trip through every codec: what
\* MarshalBinary/Text/JSON/YAML or Value wrote, the matching Unmarshal or
\* Scan decodes back to the same value without error, whatever the
\* receiver held.  Breaks if the name table and _ConnState_index disagree.
RegisteredRoundTrip ==
    wire # NoWire /\ Registered(wire.src) =>
        Decode(wire.codec, recv, wire.data) = [recv |-> wire.src, err |-> FALSE]

\* Short slices of enum values, the value the receiver holds among them,
\* duplicates and the empty slice included.
SliceArgs == BoundedSeq({0, 1, recv}, MaxSlice)

\* ConnStateSliceContains(enums, sub...) reports sub as a subset of enums
\* and ConnStateSliceContainsAny reports that they share a value, for
\* every pair of short slices (the empty sub included: all of nothing is
\* contained, and nothing is shared).
SliceHelpersMatchSets ==
    \A e, sub \in SliceArgs :
        /\ ConnStateSliceContains(e, sub) <=> ToSet(sub) \subseteq ToSet(e)
        /\ ConnStateSliceContainsAny(e, sub) <=> ToSet(sub) \cap ToSet(e) # {}

====
