# TLA+ models of searKing/golang

This directory holds TLA+ models of the parts of the repository that have
state, control flow or algorithms TLC can explore. The TLC configurations
check them, and `PROJECT.json` records the components, runs, mutants, the
map from definitions to source lines, the findings and the hazards.

## 1. Inventory of the sources

| Source | What it is | Modelled |
|---|---|---|
| `src/go/exp/container/hashring/hashring.go` | Consistent hash ring (Ketama style): ring store, placement, reconciliation, locator | yes: `HashRing`, `MC_HashRing` |
| `src/go/net/cmux/connstate_enum.go` | Generated enum: `String`, `Parse…String`, Binary/Text/JSON/YAML (un)marshalling, SQL `Value`/`Scan`, `SliceContains(Any)` | yes: `ConnState`, `MC_ConnState` |
| `src/unnamed/part_000` (first part) | prettyjson: `appendHTMLEscape`, `appendCompact`, `appendIndent` | `appendHTMLEscape`: yes, `PrettyJSON`; the other two drive `encoding/json`'s scanner, which is not in the repository |
| `src/unnamed/part_000` (second part) | tests of `iter.Map2` | no (tests of code outside the repository) |
| `src/go/error/exception/unsupported_operation_exception.go` | exception constructors (lines 1-23), then two rate-limiter `Example` tests (lines 24-168) | constructors: no, they only call `NewRuntimeException`, which is not in the repository; the `Example` tests: yes, `RateExamples`, with the limiter modelled from its use |
| `src/go/crypto/tls/cert_pool.go` | `LoadCertificatePool`: loads a certificate pool from base64, a file or certificate values | yes: `CertPool`, `MC_CertPool` |
| `src/tools/cmd/go-options/options.go` | code generator (lines 1-481) and the code it generates for type `Number` (lines 483-570) | generator: no, it produces Go source text; generated `ApplyOptions` and `With…` options: yes, `NumberOptions` |
| grpc-gateway `jsonpb.option.go`, `proto.marshal.go` | option closures that each set one field | no |
| `otlptracehttp.go` | an exporter registration `init()` (lines 1-16), then the tests `TestSplit` and `TestSplitN` of `slices_` (lines 17-210) | registration: no, `trace.Register` is not in the repository; the tests: yes, `SplitTests` |
| `conv_test.go`, `cert_pool_test.go`, `go.mod`, cgo files | tests, module file, build flags | no |

### The hash ring (`hashring.go`)

**State** (lines 51-63):
- `sortedKeys`: the sorted positions.
- `nodeByKey`: position → node.
- `allNodes`: the members.
- `weightByNode`, `isWeighted`, `numReps`: options fixed by `New`.

**Operations:**
- `AddNodes`, `SetNodes`, `RemoveNodes` and `RemoveAllNodes` change state.
- `Get`, `GetSince` and `All` read it.

**Unweighted placement.** `addNodeWithoutSort` asks the hash for a batch of positions for replica index `i`.
- A batch position that is already taken is skipped, and the local budget `numReps` grows by one.
- The loop stops when `i+j > numReps`.

**Removal.** `removeNoWeightNodes` replays the same scan. It grows the budget only when a position is owned by *another* node, and it shares one budget across all nodes removed in a call.

**SetNodes.**
- It computes the members to remove (in map iteration order).
- It clears the whole ring when `len(toRemove) == len(nodes)`; otherwise it removes only those members.
- It then adds the nodes that are not members.

**Weighted mode.** Every call recomputes the ring from scratch, with the target `floor(w/total * numReps * count + 1e10)`.

**Locator.**
- `Get` tries an exact match, then a binary tail search, then wraps to index 0.
- `GetSince` walks clockwise from that index, yielding each new node. It wraps with `i = 0; i--`.

**Interaction.** The code has no locking (spec §5). The caller must exclude concurrent calls, so every call is modelled as one atomic step.

**Hard behaviours:**
- collisions between nodes' positions;
- a removal order that differs from the insertion order;
- map iteration order;
- the budget boundary and the wraparound;
- the unbounded retry budget.

## 2. Modules

### `HashRing.tla`: the hash ring

**Constants:**
- `Nodes`;
- the external hash `IterateHashKeys(node, i)`, which returns the batch for replica index `i`;
- the formatter key `NodeKey(n)`, used by `isSameNode`;
- `RingSize` (the uint32 ring), `NumReps`, `WeightedOpt`, `WeightByNode`;
- `Bias` (the 1e10);
- `LoopBound`, `MaxArgs`.

**Variables:** `sortedKeys`, `nodeByKey` (a function from positions), `allNodes`, and `hung`.

`hung` is TRUE once a call has run for `LoopBound` iterations without returning. A loop that has not ended by then cannot end, because the hash is periodic over a finite ring.

**Calls.** Each public method is one action. The whole call, including its trailing `updateSortedNodes`, is computed by operators over a record `[sk, nbk, all, reps, ok]`:

| Code | Operator |
|---|---|
| `addNodeWithoutSort`, inner batch loop | `PlaceBatch` |
| `addNodeWithoutSort`, outer loop | `PlaceLoop` |
| the removal loops | `RemoveBatch`, `RemoveLoop`, `removeEach` |

**Map order.** Where the code iterates a Go map into a slice, the action takes every order with `\E order \in MapOrders(...)`. This happens at lines 228, 289 and 351.

**Locator.** `Get(h)` and `GetSince(h)` are operators on the current state. The hash of a key can be any position, so they take the position `h` directly. `tailSearch` is a recursive lower bound, which is what `slices.BinarySearchFunc` computes with a comparator that never returns +1.

**Specs.**
- `Spec` allows any call.
- `CallerSpec` is the discipline of a caller that treats the ring as a set. `AddNodes` names only new nodes, and no call repeats a node. The passing runs use it, because a repeated node doubles its share (`addNoWeightNodes` places a member again) and would fill the small ring.

### `MC_HashRing.tla`: the instance TLC checks

- Three nodes `a, b, c` as model values.
- A 16-position ring.
- `numReps = 2`.
- Batches of two positions.
- Node `l` gets positions `(Off(l) + Step(l)*k) % 16`. Each step is odd, so every node can reach the whole ring. The offsets make the nodes collide at their first replicas (a: 0,1,2…; b: 1,4,7,10…; c: 4,9,14…), which is the case every finding needs.
- `Bias` is scaled to `16*7/3 = 37`. It keeps 1e10's relation to the ring: larger than the ring, by a wide margin.
- A `calls` counter with `CONSTRAINT CallBound` caps the length of behaviours.

### `RingAbstract.tla`: what the ring promises

The abstract ring has no positions and no batches. Its state is:
- `members`, the member set;
- `owner`, which maps each key hash to the node it resolves to, or `NoNode`.

**Actions:**
- `Join(ns)`: the nodes `ns`, none of them a member, join (`ns` is exactly `members' \ members`), and a key changes node only to move onto a node of `ns`; a move between two old members is refused.
- `Leave(ns)`: the members shrink, and only keys that resolved to a node of `ns` move. This is spec §8.3, bounded churn.
- `Reconcile(ns)`: the members become `ns`. A key moves only away from a node not in `ns`, or onto a node that `ns` adds (spec §4.4).
- `Clear`: no members, and no key resolves.

`Next` computes the moves of a step once, as a set of `<<from, to>>` pairs. Each action then constrains those pairs.

**Refinement.** `MC_HashRing` instantiates `RingAbstract` with:
- `members <- allNodes`;
- `owner <- [h \in Pos |-> Get(h).node]`, so the owner is what the code's locator returns, not what the model's state suggests.

It checks `RingRefinesAbstract == Abs!Spec` as a `PROPERTY`. A hung call changes nothing and is a stuttering step.

The caller of that run, `RefineCallerSpec`, is `CallerSpec` minus one case: the SetNodes call that takes the fast path (`len(toRemove) == len(nodes)`) while it retains a member (`ClearsRetained`). That case is the setnodes finding, so it is checked there and not here. Under the 5-call bound both callers reach the same 840 states.

### `ConnState.tla`: the generated enum

**Strings.** A string or byte slice is a sequence of one-character strings. This is because the properties concern what the conversions do to the text:
- `String` slices `_ConnState_name` by `_ConnState_index`, or renders `ConnState(n)` through a recursive `FormatInt`.
- `ParseConnStateString` looks the text up in `_ConnState_name_to_values`.
- JSON adds and removes quotes. `null` decodes to the empty string.

**State:**
- `recv`, the receiver `*i`;
- `err`, what the last method returned;
- `wire`, the last value marshalled: the codec, the bytes and the source value.

**Actions:**
- `Set(x)`: the program stores any integer.
- `Marshal(c)`: one of the five codecs (Binary, Text, JSON, YAML, SQL `Value`).
- One action per method that writes the receiver: `UnmarshalBinary`, `UnmarshalText`, `UnmarshalJSON`, `UnmarshalYAML` (its callback may fail) and `Scan` (nil, int, string or `[]byte`). Each is a pure operator from the old receiver to `[recv, err]`.

**Asymmetry.** A failed `Parse` still assigns `*i` in the four `Unmarshal` methods, while `Scan` assigns only on success.

**`MC_ConnState`.** It gives the values `-1..6`: the registered range with one value below it and two above. The value 5 is the `len(index)-1` boundary.

### `PrettyJSON.tla`: `appendHTMLEscape`

**State.** The variables are `src`, `dst`, `i`, `start` and `done`.

**Actions:**
- `Step` is one iteration of the range loop. It evaluates both `if`s in order: `<`, `>`, `&` are written as `\u00XX`, and `E2 80 A8/A9` as `\u2028/9`.
- `Finish` is the trailing `append(dst, src[start:]...)`.

**Inputs.** `Init` takes every `src` of up to four bytes over `{&, <, >, a, 0x80, 0xA8, 0xA9, 0xE2}`. That set covers separators at the end, separators cut short, `E2 E2 80 A8`, and escapes next to separators.

**Reference.** `HTMLEscaped` is a recursive definition of the escape over the whole input.

**Deadlock.** The run sets `CHECK_DEADLOCK FALSE` because the function returns: a state with `done` is its end.

### `NumberOptions.tla`: the generated options of `Number`

**State.** Maps and slices are references in Go, so the state is a heap:
- `maps` gives each caller map's contents;
- `arrs` gives each backing array's contents, and its length is the array's capacity;
- `o` is the `Number`: `name`, a map id `mapType` and a slice header `sliceType = [arr, len, cap]`.

**Actions:**
- `ApplyOptions(opts)` is one call of `Number.ApplyOptions`. It folds `ApplyOne` over the option list; `nil` and `Empty` options change nothing.
- Each `With…` option is an operator on the heap:
  - `WithNumberMapType` adopts the caller's map when `o.mapType` is nil, and otherwise copies its entries;
  - `WithNumberSliceType` is `GoAppend`, Go's `append`: in place when the header's capacity allows, otherwise into a fresh array.
- `CallerWriteMap` and `CallerWriteSlice` are the caller writing to its own maps and slices between calls.

**`MC_NumberOptions`.** It has:
- two caller maps with one key;
- one caller array of capacity 2, seen through a slice of length 1 (which has spare room) and one of length 2;
- one id for an array `append` allocates; a call that needs a second id is not taken;
- calls of up to two options.

### `CertPool.tla`: `LoadCertificatePool`

**Heap.** A `*x509.CertPool` is a reference, so `pools` is a heap from pool ids to the certificates each pool holds. `held` is the set of ids the caller holds.

**Bytes.** Bytes are integers 0..255. A byte of PEM text stands for one PEM block, and `PemText` says which:
- a certificate;
- `BadDER`, a DER that `x509.ParseCertificate` rejects;
- `NoCert`, a block that is not a certificate.

The base64 step therefore works on real bytes, while PEM parsing stays abstract.

**Operators of the function.** Each is a pure operator on `h = [pools, full]`:
- `DecodeString` is `base64.StdEncoding.DecodeString` on 6-bit values, with `Pad` standing for `=`. It reads quanta of four; `=` may appear only in the last quantum, as `xx==` or `xxx=`.
- `EnsurePool` is `if certPool == nil { certPool = x509.NewCertPool() }`.
- `AppendCertsFromPEM` adds every certificate block; its `ok` reports whether one was added.
- `FromPEM` is the tail of the function, from `len(tlsCertBytes) == 0` on.
- `AddCertValue` is one iteration of the certs loop: the lazy `NewCertPool`, the type switch through `Parsed`, and `loaded`.
- `LoadCertificatePool` is the precedence between certString, certFile and certs: a `CASE` in the code's order, with `FoldLeft` over certs.

**The caller.** `Load(a)` is one call, on `nil` or on a pool the caller holds. `a` combines:
- a certString: none, or a payload encoded with `StdEncoding` or `RawStdEncoding`;
- a file: missing, empty, or holding a certificate;
- up to two certificate values.

The caller keeps the pool the call returns.

**Properties.** They are stated for every possible argument from every reachable heap, so the state is only the heap:
- `ErrorLeavesPoolsUnchanged`: a call that returns an error leaves every existing pool as it was.
- `LoadedExactlySelected`: a call that succeeds
  - returns the caller's pool itself (or a new one for `nil`);
  - adds exactly the certificates of the first non-empty source;
  - touches no other pool.

**`MC_CertPool`.** It has:
- certificates `c1` and `c2`;
- three PEM payloads of one to three bytes, so that both a full and a short final base64 quantum occur;
- four certificate values (`*x509`, a `*tls` chain with a bad entry, a `tls` chain of only a bad entry, and another type);
- two caller pools, one empty and one holding `c1`;
- two ids `NewCertPool` may return.

### `RateExamples.tla`: the rate-limiter `Example` tests

The two `Example` functions in `unsupported_operation_exception.go` (package `rate_test`) drive a token-bucket limiter from `go/time/rate`, which is not in the repository. The limiter is modelled from its use and the comments in the examples (a bucket of at most `Burst` tokens):
- `PutToken` adds a token and drops it on a full bucket (comment at line 43);
- `Allow` takes a token if there is one;
- `Wait` blocks until a token is present (`WaitReady`), then takes it.

**State.** `ex` is the example run, `tokens` the bucket, `mpc` main's program counter, `gpc` each goroutine's, `i` the loop index, `v` a value read by `Tokens()` and not yet printed, and `out` the printed lines. A line is a record of its kind and numbers, not text.

**Full-burst example (lines 35-73).** `FullStart` makes the full limiter and puts a token (dropped). The loop is `FullWait` (prints `Wait i`), then either `FullGot` (takes a token, prints `Got i`, refills once when `i = 0`) or `FullDeadline`. `FullDeadline` prints the error and returns. It is enabled only while `Wait` blocks; this is the example's own timing assumption that the one-second deadline passes only when no token is left.

**Empty-burst example (lines 75-168).**
- `EmptyPrologue` is lines 80-107 in one step: main alone runs them, and they touch nothing a goroutine can see before the goroutines start.
- Main's put loop is split where another goroutine can run between two calls: `BeforeRead`, `BeforePrint`, `MainPut`, `AfterRead`, `AfterPrint`. A `Tokens()` read and its `Printf` are separate steps.
- `EmptyEpilogue` is `wg.Wait` and lines 134-149. It is enabled once every goroutine is done.
- Each goroutine is `GoWait` (prints `Wait g`), `GoTake` (blocks until a token), `GoGot` (prints `Got g`) and, for goroutine 0, `GoRefill`.

The 10ms sleeps are not modelled: they make one schedule likely but order nothing.

**Properties.**
- `FullExampleOutput`: the full-burst example prints exactly its `// Output:`.
- `EmptyExampleOutcome`: the empty-burst example ends with the documented last four lines, and every goroutine prints `Wait` before `Got`.
- `ExamplesReturn`: both examples return.

### `SplitTests.tla`: `TestSplit` and `TestSplitN`

The second part of `otlptracehttp.go` is package `slices_test`: two tables (`splitTests`, 23 cases; `splitNTests`, 112 cases) and two identical loops that call `slices_.Split` / `SplitN` on each case and report a mismatch with `t.Errorf`. `Split` and `SplitN` themselves are not in the repository.

**Data.** A Go slice is a record `[isNil, e]`, so `nil` and `[]int{}` stay distinct as they are in the tables; `len` and `slices.Equal` look only at `e`, as Go's do. `splitTests` and `splitNTests` are the tables row by row (`S(...)` is a `[]int{...}` literal, `W(...)` a `[][]int{...}` literal).

**The external call.** `Call` takes the result of `Split` from `Split(t, k)`: the case's `want`, or one of the results a chunking bug gives. A result that differs from `want` only in being `nil` instead of `[][]int{}` (or the reverse) is left out, because the loop cannot report it (section 3):
- the last chunk lost (`DropLast`);
- an empty chunk added (`ExtraEmpty`);
- one element moved across the first chunk boundary (`ShiftBoundary`);
- two elements swapped across it (`SwapAcross`), which keeps every chunk's length.

**The loop.** `LenMismatch` is the `len` test with its `t.Errorf` and `continue`; `LenMatch` enters the element loop; `ElemMismatch` is `!slices.Equal` with its `t.Errorf` and `break`; `ElemMatch` and `ElemDone` step and leave the inner loop; `NextCase` moves to the next case, then to `TestSplitN`, then ends. `printed` is the index the last `t.Errorf` printed, and `nrep` counts the reports of the current case.

**Property.** `ReportedIffDifferent`: when the loop leaves a case, it has reported it exactly once if the result differs from `want`, and not at all otherwise. The comparison is of whole Go values, nil-ness included.


## 3. Runs

| Run | cfg | Expect | Checks |
|---|---|---|---|
| ring | `MC_HashRing.cfg` (7 calls) | pass | `TypeOK`, `LocatorMatchesRing`, `TraversalComplete`, `MemberShare`, `NoHang` |
| churn | `MC_HashRing_churn.cfg` (5 calls) | pass | `RingRefinesAbstract` |
| orphan | `MC_HashRing_orphan.cfg` | violation | `GetReturnsMember` |
| setnodes | `MC_HashRing_setnodes.cfg` | violation | `SetNodesKeepsRetained` |
| weighted | `MC_HashRing_weighted.cfg` | violation | `NoHang` |
| connstate | `ConnState`: `MC_ConnState.cfg` | pass | `TypeOK`, `RegisteredRoundTrip`, `SliceHelpersMatchSets` |
| htmlescape | `PrettyJSON`: `MC_PrettyJSON.cfg` | pass | `TypeOK`, `EscapeMatchesReference`, `OutputHTMLSafe` |
| numopts | `MC_NumberOptions.cfg` | violation | `CallerArraysUnchangedByAppend` |
| numopts_maps | `MC_NumberOptions_maps.cfg` | violation | `CallerMapsUnchangedByAppend` |
| certpool | `MC_CertPool.cfg` | pass | `TypeOK`, `ErrorLeavesPoolsUnchanged`, `LoadedExactlySelected` |
| rate | `RateExamples`: `MC_RateExamples.cfg` | pass | `FullExampleOutput`, `EmptyExampleOutcome`, `ExamplesReturn` |
| split | `SplitTests`: `MC_SplitTests.cfg` | pass | `TypeOK`, `ReportedIffDifferent` |

**What the passing runs show.** In every ring that up to 7 set-like calls reach:
- `Get` returns the owner of the first position clockwise from the key hash, and "not found" exactly on an empty table.
- `GetSince` yields every owner once, in clockwise order of nearest position.
- Every member keeps at least `numReps` positions.
- Every call returns.

The churn run checks that every call in runs of up to 5 calls is a step of `RingAbstract`:
- `RemoveNodes` moves only the keys of removed nodes;
- `AddNodes` moves keys only onto the new nodes;
- `SetNodes`, off its divergent fast path, disturbs no retained node;
- `RemoveAllNodes` leaves no key resolving.

Churn is measured through `Get`, the code's locator.

**What the violations show** (the findings in `PROJECT.json`):
- **orphan.** Add `a`, then `b`, which collides with `a` at position 1. Remove both. Because removal grows the budget only for *other* owners, `b`'s positions 7 and 10 survive, and `Get` returns `b` from an empty member set.
- Not a run, but seen while modelling: after a collision, `b` owns three positions with `numReps = 2`, because of `i+j > numReps` at line 321. `MemberShare` (at least `numReps`) holds either way.
- **setnodes.** `SetNodes(b)` on members `{a, b}` clears the ring, because `len(toRemove) = 1 = len(nodes)`. Re-adding `b` no longer gives it positions 7 and 10.
- Not a run, but seen while modelling: `SetNodes(c)` on `{a, b}` leaves `b`'s positions 7 and 10 orphaned when `a` is removed first, and no orphans when `b` is removed first. Which happens depends on map order (line 228), against spec 8.2's determinism.
- Not a run, but seen while modelling: `AddNodes(a)` on a ring where `a` is a member places `a` again (`addNoWeightNodes`, line 297). That is why the passing runs use `CallerSpec`.
- **weighted.** The first weighted `AddNodes` needs `2+37` distinct positions on a 16-position ring, and never returns. The real ring is no different: 1e10 is more than 2^32.

**ConnState.**
- Every registered value survives every codec, from any receiver.
- The slice helpers agree with subset and intersection, for every pair of slices of up to two values.
- Findings:
  - Not a run, but seen while modelling: `-1` (or 5, 6) marshals without error to `ConnState(-1)`, which no `Unmarshal` accepts. Go's `encoding.TextUnmarshaler` contract requires decoding what `MarshalText` produced.
  - Not a run, but seen while modelling: `UnmarshalJSON(null)` parses the empty name, sets the receiver to `ConnStateNew` and returns an error. The `encoding/json` convention is that null is a no-op.

**htmlescape.** For all 4681 inputs, the loop's result equals `HTMLEscaped(src)` and contains no `<`, `>`, `&` or separator sequence.

**NumberOptions.** Both runs are violations: each of the two appending options can write into the caller's data.
- Finding **numopts.** The slices share the caller's array:
  - `WithNumberSliceTypeReplace(a[:1]...)` stores the caller's slice header, length 1 and capacity 2 (line 562);
  - a later `WithNumberSliceType(v)` then appends in place (line 555) and writes `v` into `a[1]`, an element the caller owns.

  The doc comment says the option "appends sliceType in Number". TLC needs two calls to show it. A `Number` whose slice is nil or was allocated by `append` never reaches a caller's array, because `append` copies when it reallocates.
- Finding **numopts_maps.** The maps behave differently:
  - `ApplyOptions(WithNumberMapType(m1), WithNumberMapType(m2))` on a fresh `Number` first adopts `m1` (line 536);
  - it then writes `m2`'s entries into the caller's `m1`.

  The doc comment says the option "appends mapType in Number".

**CertPool.** The model reaches 168 states. From every heap of pools reachable by repeated calls:
- a failing call leaves every pool as it was;
- a successful call adds exactly the certificates of the first non-empty source to the pool it returns (the caller's own, or a new one) and touches no other pool.

Not a run, but seen while modelling: the doc comment (line 13) says certString is "Base64 encoded (without padding)". The code decodes it with `base64.StdEncoding` (line 29), which requires padding. `RawStdEncoding` of a one-byte or two-byte PEM ends in a short quantum, which the decode rejects: "unable to base64 decode the TLS certificate". The certpool run includes such strings; they take the error path.

**RateExamples.** The model reaches 16165 states, every schedule of main and the two goroutines:
- both examples return (`ExamplesReturn`, under the fairness of section 5);
- the full-burst example prints exactly its documented Output;
- the empty-burst example always ends with `tokens: 1`, `allow passed`, `tokens: 0`, `allow refused`, and each goroutine prints `Wait` before `Got`.
- Not a run, but found by TLC while modelling (an invariant `out = DocEmpty` at `mpc = "Done"`): the empty-burst example's whole Output (lines 150-167) is one schedule of several. TLC's counterexample has main put both tokens before either goroutine prints `Wait`. Nothing orders the goroutines' prints against main's, so `go test`'s exact comparison depends on timing.

**SplitTests.** The model reaches 69916 states: all 135 cases, each with every result of `Split(t, k)`. For every case and every result, the loop reports the case once exactly when the result differs from `want`. The `len` check with its `continue` and the element loop with its `break` and `slices.Equal` together catch a lost chunk, an added chunk, a moved boundary and a swap that keeps the chunk lengths.
- Not a run, but found by TLC while modelling (an invariant `printed = i - 1` at a reported case): the inner loop `for i := range got` shadows the case index, so a content mismatch is reported under the chunk's index. For case #10, `Split([1,2,3], -1)`, a result `{{}, {1,2}, {3}}` is reported as `#0` (lines 69 and 205).
- Seen while modelling: `len` and `slices.Equal` cannot tell `nil` from an empty slice, so the tables' distinctions between `nil` and `[][]int{}` (for instance lines 35 and 38, or 92 and 93) are never tested: a `Split` that returned `nil` for `[][]int{}` would pass. The model leaves such results out, so `ReportedIffDifferent` compares whole values; the gap is recorded here and in the hazards, not checked.

**Mutants.** Each property of a passing run has a mutant of the code it is about, and TLC finds the property violated under the run's cfg:

| Mutant | Bug it stands for | Property that catches it |
|---|---|---|
| `RemoveBatchZeroValue` | writes a zero node instead of deleting | `TypeOK` |
| `FirstIndexWrapLast` | wraps to the last index | `LocatorMatchesRing` |
| `SinceLoopNoRecord` | forgets to record a yielded node | `TraversalComplete` |
| `PlaceBatchNoBudget` | skips a collision without growing the budget | `MemberShare` |
| `PlaceLoopStepOne` | advances `i` by one instead of by the batch length | `NoHang` |
| `RemoveBatchAnyOwner` | deletes a position whoever owns it | `RingRefinesAbstract` |
| `_ConnState_name_to_values_ByOffset` | maps names to their byte offsets instead of their values | `TypeOK` (ConnState) |
| `_ConnState_index_Miscounted` | miscounts one name boundary | `RegisteredRoundTrip` |
| `ConnStateSliceContainsSeenInit` | starts the `seen` flags at true | `SliceHelpersMatchSets` |
| `SepEndRawLiteral` | takes `len` of the raw literal `` `\u2029` `` | `TypeOK` (PrettyJSON) |
| `LineSepShort` | tests `i+3 < len` | `EscapeMatchesReference` |
| `UnsafeNoGT` | leaves `>` out of the test | `OutputHTMLSafe` |
| `ParsedNoErrCheck` | adds a chain entry without checking its parse error | `TypeOK` (CertPool) |
| `AddCertValueLoadedInLoop` | `loaded` declared inside the loop, so only the last value counts | `ErrorLeavesPoolsUnchanged` |
| `EnsurePoolAlwaysNew` | makes a new pool even when the caller passed one | `LoadedExactlySelected` |
| `ElemMismatchNoBreak` | the `break` after a mismatched chunk left out | `TypeOK` (SplitTests: at most one report per case) |
| `SlicesEqualLenOnly` | `slices.Equal` comparing only lengths | `ReportedIffDifferent` |
| `PutTokenNoDrop` | `PutToken` adds beyond the burst | `FullExampleOutput` |
| `GoGotNoRefill` | goroutine 0 forgets its refill | `EmptyExampleOutcome` |
| `WaitNeedsTwo` | `Wait` returns only when two tokens are present | `ExamplesReturn` |

## 4. Bounds and why they are enough

- **Nodes and batches.** Three nodes and batches of two are enough for every case: a collision between two nodes, a third node that is neither removed nor added, a batch that straddles the budget boundary, and a removal order of two nodes.
- **Ring size.** A ring of 16 positions leaves room for about five placements before orphans fill it. Filling the ring is an artefact of its size.
- **NumberOptions.** Two maps are enough for "adopt one, then merge the other into it". A slice with spare capacity and a full one are enough for both paths of `append`. Two options per call reach every pair of options. A single fresh array id bounds the heap, since arrays are never freed; all the runs need is one reallocation.
- **Call counts.** 7 calls (5 for churn) reach every combination of add/remove/set on the three nodes in both orders, including re-adding after removal. Each violation is found within 1 to 4 calls.
- **CertPool.** Payloads of one, two and three bytes cover all three final base64 quanta. Two pool ids let one call make a pool and a later call make another. Lists of two certificate values reach "the first loads, the second does not" and the reverse, which is what `loaded` must accumulate over.
- **RateExamples.** The constants are the examples' own: `burst = 3` and `concurrency = 2`. Nothing is cut down, so every schedule of the real example is a behaviour of the model.
- **SplitTests.** The inputs are the tables themselves, all 135 cases, unreduced. The wrong results are one of each kind of chunking mistake; each kind applies wherever the case has the chunks it needs, which covers empty, one-chunk and several-chunk wants.
- **`LoopBound`.** `LoopBound = 4*RingSize`. Every node's hash sequence has period at most 16, so a loop that needs more than 64 batches never ends.

## 5. Fairness

For the library code and the split tests (everything but `RateExamples`), all checked properties are safety properties: invariants, and the refinement `RingRefinesAbstract`, which is an action property (`[][Next]_v`). The code is synchronous library code. It has no goroutines, channels or internal scheduling, and nothing in it waits for anything to happen later. So no fairness is assumed, and there is no liveness property to state beyond "a call returns".

A call's termination is a state property (`NoHang`), because each call is one step. A loop that runs forever shows up as `hung`, and the weighted run finds it.

`RateExamples` runs goroutines, so it states liveness. `Spec` assumes weak fairness of main and of each goroutine separately (`WF_vars(Main)`, `WF_vars(Goroutine(g))`). Go's scheduler eventually runs every runnable goroutine, and a goroutine blocked in `Wait` is not runnable: `GoTake` is enabled only while a token is present. The full example's deadline is a step of main that is enabled only while `Wait` blocks; the timer fires after one second, so that step is also weakly fair. No strong fairness is assumed. `ExamplesReturn` (`<>(mpc = "Done")`) then says that `wg.Wait` and the loop end.

## 6. Not modelled

- **Concurrent callers.** The code has no synchronization and requires callers to exclude each other.
- **`getMaxHashKey`, `updateLocator`.** Nothing in the file calls them. `All` and `getNodeRepetitions` are operators of `HashRing`; `getAllNodes`'s iteration order enters the model through `MapOrders`.
- **`updateSortedNodes` reallocation.** Its capacity heuristic affects memory only.
- **The hash and formatter.** They are not under `src/`.
- **The go-options generator** (`options.go` lines 1-481). Its output is Go source text built by `Printf` templates, and its steps are calls into the Go toolchain (`flag`, `packages.Load`, `ast.Inspect`, `format.Source`, `imports.Process`, `WriteFile`). The control flow around those calls could be modelled with the calls as external steps (plan item 10); it is not yet.
- **Typed nil options.** A nil `NumberOptionFunc` passes `opt == nil` and panics when it is applied (`options.go:510`). That is a crash outside the modelled state.
- **The other files.** See the table in section 1.

## 7. Plan

1. `HashRing` and its runs (done).
2. `RingAbstract`, with the ring's refinement of it (done).
3. A weighted-mode run with a bias that fits the ring, to check proportionality and map-order determinism by composing two instances.
4. `ConnState` (done).
5. `PrettyJSON`: `appendHTMLEscape` (done). Next, `appendCompact` and `appendIndent`, with `encoding/json`'s scanner as an external capability over a small token alphabet. The properties would be that re-compacting an indented output gives the compact input, that depth never goes below zero, and that empty objects and arrays print as `{}` and `[]`.
6. `NumberOptions` (done).
7. `CertPool` (done).
8. `RateExamples` (done).
9. `SplitTests` (done).
10. The go-options generator's control flow (flags, package loading, `genDecl`'s name choice with `-trimprefix` and `-linecomment`, output naming), with the Go toolchain calls as external steps.
