# TLA+ models of the LDAP v3 client (`src/v3/search.go`)

This directory holds TLA+ models of the LDAP client library in `src/`, and the
TLC configurations that check them. The repository's source under `src/` is
`src/v3/search.go` (entries, search requests, `Search`,
`SearchWithPaging`, `SearchWithChannel`) and `src/v3/examples_test.go`
(usage examples). The connection layer it calls (`conn.go`: `doRequest`,
`sendMessage`, `readPacket`, `finishMessage`, the reader goroutine, `Close`)
is not under `src/`. Where a model needs it, it is modelled from `spec.md`,
and `PROJECT.json` marks those definitions `spec_modelled`.

## 1. Inventory

### Components

| Component | Source | State | Operations | Status |
|---|---|---|---|---|
| Paged search helper | `search.go` 406-474 `SearchWithPaging` | the request's paging control (size, cookie), the accumulated `searchResult`, the local `pagingControl` | control lookup, size check, one `Search` per page, `SetCookie`, two exits, size-0 abandon search | modelled (`SearchPaging`) |
| Buffered search | `search.go` 476-522 `Search` | the per-call `SearchResult` | `doRequest`, the read loop over entries (tag 4), done (5), references (19), `finishMessage` | modelled (`SearchChannel`, concurrently with other searches; `SearchPaging`, one paged operation) |
| Streaming search | `search.go` 524-611 `SearchWithChannel` | message context, the caller's channel | nil-channel check, message ID, `appendTo`, `sendMessage`, read loop, blocking sends on `ch`, `close(ch)` | modelled (`SearchChannel` on `Mux`) |
| Message multiplexer | `conn.go` (not in `src/`, spec section 4.4) | transport, MessageID counter, MessageID to queue map, closed flag | submit, reader demultiplexing, finish/abandon, Close | partly (`Mux`, refining `MuxAbstract`; `SearchPaging`): no abandon, no timeout |
| Request construction | `search.go` 342-404 | none (builds a packet) | `appendTo` (filter compile may fail before anything is sent; controls child only if non-empty), `NewSearchRequest` | modelled (`SearchRequest`, used by `SearchChannel`'s `Start`) |
| Entries | `search.go` 44-148, 285-316 | `Entry{DN, Attributes}`, `EntryAttribute{Name, Values, ByteValues}` | `NewEntry` (sorted attribute names), first-match lookups, EqualFold variants | modelled (`Entries`) |
| `Unmarshal`, `readTag` | `search.go` 166-283 | none | reflection on struct fields | modelled (`Entries`; reflection abstracted to a field list) |
| Printing, Scope/Deref maps | `search.go` 14-42, 150-164, 308-340 | none | formatting | not modelled |
| Examples | `examples_test.go` | application code | manual paging loop (349-384), others are single calls | partly: the `SearchWithChannel` consumer goroutine is modelled in `SearchChannel`, and the manual paging loop in `SearchPaging`; the other examples call operations that are not in `src/` |
| BER codec, filter compiler, controls, other operations | not in `src/` | | | not modelled |

### How the parts interact

The application builds a `SearchRequest` and calls `Search`,
`SearchWithPaging` or `SearchWithChannel` on a shared `Conn`. Each search
takes a fresh MessageID, has the connection write its request, and then reads
its own queue of response PDUs. A single reader goroutine in the connection
fills that queue by demultiplexing PDUs by MessageID. `SearchWithPaging` is a
loop of `Search` calls coupled through the request's paging control: it
writes the server's cookie into that control between pages. `SearchWithChannel`
pushes every result onto a channel owned by the caller, which a consumer
goroutine drains; the send blocks until the consumer takes the value.

### What is hard

* **Partial failure of a multi-step call.** A paged search is many requests. Any
  page can end in an error result, an undecodable control or a dropped
  connection, and then the caller gets an error together with some results.
* **State carried between calls.** The paging cookie lives in the caller's
  request object and outlives the call.
* **Protocol sequence.** The cookie chain must be followed exactly, and the loop
  must end exactly when the server returns no cookie.
* **Concurrency.** Several operations share one connection. There is one reader.
  The channel consumer is a separate goroutine whose speed the library does not
  control. `Close` may happen at any point.

### Properties that make each component correct

* Paged search: the cookie chain (`CookieChain`); a successful return is the whole
  result, with nothing lost or duplicated, in order (`PagedResultComplete`); a
  fault-free call on a valid request succeeds (`FaultFreeSucceeds`); partial results
  come back with an error (`PartialResultsKept`, spec section 7); every call
  returns (`PagingTerminates`).
* Multiplexer and streaming search: each consumer receives exactly its own
  results, in order (`OwnResultsInOrder`). A nil return means that every
  result and the controls record were delivered and the channel is closed
  (`CompleteOnSuccess`). Every call returns while its consumer keeps reading
  (`SearchesTerminate`). After `Close` no operation blocks (`CloseUnblocks`,
  spec sections 4.4 (iii) and 8). The MessageIDs emitted are increasing
  (`MonotonicIDs`, spec section 8).
* Multiplexer: the wire, the reader and its hand-off implement one FIFO queue
  per MessageID (`MuxRefinement`, a refinement of `MuxAbstract`).
* Entries: `NewEntry`'s comment promises the attributes in alphabetical
  order of the keys; `sort.Strings` orders bytes, so with names in both cases
  it does not (`NewEntryAlphabetical`, a violation run). The lookups return the map's
  values, and the EqualFold lookup returns the first name in byte order
  (`NewEntryLookups`). `Unmarshal` does what its comment promises
  (`UnmarshalFaithful`). A failing `Unmarshal` leaves exactly the fields
  before the first failing field filled (`UnmarshalErrorKeepsPrefix`).
* Request construction: every LDAPMessage written to the connection is read
  by the server as exactly its operation's request, and a request whose
  filter does not compile is never written (`RequestsSentIntact`).

The hazards these properties are aimed at are listed, each at its source line, in
`PROJECT.json` under `hazards`.

## 2. Plan

1. **`SearchPaging`** (done): `SearchWithPaging` and `Search` against a
   nondeterministic server and transport.
2. **`Mux`** (done, spec-modelled from spec section 4.4): several operations
   share one connection, with MessageID allocation and a reader that
   demultiplexes a wire interleaving the operations' responses. Transport
   failure and `Close` are included. `Mux` refines `MuxAbstract`, which has
   one FIFO queue per MessageID. Abandon is left out, because nothing in
   `src/` abandons a message.
3. **`SearchChannel`** (done): `SearchWithChannel` composed with `Mux`. Its consumer
   goroutine is modelled with the unbuffered channel. Runs check delivery
   (exactly once, in order, then closed) and termination with a live consumer.
   A violation run checks termination after `Close` when the consumer has
   stopped reading (spec sections 4.4 (iii) and 8).
4. **Buffered `Search`** (done, inside `SearchChannel`): concurrent `Search`
   calls on `Mux`, one operation per MessageID (spec scenario 5), mixed with
   `SearchWithChannel` calls.
5. **`Entries`** (done, with `Unmarshal`): `NewEntry` and the lookups as operators, checked against
   reference definitions over small attribute maps.
6. **`SearchRequest`** (done): `appendTo` and `NewSearchRequest`, modelled by
   what they produce (the child order, filter-compile failure before any
   send, the optional controls), composed into `SearchChannel`.
7. **Manual paging** (done, inside `SearchPaging`): the hand-written loop of
   `ExampleControlPaging_manualPaging` is a second client of the same server
   and transport. It is checked against the same cookie-chain, completeness
   and termination properties as `SearchWithPaging`.

## 3. Modules and runs

### `SearchPaging` (instantiated by `MCSearchPaging`)

**State.** `pc` is the position of the client goroutine: `idle`, `send`
(about to call `Search`), `read` (inside `Search`'s read loop) or `exited`
(the example program ended in `log.Fatal`). `client` says which code drives
the pages: `helper` is `SearchWithPaging`, and `manual` is the hand-written
loop of `ExampleControlPaging_manualPaging` (examples_test.go 349-384).
`reqCtl` is the paging control in `searchRequest.Controls`. `page` is the
`SearchResult` that `Search` is building. `acc` is `searchResult`. `inbox`
holds the response PDUs of the outstanding message that have not been read
yet. The history variables `received`, `prevCookie`, `lastReq`, `callCtl`
and `faulted` exist only for the properties. The server keeps `serverPaging`
(whether it implements paging) and `open` (the cookies of the paged result
sets it holds). `connUp` is the transport.

A result item is a number `1..N`, and `RefItems` are the referrals. A cookie
is the server's position in the result set, with 0 meaning empty. This is all
the properties need to tell results apart. DNs, attributes and the BER
encoding are abstracted away.

**Actions.**

* `Call` is lines 415-433. The control is looked up. If there is none, a new
  one is attached. A foreign control or a size mismatch makes the call return
  an error without a query.
* `Send` / `SendFail` are `l.Search(searchRequest)` (line 435 and `doRequest`,
  lines 477-481). The server's answer to the request's current size and cookie
  is queued.
* `ReadEntry`, `ReadReference`, `ReadDoneError` and `ReadDone` are the cases of
  the `switch` at line 496. For a successful done, `ReadDone` also covers the
  rest of the loop body (lines 440-462) and the exit (lines 465-473).
* `ReadFail` is `readPacket` failing on a closed queue.
* `ManualCall` is lines 350-364 of the manual example. It dials, builds one
  `pagingControl` and starts the first `Search`. If the dial fails, the
  program ends in `log.Fatal`.
* `ManualSearchFails` is lines 365-368. `Search` returns an error (`SearchErr`
  is the condition, search.go 503-514 and the transport errors), and
  `log.Fatalf` ends the program. The deferred `Close` does not run, but the
  process exit closes the socket anyway.
* `ManualReadDone` is a successful done PDU in the manual loop (lines
  370-383). If the response carries a Paging control with a non-empty cookie,
  the cookie is set on the shared control and the loop goes on. Otherwise the
  loop breaks and the deferred `conn.Close()` runs.
* `Exited` is a stutter step once the program has ended. A terminated
  program is not a deadlock.

`ReadDone` is one action because the code does all of that in one uninterrupted
stretch of a single goroutine. The size-0 abandon search at lines 465-471 is
never issued, because both `break`s set `pagingControl` to nil first. The
model says so in `ReadDone`.

The server answers a request in one of these ways:

* if it does not support paging, with every item and no control;
* with the page at the cookie and the next cookie;
* with an error after part of the page;
* with a control the client cannot decode (the server did send a next cookie, so it keeps that result set open);
* for a stale cookie, with a rejection or the page at that position (servers differ).

`ConnDrop` is the reader goroutine's failure path (spec-modelled). PDUs still
on the wire are lost, the server forgets its paged results, and there is no
reconnection (spec non-goals).

**Fairness.** `WF_vars(ClientStep)`. The goroutine inside `SearchWithPaging`
is never descheduled forever. The application (`Call`) and the transport
(`ConnDrop`) get no fairness.

**Bounds.** `N = 5`, `PageSize = 2` and `RefItems = {2, 5}`. A result then
spans two full pages and a partial one, so the client goes through two
non-empty cookies before the empty one, and a referral sits in the middle of a
page and at the end of the last one. The safety and liveness runs reach 1520
distinct states each. `OtherSize = 1` gives a
request whose own control disagrees with the requested size. Calls repeat
forever, and the state space is finite because the per-call histories are reset
by `Call`.

| Run | cfg | Expect | What it shows |
|---|---|---|---|
| `paging_safety` | `SearchPaging.cfg` | pass | `CookieChain`, `PagedResultComplete`, `FaultFreeSucceeds` hold with a fresh request per call, whatever the server and the transport do; the manual loop keeps the cookie chain and returns the whole result too |
| `paging_liveness` | `SearchPagingLiveness.cfg` | pass | `PagingTerminates`: every call returns, and the manual loop returns or exits, under fairness of the client goroutine alone |
| `paging_partial` | `SearchPagingPartial.cfg` | violation | `PartialResultsKept` fails. A page that errs after delivering an entry loses it, against spec section 7 |
| `paging_reuse` | `SearchPagingReuse.cfg` | violation | `FaultFreeSucceeds` fails when the application calls again with the same request. The counterexample is a call whose second page fails, followed by a retry with the same request, which sends the consumed cookie and is rejected by a healthy server |

### `Mux` and `SearchChannel` (instantiated by `MCSearchChannel`)

**`Mux`** is the connection layer of spec section 4.4. `conn.go` is not in
`src/`, so every definition is `spec_modelled`.

**Mux state.**

* `nextID` is the MessageID counter.
* `registered` is the set of MessageIDs with a response queue (the `msgCtx` map).
* `srv[id]` is what the server still has to send for message `id`.
* `wire` is the transport.
* `rd` is the PDU the reader goroutine is handing over.
* `closed` is the closed flag.
* `sent` is a history of the LDAPMessages written, in order. `MsgID` reads a
  message's MessageID, its first child.

**Mux actions.**

* `ServerEmit(id)` is the server interleaving the PDU streams of the messages.
* `ReaderRead` is the reader taking one PDU off the wire. It holds the PDU for
  its queue, or drops it when the MessageID is unknown. The hand-off is
  synchronous (spec 4.5): while one operation has not taken its PDU, no other
  operation receives anything.
* `CloseConn` is `Close` or the transport failing. Unread PDUs are lost and every
  queue is closed.
* The operations use `AllocID` (`nextMessageID`), `Submit` (`sendMessage`),
  `Holding`/`Take` (receiving from the queue) and `QueueClosed`.

**`SearchChannel`** is `SearchWithChannel` (`search.go` 524-611) and the
buffered `Search` (`search.go` 477-522). It runs for a set `Ops` of
concurrent calls. `Init` chooses the subset `searchOps` that call `Search`;
the others call `SearchWithChannel`, each with the consumer goroutine of
`ExampleConn_SearchWithChannel`. An application may use either API on one
`Conn`, so every mix is a state the program can be in.

**SearchChannel state.**

* `pc[o]` is the call's position: `start`, `send`, `recv`, `push` (blocked in
  `ch <- r`), or `done`.
* `pending[o]` is the value offered on the unbuffered channel.
* `chClosed[o]` records that `close(ch)` has run.
* `got[o]` and `cons[o]` are the consumer's received values and its state.
  For a `Search` call, `got[o]` is its `SearchResult`, `chClosed[o]` means the
  result has been returned, and `cons[o]` is `done` from the start.

**SearchChannel actions.** Each action is one stretch of the call's code:

* `Start` is lines 534-540. It takes the ID into the request packet and runs
  `appendTo` (`SearchRequest`) on the call's request `req[o]`; a filter that
  does not compile ends the call. `msg[o]` is the packet `appendTo` leaves.
* `Send` is lines 544-547.
* `RecvResult` is an entry or a referral, up to the blocking send.
* `RecvDone` is lines 585-600: an error, controls sent on `ch`, or the end of
  the loop.
* `RecvClosed` is `!ok` at line 554.
* `Pushed` is the send completing.
* `Return` is the deferred `finishMessage` and `close(ch)`.

`Search` shares `Start`, `Send`, `RecvClosed` and `Return` (its `doRequest`,
the `readPacket` error at 491-494 and the deferred `finishMessage` are the
same steps) and has two actions of its own:

* `SearchRecvResult` is `case 4` or `case 19`: the entry or referral is
  appended to the result. Nothing blocks, so the reader is never stalled.
* `SearchRecvDone` is `case 5`: an error returns the partial result, or the
  controls are appended and the result returned.

The consumer has three actions:

* `ConsumerRecv` is one iteration of `range ch`.
* `ConsumerClose` is the loop ending on the closed channel.
* `ConsumerQuit` is an application that stops ranging early. The example never
  does this; `ConsumersMayQuit` allows it.

The server ends each search with a success, a success carrying controls, or an
error, which is chosen when the request is written.

**Fairness.** Weak fairness goes to the steps that must eventually happen:

* each call's goroutine;
* the reader;
* the server's sending;
* each consumer's `range` loop, for as long as it ranges.

`Close` and quitting the loop get no fairness. They are choices of the
application.

**Bounds.** There are two calls, each getting one entry and one referral
(`K = 2`, `RefPos = {2}`), and `MaxID = 2`; each call is either kind, so
the runs cover two channel calls, two `Search` calls and one of each. Two
calls give every interleaving of two streams on one wire: ID allocation
against sending, one call's blocked send stalling the reader for the other,
and `Close` at every point of both. A third call adds no new kind of step
(and makes the safety run exceed several million states). `Init` gives each
call one of three requests (`MCRequests`): a plain subtree search, a
one-level search with a negative size limit and a control, and one whose
filter does not compile. `IntWidth = 4` stands for Go's 64-bit `int` and
`uint64`; the conversions only reinterpret bits, so a small width shows the
same wrap. `channel_close_blocks` uses only the plain request. The model stops when both calls and both
consumers are done, hence `CHECK_DEADLOCK FALSE`.

| Run | cfg | Expect | What it shows |
|---|---|---|---|
| `channel_safety` | `SearchChannel.cfg` | pass | `OwnResultsInOrder`, `CompleteOnSuccess` and `MuxRefinement` hold, also with `Close` at any point and consumers that quit, for every mix of `Search` and `SearchWithChannel` calls and requests; `RequestsSentIntact` holds (1.6M states, about 1.5 minutes) |
| `channel_liveness` | `SearchChannelLiveness.cfg` | pass | `SearchesTerminate`: with consumers that keep reading, every `SearchWithChannel` and `Search` call returns and every range loop ends, whether or not the connection is closed |
| `channel_close_blocks` | `SearchChannelClose.cfg` | violation | `CloseUnblocks` fails: a consumer quits, its call blocks in `ch <-` at line 583, and `Close` does not release it |
| `channel_id_order` | `SearchChannelIDs.cfg` | violation | `MonotonicIDs` fails: `o1` takes ID 1 and `o2` takes ID 2, and then `o2` writes its request before `o1` |

### `MuxAbstract` and the refinement

`MuxAbstract` says what spec section 4.4 promises an operation, and no more.
Each MessageID has its own FIFO queue of responses. `ASubmit` fills the queue
with whatever the server will send. `AReceive` takes the oldest response, and
only the operation of that ID does so. `AFinish` discards what is left, and
`AClose` discards every queue.

`Mux` defines `Abstract == INSTANCE MuxAbstract WITH queue <- ...`. The queue of
a registered message is the concatenation of three parts:

* the PDU the reader is handing over to it;
* its PDUs on the wire (`SelectSeq`);
* what the server has still to send.

The queue of an unregistered message is empty, because the reader drops that
message's PDUs. Under this mapping, the server's and the reader's steps are
stuttering steps of the abstract spec. `Take` is `AReceive`. The returns of
`SearchWithChannel` are `AFinish`. `MuxRefinement == Abstract!ASpec` is
checked in `channel_safety`.

### `SearchRequest` (used by `SearchChannel`)

`SearchRequest` is request construction (`search.go` 342-404), as operators
with no state of their own. A BER packet is a record of its class, its tag
and its value: a primitive value, or the sequence of its children.

* `NewSearchRequest` is the constructor: the request holds its arguments.
* `SearchPDU` is the `[APPLICATION 3]` packet of lines 356-374, with its
  eight children in the code's order. `Uint64` and `NewInteger` are the
  `uint64(...)` conversions and `ber.NewInteger`, which writes the
  two's-complement `int64` of the same bits.
* `AppendTo` is `appendTo`: a filter that does not compile returns before
  the PDU is added to the envelope, and the controls follow only when there
  are some.
* The filter compiler and the control encoders are other components:
  `Compiles` and `FilterPacket` stand for `CompileFilter`, and
  `EncodeControls` for `encodeControls`.

`ReadsAs` is the reference: how the server reads an LDAPMessage carrying a
SearchRequest (spec section 3, RFC 4511 4.5.1), field by field in the RFC's
order. `RequestsSentIntact` is checked in `channel_safety`. Every message in
the multiplexer's `sent` history must read as the request of the operation
that owns its MessageID. The check covers two concurrent calls, ID
allocation racing between them, failed filters and Close. A request with a
negative `SizeLimit` reaches the server as `-1`. RFC 4511 allows only
`0..maxInt`, and the spec lists an *Encoding* error for illegal PDUs, but
`appendTo` checks none of the request's values.

### `Entries` (instantiated by `MCEntries`)

**Purpose.** This module models the application's side of entries:

* it builds an entry with `NewEntry`, or receives one decoded by
  `SearchWithChannel`;
* it reads the entry with the eight lookups;
* it unmarshals the entry into a new struct.

**Data.** A string is a number that stands for its text. An attribute name is
`[w, up]`: word `w` in lower or upper case. The words are numbered in
alphabetical order, so `sort.Strings`' byte order (`ByteLess`: every upper-case
name first) and `strings.EqualFold` are exact on the model's names.

**Operations.** Each operation is an operator translated from its function:

* `NewEntryOf` sorts the map's keys, given in Go's random iteration order
  `iter`, with `SortSeq`.
* The lookups find the first match with `SelectInSeq`.
* `FillFields` is `Unmarshal`'s loop over the fields. It is `RECURSIVE` and
  keeps every `continue` and early return in the code's order.
* `ParseOK` is `strconv.ParseInt`'s success.
* `SetInt` is `reflect.Value.SetInt`, which keeps the low `IntBits` bits of an
  `int` field.

**Reflection.** The struct type is a sequence of fields
`[exported, name, tag, kind]`. `MCEntries` gives it the fields of a typical
user struct: a `dn` tag, a `[]string`, an untagged `[]byte` named `CN`, an
`int`, an unexported field, and an `int64`.

**Widths.** Go's widths are scaled to fit TLC: `ParseBits = 6` stands for
ParseInt's 64 bits, and `IntBits = 6` or `4` for a 64-bit or a 32-bit `int`.
Only the ordering of the widths matters.

**Actions.** These are the application's calls:

* `NewEntry` ranges over every map of `MCValueLists` and every iteration
  order;
* `ReceiveEntry` ranges over every server entry of up to 2 attributes, with
  repeated names and empty value lists (types-only searches);
* `UnmarshalCall` calls `Unmarshal` with a pointer or, by mistake, a value.

There are 10,710 states.

**Properties.** Each property compares the code's loop with a declarative
reference, in the way of a checked algorithm:

* `NewEntryAlphabetical`: no attribute of a built entry comes after one
  whose name is alphabetically later, as the comment at lines 45-46 says.
  `MCAttrNamesMixed` holds names in both cases, where byte order and
  alphabetical order differ.
* `NewEntryLookups`: the lookups on an entry built by `NewEntry` return the
  map's values. The EqualFold lookup returns the values of the byte-least
  name among those that fold together.
* `UnmarshalFaithful`: the comment of `Unmarshal` (lines 185-227), read as a
  specification, holds for a call into a new struct. That is, it fails
  exactly when an int value cannot be parsed, and otherwise every field holds
  what the comment promises.
* `UnmarshalErrorKeepsPrefix`: when the call fails, the error is that of the
  first field that stops the loop (a bad int at line 275, an unsupported
  kind at line 279). Every field before it holds its promised value, and it
  and every later field are still zero. The comment does not say what an
  error leaves behind; this is what a caller that goes on using the struct
  gets.

| Run | cfg | Expect | What it shows |
|---|---|---|---|
| `entries` | `Entries.cfg` | pass | `TypeOK`, `NewEntryLookups`, `UnmarshalFaithful` and `UnmarshalErrorKeepsPrefix`, on a 64-bit platform, for a struct of supported types |
| `entries_alphabetical` | `EntriesAlphabetical.cfg` | violation | `NewEntryAlphabetical` fails: `NewEntry` on a map with keys `cn` and `ID` puts `ID` first, because `sort.Strings` compares bytes and upper case sorts before lower case |
| `entries_int32` | `EntriesInt32.cfg` | violation | with a 32-bit `int`, the value 20 (it fits ParseInt but not the field) is stored as 4, and the call returns no error |
| `entries_uint32` | `EntriesUint32.cfg` | violation | a `uint32` field, the comment's own example, whose attribute is present makes `Unmarshal` fail, although the comment says such fields are not regarded |

## 4. Findings

* `search.go:437` drops the failing page's partial results. The spec (section 7)
  says partial results are returned with the error.
* `search.go:427`/`462`: the cookie stays in the caller's request after the call.
  A second `SearchWithPaging` with the same request, for example a retry after an
  error, resumes from a consumed cookie.
* `search.go:52`: `NewEntry` sorts the keys with `sort.Strings`, which
  compares bytes. The comment at lines 45-46 says alphabetical order. With
  keys in both cases, `ID` comes before `cn` (`entries_alphabetical`). The
  order is still deterministic, which is the comment's purpose.
* `search.go:277`: `Unmarshal` stores `ParseInt`'s 64-bit result with `SetInt`,
  which truncates silently where `int` is 32 bits. This contradicts the comment
  at lines 208-209 (`entries_int32`).
* `search.go:279`: a field of an unsupported type makes `Unmarshal` fail and
  leaves the fields after it unwritten. The comment at lines 187-189 says such
  fields are not regarded (`entries_uint32`).
* `search.go:583`: `SearchWithChannel` sends every result with a plain blocking
  `ch <-`. When the consumer stops reading, the call never returns, not even
  after `Close`, which contradicts spec sections 4.4 (iii) and 8. The reader
  is stuck with it on its next PDU, so the other operations on the connection
  stall too.
* `search.go:535`/`544`: the MessageID is taken before the request is built and
  sent, and nothing holds the two steps together. Concurrent operations can
  emit IDs out of order, which contradicts spec section 8 ("strictly
  monotonic"). Correlation by ID is not affected (`OwnResultsInOrder` holds).

## 5. Not modelled

* Printing (`Print`, `PrettyPrint`) and the Scope/Deref description maps. They
  are output formatting and constant tables, with no state and no property to
  check. The BER byte encoding is an external library.
* Reflection itself. `Unmarshal` is modelled over a list of fields. A `dn` tag on
  a non-string field makes `SetString` panic. This case is not modelled.
* The filter compiler, the control codecs and the non-search operations. They
  are not under `src/`.
* Abandon requests and the I/O timeout of the multiplexer. No code in `src/`
  abandons a message, because every call finishes after its terminal PDU or a
  closed queue, and the timeout is configuration of `conn.go`.
* The other examples (`Bind`, `StartTLS`, `Compare`, `PasswordModify`,
  `Modify`, the password-policy and authentication examples, `ExternalBind`,
  `WhoAmI`). Each is a single call of an operation that is not under `src/`.
  `ExampleConn_Search` is one buffered `Search`, which is already modelled.
* The `Debug` branch of `SearchWithChannel` (lines 563-567). It runs only
  when the connection's debug switch is on, and the model assumes it off. In
  that mode `addLDAPDescriptions` can fail, and the call then returns its
  error before the packet's switch.
* Releasing a paged result set early (the size-0 search at lines 465-471).
  That code is unreachable, because both `break`s clear `pagingControl`. The
  model's server has no size-0 request, so it cannot say whether a result set
  is released either.
* The nil-channel check of `SearchWithChannel` (line 529). It returns a usage
  error before any state changes.
* TLS, dialing and timeouts of the transport. The transport is modelled only as
  up or failed.
