# TLA+ models of the capnproto-rust non-blocking message reader

This directory holds TLA+ models of `src/src/async.rs`, the resumable,
non-blocking decoder of the Cap'n Proto segment framing, and of the
`text::Builder` of `src/src/text.rs`. They are checked with TLC.

## 1. Inventory of the system

### Components and their state

| Component | Code | State it keeps | Operations |
|---|---|---|---|
| Non-blocking byte drain | `async_read_all` (async.rs:138-153) | a local `idx` into the caller's buffer | one `read()` per loop iteration. Its outcomes are n bytes, `Ok(0)` (Premature EOF), WouldBlock (break), Interrupted (retry) and any other error (propagate). |
| Segment table, first word | `read_segment_table_first` (155-184) | `[u8; 8]` buffer, `idx` | drain, then suspend or decode: `count = read_u32 + 1` wrapping in u32, reject `count >= 512` and `count == 0`, return `(count, first_len)` |
| Segment table, rest | `read_segment_table_rest` (186-228), `create_segment_table_buf` (269-274) | a `(count/2)*8`-byte buffer, `idx`, `segment_count`, `first_segment_len` | drain, then suspend or decode `count - 1` lengths, build the slices in usize arithmetic, and reject a total over `traversal_limit_in_words` |
| Segment bodies | `read_segments` (230-267) | `owned_space: Vec<Word>`, `segment_slices`, `idx` | drain, then suspend or build per-segment views `&owned_space[start..end]`, the arena and the `OwnedSpaceMessageReader` |
| Continuations | `ReadContinuation`, `AsyncValue`, `try_async!` (31-111) | one variant per suspend point, carrying the state above | a suspended phase returns `Continue(cont)`. `try_async!` short-circuits a Continue or an error up through `read_message`. |
| Orchestrator | `read_message` (113-136) | none of its own | first word, then the table rest (only when `count > 1`), then `Word::allocate_zeroed_vec(total)` and the bodies |
| Text | `text.rs` | `Builder { bytes, pos }` | `new` (validates UTF-8 only when `pos != 0`), `push_ascii`, `push_str`, `clear`, `deref` (unwraps `from_utf8` of all bytes), `new_reader` (stateless check) |

### Interactions

The caller calls `read_message(read, options)`. This happens inside one
synchronous call, single-threaded. The phases run in order and each phase
drains the stream. The stream is the outside actor: bytes arrive at the
socket whenever the peer and the network deliver them, including between two
`read()` calls of the same drain. When a read would block, the phase
returns `Continue` with everything it has read so far, and `try_async!`
passes it up. The caller stores the continuation and is meant to resume
it later (spec 4.5), or drops it.

### What is hard

- **Interleaving with the stream.** A read can return any number of bytes,
  or WouldBlock after a partial read, or Interrupted, so a message can be
  split at any byte. The bytes already read must survive the suspension
  exactly (spec 8.5).
- **Failure and truncation.** The stream can close mid-message (Premature
  EOF) or fail.
- **Hostile headers.** The count field can wrap to 0 or hit the 512 bound.
  The lengths can be huge: the traversal limit must be checked before
  allocating, and the usize sum can overflow on 32-bit targets.
- **The resume protocol.** Only `read_message` is public.

### What makes each component correct

- Drain and continuations: no byte is lost, duplicated or read past the
  frame, whatever the split. A closed short stream fails, it never
  completes or waits forever.
- Table decoding: exactly the counts 1..511 are accepted. The padding is
  never taken for a segment. A total over the limit is rejected before
  allocation.
- Bodies: the views cover exactly the segments sent, and nothing panics.
- Orchestrator: a complete message is the framed message, consumed exactly.

## 2. Modules

### `AsyncRead.tla`: one decode of one message

Variables and their code counterparts:

- `in`: the peer's stream. `in.wire` holds the bytes and `in.closed` says
  whether EOF follows them. `in.rawCount` and `in.lens` are the table the
  sender meant; they are used only by the properties.
- `sent` / `pos`: bytes that reached the socket / bytes returned by `read()`.
- `status`: `idle`, `running` (inside `read_message` or a resumed phase),
  `suspended` (a `Continue` was returned), `complete`, `failed` (an `Err`
  was returned), `panicked` or `dropped`.
- `phase`, `buf`, `idx`, `segCount`, `firstLen`, `slices`: the fields of
  the `ReadContinuation` variant of the current phase. `buf` is the
  `[u8; 8]` buffer, the boxed table buffer, or the bytes of `owned_space`.
- `error`: the error kind returned.
- `interrupts`: the number of Interrupted results so far, capped at
  `MaxInterrupts`.

Actions:

- `ReadStep` is one iteration of the drain loop, with all five outcomes.
  A WouldBlock suspends the phase, because the phase's `idx < len` test then
  returns its continuation.
- `FinishFirstFor(caller)`, `FinishRestFor(caller)` and `FinishSegments`
  are the code of each phase after its buffer is full. Each is followed by
  what its caller does with the result: the `count == 1` shortcut, or the
  table buffer and `TableTo`.
- `TableTo` is `read_message`'s allocation and `read_segments`
  (`EnterSegments`), or the return of the tests' helper
  `read_segment_table`.
- `FinishFirst` and `FinishRest` are these steps with `read_message` as the
  caller.
- `ReadMessage` is the caller's call. `Continuation` is the
  `ReadContinuation` value a `Continue` carries: its variant (`phase`) and
  fields. `Resume` is the caller taking it out with `unwrap_continuation`
  and re-entering the phase it names, with the continuation unchanged.
  `Drop` abandons the decode. `Deliver` is the peer.

Data abstraction:

- A byte has `ByteBits` bits (1 in the runs, 8 in the code). A u32 is 4
  bytes and a Word is 8 bytes, as in the code. So u32 fields range over
  0..15, with the same wrapping and the same little-endian decoding.
- `MaxSegments` is the code's 512, scaled to 4, so that the wrap to 0, the
  bound itself and the largest legal count (3, an odd count with no
  padding) are all reachable.
- `UsizeBits` is the usize width. A value of 8 stands for a 64-bit target,
  where the total of at most 511 u32 lengths cannot overflow. A value of 4
  (= `U32Bits`) stands for a 32-bit target.
- The slice loop wraps as a release build does. A debug build panics at
  line 214 instead, which violates the same property.
- The arena is not in `src/`. The finished message is its slices and its
  bytes.

### `AsyncReadRestart.tla`: the caller the public API allows

This module extends `AsyncRead`. It replaces `Resume` with `Restart`:
calling `read_message` again on a suspended decode. That is the only
re-entry the crate exports, because the phase functions are private.

### `WireFormat.tla`, `MessageFraming.tla`, `AsyncReadRefinement.tla`: what the reader promises

`WireFormat` holds the wire format of spec section 6 as the sender lays it
out. For a stream it gives:
- the table size and the frame size;
- the bytes of each segment;
- whether the count is well formed, and whether the message is acceptable
  (within `MaxSegments` and the traversal limit).

Both the decoder's properties and the abstract specification use it.

`MessageFraming` is the abstract specification of reading one message. Its
variables are:
- `in` and `sent`: the stream;
- `consumed`: the bytes taken from the stream;
- `outcome`: pending, complete, failed or dropped;
- `message` and `error`: what was returned.

Its steps are:
- `Consume`: take bytes that have arrived, never past the frame, and never
  past the table of a message that is not acceptable;
- `Complete`: only for an acceptable message, after exactly its frame, and
  returning exactly its segments;
- `Fail`: with `io` at any time, with `eof` only at the end of a closed
  stream short of its frame, and with a decode error only for a message
  that is not acceptable;
- `Abandon`.

`AsyncReadRefinement` maps `AsyncRead` onto it with `INSTANCE ... WITH`:
- `consumed <- pos`;
- `outcome <-` pending while idle, running or suspended, and `status`
  otherwise;
- `message <-` the segment views `read_segments` builds over `owned_space`
  (`Segments`).

A panic has no abstract counterpart.

### `MessageStream.tla`: decodes composed over one stream

A server reads message after message from one socket. `MessageStream`
composes `AsyncRead` with a caller that, on `Complete`, takes the message
out of the `AsyncValue` (`NextMessage`, which is `AsyncValue::unwrap`) and
calls `read_message` again at the stream position the last decode left.
Besides `wire` and `closed`, a stream record carries the frames the peer
sent back to back. The history variable `received` holds the messages
taken so far.

### `AsyncReadCursor.tla`: the decoder as the unit tests drive it

The tests of `async.rs` read from a `std::io::Cursor` over a buffer that
already holds all the input. The module writes the Cursor as constraints
on the `AsyncRead` steps, in the manner of trace validation:
- `CursorInit`: everything is sent before the first read.
- `CursorRead` is `ReadStep` restricted to what `Cursor::read` does: it
  copies `min(remaining, room)` bytes, then returns `Ok(0)`, and never
  blocks, is interrupted or fails.

`ReadSegmentTable` is the tests' helper `read_segment_table`: the first
word, then the rest of the table, returned with `TableTo`. Every input
record names the test it belongs to and what that test asserts.

### `TextBuilder.tla`: `text::Builder`

Variables and their code counterparts:
- `bytes`: the `&mut [u8]` the builder writes into;
- `pos`: the write position;
- `status`: `live`, `rejected` (`new` returned `Err`) or `panicked`;
- `written`: a history variable, the text given since the last clear;
- `failure`: a history variable, the call (`push_ascii(a)`, `push_str(s)`
  or `clear`) whose panic ended the builder.

Actions:
- `Init` is `Builder::new`, which validates the buffer only when
  `pos != 0` and never compares `pos` with the buffer's length.
- `PushAscii` is `push_ascii`. It panics on its assert or on an index past
  the end.
- `PushStr` is `push_str`. When the string does not fit, it writes the bytes
  that fit and then panics, without moving `pos`. An empty string never
  panics, even with `pos` past the end (the loop does not run).
- `Clear` zeroes `bytes[0..pos]` and resets `pos`. With `pos` past the end
  it zeroes the whole buffer and then panics, leaving `pos`.

`Utf8.tla` holds `Utf8Valid`, `std::str::from_utf8(..).is_ok()` for one-
and two-byte characters (the only ones in the strings used), the check
that `deref` and `as_ref` unwrap; and `NewReader`, `text::new_reader`:
`Ok` of the bytes, or a decode error.

### `TextValue.tla`, `TextBuilderRefinement.tla`: what a text promises

`TextValue` is a text field without its buffer: a string `text` of at most
`capacity` bytes, which `NewReader` reads as `Ok`, a flag `live`, and the
write `failure` that ended the writer. `Write(w)` appends a string or an
ASCII character `w` that fits. `Fail(w)` ends the writer on the write `w`,
and only when `w` is `Refused`: it does not fit, or it is a non-ASCII byte.
`Empty` empties the text and cannot fail. `TextBuilderRefinement` maps the
builder onto it: `text` is `bytes[0..pos]` (the whole buffer when `pos` is
past the end), `capacity` is `bytes.len()`, `live` is `status = "live"`,
and `failure` is the builder's `failure`. So each panic must be justified
by the very call that raised it.

`TextBuilderCatch` adds `CatchUnwind`: a caller that catches a push's panic
and keeps using the builder.

### MC modules

- `MCAsyncRead.tla` builds the candidate streams with the sender's side of
  the wire format (spec section 6). Each stream is a table of little-endian
  u32s padded to a word, then the bodies, then possibly the first word of
  a following message. A stream may be cut short and may be closed.
  Segment bytes follow a period-3 pattern, so a byte written at the wrong
  offset shows.
- `MCAsyncReadRestart.tla` reuses those streams for the restart caller.
- `MCAsyncReadRefinement.tla` uses the `decode` streams less the lone
  over-limit segment. That stream breaks the abstract `Consume` step:
  `single_segment_limit` already shows the decoder allocating and reading
  its body.
- `MCTextBuilder.tla` sets up a 7-byte buffer with three starting states:
  - fresh and zeroed;
  - holding `"a"` with `pos` 1;
  - not UTF-8, with `pos` 1, which `new` rejects.

  It pushes the strings `"a"`, `"é"` and `"aé"`, and calls `push_ascii`
  with `'a'` and with `0xC3`.
- `MCTextBuilderCatch.tla` reuses those values. `MCTextBuilder` extends
  `TextBuilderRefinement`, so `text_builder` also checks the refinement.
- `MCTextBuilderPastEnd.tla` starts from a 7-byte buffer holding `"a"`
  with `pos` 8, which `new` accepts because the buffer is UTF-8.
- `MCTextBuilderNew.tla` starts the builder from two buffers a caller of
  the public `Builder::new` may pass:
  - a non-UTF-8 byte with `pos` 0;
  - `"aé"` with `pos` 1.
- `MCMessageStream.tla` sends two frames back to back, in three streams:
  - three segments (an odd count, so no padding) then one segment, closed;
  - two segments (a padded table) then one segment, left open;
  - one segment then two segments, closed inside the second frame's table.
- `MCAsyncReadCursor.tla` holds the vectors of the three tests, at 4-bit
  bytes (u32 fields up to 65535):
  - the five tables of `test_read_segment_table`, with the lengths 256, 77
    and 99 kept as they are;
  - the four inputs of `test_read_invalid_segment_table`, among them 513
    segments and an all-ones count;
  - for `check_round_trip`, every list of one to three segments of zero to
    two words.

  It uses the code's 512-segment limit. `UsizeBits = 30` stands for a
  64-bit target: no total of 511 sixteen-bit lengths wraps. The traversal
  limit of 1024 words is above every total the tests use; their default
  comes from `ReaderOptions`, which is not in `src/`.

## 3. Runs

| Run | Cfg | Expect | What it shows |
|---|---|---|---|
| `decode` | `MCAsyncRead.cfg` | pass | Covers ten streams, split at every byte boundary with Interrupted retries, I/O errors and drops. A completed decode is exactly the framed message and consumed exactly its frame (`FramingIntegrity`). Every error is justified by the input (`FailureJustified`). No input panics on a 64-bit target (`NoPanic`). Every decode whose stream is closed or complete ends (`Terminates`). About 38,000 distinct states in about 35 s. |
| `refinement` | `MCAsyncReadRefinement.cfg` | pass | `AsyncRead` implements `MessageFraming` (`Refinement`). This is the one statement that covers everything: no byte is read past the frame, no body of a refused message is read, a completed decode returns the framed segments, and every error is justified. About 33,000 states. |
| `text_builder` | `MCTextBuilder.cfg` | pass | Under any sequence of pushes and clears, with panics ending the builder, the buffer stays valid UTF-8 (`DerefSafe`). The bytes before `pos` are the text given and those after it are zeros (`ContentMatches`). The builder implements `TextValue` (`TextRefinement`): each push appends exactly what it was given to the text a reader sees, and a push panics only when its own string does not fit or its byte is not ASCII, leaving the text as it was; `clear` empties it. 227 states. |
| `text_builder_caught_panic` | `MCTextBuilderCatch.cfg` | violation | `push_str("aé")` with two bytes free writes `a` and the lead byte 0xC3, then panics. Once the panic is caught, the builder is live over invalid UTF-8 and `deref` would panic (`DerefSafe`). |
| `decode_max5` | `MCAsyncRead_Max5.cfg` | pass | Uses a segment bound of 5, so the largest legal count, 4, is even. Its padded table of three lengths, split at every byte, decodes to exactly the framed segments (`FramingIntegrity`). The count equal to the bound is rejected, and nothing else is (`FailureJustified`). Every decode ends (`Terminates`), including the one on the same message closed inside its table rest, which must fail with Premature EOF. 14,352 states. |
| `stream` | `MCMessageStream.cfg` | pass | Two frames are read back to back over every split of the stream. The k-th message the caller takes is exactly the k-th frame, and each decode ends exactly at its frame's end (`MessagesInOrder`). On acceptable frames, a decode fails only with an I/O error, or with the end-of-stream error after every whole frame was delivered (`NoMessageLost`). A closed stream's loop ends (`StreamEnds`). 18,343 states. |
| `unit_tests` | `MCAsyncReadCursor.cfg` | pass | Over a Cursor, with 512 as the segment limit, the model gives what the tests assert (`TestsPass`): the totals and slices of the five tables, errors for the four invalid inputs, and the round trip of 39 segment lists. 345 states. This checks the model against the code's own tests. |
| `text_builder_unchecked_new` | `MCTextBuilderNew.cfg` | violation | With `pos` 0, `Builder::new` accepts a non-UTF-8 buffer, and `deref` would panic at once. It also accepts `"aé"` with `pos` 1, because the whole buffer is valid. Then one `push_ascii('a')` overwrites the lead byte of `é` (`DerefSafe`). |
| `text_builder_pos_past_end` | `MCTextBuilderPastEnd.cfg` | violation | `Builder::new` returns a live builder for `"a"` in a 7-byte buffer given `pos` 8. Its first `clear` zeroes the whole buffer and then panics: a step `TextValue` does not allow, since emptying a text cannot fail (`TextRefinement`). |
| `single_segment_limit` | `MCAsyncRead_Bypass.cfg` | violation | A one-segment header declaring 3 words against a limit of 2 is allocated in full (`AllocationWithinLimit`). |
| `usize32_overflow` | `MCAsyncRead_Usize32.cfg` | violation | On a 32-bit target, lengths 15 and 1 wrap `total_words` to 0. The wrapped total passes the limit check, and `read_segments` panics: its first slice, words 0..15, lies past the empty allocation (`NoPanic`). |
| `restart_on_continue` | `MCAsyncReadRestart.cfg` | violation | A valid message suspended inside its first word and re-entered through `read_message` is rejected with "too many segments" (`FailureJustified`). |

The streams of `decode` are:

- well-formed: one empty segment; one segment without a table rest; an
  even count with padding plus a following message's word, stream left
  open; an odd count of 3 (the largest legal count);
- truncated and closed: one cut inside the bodies, one inside the first
  word;
- over the limit: a lone segment, and a table whose total is over the limit;
- malformed count: a count field of all ones (wraps to 0), and a count equal
  to `MaxSegments`.

These bounds reach every branch of every phase, and every read outcome in
every phase but one: no `decode` stream is closed inside the table rest.
That Premature EOF is reached in `decode_max5` and `stream`. Larger byte widths or counts add no new control path: every
comparison in the code is against a constant that is scaled with them.

Every property of `decode` has a mutant (PROJECT.json). Each is a plausible
fault of the code that TLC then catches:

- an off-by-one in the count bound (two mutants);
- `take` dropped, so the padding is read as a segment;
- a running total started at 0;
- `Ok(0)` taken for WouldBlock.

Each of the other passing runs' properties also has a mutant:
- `Refinement`: a table buffer rounded up, `((count + 1) / 2) * 8`, which
  reads body bytes as table;
- `TypeOK` of the text builder: a `push_ascii` with no index check;
- `DerefSafe`: a `push_str` that advances `pos` by 1;
- `ContentMatches`: a `clear` that leaves the byte at `pos - 1`.
- `TextRefinement`: a `push_str` whose bound is off by one, so that a
  string exactly filling the room left panics.
- `MessagesInOrder`: the rounded-up table buffer. For three segments, it
  reads the first body word as table, so the next message is read from the
  wrong offset.
- `NoMessageLost`: a count of 3 rejected.
- `StreamEnds` and the `Terminates` of `decode_max5`: `Ok(0)` taken for
  WouldBlock. This mutant still reads bytes; only the end of a closed
  stream suspends instead of failing, and the resumed phase suspends again
  forever.
- `TestsPass`: `read_u32` in big-endian order.

### Fairness

- `WF(Deliver)`: the peer eventually sends what it sends.
- `WF(ReadStep)` and `WF(Finish*)`: the decoder runs to its next return.
  It is synchronous code.
- `WF(ReadMessage)` and `WF(Resume)`: the caller keeps driving the decode,
  which is its contract in spec 4.5.
- In `stream`, `WF(NextMessage)`: the server loop calls `read_message`
  again after each message.
- `Drop` is not fair. Interrupted is bounded by `MaxInterrupts`, because
  nothing in the code bounds it. An endless run of Interrupted results is
  a livelock of the stream, not of this code.

Deadlock checking is off: a decode ends in `complete`, `failed`, `panicked`
or `dropped`, and the system stops there.

## 4. Not modelled, and why

- The panicking arms of `AsyncValue::unwrap` and `unwrap_continuation`:
  every caller modelled (`NextMessage`, `Resume`, the tests) looks at the
  variant first. `WriteContinuation` is declared but has no operation.
- The arena, the layout readers and `OwnedSpaceMessageReader` internals are
  not in `src/`.
- The pointer trait impls of `text.rs` (`get_from_pointer`,
  `init_pointer`, `set_pointer_builder`) only delegate to layout code that
  is not in `src/`; they hold no state of `text.rs`.
- The buffers the layout code passes to `Builder::new` are not known
  (it is not in `src/`). `text_builder` starts from the buffers `init_text`
  and an existing text would give. `text_builder_unchecked_new` starts from
  buffers any caller of the public constructor may pass.

## 5. Plan

1. Done: `AsyncRead`, its MC module, the `decode` run, the three violation
   runs and a mutant per property.
2. Done: the abstract specification `MessageFraming`, and the refinement
   `AsyncReadRefinement` checked as a property.
3. Done: `TextBuilder` and the caught-panic run.
4. Done: several messages back to back on one stream (`MessageStream`).
5. Done: the tests' Cursor and vectors at the code's 512-segment limit
   (`AsyncReadCursor`). These reach count 4 with padding, which `decode`
   does not.
6. Done: `decode_max5`, a suspension run at `MaxSegments = 5`.
7. Done: `unwrap_continuation` and the `ReadContinuation` value in
   `Resume`; `new_reader` and the abstract `TextValue`, with
   `TextBuilder` shown to implement it; `Builder::new` with `pos` past the
   end (`text_builder_pos_past_end`).
8. Done: the text refinement made to justify each panic by the call that
   raised it (the `failure` history variable); the `Ok(0)`-as-WouldBlock
   mutant made to read bytes; a stream closed inside the table rest added
   to `decode_max5`.
