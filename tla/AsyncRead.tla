----------------------------- MODULE AsyncRead -----------------------------
(***************************************************************************)
(* The non-blocking, resumable message reader of src/src/async.rs.         *)
(*                                                                         *)
(* One decode of one message, driven by a caller, over a non-blocking      *)
(* byte stream fed by a peer.  The decoder runs the three phases of        *)
(* read_message (segment table first word, rest of the segment table,      *)
(* segment bodies); each phase drains the stream into its buffer with      *)
(* async_read_all, one read() call per ReadStep, and returns a Continue    *)
(* (status "suspended") when the stream would block.  The caller resumes   *)
(* a suspended decode in the phase that suspended, or drops it.            *)
(*                                                                         *)
(* Data abstraction: a byte has ByteBits bits (8 in the code), a u32 has   *)
(* four bytes and a Word eight, exactly as in the code; the usize width    *)
(* is UsizeBits.  The limit of 512 segments is the constant MaxSegments.   *)
(* Segment contents are the bytes of the wire and are compared as such.    *)
(***************************************************************************)
EXTENDS Integers, Sequences, SequencesExt, WireFormat

CONSTANTS
  ByteBits,        \* bits per byte (8 in the code)
  UsizeBits,       \* bits of usize on the target platform
  MaxInterrupts,   \* bound on Interrupted results of read()
  Inputs           \* candidate streams: [rawCount, lens, wire, closed]

U32Bits == 4 * ByteBits
Byte == 0 .. (2^ByteBits - 1)
ASSUME /\ ByteBits \in Nat \ {0}
       /\ UsizeBits >= U32Bits
       /\ MaxSegments <= 2^U32Bits
       /\ MaxInterrupts \in Nat
       /\ \A i \in Inputs : i.wire \in Seq(Byte) /\ i.closed \in BOOLEAN

VARIABLES
  in,          \* the stream the peer sends: in.wire bytes, then EOF if in.closed
  sent,        \* bytes of in.wire that have reached the socket
  pos,         \* bytes of in.wire consumed by read()
  interrupts,  \* Interrupted results returned so far
  status,      \* "idle", "running", "suspended", or a terminal status
  phase,       \* the phase running or suspended: the ReadContinuation tag
  buf,         \* the phase's buffer: [u8; 8], Box<[u8]> or owned_space bytes
  idx,         \* bytes of buf filled: the continuation's idx
  segCount,    \* segment_count carried into SegmentTableRest
  firstLen,    \* first_segment_len carried into SegmentTableRest
  slices,      \* segment_slices carried into Segments
  error        \* the error returned, "none" while there is none

vars == <<in, sent, pos, interrupts, status, phase, buf, idx,
          segCount, firstLen, slices, error>>

Phases == {"first", "rest", "segments"}
Terminal == {"complete", "failed", "panicked", "dropped"}
Errors == {"none", "eof", "io", "too_many", "too_few", "too_large"}

(***************************************************************************)
(* Helpers translated from the code.                                       *)
(***************************************************************************)

\* vec![0; n]: a zeroed byte buffer
Zeros(n) == [k \in 1 .. n |-> 0]

\* read_u32 in the wrong byte order (BigEndian)
ReadU32BigEndian(b, i) ==
  LET B == 2^ByteBits
  IN  b[i + 3] + B * b[i + 2] + B^2 * b[i + 1] + B^3 * b[i]

\* <LittleEndian as ByteOrder>::read_u32 of b[i .. i+4] (1-based i)
ReadU32(b, i) ==
  LET B == 2^ByteBits
  IN  b[i] + B * b[i + 1] + B^2 * b[i + 2] + B^3 * b[i + 3]

\* create_segment_table_buf rounding the count up: ((count + 1) / 2) * 8
SegmentTableBufLenRoundUp(count) == ((count + 1) \div 2) * 8

\* create_segment_table_buf: (segment_count / 2) * 8 bytes
SegmentTableBufLen(count) == (count \div 2) * 8

\* The loop of read_segment_table_rest: push (total, total + len) for each
\* length, total_words += len, in usize arithmetic (wrapping, as in a
\* release build; a debug build panics at the first overflow instead).
RECURSIVE PushSlices(_, _, _)
PushSlices(acc, total, lens) ==
  IF lens = <<>> THEN acc
  ELSE LET next == (total + Head(lens)) % 2^UsizeBits
       IN  PushSlices(Append(acc, <<total, next>>), next, Tail(lens))

Fail(e) ==
  /\ status' = "failed"
  /\ error' = e
  /\ UNCHANGED <<phase, buf, idx, segCount, firstLen, slices>>

\* Word::allocate_zeroed_vec(total_words) and the call of read_segments
EnterSegments(sl, total) ==
  /\ phase' = "segments"
  /\ buf' = Zeros(total * WordBytes)
  /\ idx' = 0
  /\ slices' = sl
  /\ UNCHANGED <<status, error, segCount, firstLen>>

(***************************************************************************)
(* The peer: more bytes of the wire reach the socket.                      *)
(***************************************************************************)
Deliver ==
  /\ sent < Len(in.wire)
  /\ \E n \in (sent + 1) .. Len(in.wire) : sent' = n
  /\ UNCHANGED <<in, pos, interrupts, status, phase, buf, idx,
                 segCount, firstLen, slices, error>>

(***************************************************************************)
(* The caller.                                                             *)
(***************************************************************************)

\* read_message: start read_segment_table_first(read, [0; 8], 0)
StartDecode ==
  /\ status' = "running"
  /\ phase' = "first"
  /\ buf' = Zeros(WordBytes)
  /\ idx' = 0
  /\ UNCHANGED <<in, sent, pos, interrupts, segCount, firstLen, slices, error>>

ReadMessage ==
  /\ status = "idle"
  /\ StartDecode

\* The ReadContinuation a Continue carries: its variant (phase) and fields
Continuation == <<phase, buf, idx, segCount, firstLen, slices>>

\* unwrap_continuation on the Continue value (the caller never calls it on
\* a Complete, which panics), then re-enter the phase the continuation
\* names with its buf and idx.
Resume ==
  /\ status = "suspended"
  /\ status' = "running"
  /\ UNCHANGED <<in, sent, pos, interrupts, error>>
  /\ UNCHANGED Continuation

\* Drop the continuation: the decode is abandoned.
Drop ==
  /\ status = "suspended"
  /\ status' = "dropped"
  /\ UNCHANGED <<in, sent, pos, interrupts, phase, buf, idx,
                 segCount, firstLen, slices, error>>

\* read.read(&mut buf[idx..]) returning Ok(n): n of the bytes that have
\* arrived, at most the rest of buf, are copied in and idx += n.
ReadBytes ==
  /\ pos < sent
  /\ \E n \in 1 .. Min({sent - pos, Len(buf) - idx}) :
       /\ buf' = [k \in DOMAIN buf |->
                    IF k \in (idx + 1) .. (idx + n)
                    THEN in.wire[pos + k - idx] ELSE buf[k]]
       /\ idx' = idx + n
       /\ pos' = pos + n
  /\ UNCHANGED <<in, sent, interrupts, status, phase,
                 segCount, firstLen, slices, error>>

\* ReadStep with `Ok(0)` taken for WouldBlock: an end of stream suspends.
ReadStepEofBlocks ==
  /\ status = "running"
  /\ idx < Len(buf)
  /\ \/ ReadBytes
     \/ /\ pos = sent
        /\ status' = "suspended"
        /\ UNCHANGED <<in, sent, pos, interrupts, phase, buf, idx,
                       segCount, firstLen, slices, error>>
     \/ /\ interrupts < MaxInterrupts
        /\ interrupts' = interrupts + 1
        /\ UNCHANGED <<in, sent, pos, status, phase, buf, idx,
                       segCount, firstLen, slices, error>>
     \/ /\ Fail("io")
        /\ UNCHANGED <<in, sent, pos, interrupts>>

(***************************************************************************)
(* One iteration of the loop of async_read_all: read.read(&mut buf[idx..]) *)
(* and its five outcomes.  A WouldBlock ends the loop short of a full      *)
(* buffer, so the phase returns its continuation.                          *)
(***************************************************************************)
ReadStep ==
  /\ status = "running"
  /\ idx < Len(buf)
  /\ \/ ReadBytes
     \/ /\ pos = sent /\ sent = Len(in.wire) /\ in.closed
        /\ Fail("eof")
        /\ UNCHANGED <<in, sent, pos, interrupts>>
     \/ /\ pos = sent /\ ~(sent = Len(in.wire) /\ in.closed)
        /\ status' = "suspended"
        /\ UNCHANGED <<in, sent, pos, interrupts, phase, buf, idx,
                       segCount, firstLen, slices, error>>
     \/ /\ interrupts < MaxInterrupts
        /\ interrupts' = interrupts + 1
        /\ UNCHANGED <<in, sent, pos, status, phase, buf, idx,
                       segCount, firstLen, slices, error>>
     \/ /\ Fail("io")
        /\ UNCHANGED <<in, sent, pos, interrupts>>

(***************************************************************************)
(* Faults the properties are checked to catch (each replaces the action    *)
(* named in its comment in a mutant run).                                  *)
(***************************************************************************)

\* FinishFirst with `segment_count >= 511`: the last legal count rejected.
FinishFirstRejectsLast ==
  /\ status = "running" /\ phase = "first" /\ idx = Len(buf)
  /\ UNCHANGED <<in, sent, pos, interrupts>>
  /\ LET count == (ReadU32(buf, 1) + 1) % 2^U32Bits
     IN  \/ /\ count >= MaxSegments - 1
            /\ Fail("too_many")
         \/ /\ count \in 1 .. (MaxSegments - 2)
            /\ EnterSegments(<<<<0, ReadU32(buf, 5)>>>>, ReadU32(buf, 5))

\* FinishFirst with `segment_count > 512`: one count too many accepted.
FinishFirstAcceptsMax ==
  /\ status = "running" /\ phase = "first" /\ idx = Len(buf)
  /\ UNCHANGED <<in, sent, pos, interrupts>>
  /\ LET count == (ReadU32(buf, 1) + 1) % 2^U32Bits
     IN  /\ count \in 2 .. MaxSegments
         /\ phase' = "rest"
         /\ buf' = Zeros(SegmentTableBufLen(count))
         /\ idx' = 0
         /\ segCount' = count
         /\ firstLen' = ReadU32(buf, 5)
         /\ UNCHANGED <<status, error, slices>>

(***************************************************************************)
(* What the caller of the table phases does with the finished table        *)
(* (total_words, segment_slices): read_message allocates owned_space and   *)
(* reads the segments; the tests' helper read_segment_table returns it as  *)
(* Complete.  total_words is the end of the last slice: the loop of        *)
(* read_segment_table_rest advances both together.                         *)
(***************************************************************************)
TableTo(caller, sl, total) ==
  \/ /\ caller = "read_message"
     /\ EnterSegments(sl, total)
  \/ /\ caller = "read_segment_table"
     /\ status' = "complete"
     /\ slices' = sl
     /\ UNCHANGED <<phase, buf, idx, segCount, firstLen, error>>

(***************************************************************************)
(* The rest of read_segment_table_first once its 8 bytes are read.  Its    *)
(* Complete value (count, first_len) goes back to the caller: for count 1  *)
(* the table is already whole, for a larger count the caller reads the     *)
(* rest of the table into a new buffer.                                    *)
(***************************************************************************)
FinishFirstFor(caller) ==
  /\ status = "running" /\ phase = "first" /\ idx = Len(buf)
  /\ UNCHANGED <<in, sent, pos, interrupts>>
  /\ LET count == (ReadU32(buf, 1) + 1) % 2^U32Bits
         first == ReadU32(buf, 5)
     IN  \/ /\ count >= MaxSegments
            /\ Fail("too_many")
         \/ /\ count = 0
            /\ Fail("too_few")
         \/ /\ count = 1
            /\ TableTo(caller, <<<<0, first>>>>, first)
         \/ /\ count \in 2 .. (MaxSegments - 1)
            /\ phase' = "rest"
            /\ buf' = Zeros(SegmentTableBufLen(count))
            /\ idx' = 0
            /\ segCount' = count
            /\ firstLen' = first
            /\ UNCHANGED <<status, error, slices>>

\* read_message after the first word: the count = 1 shortcut, the table
\* buffer, or the allocation and read_segments.
FinishFirst == FinishFirstFor("read_message")

\* FinishRest reading every u32 of the buffer (`take` omitted): the
\* padding of an even count read as one more segment.
FinishRestTakeAll ==
  /\ status = "running" /\ phase = "rest" /\ idx = Len(buf)
  /\ UNCHANGED <<in, sent, pos, interrupts>>
  /\ LET lens  == [k \in 1 .. (Len(buf) \div 4) |-> ReadU32(buf, 4 * k - 3)]
         sl    == PushSlices(<<<<0, firstLen>>>>, firstLen, lens)
     IN  /\ sl[Len(sl)][2] <= TraversalLimit
         /\ EnterSegments(sl, sl[Len(sl)][2])

\* FinishRest with `let mut total_words = 0`: the first segment left out
\* of the running total.
FinishRestTotalFromZero ==
  /\ status = "running" /\ phase = "rest" /\ idx = Len(buf)
  /\ UNCHANGED <<in, sent, pos, interrupts>>
  /\ LET lens  == [k \in 1 .. (segCount - 1) |-> ReadU32(buf, 4 * k - 3)]
         sl    == PushSlices(<<<<0, firstLen>>>>, 0, lens)
     IN  /\ sl[Len(sl)][2] <= TraversalLimit
         /\ EnterSegments(sl, sl[Len(sl)][2])

(***************************************************************************)
(* The rest of read_segment_table_rest once its buffer is full: the slices *)
(* and the limit check; its Complete value goes back to the caller.        *)
(***************************************************************************)
FinishRestFor(caller) ==
  /\ status = "running" /\ phase = "rest" /\ idx = Len(buf)
  /\ UNCHANGED <<in, sent, pos, interrupts>>
  /\ LET lens  == [k \in 1 .. (segCount - 1) |-> ReadU32(buf, 4 * k - 3)]
         sl    == PushSlices(<<<<0, firstLen>>>>, firstLen, lens)
         total == sl[Len(sl)][2]
     IN  \/ /\ total > TraversalLimit
            /\ Fail("too_large")
         \/ /\ total <= TraversalLimit
            /\ TableTo(caller, sl, total)

\* read_message after the table: the allocation and read_segments.
FinishRest == FinishRestFor("read_message")

(***************************************************************************)
(* The rest of read_segments once owned_space is full: the segment views   *)
(* &owned_space[start..end] (a panic when out of range) and the message.   *)
(***************************************************************************)
FinishSegments ==
  /\ status = "running" /\ phase = "segments" /\ idx = Len(buf)
  /\ status' = IF \A i \in DOMAIN slices :
                    slices[i][1] <= slices[i][2]
                    /\ slices[i][2] * WordBytes <= Len(buf)
               THEN "complete" ELSE "panicked"
  /\ UNCHANGED <<in, sent, pos, interrupts, phase, buf, idx,
                 segCount, firstLen, slices, error>>

Init ==
  /\ in \in Inputs
  /\ sent = 0
  /\ pos = 0
  /\ interrupts = 0
  /\ status = "idle"
  /\ phase = "first"
  /\ buf = <<>>
  /\ idx = 0
  /\ segCount = 0
  /\ firstLen = 0
  /\ slices = <<>>
  /\ error = "none"

Next ==
  \/ Deliver
  \/ ReadMessage
  \/ Resume
  \/ Drop
  \/ ReadStep
  \/ FinishFirst
  \/ FinishRest
  \/ FinishSegments

\* The peer eventually sends what it sends, the decoder runs to its next
\* return, and the caller keeps resuming (the contract of section 4.5).
Fairness ==
  /\ WF_vars(Deliver)
  /\ WF_vars(ReadMessage)
  /\ WF_vars(Resume)
  /\ WF_vars(ReadStep)
  /\ WF_vars(FinishFirst \/ FinishRest \/ FinishSegments)

Spec == Init /\ [][Next]_vars /\ Fairness

TypeOK ==
  /\ in \in Inputs
  /\ sent \in 0 .. Len(in.wire)
  /\ pos \in 0 .. sent
  /\ interrupts \in 0 .. MaxInterrupts
  /\ status \in {"idle", "running", "suspended"} \cup Terminal
  /\ phase \in Phases
  /\ buf \in Seq(Byte)
  /\ idx \in 0 .. Len(buf)
  /\ segCount \in 0 .. (MaxSegments - 1)
  /\ firstLen \in 0 .. (2^U32Bits - 1)
  /\ slices \in Seq((0 .. (2^UsizeBits - 1)) \X (0 .. (2^UsizeBits - 1)))
  /\ error \in Errors

(***************************************************************************)
(* Round trip and suspend/resume equivalence (spec 8.1, 8.5): a decode     *)
(* that completes, however the stream was split by WouldBlock, partial    *)
(* reads and Interrupted retries, has consumed exactly the frame and       *)
(* holds, segment by segment, exactly the bytes the peer framed; and only  *)
(* a well-formed table is ever accepted.                                   *)
(***************************************************************************)
FramingIntegrity ==
  status = "complete" =>
    /\ WellFormed(in)
    /\ pos = FrameLen(in)
    /\ Len(slices) = Len(in.lens)
    /\ \A k \in DOMAIN slices :
         SubSeq(buf, WordBytes * slices[k][1] + 1, WordBytes * slices[k][2])
           = SentSegment(in, k)

(***************************************************************************)
(* The decoder never rejects what it should accept (spec 7, 8.3): a        *)
(* premature EOF only on a stream closed short of its frame, a decode      *)
(* error only on a table with a bad segment count or over the limit.       *)
(***************************************************************************)
FailureJustified ==
  status = "failed" =>
    \/ error = "io"
    \/ error = "eof" /\ in.closed /\ Len(in.wire) < FrameLen(in)
    \/ error \in {"too_many", "too_few", "too_large"} /\ ~Acceptable(in)

(***************************************************************************)
(* No input makes the decoder panic (slicing owned_space in read_segments, *)
(* or an overflowing total_words in a debug build): a malformed table is a *)
(* decode error (spec 7).                                                  *)
(***************************************************************************)
NoPanic == status # "panicked"

(***************************************************************************)
(* No allocation proportional to a declared size over the traversal limit  *)
(* (spec 4.3 step 4, 8.4): owned_space never exceeds the limit.            *)
(***************************************************************************)
AllocationWithinLimit ==
  phase = "segments" => Len(buf) <= WordBytes * TraversalLimit

(***************************************************************************)
(* A decode whose stream is closed, or carries its whole frame, ends: it   *)
(* completes, fails or is dropped; Interrupted retries and suspensions     *)
(* never go on forever.                                                    *)
(***************************************************************************)
Terminates ==
  (in.closed \/ Len(in.wire) >= FrameLen(in)) => <>(status \in Terminal)

=============================================================================
