---------------------------- MODULE MCAsyncRead ----------------------------
(***************************************************************************)
(* Model-checking instance of AsyncRead.  The candidate streams are built  *)
(* by the sender's side of the wire format (spec section 6): a segment     *)
(* table of little-endian u32s padded to a whole word, then the segment    *)
(* bodies, then possibly the first word of a following message; a stream   *)
(* may be cut short and may be closed by the peer.                         *)
(***************************************************************************)
EXTENDS AsyncRead

\* u32 to four little-endian bytes
U32Bytes(v) == [k \in 1 .. 4 |-> (v \div 2^(ByteBits * (k - 1))) % 2^ByteBits]

\* The segment table: count - 1, the lengths, a padding u32 when the
\* number of segments is even.
RECURSIVE U32Seq(_)
U32Seq(vs) == IF vs = <<>> THEN <<>> ELSE U32Bytes(Head(vs)) \o U32Seq(Tail(vs))
Table(rawCount, lens) ==
  U32Bytes(rawCount) \o U32Seq(lens)
    \o (IF Len(lens) % 2 = 0 THEN U32Bytes(0) ELSE <<>>)

\* Segment bodies: a pattern with period 3, so that a byte read into the
\* wrong place of a word-aligned buffer shows.
Body(words) == [k \in 1 .. (WordBytes * words) |-> IF k % 3 = 1 THEN 1 ELSE 0]

\* The first word of a following message.
Trailer == [k \in 1 .. WordBytes |-> 1]

Stream(rawCount, lens, bodyWords, trailer, cut, closed) ==
  LET whole == Table(rawCount, lens) \o Body(bodyWords)
                 \o (IF trailer THEN Trailer ELSE <<>>)
  IN  [rawCount |-> rawCount, lens |-> lens, closed |-> closed,
       wire |-> SubSeq(whole, 1, IF cut = 0 THEN Len(whole) ELSE cut)]

\* A well-formed message of the given segment lengths.
Message(lens, trailer, cut, closed) ==
  Stream(Len(lens) - 1, lens, FoldSeq(+, 0, lens), trailer, cut, closed)

MCInputs ==
  { Message(<<0>>, TRUE, 0, TRUE),           \* one empty segment
    Message(<<1>>, FALSE, 0, TRUE),          \* one segment, no table rest
    Message(<<1, 0>>, TRUE, 0, FALSE),       \* even count: padded table
    Message(<<0, 1, 1>>, FALSE, 0, TRUE),    \* MaxSegments - 1 segments
    Message(<<1, 1>>, FALSE, 20, TRUE),      \* closed inside the bodies
    Message(<<0>>, FALSE, 3, TRUE),          \* closed inside the first word
    Message(<<3>>, FALSE, 0, TRUE),          \* one segment over the limit
    Message(<<15, 1>>, FALSE, 0, TRUE),      \* table total over the limit
    Stream(15, <<0>>, 0, FALSE, 0, TRUE),    \* count wraps to 0
    Stream(3, <<0, 0, 0, 0>>, 0, FALSE, 0, TRUE) }  \* count = MaxSegments

\* A lone segment declared over the traversal limit.
BypassInputs == { Message(<<3>>, FALSE, 0, TRUE) }

\* A table whose total does not fit a usize of U32Bits bits.
OverflowInputs == { Message(<<15, 1>>, FALSE, 0, TRUE) }

\* With MaxSegments = 5: the largest legal count 4 (a padded table of
\* three lengths), the same closed inside its table rest, a count of 3,
\* and a count equal to the bound.
Max5Inputs ==
  { Message(<<0, 1, 0, 1>>, FALSE, 0, TRUE),
    Message(<<0, 1, 0, 1>>, FALSE, 16, TRUE),
    Message(<<1, 0, 1>>, FALSE, 0, FALSE),
    Stream(4, <<0, 0, 0, 0, 0>>, 0, FALSE, 0, TRUE) }

=============================================================================
