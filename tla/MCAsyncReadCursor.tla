-------------------------- MODULE MCAsyncReadCursor --------------------------
(***************************************************************************)
(* The inputs and assertions of the tests of src/src/async.rs, at the      *)
(* model's width: a byte of ByteBits bits.  A test writes its tables as    *)
(* little-endian u32 byte literals; here each is the same u32 value in     *)
(* four bytes of the model's width, so [0,1,0,0] (256) is U32Bytes(256)    *)
(* and [255,255,255,255] is the u32 with every bit set.                    *)
(***************************************************************************)
EXTENDS AsyncReadCursor, MCAsyncRead

\* test_read_segment_table: a table (Table pads an even count, as the test
\* does) and the (words, segment_slices) asserted
SegmentTableCase(lens, words, sl) ==
  [test |-> "segment_table", rawCount |-> Len(lens) - 1, lens |-> lens,
   closed |-> TRUE, expect |-> <<words, sl>>,
   wire |-> Table(Len(lens) - 1, lens)]

SegmentTableCases ==
  { SegmentTableCase(<<0>>, 0, <<<<0, 0>>>>),
    SegmentTableCase(<<1>>, 1, <<<<0, 1>>>>),
    SegmentTableCase(<<1, 1>>, 2, <<<<0, 1>>, <<1, 2>>>>),
    SegmentTableCase(<<1, 1, 256>>, 258,
                     <<<<0, 1>>, <<1, 2>>, <<2, 258>>>>),
    SegmentTableCase(<<77, 23, 1, 99>>, 200,
                     <<<<0, 77>>, <<77, 100>>, <<100, 101>>, <<101, 200>>>>) }

\* No (words, segment_slices) asserted
NoExpect == <<0, <<>>>>

\* test_read_invalid_segment_table: inputs that must be errors
InvalidCase(wire) ==
  [test |-> "invalid_segment_table", rawCount |-> 0, lens |-> <<>>,
   closed |-> TRUE, expect |-> NoExpect, wire |-> wire]

InvalidCases ==
  { InvalidCase(U32Bytes(512) \o Zeros(513 * 4)),   \* 513 segments
    InvalidCase(U32Bytes(0)),                        \* first word cut short
    InvalidCase(U32Bytes(0) \o Zeros(3)),            \* one byte short
    InvalidCase(U32Bytes(2^U32Bits - 1)) }           \* count wraps to 0

\* check_round_trip: write_message_segments of non-empty segment lists
RoundTripCase(lens) ==
  Message(lens, FALSE, 0, TRUE) @@ [test |-> "round_trip", expect |-> NoExpect]

RoundTripCases ==
  { RoundTripCase(lens) : lens \in UNION { [1 .. n -> 0 .. 2] : n \in 1 .. 3 } }

TestInputs == SegmentTableCases \cup InvalidCases \cup RoundTripCases

=============================================================================
