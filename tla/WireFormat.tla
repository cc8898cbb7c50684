----------------------------- MODULE WireFormat -----------------------------
(***************************************************************************)
(* The framing of a message on the wire (spec section 6), as the sender    *)
(* lays it out: the reference both the decoder and its abstract            *)
(* specification are checked against.  A stream is described by the       *)
(* segment table the sender meant (rawCount, the u32 count field, and     *)
(* lens, the segment lengths in words) and the bytes it sent (wire).       *)
(***************************************************************************)
EXTENDS Integers, Sequences, SequencesExt

CONSTANTS
  MaxSegments,     \* segment counts must be below it (512 in the code)
  TraversalLimit   \* options.traversal_limit_in_words

ASSUME /\ MaxSegments \in Nat \ {0, 1}
       /\ TraversalLimit \in Nat

WordBytes == 8

\* Words in the segments, bytes of the padded table, bytes of the frame
SumLens(lens) == FoldSeq(+, 0, lens)
HeaderLen(i) == WordBytes * (Len(i.lens) \div 2 + 1)
FrameLen(i) == HeaderLen(i) + WordBytes * SumLens(i.lens)
\* The word offset of segment k, and the bytes the sender put in it
SegStart(i, k) == SumLens(SubSeq(i.lens, 1, k - 1))
SentSegment(i, k) ==
  SubSeq(i.wire, HeaderLen(i) + WordBytes * SegStart(i, k) + 1,
                 HeaderLen(i) + WordBytes * (SegStart(i, k) + i.lens[k]))
\* A count field that matches the table and is in range; a message the
\* receiver must accept (spec 4.2 step 5, 4.3 step 4)
WellFormed(i) ==
  /\ i.rawCount + 1 = Len(i.lens)
  /\ Len(i.lens) < MaxSegments
Acceptable(i) == WellFormed(i) /\ SumLens(i.lens) <= TraversalLimit

=============================================================================
