--------------------------- MODULE AsyncReadCursor ---------------------------
(***************************************************************************)
(* The decoder driven the way the tests of src/src/async.rs drive it: the  *)
(* byte source is a std::io::Cursor over a buffer that holds the whole     *)
(* input, and the test calls either read_message (check_round_trip) or     *)
(* the test helper read_segment_table (test_read_segment_table,            *)
(* test_read_invalid_segment_table), then unwraps the Result and the       *)
(* AsyncValue and compares.                                                *)
(*                                                                         *)
(* A Cursor never blocks, is never interrupted and never fails: read()     *)
(* copies min(remaining, buf.len()) bytes, and Ok(0) at the end.  The      *)
(* Cursor's steps are the AsyncRead steps that agree with this.  Each      *)
(* test input carries the test it belongs to (in.test) and what that test  *)
(* asserts (in.expect).                                                    *)
(***************************************************************************)
EXTENDS AsyncReadRefinement

\* Cursor::new(&buf[..]): the whole input is there before the first read
CursorInit ==
  /\ Init!1
  /\ sent = Len(in.wire)
  /\ Init!3 /\ Init!4 /\ Init!5 /\ Init!6 /\ Init!7 /\ Init!8
  /\ Init!9 /\ Init!10 /\ Init!11 /\ Init!12

\* <Cursor as Read>::read inside async_read_all: all that fits, or Ok(0)
CursorRead ==
  /\ ReadStep
  /\ interrupts' = interrupts
  /\ error' \in {"none", "eof"}
  /\ pos' = pos + Min({sent - pos, Len(buf) - idx})

(***************************************************************************)
(* The test helper read_segment_table: read_segment_table_first, then, for *)
(* a count above 1, read_segment_table_rest, and it returns their Complete *)
(* value (total_words, segment_slices) instead of reading the segments.    *)
(***************************************************************************)
ReadSegmentTable ==
  /\ status = "idle"
  /\ StartDecode

TableTest == in.test \in {"segment_table", "invalid_segment_table"}

CursorNext ==
  \/ CursorRead
  \/ /\ ~TableTest
     /\ ReadMessage \/ FinishFirst \/ FinishRest \/ FinishSegments
  \/ /\ TableTest
     /\ \/ ReadSegmentTable
        \/ FinishFirstFor("read_segment_table")
        \/ FinishRestFor("read_segment_table")

CursorSpec == CursorInit /\ [][CursorNext]_vars

(***************************************************************************)
(* The tests' assertions hold of the code: check_round_trip's message has, *)
(* segment by segment, exactly the segments written;                       *)
(* test_read_segment_table's tables give the asserted total and slices;    *)
(* test_read_invalid_segment_table's inputs are errors.  Every unwrap of   *)
(* the tests finds Ok and Complete.                                        *)
(***************************************************************************)
TestsPass ==
  status \in Terminal =>
    /\ in.test = "round_trip" =>
         /\ status = "complete"
         /\ Segments = [k \in DOMAIN in.lens |-> SentSegment(in, k)]
    /\ in.test = "segment_table" =>
         /\ status = "complete"
         /\ <<slices[Len(slices)][2], slices>> = in.expect
    /\ in.test = "invalid_segment_table" => status = "failed"

=============================================================================
