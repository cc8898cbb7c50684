---------------------------- MODULE MessageStream ----------------------------
(***************************************************************************)
(* Decodes composed over one stream: a caller that reads message after     *)
(* message from the same non-blocking stream, the loop of a server that    *)
(* receives a sequence of messages on one socket.  Each decode is the      *)
(* AsyncRead state machine; when one returns Complete, the caller takes    *)
(* the message out of the AsyncValue and calls read_message again, on the  *)
(* stream position the previous decode left.                               *)
(*                                                                         *)
(* A stream record carries, besides wire and closed, the frames the peer   *)
(* sent back to back (in.frames, each a WireFormat message record whose    *)
(* wire is its own frame).                                                 *)
(***************************************************************************)
EXTENDS AsyncReadRefinement

VARIABLE
  received     \* the messages the caller has taken out of Complete values

streamVars == <<vars, received>>

\* The segments the sender framed in frame f, and where frame k ends
FrameSegments(f) == [j \in DOMAIN f.lens |-> SentSegment(f, j)]
FrameEnd(k) == FoldSeq(+, 0, [j \in 1 .. k |-> FrameLen(in.frames[j])])

\* The frames that reached the stream whole
WholeFrames == Cardinality({k \in DOMAIN in.frames : FrameEnd(k) <= Len(in.wire)})

(***************************************************************************)
(* The caller takes the finished message out of the Complete value         *)
(* (AsyncValue::unwrap) and calls read_message for the next one.           *)
(***************************************************************************)
NextMessage ==
  /\ status = "complete"
  /\ received' = Append(received, Segments)
  /\ StartDecode

StreamInit == Init /\ received = <<>>

StreamNext ==
  \/ Next /\ UNCHANGED received
  \/ NextMessage

\* The server loop keeps calling read_message after each message.
StreamSpec == StreamInit /\ [][StreamNext]_streamVars
                /\ Fairness /\ WF_streamVars(NextMessage)

(***************************************************************************)
(* Messages come out whole and in order: the k-th message the caller       *)
(* takes holds exactly the segments of the k-th frame, and a decode that   *)
(* completes has consumed exactly up to the end of its own frame, so the   *)
(* next read_message starts on the next frame's first word.  A decode      *)
(* that read one byte too many, or too few, shifts every later message.    *)
(***************************************************************************)
MessagesInOrder ==
  /\ \A k \in DOMAIN received : received[k] = FrameSegments(in.frames[k])
  /\ status = "complete" =>
       LET k == Len(received) + 1
       IN  /\ k <= Len(in.frames)
           /\ Segments = FrameSegments(in.frames[k])
           /\ pos = FrameEnd(k)

(***************************************************************************)
(* No message is lost on a stream of acceptable frames: a decode fails     *)
(* only on an I/O error, or with the premature EOF of read_message called  *)
(* at the end of the stream, and then only after every frame that reached  *)
(* the stream whole has been handed to the caller.                         *)
(***************************************************************************)
NoMessageLost ==
  status = "failed" =>
    \/ error = "io"
    \/ error = "eof" /\ Len(received) = WholeFrames

(***************************************************************************)
(* A server reading a closed stream gets to its end: the loop ends with    *)
(* an error (the EOF after the last frame, or an I/O error) or a dropped   *)
(* continuation; Interrupted retries and WouldBlock suspensions do not go  *)
(* on forever.                                                             *)
(***************************************************************************)
StreamEnds == in.closed => <>(status \in {"failed", "dropped"})

=============================================================================
