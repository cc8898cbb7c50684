--------------------------- MODULE MessageFraming ---------------------------
(***************************************************************************)
(* What reading one message from a byte stream promises (spec sections 4, *)
(* 7 and 8), without phases, buffers or continuations.  The reader takes   *)
(* bytes from the stream as they arrive, never past the end of the frame   *)
(* and never past the segment table of a message it must refuse; it       *)
(* returns the framed segments after consuming exactly the frame of an     *)
(* acceptable message, or an error that the stream justifies, or it is     *)
(* abandoned by its caller.                                                *)
(***************************************************************************)
EXTENDS WireFormat

CONSTANT Inputs   \* candidate streams: [rawCount, lens, wire, closed]

VARIABLES
  in,         \* the stream the peer sends
  sent,       \* bytes of in.wire that have arrived
  consumed,   \* bytes the reader has taken from the stream
  outcome,    \* "pending", "complete", "failed" or "dropped"
  message,    \* the segments returned, <<>> until complete
  error       \* the error returned, "none" while there is none

vars == <<in, sent, consumed, outcome, message, error>>

Init ==
  /\ in \in Inputs
  /\ sent = 0
  /\ consumed = 0
  /\ outcome = "pending"
  /\ message = <<>>
  /\ error = "none"

Arrive ==
  /\ sent < Len(in.wire)
  /\ \E n \in (sent + 1) .. Len(in.wire) : sent' = n
  /\ UNCHANGED <<in, consumed, outcome, message, error>>

\* Bytes are taken in order, only once they arrived, within the frame, and
\* beyond the table only for a message that will be accepted.
Consume ==
  /\ outcome = "pending"
  /\ \E n \in (consumed + 1) .. sent :
       /\ n <= FrameLen(in)
       /\ n <= HeaderLen(in) \/ Acceptable(in)
       /\ consumed' = n
  /\ UNCHANGED <<in, sent, outcome, message, error>>

Complete ==
  /\ outcome = "pending"
  /\ Acceptable(in)
  /\ consumed = FrameLen(in)
  /\ outcome' = "complete"
  /\ message' = [k \in DOMAIN in.lens |-> SentSegment(in, k)]
  /\ UNCHANGED <<in, sent, consumed, error>>

Fail(e) ==
  /\ outcome = "pending"
  /\ \/ e = "io"
     \/ e = "eof" /\ in.closed /\ consumed = Len(in.wire)
                  /\ consumed < FrameLen(in)
     \/ e \in {"too_many", "too_few", "too_large"} /\ ~Acceptable(in)
  /\ outcome' = "failed"
  /\ error' = e
  /\ UNCHANGED <<in, sent, consumed, message>>

Abandon ==
  /\ outcome = "pending"
  /\ outcome' = "dropped"
  /\ UNCHANGED <<in, sent, consumed, message, error>>

Next ==
  \/ Arrive
  \/ Consume
  \/ Complete
  \/ \E e \in {"io", "eof", "too_many", "too_few", "too_large"} : Fail(e)
  \/ Abandon

Spec == Init /\ [][Next]_vars

=============================================================================
