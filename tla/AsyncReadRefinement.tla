------------------------- MODULE AsyncReadRefinement -------------------------
(***************************************************************************)
(* AsyncRead implements MessageFraming.  The reader's consumed bytes are   *)
(* pos; a decode that is idle, running or suspended is pending; the        *)
(* message is the segment views read_segments builds over owned_space.    *)
(* Panicking has no abstract counterpart.                                  *)
(***************************************************************************)
EXTENDS AsyncRead

\* The segments of the finished OwnedSpaceMessageReader
Segments ==
  [k \in DOMAIN slices |->
     SubSeq(buf, WordBytes * slices[k][1] + 1, WordBytes * slices[k][2])]

Framing == INSTANCE MessageFraming WITH
  consumed <- pos,
  outcome  <- IF status \in {"idle", "running", "suspended"}
              THEN "pending" ELSE status,
  message  <- IF status = "complete" THEN Segments ELSE <<>>

(***************************************************************************)
(* Every behaviour of the decoder, whatever its suspensions, retries and   *)
(* failures, is a behaviour of MessageFraming: it never reads past the     *)
(* frame or past the table of a message it must refuse, returns exactly    *)
(* the framed segments, and fails only for a reason the stream gives.      *)
(***************************************************************************)
Refinement == Framing!Spec

=============================================================================
