--------------------------- MODULE MCMessageStream ---------------------------
(***************************************************************************)
(* Model-checking instance of MessageStream: two frames back to back, the  *)
(* first with an odd count of three segments (a table with no padding)     *)
(* or an even count (a padded table), on streams that are closed, left     *)
(* open, or closed inside the second frame.                                *)
(***************************************************************************)
EXTENDS MessageStream, MCAsyncRead

\* The frames fs sent back to back, cut to cut bytes when cut > 0
Frames(fs, cut, closed) ==
  LET whole == FoldLeft(LAMBDA acc, f : acc \o f.wire, <<>>, fs)
  IN  [rawCount |-> fs[1].rawCount, lens |-> fs[1].lens, frames |-> fs,
       closed |-> closed,
       wire |-> SubSeq(whole, 1, IF cut = 0 THEN Len(whole) ELSE cut)]

Frame(lens) == Message(lens, FALSE, 0, TRUE)

StreamInputs ==
  { Frames(<<Frame(<<0, 1, 1>>), Frame(<<1>>)>>, 0, TRUE),
    Frames(<<Frame(<<1, 0>>), Frame(<<0>>)>>, 0, FALSE),
    Frames(<<Frame(<<1>>), Frame(<<1, 1>>)>>, 28, TRUE) }

=============================================================================
