------------------------ MODULE TextBuilderRefinement ------------------------
(***************************************************************************)
(* text::Builder implements TextValue: the text is the bytes before pos   *)
(* (all of them when pos is past the end), the capacity is the length of   *)
(* the buffer, the writer is live while the builder is (not rejected by    *)
(* new, not panicked), and the failing write is the call that panicked.    *)
(***************************************************************************)
EXTENDS TextBuilder

Text == INSTANCE TextValue
          WITH text     <- SubSeq(bytes, 1, IF pos <= Len(bytes) THEN pos ELSE Len(bytes)),
               capacity <- Len(bytes),
               live     <- status = "live",
               failure  <- failure

(***************************************************************************)
(* Every step of the builder is a step of the text it promises: new hands  *)
(* over a text that new_reader reads as Ok; push_ascii and push_str append *)
(* exactly the character or string given, and panic only on the call that  *)
(* must (a string that does not fit, a byte that is not ASCII), leaving    *)
(* the text before pos as it was; clear empties it and never panics.  A    *)
(* bounds check off by one, a push that moves pos by the wrong amount, or  *)
(* a clear that fails, is a step the text does not allow.                  *)
(***************************************************************************)
TextRefinement == Text!Spec

=============================================================================
