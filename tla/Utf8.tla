-------------------------------- MODULE Utf8 --------------------------------
(***************************************************************************)
(* The UTF-8 check of std::str::from_utf8 as text.rs uses it, for the      *)
(* characters the models use: one-byte (ASCII) characters and two-byte     *)
(* characters (a lead byte 0xC2..0xDF followed by a continuation byte      *)
(* 0x80..0xBF).                                                            *)
(***************************************************************************)
EXTENDS Integers, Sequences

\* std::str::from_utf8(b).is_ok()
RECURSIVE Utf8Valid(_)
Utf8Valid(b) ==
  IF b = <<>> THEN TRUE
  ELSE IF b[1] < 128 THEN Utf8Valid(Tail(b))
  ELSE /\ b[1] \in 194 .. 223
       /\ Len(b) >= 2
       /\ b[2] \in 128 .. 191
       /\ Utf8Valid(SubSeq(b, 3, Len(b)))

\* text::new_reader: Ok(the bytes as a &str), or Err of a decode error
NewReader(v) ==
  IF Utf8Valid(v) THEN [ok |-> TRUE, str |-> v] ELSE [ok |-> FALSE, str |-> <<>>]

=============================================================================
