----------------------------- MODULE TextValue -----------------------------
(***************************************************************************)
(* What a text field promises, independent of its buffer: a UTF-8 string  *)
(* of bounded capacity that a writer appends characters and strings to,   *)
(* or empties, and that a reader (text::new_reader) reads back as Ok.  A   *)
(* write ends the writer, leaving the text as it was, only when it must:  *)
(* the string does not fit, or the byte is not an ASCII character.        *)
(* Emptying always succeeds.                                               *)
(***************************************************************************)
EXTENDS Integers, Sequences, Utf8

CONSTANTS
  Strs,      \* the strings appended
  AsciiIn    \* the bytes appended one at a time

VARIABLES
  text,      \* the string
  capacity,  \* the bytes the field has room for
  live,      \* the writer can still be used
  failure    \* the write that ended the writer

textVars == <<text, capacity, live, failure>>

\* A write, as its kind and the bytes it appends
Call(op, arg) == [op |-> op, arg |-> arg]
NoFailure == Call("none", <<>>)
Writes == { Call("str", s) : s \in Strs } \cup { Call("ascii", <<a>>) : a \in AsciiIn }

\* A write the text cannot take
Refused(w) ==
  \/ Len(text) + Len(w.arg) > capacity
  \/ w.op = "ascii" /\ w.arg[1] >= 128

Init ==
  /\ capacity \in Nat
  /\ text \in Seq(0 .. 255)
  /\ live \in BOOLEAN
  /\ failure = NoFailure
  /\ live => Len(text) <= capacity /\ NewReader(text) = [ok |-> TRUE, str |-> text]

Write(w) ==
  /\ live
  /\ ~Refused(w)
  /\ text' = text \o w.arg
  /\ UNCHANGED <<capacity, live, failure>>

Fail(w) ==
  /\ live
  /\ Refused(w)
  /\ live' = FALSE
  /\ failure' = w
  /\ UNCHANGED <<text, capacity>>

Empty ==
  /\ live
  /\ text' = <<>>
  /\ UNCHANGED <<capacity, live, failure>>

Next ==
  \/ \E w \in Writes : Write(w) \/ Fail(w)
  \/ Empty

Spec == Init /\ [][Next]_textVars

=============================================================================
