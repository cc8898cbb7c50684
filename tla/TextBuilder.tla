---------------------------- MODULE TextBuilder ----------------------------
(***************************************************************************)
(* text::Builder of src/src/text.rs: a UTF-8 text being written into a     *)
(* fixed byte buffer of a message (bytes) at a write position (pos).       *)
(*                                                                         *)
(* Data abstraction: bytes are u8 values; the strings pushed are made of   *)
(* one-byte (ASCII) and two-byte UTF-8 characters, so from_utf8 is         *)
(* modelled by the rules for those two lengths (module Utf8).              *)
(***************************************************************************)
EXTENDS Integers, Sequences, SequencesExt, Utf8

CONSTANTS
  Strs,            \* the &str values pushed, as byte sequences
  AsciiIn,         \* the u8 values given to push_ascii
  InitialBuffers   \* the (bytes, pos) given to Builder::new

\* new takes any u32 pos: it is not checked against bytes.len()
ASSUME \A t \in InitialBuffers : t.pos \in Nat

VARIABLES
  bytes,    \* the &mut [u8] the builder writes into
  pos,      \* the write position
  status,   \* "live", "rejected" (new returned Err) or "panicked"
  written,  \* history: the text the builder has been given since the last clear
  failure   \* history: the call whose panic ended the builder

vars == <<bytes, pos, status, written, failure>>

\* A call, as its method and argument; NoFailure before any panic
Call(op, arg) == [op |-> op, arg |-> arg]
NoFailure == Call("none", <<>>)

\* Builder::new(bytes, pos): validate the whole buffer only when pos != 0
Init ==
  \E t \in InitialBuffers :
    /\ bytes = t.bytes
    /\ pos = t.pos
    /\ status = IF t.pos # 0 /\ ~Utf8Valid(t.bytes) THEN "rejected" ELSE "live"
    /\ written = SubSeq(t.bytes, 1, IF t.pos <= Len(t.bytes) THEN t.pos ELSE Len(t.bytes))
    /\ failure = NoFailure

\* push_ascii with its index checked against the length of bytes
PushAsciiUnchecked(a) ==
  /\ status = "live"
  /\ a < 128
  /\ bytes' = [bytes EXCEPT ![pos + 1] = a]
  /\ pos' = pos + 1
  /\ written' = Append(written, a)
  /\ UNCHANGED <<status, failure>>

\* push_ascii: assert!(ascii < 128); bytes[pos] = ascii; pos += 1
PushAscii(a) ==
  /\ status = "live"
  /\ \/ /\ a >= 128 \/ pos >= Len(bytes)
        /\ status' = "panicked"
        /\ failure' = Call("ascii", <<a>>)
        /\ UNCHANGED <<bytes, pos, written>>
     \/ /\ a < 128 /\ pos < Len(bytes)
        /\ bytes' = [bytes EXCEPT ![pos + 1] = a]
        /\ pos' = pos + 1
        /\ written' = Append(written, a)
        /\ UNCHANGED <<status, failure>>

\* push_str advancing pos by one whatever the length of the string
PushStrAdvanceOne(s) ==
  /\ status = "live"
  /\ Len(s) <= Len(bytes) - pos
  /\ bytes' = [k \in DOMAIN bytes |->
                 IF k \in (pos + 1) .. (pos + Len(s)) THEN s[k - pos] ELSE bytes[k]]
  /\ pos' = pos + 1
  /\ written' = written \o s
  /\ UNCHANGED <<status, failure>>

\* push_str with its bound off by one: a string that exactly fills the
\* room left panics
PushStrPanicsAtFit(s) ==
  /\ status = "live"
  /\ LET room == IF pos <= Len(bytes) THEN Len(bytes) - pos ELSE 0
         n    == IF Len(s) < room THEN Len(s) ELSE room
     IN  /\ bytes' = [k \in DOMAIN bytes |->
                        IF k \in (pos + 1) .. (pos + n) THEN s[k - pos] ELSE bytes[k]]
         /\ \/ /\ Len(s) < room
               /\ pos' = pos + Len(s)
               /\ written' = written \o s
               /\ UNCHANGED <<status, failure>>
            \/ /\ Len(s) >= room
               /\ status' = "panicked"
               /\ failure' = Call("str", s)
               /\ UNCHANGED <<pos, written>>

\* push_str: bytes[pos + ii] = s[ii] for each ii, then pos += len.  The
\* first index past the end of bytes panics after the bytes before it
\* were written, and before pos moves.
PushStr(s) ==
  /\ status = "live"
  /\ LET room == IF pos <= Len(bytes) THEN Len(bytes) - pos ELSE 0
         n    == IF Len(s) <= room THEN Len(s) ELSE room
     IN  /\ bytes' = [k \in DOMAIN bytes |->
                        IF k \in (pos + 1) .. (pos + n) THEN s[k - pos] ELSE bytes[k]]
         /\ \/ /\ Len(s) <= room
               /\ pos' = pos + Len(s)
               /\ written' = written \o s
               /\ UNCHANGED <<status, failure>>
            \/ /\ Len(s) > room
               /\ status' = "panicked"
               /\ failure' = Call("str", s)
               /\ UNCHANGED <<pos, written>>

\* clear zeroing bytes[0 .. pos - 1] less its last byte
ClearShort ==
  /\ status = "live"
  /\ bytes' = [k \in DOMAIN bytes |-> IF k < pos THEN 0 ELSE bytes[k]]
  /\ pos' = 0
  /\ written' = <<>>
  /\ UNCHANGED <<status, failure>>

\* clear: bytes[ii] = 0 for ii in 0 .. pos, then pos = 0.  With pos past
\* the end of bytes, every byte is zeroed before the index bytes.len()
\* panics, and pos stays.
Clear ==
  /\ status = "live"
  /\ bytes' = [k \in DOMAIN bytes |-> IF k <= pos THEN 0 ELSE bytes[k]]
  /\ \/ /\ pos <= Len(bytes)
        /\ pos' = 0
        /\ written' = <<>>
        /\ UNCHANGED <<status, failure>>
     \/ /\ pos > Len(bytes)
        /\ status' = "panicked"
        /\ failure' = Call("clear", <<>>)
        /\ UNCHANGED <<pos, written>>

Next ==
  \/ \E a \in AsciiIn : PushAscii(a)
  \/ \E s \in Strs : PushStr(s)
  \/ Clear

Spec == Init /\ [][Next]_vars

TypeOK ==
  /\ bytes \in Seq(0 .. 255)
  /\ pos \in 0 .. Len(bytes)
  /\ status \in {"live", "rejected", "panicked"}
  /\ written \in Seq(0 .. 255)
  /\ failure.op \in {"none", "ascii", "str", "clear"}

(***************************************************************************)
(* Deref and as_ref never panic on a live builder: from_utf8 of the whole *)
(* buffer, which they unwrap, succeeds after any sequence of pushes and    *)
(* clears.                                                                 *)
(***************************************************************************)
DerefSafe == status = "live" => Utf8Valid(bytes)

(***************************************************************************)
(* A live builder holds exactly the text it was given since the last       *)
(* clear before pos, and zeros after it, so that clear (which zeroes only  *)
(* up to pos) leaves a buffer of zeros.                                    *)
(***************************************************************************)
ContentMatches ==
  status = "live" =>
    /\ SubSeq(bytes, 1, pos) = written
    /\ \A k \in (pos + 1) .. Len(bytes) : bytes[k] = 0

=============================================================================
