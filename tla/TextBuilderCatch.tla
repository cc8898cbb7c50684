-------------------------- MODULE TextBuilderCatch --------------------------
(***************************************************************************)
(* TextBuilder used by a caller that catches a panic of a push (with       *)
(* std::panic::catch_unwind) and goes on using the same builder.           *)
(***************************************************************************)
EXTENDS TextBuilder

\* The panic is caught; the builder and its buffer stay as the panic left them.
CatchUnwind ==
  /\ status = "panicked"
  /\ status' = "live"
  /\ failure' = NoFailure
  /\ UNCHANGED <<bytes, pos, written>>

CatchNext == Next \/ CatchUnwind

CatchSpec == Init /\ [][CatchNext]_vars

=============================================================================
