-------------------------- MODULE AsyncReadRestart --------------------------
(***************************************************************************)
(* AsyncRead driven by a caller of the crate's public interface.  The      *)
(* phase functions that take a continuation's buf and idx are private;     *)
(* read_message is the only public entry point, so a caller holding a     *)
(* ReadContinuation can only drop it or call read_message again, which    *)
(* starts a fresh segment table at the stream's current position.         *)
(***************************************************************************)
EXTENDS AsyncRead

\* read_message called again on a suspended decode
Restart ==
  /\ status = "suspended"
  /\ StartDecode

RestartNext ==
  \/ Deliver
  \/ ReadMessage
  \/ Restart
  \/ Drop
  \/ ReadStep
  \/ FinishFirst
  \/ FinishRest
  \/ FinishSegments

RestartSpec == Init /\ [][RestartNext]_vars

=============================================================================
