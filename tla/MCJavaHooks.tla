---------------------------- MODULE MCJavaHooks ----------------------------
(* One call of the emitted Java client. *)
EXTENDS RetryLoop
=============================================================================
