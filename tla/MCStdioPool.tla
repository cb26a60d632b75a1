----------------------------- MODULE MCStdioPool -----------------------------
(* Two services share room for one process, so that every call for the     *)
(* other service must evict; two calls let one be starting its process     *)
(* while the other makes room for its own.                                 *)
EXTENDS StdioPool, TLC

=============================================================================
