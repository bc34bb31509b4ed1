--------------------------- MODULE MCUpstreamStatus ---------------------------
(* Small instances of UpstreamStatus for TLC. *)
EXTENDS UpstreamStatus

CONSTANTS a, b, c
=============================================================================
