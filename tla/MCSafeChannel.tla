--------------------------- MODULE MCSafeChannel ---------------------------
(***************************************************************************)
(* A few callers, for model-checking SafeChannel.                          *)
(***************************************************************************)
EXTENDS SafeChannel

CONSTANTS t1, w1, w2, c1, c2

=============================================================================
