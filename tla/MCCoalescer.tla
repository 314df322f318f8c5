----------------------------- MODULE MCCoalescer -----------------------------
(* Coalescer on small instances: two targets (one may be the 'unknown' that    *)
(* all records without a prefix share), windows of two ticks.                 *)
EXTENDS Coalescer

CONSTANTS prefix, unknown

=============================================================================
