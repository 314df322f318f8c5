------------------------------ MODULE HandOnce ------------------------------
(***************************************************************************)
(* What the coalescer owes M3: a result is taken in, held for a while, and   *)
(* then handed over, or given up, once and for all.  It says nothing of      *)
(* buckets, windows or clocks.                                              *)
(***************************************************************************)
CONSTANT Results

VARIABLES
    held,   \* results taken in and not yet gone
    handed  \* results handed over

hvars == <<held, handed>>

HandInit == held = {} /\ handed = {}

\* At most one result arrives, never one that is held or was handed over.
Arriving == {{}} \cup { {r} : r \in Results \ (held \cup handed) }

\* Of what is held by then, out is handed over and drop is given up.
Move(in, out, drop) ==
    /\ held' = (held \cup in) \ (out \cup drop)
    /\ handed' = handed \cup out

HandNext ==
    \E in \in Arriving : \E out, drop \in SUBSET (held \cup in) : Move(in, out, drop)

HandSpec == HandInit /\ [][HandNext]_hvars

=============================================================================
