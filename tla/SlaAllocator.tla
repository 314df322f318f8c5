---------------------------- MODULE SlaAllocator ----------------------------
(***************************************************************************)
(* The bandwidth allocator of M3 (pipeline/s4_orchestration/                *)
(* sla_allocator.py): what the linear program may answer, and what the      *)
(* heuristic answers that stands in for it.                                 *)
(*                                                                          *)
(* A tenant is [floor, demand, weight]; bandwidth is counted in units.  The *)
(* program has one capacity row and boxes around the unknowns, so with      *)
(* integer data its vertices, of which the solver returns one, are integer. *)
(***************************************************************************)
EXTENDS Integers, Sequences, FiniteSetsExt, Functions

Least(x, y) == IF x <= y THEN x ELSE y
AtLeastZero(x) == IF x <= 0 THEN 0 ELSE x

\* The sum of a sequence of numbers.
Total(f) ==
    LET sum[n \in 0..Len(f)] == IF n = 0 THEN 0 ELSE sum[n-1] + f[n]
    IN  sum[Len(f)]

\* sum of w_i * max(0, floor_i - BW_i), the cost of an allocation a
Violation(ts, a) ==
    Total([i \in DOMAIN ts |-> ts[i].weight * AtLeastZero(ts[i].floor - a[i])])

-----------------------------------------------------------------------------
(* The linear program.                                                      *)

\* The rows and bounds: no more than the demand each, no more than there is.
Feasible(ts, available) ==
    { a \in [DOMAIN ts -> 0..Max({ t.demand : t \in Range(ts) })] :
        /\ \A i \in DOMAIN ts : a[i] <= ts[i].demand
        /\ Total(a) <= available }

\* Mutant: the tie-breaker weighs as much as a violation.
CostFlat(ts, a) ==
    1000 * (Violation(ts, a) - Total([i \in DOMAIN ts |-> ts[i].weight * a[i]]))

\* The objective in thousandths: violations, and eps = 0.001 per weighted unit
\* of bandwidth to break ties.
Cost(ts, a) ==
    1000 * Violation(ts, a) - Total([i \in DOMAIN ts |-> ts[i].weight * a[i]])

LpAllocations(ts, available) ==
    LET feasible == Feasible(ts, available)
        best == Min({ Cost(ts, a) : a \in feasible })
    IN  { a \in feasible : Cost(ts, a) = best }

-----------------------------------------------------------------------------
(* The heuristic, for a host without the solver.                            *)

\* Mutant: the least important tenant is paid first.
PaidBeforeReversed(ts, i) ==
    { j \in DOMAIN ts : \/ ts[j].weight < ts[i].weight
                        \/ ts[j].weight = ts[i].weight /\ j < i }

\* Tenants are paid by falling weight, equals in the order given.
PaidBefore(ts, i) ==
    { j \in DOMAIN ts : \/ ts[j].weight > ts[i].weight
                        \/ ts[j].weight = ts[i].weight /\ j < i }

\* Step 1: the floors, in that order, as far as the bandwidth goes.
PayFloors(ts, available) ==
    [i \in DOMAIN ts |->
        LET taken == Total([j \in DOMAIN ts |->
                              IF j \in PaidBefore(ts, i) THEN ts[j].floor ELSE 0])
        IN  Least(ts[i].floor, AtLeastZero(available - taken))]

\* Step 2: what is left, by weight and unmet demand, but never beyond the
\* demand.  Shares are rounded down to whole units, the code's are exact.
Spread(ts, paid, remaining) ==
    LET score == [i \in DOMAIN ts |->
                    AtLeastZero(ts[i].demand - paid[i]) * ts[i].weight]
        total == IF Total(score) = 0 THEN 1 ELSE Total(score)
    IN  [i \in DOMAIN ts |->
            Least(ts[i].demand, paid[i] + (remaining * score[i]) \div total)]

ProportionalAllocation(ts, available) ==
    LET paid == PayFloors(ts, available)
        remaining == available - Total(paid)
    IN  IF remaining > 0 THEN Spread(ts, paid, remaining) ELSE paid

-----------------------------------------------------------------------------
(* allocate: what each tenant may be given, and whether the call succeeded. *)

CapacityExhausted(ts) == [i \in DOMAIN ts |-> ts[i].floor]

Allocations(ts, available, solver) ==
    IF available <= 0 THEN { CapacityExhausted(ts) }
    ELSE IF solver THEN LpAllocations(ts, available)
    ELSE { ProportionalAllocation(ts, available) }

=============================================================================
