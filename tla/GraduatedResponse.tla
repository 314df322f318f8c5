-------------------------- MODULE GraduatedResponse --------------------------
(***************************************************************************)
(* What the policy engine promises to the rest of the pipeline, without     *)
(* windows, payloads, abatement timers or dedup entries: per device, a tier *)
(* that only climbs, except that it may fall to NORMAL once it has been in  *)
(* force for a whole abatement period, and that never moves twice within    *)
(* the frequency guard.  PolicyHistory shows PolicyEngine to implement it;  *)
(* Orchestrator builds on it.                                               *)
(***************************************************************************)
EXTENDS Integers

CONSTANTS
    Devices,
    FreqGuard,   \* least time between two moves of one device
    AbateHold    \* least time a tier is in force before the device relaxes

ASSUME GuardsAssumption == FreqGuard \in Nat /\ AbateHold \in Nat

VARIABLES
    tier,        \* tier in force
    dwell        \* time since the tier last moved, saturated at MaxDwell

gvars == <<tier, dwell>>

TierRange == 0..4
MaxDwell == IF FreqGuard >= AbateHold THEN FreqGuard ELSE AbateHold

TypeInv == /\ tier \in [Devices -> TierRange]
           /\ dwell \in [Devices -> 0..MaxDwell]

Init == /\ tier = [d \in Devices |-> 0]
        /\ dwell = [d \in Devices |-> MaxDwell]

Raise(d) == /\ dwell[d] >= FreqGuard
            /\ \E t \in TierRange : t > tier[d] /\ tier' = [tier EXCEPT ![d] = t]
            /\ dwell' = [dwell EXCEPT ![d] = 0]

Relax(d) == /\ tier[d] > 0
            /\ dwell[d] >= FreqGuard
            /\ dwell[d] >= AbateHold
            /\ tier' = [tier EXCEPT ![d] = 0]
            /\ dwell' = [dwell EXCEPT ![d] = 0]

\* The engine is told to forget the device.
Forget(d) == /\ tier' = [tier EXCEPT ![d] = 0]
             /\ dwell' = [dwell EXCEPT ![d] = MaxDwell]

Pass == /\ dwell' = [d \in Devices |-> IF dwell[d] < MaxDwell
                                       THEN dwell[d] + 1 ELSE MaxDwell]
        /\ UNCHANGED tier

Next == \/ \E d \in Devices : Raise(d) \/ Relax(d) \/ Forget(d)
        \/ Pass

Spec == Init /\ [][Next]_gvars

=============================================================================
