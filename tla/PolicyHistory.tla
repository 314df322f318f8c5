---------------------------- MODULE PolicyHistory ----------------------------
(***************************************************************************)
(* PolicyEngine with history variables that no action reads, and the        *)
(* properties stated with them.  They record what an outside observer of    *)
(* evaluate() would: when the tier last moved, when a window last showed an *)
(* attack, and for how many windows in a row each tier has been wanted.     *)
(***************************************************************************)
EXTENDS PolicyEngine

\* How the constants have to be tuned for the properties below.  The defaults
\* (0.30 against 0.50..0.95; 30 s against 60 s) are; nothing in the code
\* enforces it for the values a caller passes.
ASSUME TuningAssumption ==
    /\ AbateP <= AttackSeen /\ AbateP <= P15T1 /\ AbateP <= P5T2 /\ AbateP <= P1T3
    /\ AttackSeen <= ConfT3
    /\ DedupWindow <= AbateHold

VARIABLES
    dwell,      \* time since the device's tier last moved
    sinceHot,   \* time since P(attack) >= AbateP was last observed
    streak      \* per tier: latest consecutive windows wanting at least it

hvars == <<tier, sinceAction, windows, calm, seen, phase, action,
           dwell, sinceHot, streak>>

MaxDwell == IF FreqGuard >= AbateHold THEN FreqGuard ELSE AbateHold

HTypeOK == /\ TypeOK
           /\ dwell \in [Devices -> 0..MaxDwell]
           /\ sinceHot \in [Devices -> 0..AbateHold]
           /\ streak \in [Devices -> [Tiers -> 0..EscalateWins]]

HInit == /\ Init
         /\ dwell = [d \in Devices |-> MaxDwell]
         /\ sinceHot = [d \in Devices |-> 0]
         /\ streak = [d \in Devices |-> [t \in Tiers |-> 0]]

\* The observer sees the payload that evaluate() was called with.
Observe(d, s) ==
    /\ sinceHot' = IF ObservedP(s) >= AbateP
                   THEN [sinceHot EXCEPT ![d] = 0] ELSE sinceHot
    /\ streak' = [streak EXCEPT ![d] = [t \in Tiers |->
           IF Decide(s) >= t THEN Older(streak[d][t], EscalateWins) ELSE 0]]

HEvaluate(d) ==
    \E s \in Signals, prefix \in Prefixes \cup {NoPrefix}, keyAge \in KeyAges :
        /\ \/ /\ \/ Suppress(d, s, prefix, keyAge)
                 \/ SameTier(d, s, prefix, keyAge)
                 \/ HoldEscalation(d, s, prefix, keyAge)
                 \/ HoldDemotion(d, s, prefix, keyAge)
              /\ UNCHANGED dwell
           \/ /\ \/ Escalate(d, s, prefix, keyAge)
                 \/ Demote(d, s, prefix, keyAge)
              /\ dwell' = [dwell EXCEPT ![d] = 0]
        /\ Observe(d, s)

HReset(d) ==
    /\ Reset(d)
    /\ dwell' = [dwell EXCEPT ![d] = MaxDwell]
    /\ sinceHot' = [sinceHot EXCEPT ![d] = 0]
    /\ streak' = [streak EXCEPT ![d] = [t \in Tiers |-> 0]]

HTick ==
    /\ Tick
    /\ dwell' = [d \in Devices |-> Older(dwell[d], MaxDwell)]
    /\ sinceHot' = [d \in Devices |-> Older(sinceHot[d], AbateHold)]
    /\ UNCHANGED streak

HNext == \/ \E d \in Devices : HEvaluate(d) \/ HReset(d)
         \/ HTick

HSpec == HInit /\ [][HNext]_hvars

\* The engine is called once per telemetry window and time does not stop.
\* Nothing makes reset() happen.
Fairness == /\ WF_hvars(HTick)
            /\ \A d \in Devices : WF_hvars(HEvaluate(d))

FairSpec == HSpec /\ Fairness

-----------------------------------------------------------------------------
(* Properties *)

\* A device leaves a tier downwards only for NORMAL: no evaluate() call ever
\* demotes to an intermediate tier, because a window that still wants one
\* shows P(attack) above the abatement threshold.
DemotionsReachNormal ==
    [][\A d \in Devices : tier'[d] < tier[d] => tier'[d] = NORMAL]_hvars

\* A demotion by evaluate() needs a whole abatement period in which every
\* evaluated window showed P(attack) below the threshold ("sustained").
DemotionNeedsSustainedCalm ==
    [][\A d \in Devices :
          action'[d] = "DEESCALATE" /\ tier'[d] # tier[d]
              => sinceHot[d] >= AbateHold]_hvars

\* An escalation is preceded by EscalateWins consecutive windows that all
\* want at least the committed tier (a transient spike moves nothing).
EscalationNeedsStreak ==
    [][\A d \in Devices :
          tier'[d] > tier[d] => streak'[d][tier'[d]] >= EscalateWins]_hvars

\* A live Tier-3 dedup entry belongs to a device still at MITIGATE or above:
\* the early return for duplicates can therefore never swallow an escalation
\* the device needs.
DedupOnlyWhileMitigating ==
    \A d \in Devices, x \in Prefixes :
        seen[d][x].age < DedupWindow => tier[d] >= MITIGATE

\* While the abatement timer runs, the engine has not seen an attack for at
\* least as long as the timer says.
CalmTimerIsHonest ==
    \A d \in Devices : calm[d] # NotCalm => calm[d] <= sinceHot[d]

\* Why these hold: the inductive invariant behind the properties above.  The
\* device has been calm no longer than a live dedup entry is old, so the entry
\* expires before the abatement period that ends mitigation is over; the timers
\* of the engine agree with the observer's; and the buffer remembers at least
\* as many wanting windows as an escalation asks for.
DedupOutlivedByTier ==
    \A d \in Devices, x \in Prefixes :
        seen[d][x].age < DedupWindow =>
            tier[d] >= MITIGATE /\ calm[d] <= seen[d][x].age

TimersAgree ==
    \A d \in Devices :
        /\ sinceAction[d] = IF dwell[d] < FreqGuard THEN dwell[d] ELSE FreqGuard
        /\ calm[d] <= dwell[d]
        /\ calm[d] # NotCalm => calm[d] <= sinceHot[d]

\* The last k windows of buf all want at least t.
LastWant(buf, t, k) ==
    k <= Len(buf) /\ \A i \in (Len(buf) - k + 1)..Len(buf) : buf[i] >= t

StreaksRemembered ==
    \A d \in Devices, t \in Tiers, k \in 1..EscalateWins :
        LastWant(windows[d], t, k) => streak[d][t] >= k

HistoryInv == HTypeOK /\ DedupOutlivedByTier /\ TimersAgree /\ StreaksRemembered

\* The engine implements the abstract graduated response.
Abstract == INSTANCE GraduatedResponse WITH
    Devices <- Devices, FreqGuard <- FreqGuard, AbateHold <- AbateHold,
    tier <- tier, dwell <- dwell
ImplementsGraduatedResponse == Abstract!Spec

\* An attack whose windows all want tier t or more from some point on is met
\* with tier t: neither hysteresis, nor the frequency guard, nor dedup can
\* hold the device back for ever.
WantsAtLeast(d, t) == windows[d] # << >> /\ windows[d][Len(windows[d])] >= t
PersistentAttackIsMet ==
    \A d \in Devices, t \in Tiers :
        <>[]WantsAtLeast(d, t) => <>[](tier[d] >= t)

\* Once every window is calm, the device returns to NORMAL and stays there.
CalmReleasesDevice ==
    \A d \in Devices : <>[](calm[d] # NotCalm \/ tier[d] = NORMAL)
                           => <>[](tier[d] = NORMAL)

=============================================================================
