----------------------------- MODULE TierMapper -----------------------------
(***************************************************************************)
(* The stateless half of the M3 decision: what TierMapper.decide computes   *)
(* from one AI payload (pipeline/s4_orchestration/tier_mapper.py).          *)
(*                                                                          *)
(* Probabilities are integers, in hundredths: the code only ever compares   *)
(* them with constants that are multiples of 0.01.                          *)
(***************************************************************************)
EXTENDS Integers

CONSTANTS
    P15T1,    \* 0.50: 15-minute forecast that raises ALERT
    P5T2,     \* 0.70: 5-minute forecast that raises PREEMPT
    P1T3,     \* 0.85: 1-minute forecast that raises MITIGATE
    ConfT3,   \* 0.85: Track A confidence that raises MITIGATE
    ConfT4    \* 0.95: Track A confidence that raises ISOLATE

ASSUME ThresholdsAssumption ==
    /\ P15T1 \in 1..100 /\ P5T2 \in 1..100 /\ P1T3 \in 1..100
    /\ ConfT3 \in 1..100 /\ ConfT4 \in ConfT3..100

Percent == 0..100

NORMAL   == 0
ALERT    == 1
PREEMPT  == 2
MITIGATE == 3
ISOLATE  == 4
Tiers    == NORMAL..ISOLATE

\* The five classes of the detector; BENIGN is class 0.
AttackTypes == {"BENIGN", "Amplification", "Syn", "UDP-lag", "WebDDoS"}

\* What decide() reads of a payload.  conf is 1 - P(BENIGN).
Signal == [type : AttackTypes, conf : Percent,
           p1 : Percent, p5 : Percent, p15 : Percent]

\* Payloads the detector can emit: with five classes summing to one, BENIGN
\* can only be the arg-max when it holds at least a fifth of the mass.
Emittable(s) == s.type = "BENIGN" => s.conf <= 80

-----------------------------------------------------------------------------

\* BENIGN short-circuit: it looks at P(t+15) but at no nearer horizon.
ShortCircuit(s) == /\ s.type = "BENIGN"
                   /\ s.conf < P15T1
                   /\ s.p15 < P15T1

\* Mutant: the longest horizon is asked first.
ComputeTierAlertFirst(s) ==
    IF s.conf >= ConfT4 THEN ISOLATE
    ELSE IF s.p15 >= P15T1 THEN ALERT
    ELSE IF s.p5 >= P5T2 THEN PREEMPT
    ELSE IF s.p1 >= P1T3 \/ s.conf >= ConfT3 THEN MITIGATE
    ELSE NORMAL

\* The first threshold met, from the highest tier down, wins.
ComputeTier(s) ==
    IF s.conf >= ConfT4 THEN ISOLATE
    ELSE IF s.p1 >= P1T3 \/ s.conf >= ConfT3 THEN MITIGATE
    ELSE IF s.p5 >= P5T2 THEN PREEMPT
    ELSE IF s.p15 >= P15T1 THEN ALERT
    ELSE NORMAL

\* decide, the tier it returns
Decide(s) == IF ShortCircuit(s) THEN NORMAL ELSE ComputeTier(s)

\* proactive: the forecast (Track B) alone caused the tier.
Proactive(s) == /\ Decide(s) \in {ALERT, PREEMPT, MITIGATE}
                /\ s.conf < ConfT3

INFO     == 0
MINOR    == 1
MAJOR    == 2
CRITICAL == 3

\* Mutant: the forecast does not count towards MAJOR.
SeverityDetectorOnly(s) ==
    IF s.conf >= ConfT4 \/ s.p1 >= 95 THEN CRITICAL
    ELSE IF s.conf >= ConfT3 THEN MAJOR
    ELSE IF s.p5 >= P5T2 THEN MINOR
    ELSE INFO

Severity(s) ==
    IF s.conf >= ConfT4 \/ s.p1 >= 95 THEN CRITICAL
    ELSE IF s.conf >= ConfT3 \/ s.p1 >= P1T3 THEN MAJOR
    ELSE IF s.p5 >= P5T2 THEN MINOR
    ELSE INFO

-----------------------------------------------------------------------------
(* CNF routing.  NoProfile is Python's None; "none" is the string the table *)
(* holds for BENIGN, which no catalog knows.                                *)

NoProfile == "<None>"

\* CNF_CATALOG: the profiles that can be instantiated.
Catalog == {"cnf-scrubber-reflection", "cnf-scrubber-syn-proxy",
            "cnf-rate-limiter-app-layer", "cnf-rate-limiter-token-bucket",
            "cnf-scrubber-warm-standby", "cnf-scrubber-blackhole"}

\* ATTACK_TYPE_TO_CNF_PROFILE
CnfOfType(type) ==
    CASE type = "BENIGN"        -> "none"
      [] type = "Amplification" -> "cnf-scrubber-reflection"
      [] type = "Syn"           -> "cnf-scrubber-syn-proxy"
      [] type = "UDP-lag"       -> "cnf-rate-limiter-token-bucket"
      [] type = "WebDDoS"       -> "cnf-rate-limiter-app-layer"

\* Mutant: the rows of the per-tier table are shifted by one.
CnfProfileShifted(t, type) ==
    CASE t = NORMAL              -> NoProfile
      [] t \in {ALERT, PREEMPT} -> "cnf-scrubber-warm-standby"
      [] t = MITIGATE            -> CnfOfType(type)
      [] t = ISOLATE             -> NoProfile

\* _select_cnf_profile
CnfProfile(t, type) ==
    CASE t \in {NORMAL, ALERT} -> NoProfile
      [] t = PREEMPT           -> "cnf-scrubber-warm-standby"
      [] t = MITIGATE          -> CnfOfType(type)
      [] t = ISOLATE           -> "cnf-scrubber-blackhole"

=============================================================================
