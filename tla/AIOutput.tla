------------------------------ MODULE AIOutput ------------------------------
(***************************************************************************)
(* What M2 derives from the outputs of its two models before M3 sees them:   *)
(* class vectors of older detectors folded into the five classes, forecasts  *)
(* of the older forecaster stretched to the three horizons, the triggered    *)
(* horizon, and the severity of whole and half outputs                      *)
(* (ai_output.py, inference_layer.py).                                       *)
(*                                                                         *)
(* Probabilities are in hundredths, as in TierMapper; a class vector is a    *)
(* sequence of shares of one total, position 1 holding BENIGN.               *)
(***************************************************************************)
EXTENDS TierMapper, Sequences, FiniteSets

\* The thresholds are written down in several places.  ai_output.py has those that
\* TierMapper imports; inference_layer.py has a table of its own and the
\* confidences a third time.
CONSTANTS
    M2P15,     \* HORIZON_THRESHOLDS[15] of inference_layer.py
    M2P5,      \* HORIZON_THRESHOLDS[5]
    M2P1,      \* HORIZON_THRESHOLDS[1]
    M2ConfT3,  \* TRACK_A_CONF_T3
    M2ConfT4   \* TRACK_A_CONF_T4

ASSUME M2ThresholdsAssumption ==
    {M2P15, M2P5, M2P1, M2ConfT3, M2ConfT4} \subseteq 1..100

\* The two tables say the same.
SameHorizons == M2P15 = P15T1 /\ M2P5 = P5T2 /\ M2P1 = P1T3

\* np.argmax: the first of the largest.
ArgMax(v) == CHOOSE i \in DOMAIN v :
    /\ \A j \in DOMAIN v : v[j] <= v[i]
    /\ \A j \in DOMAIN v : j < i => v[j] < v[i]

\* LEGACY_12CLASS_TO_5CLASS: eight reflection classes are one.
Fold12(v) ==
    <<v[1], v[2] + v[3] + v[4] + v[5] + v[6] + v[7] + v[8] + v[9], v[10], v[11], v[12]>>

\* Mutant: Slow_rate is forgotten.
Fold7NoSlow(v) == <<v[1], v[2] + v[6], v[3], v[5], v[4]>>

\* The seven v2 classes in the five.
Fold7(v) == <<v[1], v[2] + v[6], v[3], v[5], v[4] + v[7]>>

\* _coerce_class_probs, _remap_to_12class: vectors that sum to one stay so, and
\* the division by their sum changes nothing.
CoerceClassProbs(v) ==
    IF Len(v) = 12 THEN Fold12(v) ELSE IF Len(v) = 7 THEN Fold7(v) ELSE v

-----------------------------------------------------------------------------
\* Forecasts.  The v1 model has heads up to two minutes; _forecast_legacy and
\* _coerce_forecast stretch the last one.  Rounding down keeps every comparison
\* with a threshold in hundredths.
LegacyForecast(p120) == [p1 |-> p120, p5 |-> (p120 * 85) \div 100, p15 |-> p120 \div 2]

\* The thresholds are tested from the longest horizon to the shortest and each
\* one met overwrites the last; 0 stands for None.
TriggeredHorizon(f) ==
    IF f.p1 >= M2P1 THEN 1
    ELSE IF f.p5 >= M2P5 THEN 5
    ELSE IF f.p15 >= M2P15 THEN 15
    ELSE 0

PrePosition(f) == TriggeredHorizon(f) >= 5

-----------------------------------------------------------------------------
\* Severity, computed twice in M2: PayloadCoalescer._severity reads an output
\* that may have one half only; severity_from_signals takes zeros for it.
NoPart == [none |-> TRUE]

\* Mutant: a missing detection counts as a sure one.
CoalescerSeverityBold(a, b) ==
    LET conf == IF a = NoPart THEN 100 ELSE a.conf
        p1   == IF b = NoPart THEN 0 ELSE b.p1
    IN  IF conf >= M2ConfT4 \/ p1 >= 95 THEN CRITICAL
        ELSE IF conf >= M2ConfT3 \/ p1 >= M2P1 THEN MAJOR
        ELSE IF b # NoPart /\ b.p5 >= M2P5 THEN MINOR
        ELSE INFO

CoalescerSeverity(a, b) ==
    LET conf == IF a = NoPart THEN 0 ELSE a.conf
        p1   == IF b = NoPart THEN 0 ELSE b.p1
    IN  IF conf >= M2ConfT4 \/ p1 >= 95 THEN CRITICAL
        ELSE IF conf >= M2ConfT3 \/ p1 >= M2P1 THEN MAJOR
        ELSE IF b # NoPart /\ b.p5 >= M2P5 THEN MINOR
        ELSE INFO

SeverityFromSignals(conf, p1, p5) ==
    IF conf >= 95 \/ p1 >= 95 THEN CRITICAL
    ELSE IF conf >= 85 \/ p1 >= P1T3 THEN MAJOR
    ELSE IF p5 >= P5T2 THEN MINOR
    ELSE INFO

\* build_payload
PayloadSeverity(a, b) ==
    SeverityFromSignals(IF a = NoPart THEN 0 ELSE a.conf,
                        IF b = NoPart THEN 0 ELSE b.p1,
                        IF b = NoPart THEN 0 ELSE b.p5)

=============================================================================
