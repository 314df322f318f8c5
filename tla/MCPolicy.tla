------------------------------ MODULE MCPolicy ------------------------------
(* PolicyHistory at one device, with one time unit standing for 15 s.  The  *)
(* payloads are one per case the engine can tell apart: every tier the      *)
(* mapper can want, and NORMAL both with P(attack) below the abatement      *)
(* threshold and above it, the latter once through the BENIGN short-circuit.*)
EXTENDS PolicyHistory

Pay(type, conf, p1, p5, p15) ==
    [type |-> type, conf |-> conf, p1 |-> p1, p5 |-> p5, p15 |-> p15]

MCSignals == {
    Pay("BENIGN",         5,  0,  0,  0),  \* NORMAL, calm
    Pay("BENIGN",        29, 29, 29, 29),  \* NORMAL, just calm
    Pay("BENIGN",         5,  0,  0, 30),  \* NORMAL, not calm
    Pay("BENIGN",         5, 90, 75, 49),  \* NORMAL by the short-circuit
    Pay("Syn",           50,  0,  0,  0),  \* NORMAL, but Track A speaks
    Pay("BENIGN",        10,  0,  0, 50),  \* ALERT
    Pay("UDP-lag",       30, 10, 70, 60),  \* PREEMPT
    Pay("Syn",           20, 85, 80, 70),  \* MITIGATE by the forecast
    Pay("Amplification", 85,  0,  0,  0),  \* MITIGATE by the detector
    Pay("Syn",           95, 90, 85, 80) } \* ISOLATE

=============================================================================
