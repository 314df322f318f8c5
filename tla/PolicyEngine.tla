---------------------------- MODULE PolicyEngine ----------------------------
(***************************************************************************)
(* The stateful half of M3: PolicyEngine.evaluate                           *)
(* (pipeline/s4_orchestration/policy_engine.py).  One state machine per     *)
(* device decides when the tier the mapper wants becomes the tier in force. *)
(*                                                                          *)
(* The code stores wall-clock timestamps and only ever looks at the time    *)
(* elapsed since them; the model stores that elapsed time, saturated at the *)
(* threshold it is compared with.  A timestamp that was never set and one   *)
(* older than its threshold are then the same value, as they are for every  *)
(* guard of the code.  The clock is monotonic.                              *)
(***************************************************************************)
EXTENDS TierMapper, Sequences

CONSTANTS
    Devices,       \* device ids the engine is asked about
    Prefixes,      \* target_ip_prefix values
    NoPrefix,      \* payload without a target prefix
    Signals,       \* payloads considered
    FreqGuard,     \* freq_guard_s, in ticks (0 in eval_mode)
    EscalateWins,  \* escalate_wins: consecutive windows to escalate
    BufLen,        \* maxlen of window_buf
    AbateP,        \* abatement_p_threshold, in hundredths
    AttackSeen,    \* 0.5: confidence above which Track A speaks for P(attack)
    AbateHold,     \* abatement_hold_s, in ticks
    DedupWindow,   \* dedup_tier3_window_s, in ticks
    KeyBucket      \* the mapper's dedup_window_s: length of a dedup-key bucket

ASSUME PolicyAssumption ==
    /\ Signals \subseteq Signal
    /\ NoPrefix \notin Prefixes
    /\ FreqGuard \in Nat /\ AbateHold \in Nat /\ DedupWindow \in Nat
    /\ KeyBucket \in Nat \ {0}
    /\ EscalateWins \in Nat \ {0}
    /\ BufLen \in Nat /\ BufLen >= EscalateWins
    /\ AbateP \in Percent /\ AttackSeen \in Percent

VARIABLES
    tier,         \* current_tier
    sinceAction,  \* time since last_action_ts
    windows,      \* window_buf: tiers wanted by the latest windows
    calm,         \* time since below_threshold_since, or NotCalm (None)
    seen,         \* tier3_seen: per prefix, age and key of the entry
    phase,        \* wall clock modulo KeyBucket
    action        \* PolicyAction returned by the last evaluate()

vars == <<tier, sinceAction, windows, calm, seen, phase, action>>

NotCalm == -1
Actions == {"HOLD", "ESCALATE", "DEESCALATE", "NEW_ATTACK", "SUPPRESSED"}

\* A tier3_seen entry.  `keyAge' counts the dedup-key buckets begun since its
\* key was computed (2 stands for two or more); an entry as old as
\* DedupWindow never matches again and also stands for a missing entry.
SeenEntry == [age : 0..DedupWindow, keyAge : 0..2]

TypeOK ==
    /\ tier \in [Devices -> Tiers]
    /\ sinceAction \in [Devices -> 0..FreqGuard]
    /\ windows \in [Devices -> Seq(Tiers)]
    /\ \A d \in Devices : Len(windows[d]) <= BufLen
    /\ calm \in [Devices -> NotCalm..AbateHold]
    /\ seen \in [Devices -> [Prefixes -> SeenEntry]]
    /\ phase \in 0..(KeyBucket - 1)
    /\ action \in [Devices -> Actions]

-----------------------------------------------------------------------------

Older(age, cap) == IF age < cap THEN age + 1 ELSE cap

Higher(a, b) == IF a >= b THEN a ELSE b

\* Mutant: only the nearest forecast horizon counts.
ObservedPNear(s) == IF s.conf >= AttackSeen THEN s.conf ELSE s.p1

\* _observed_p
ObservedP(s) == IF s.conf >= AttackSeen THEN s.conf
                ELSE Higher(s.p1, Higher(s.p5, s.p15))

\* Mutant: window_buf is a plain list.
RememberAll(buf, want) == Append(buf, want)

\* window_buf.append on a deque of length BufLen
Remember(buf, want) ==
    IF Len(buf) < BufLen THEN Append(buf, want) ELSE Append(Tail(buf), want)

\* Mutant: the window before the current one is not looked at.
SustainedShort(buf, want) ==
    /\ Len(buf) >= EscalateWins
    /\ \A i \in (Len(buf) - EscalateWins + 2)..Len(buf) : buf[i] >= want

\* Mutant: the windows must want exactly the same tier.
SustainedExactly(buf, want) ==
    /\ Len(buf) >= EscalateWins
    /\ \A i \in (Len(buf) - EscalateWins + 1)..Len(buf) : buf[i] = want

\* The last EscalateWins windows all want at least `want'.
Sustained(buf, want) ==
    /\ Len(buf) >= EscalateWins
    /\ \A i \in (Len(buf) - EscalateWins + 1)..Len(buf) : buf[i] >= want

\* Mutant: every calm window starts the timer anew.
AbatementRestarts(c, p) == IF p >= AbateP THEN NotCalm ELSE 0

\* _update_abatement
Abatement(c, p) == IF p >= AbateP THEN NotCalm
                   ELSE IF c = NotCalm THEN 0 ELSE c

\* Mutant: no frequency guard.
NeverBlocked(d) == FALSE

FreqBlocked(d) == sinceAction[d] < FreqGuard

\* The entry of tier3_seen repeats this event: recent, and under the same key.
\* keyAge is that of the event's own key: 1 when the bucket boundary fell
\* between TierMapper.decide and PolicyEngine.evaluate.
Duplicate(d, want, prefix, keyAge) ==
    /\ want = MITIGATE
    /\ prefix # NoPrefix
    /\ seen[d][prefix].age < DedupWindow
    /\ seen[d][prefix].keyAge = keyAge

KeyAges == IF phase = 0 THEN {0, 1} ELSE {0}

FreshEntry == [age |-> DedupWindow, keyAge |-> 2]

\* _DeviceState()
Init ==
    /\ tier = [d \in Devices |-> NORMAL]
    /\ sinceAction = [d \in Devices |-> FreqGuard]
    /\ windows = [d \in Devices |-> << >>]
    /\ calm = [d \in Devices |-> NotCalm]
    /\ seen = [d \in Devices |-> [x \in Prefixes |-> FreshEntry]]
    /\ phase \in 0..(KeyBucket - 1)
    /\ action = [d \in Devices |-> "HOLD"]

-----------------------------------------------------------------------------
(* One evaluate() call.  It always records the wanted tier first.           *)

Record(d, s) ==
    windows' = [windows EXCEPT ![d] = Remember(@, Decide(s))]

\* The decision leaves the tier alone; the abatement timer still moves.
Keep(d, s, a) ==
    /\ Record(d, s)
    /\ calm' = [calm EXCEPT ![d] = Abatement(@, ObservedP(s))]
    /\ action' = [action EXCEPT ![d] = a]
    /\ UNCHANGED <<tier, sinceAction, seen, phase>>

\* A new tier is committed.
Commit(d, s, a) ==
    /\ Record(d, s)
    /\ tier' = [tier EXCEPT ![d] = Decide(s)]
    /\ sinceAction' = [sinceAction EXCEPT ![d] = 0]
    /\ calm' = [calm EXCEPT ![d] = NotCalm]
    /\ action' = [action EXCEPT ![d] = a]
    /\ UNCHANGED phase

Suppress(d, s, prefix, keyAge) ==
    /\ Duplicate(d, Decide(s), prefix, keyAge)
    /\ Keep(d, s, "SUPPRESSED")

SameTier(d, s, prefix, keyAge) ==
    /\ ~Duplicate(d, Decide(s), prefix, keyAge)
    /\ Decide(s) = tier[d]
    /\ Keep(d, s, "HOLD")

EscalationReady(d, s) ==
    /\ Sustained(Remember(windows[d], Decide(s)), Decide(s))
    /\ ~FreqBlocked(d)

HoldEscalation(d, s, prefix, keyAge) ==
    /\ ~Duplicate(d, Decide(s), prefix, keyAge)
    /\ Decide(s) > tier[d]
    /\ ~EscalationReady(d, s)
    /\ Keep(d, s, "HOLD")

Escalate(d, s, prefix, keyAge) ==
    /\ ~Duplicate(d, Decide(s), prefix, keyAge)
    /\ Decide(s) > tier[d]
    /\ EscalationReady(d, s)
    /\ Commit(d, s, IF tier[d] = NORMAL THEN "NEW_ATTACK" ELSE "ESCALATE")
    /\ seen' = IF Decide(s) = MITIGATE /\ prefix # NoPrefix
               THEN [seen EXCEPT ![d][prefix] = [age |-> 0, keyAge |-> keyAge]]
               ELSE seen

\* Mutant: any calm window allows the demotion.
DemotionReadyAtOnce(d, s) ==
    /\ Abatement(calm[d], ObservedP(s)) # NotCalm
    /\ ~FreqBlocked(d)

DemotionReady(d, s) ==
    /\ Abatement(calm[d], ObservedP(s)) >= AbateHold
    /\ Abatement(calm[d], ObservedP(s)) # NotCalm
    /\ ~FreqBlocked(d)

HoldDemotion(d, s, prefix, keyAge) ==
    /\ ~Duplicate(d, Decide(s), prefix, keyAge)
    /\ Decide(s) < tier[d]
    /\ ~DemotionReady(d, s)
    /\ Keep(d, s, "HOLD")

Demote(d, s, prefix, keyAge) ==
    /\ ~Duplicate(d, Decide(s), prefix, keyAge)
    /\ Decide(s) < tier[d]
    /\ DemotionReady(d, s)
    /\ Commit(d, s, "DEESCALATE")
    /\ UNCHANGED seen

Evaluate(d) ==
    \E s \in Signals, prefix \in Prefixes \cup {NoPrefix}, keyAge \in KeyAges :
        \/ Suppress(d, s, prefix, keyAge)
        \/ SameTier(d, s, prefix, keyAge)
        \/ HoldEscalation(d, s, prefix, keyAge)
        \/ Escalate(d, s, prefix, keyAge)
        \/ HoldDemotion(d, s, prefix, keyAge)
        \/ Demote(d, s, prefix, keyAge)

-----------------------------------------------------------------------------

\* Mutant: reset() keeps the dedup table.
ResetKeepsDedup(d) ==
    /\ tier' = [tier EXCEPT ![d] = NORMAL]
    /\ sinceAction' = [sinceAction EXCEPT ![d] = FreqGuard]
    /\ windows' = [windows EXCEPT ![d] = << >>]
    /\ calm' = [calm EXCEPT ![d] = NotCalm]
    /\ action' = [action EXCEPT ![d] = "HOLD"]
    /\ UNCHANGED <<seen, phase>>

\* reset(): a fresh _DeviceState.
Reset(d) ==
    /\ tier' = [tier EXCEPT ![d] = NORMAL]
    /\ sinceAction' = [sinceAction EXCEPT ![d] = FreqGuard]
    /\ windows' = [windows EXCEPT ![d] = << >>]
    /\ calm' = [calm EXCEPT ![d] = NotCalm]
    /\ seen' = [seen EXCEPT ![d] = [x \in Prefixes |-> FreshEntry]]
    /\ action' = [action EXCEPT ![d] = "HOLD"]
    /\ UNCHANGED phase

\* One unit of wall-clock time passes for every device.
Tick ==
    /\ phase' = (phase + 1) % KeyBucket
    /\ sinceAction' = [d \in Devices |-> Older(sinceAction[d], FreqGuard)]
    /\ calm' = [d \in Devices |-> IF calm[d] = NotCalm THEN NotCalm
                                  ELSE Older(calm[d], AbateHold)]
    /\ seen' = [d \in Devices |-> [x \in Prefixes |->
                   [age    |-> Older(seen[d][x].age, DedupWindow),
                    keyAge |-> IF phase' = 0 THEN Older(seen[d][x].keyAge, 2)
                                             ELSE seen[d][x].keyAge]]]
    /\ UNCHANGED <<tier, windows, action>>

Next ==
    \/ \E d \in Devices : Evaluate(d) \/ Reset(d)
    \/ Tick

Spec == Init /\ [][Next]_vars

=============================================================================
