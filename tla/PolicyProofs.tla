---------------------------- MODULE PolicyProofs ----------------------------
(***************************************************************************)
(* Proofs about the policy engine, for any devices, prefixes, payloads and  *)
(* any tuning that satisfies the assumptions of TierMapper, PolicyEngine    *)
(* and PolicyHistory.                                                       *)
(***************************************************************************)
EXTENDS PolicyHistory, TLAPS

-----------------------------------------------------------------------------
(* Lemmas about the operators of one evaluate() call.                       *)

\* Every payload is mapped to a tier and shows a probability.
LEMMA DecisionType ==
    ASSUME NEW s \in Signals
    PROVE  Decide(s) \in Tiers /\ ObservedP(s) \in Percent
  BY PolicyAssumption
  DEF Decide, ComputeTier, ObservedP, Higher, Signal, Percent, Tiers,
      NORMAL, ALERT, PREEMPT, MITIGATE, ISOLATE

\* Higher is the maximum of two numbers.
LEMMA HigherIsMax ==
    \A a, b \in Int : /\ Higher(a, b) \in Int
                      /\ Higher(a, b) >= a /\ Higher(a, b) >= b
  BY DEF Higher

\* A window that wants anything above NORMAL is not calm: the abatement
\* threshold lies below every threshold of the mapper.
LEMMA WantIsNotCalm ==
    ASSUME NEW s \in Signals, Decide(s) # NORMAL
    PROVE  ObservedP(s) >= AbateP
<1>1. s.conf \in 0..100 /\ s.p1 \in 0..100 /\ s.p5 \in 0..100 /\ s.p15 \in 0..100
  BY PolicyAssumption DEF Signal, Percent
<1>2. \/ s.conf >= ConfT3
      \/ s.p1 >= P1T3 \/ s.p5 >= P5T2 \/ s.p15 >= P15T1
  BY <1>1, ThresholdsAssumption DEF Decide, ComputeTier
<1>3. AbateP \in 0..100 /\ AttackSeen \in 0..100
  BY PolicyAssumption DEF Percent
<1>4. CASE s.conf >= AttackSeen
  BY <1>1, <1>3, <1>4, TuningAssumption DEF ObservedP
<1>5. CASE ~(s.conf >= AttackSeen)
  <2>1. s.p1 >= AbateP \/ s.p5 >= AbateP \/ s.p15 >= AbateP
    BY <1>1, <1>2, <1>3, <1>5, ThresholdsAssumption, TuningAssumption
  <2>0. s.p1 \in Int /\ s.p5 \in Int /\ s.p15 \in Int
    BY <1>1
  <2> DEFINE far == Higher(s.p5, s.p15)
  <2>2. far \in Int /\ far >= s.p5 /\ far >= s.p15
    BY <2>0, HigherIsMax
  <2>3. Higher(s.p1, far) \in Int /\ Higher(s.p1, far) >= s.p1 /\ Higher(s.p1, far) >= far
    BY <2>0, <2>2, HigherIsMax
  <2>4. Higher(s.p1, far) >= AbateP
    BY <1>1, <1>3, <2>1, <2>2, <2>3
  <2> QED BY <1>5, <2>4 DEF ObservedP
<1> QED BY <1>4, <1>5

\* The window buffer stays a bounded sequence of tiers.
LEMMA RememberType ==
    ASSUME NEW buf \in Seq(Tiers), Len(buf) <= BufLen, NEW want \in Tiers
    PROVE  /\ Remember(buf, want) \in Seq(Tiers)
           /\ Len(Remember(buf, want)) <= BufLen
  BY PolicyAssumption DEF Remember

\* Abatement returns its timer, a fresh one or none.
LEMMA AbatementCases ==
    ASSUME NEW c \in NotCalm..AbateHold, NEW p \in Percent
    PROVE  /\ Abatement(c, p) \in NotCalm..AbateHold
           /\ Abatement(c, p) \in {c, 0, NotCalm}
           /\ Abatement(c, p) # NotCalm => p < AbateP
           /\ c # NotCalm => Abatement(c, p) \in {c, NotCalm}
  BY PolicyAssumption DEF Abatement, NotCalm, Percent

-----------------------------------------------------------------------------
(* Type correctness: one lemma per kind of step.                            *)

\* An evaluate() call that leaves the tier alone.
LEMMA KeepType ==
    ASSUME TypeOK, NEW d \in Devices, NEW s \in Signals, NEW a \in Actions,
           Keep(d, s, a)
    PROVE  TypeOK'
<1>1. windows' \in [Devices -> Seq(Tiers)] /\ \A e \in Devices : Len(windows'[e]) <= BufLen
  BY DecisionType, RememberType DEF TypeOK, Keep, Record
<1>2. calm' \in [Devices -> NotCalm..AbateHold]
  BY DecisionType, AbatementCases DEF TypeOK, Keep
<1>3. action' \in [Devices -> Actions]
  BY DEF TypeOK, Keep
<1> QED BY <1>1, <1>2, <1>3 DEF TypeOK, Keep

\* An evaluate() call that commits a tier.
LEMMA CommitType ==
    ASSUME TypeOK, NEW d \in Devices, NEW s \in Signals, NEW a \in Actions,
           Commit(d, s, a), seen' \in [Devices -> [Prefixes -> SeenEntry]]
    PROVE  TypeOK'
<1>1. windows' \in [Devices -> Seq(Tiers)] /\ \A e \in Devices : Len(windows'[e]) <= BufLen
  BY DecisionType, RememberType DEF TypeOK, Commit, Record
<1>2. tier' \in [Devices -> Tiers]
  BY DecisionType DEF TypeOK, Commit
<1>3. /\ sinceAction' \in [Devices -> 0..FreqGuard]
      /\ calm' \in [Devices -> NotCalm..AbateHold]
  BY PolicyAssumption DEF TypeOK, Commit, NotCalm
<1>4. action' \in [Devices -> Actions]
  BY DEF TypeOK, Commit
<1> QED BY <1>1, <1>2, <1>3, <1>4 DEF TypeOK, Commit

\* A fresh dedup entry is an entry.
LEMMA FreshEntryType == FreshEntry \in SeenEntry
  BY PolicyAssumption DEF FreshEntry, SeenEntry

\* reset().
LEMMA ResetType ==
    ASSUME TypeOK, NEW d \in Devices, Reset(d)
    PROVE  TypeOK'
<1>1. tier' \in [Devices -> Tiers] /\ action' \in [Devices -> Actions]
  BY DEF TypeOK, Reset, Tiers, NORMAL, ISOLATE, Actions
<1>2. /\ sinceAction' \in [Devices -> 0..FreqGuard]
      /\ calm' \in [Devices -> NotCalm..AbateHold]
  BY PolicyAssumption DEF TypeOK, Reset, NotCalm
<1>3. windows' \in [Devices -> Seq(Tiers)] /\ \A e \in Devices : Len(windows'[e]) <= BufLen
  BY PolicyAssumption DEF TypeOK, Reset
<1>4. seen' \in [Devices -> [Prefixes -> SeenEntry]]
  BY FreshEntryType DEF TypeOK, Reset
<1> QED BY <1>1, <1>2, <1>3, <1>4 DEF TypeOK, Reset

\* Ages saturate at their cap.
LEMMA OlderType ==
    \A cap \in Nat : \A age \in 0..cap : Older(age, cap) \in 0..cap /\ Older(age, cap) >= age
  BY DEF Older

\* The passing of time.
LEMMA TickType ==
    ASSUME TypeOK, Tick
    PROVE  TypeOK'
<1>1. phase' \in 0..(KeyBucket - 1)
  BY PolicyAssumption DEF TypeOK, Tick
<1>2. sinceAction' \in [Devices -> 0..FreqGuard]
  BY PolicyAssumption, OlderType DEF TypeOK, Tick
<1>3. calm' \in [Devices -> NotCalm..AbateHold]
  <2> SUFFICES ASSUME NEW d \in Devices, calm[d] # NotCalm
               PROVE  Older(calm[d], AbateHold) \in NotCalm..AbateHold
    BY PolicyAssumption DEF TypeOK, Tick, NotCalm
  <2>1. calm[d] \in 0..AbateHold
    BY PolicyAssumption DEF TypeOK, NotCalm
  <2>2. Older(calm[d], AbateHold) \in 0..AbateHold
    BY <2>1, PolicyAssumption, OlderType
  <2> QED BY <2>2 DEF NotCalm
<1>4. seen' \in [Devices -> [Prefixes -> SeenEntry]]
  <2> SUFFICES ASSUME NEW d \in Devices, NEW x \in Prefixes
               PROVE  /\ Older(seen[d][x].age, DedupWindow) \in 0..DedupWindow
                      /\ seen[d][x].keyAge \in 0..2
                      /\ Older(seen[d][x].keyAge, 2) \in 0..2
    BY DEF TypeOK, Tick, SeenEntry
  <2>1. seen[d][x].age \in 0..DedupWindow /\ seen[d][x].keyAge \in 0..2
    BY DEF TypeOK, SeenEntry
  <2> QED BY <2>1, PolicyAssumption, OlderType
<1> QED BY <1>1, <1>2, <1>3, <1>4 DEF TypeOK, Tick

\* The initial states.
LEMMA InitType == Init => TypeOK
<1> SUFFICES ASSUME Init PROVE TypeOK
  OBVIOUS
<1>1. tier \in [Devices -> Tiers] /\ action \in [Devices -> Actions]
  BY DEF Init, Tiers, NORMAL, ISOLATE, Actions
<1>2. /\ sinceAction \in [Devices -> 0..FreqGuard]
      /\ calm \in [Devices -> NotCalm..AbateHold]
  BY PolicyAssumption DEF Init, NotCalm
<1>3. windows \in [Devices -> Seq(Tiers)] /\ \A e \in Devices : Len(windows[e]) <= BufLen
  BY PolicyAssumption DEF Init
<1>4. seen \in [Devices -> [Prefixes -> SeenEntry]]
  BY FreshEntryType DEF Init
<1> QED BY <1>1, <1>2, <1>3, <1>4 DEF TypeOK, Init

\* The four outcomes of evaluate() that leave the tier alone.
Passive(d, s, prefix, keyAge) == \/ Suppress(d, s, prefix, keyAge)
                                 \/ SameTier(d, s, prefix, keyAge)
                                 \/ HoldEscalation(d, s, prefix, keyAge)
                                 \/ HoldDemotion(d, s, prefix, keyAge)

LEMMA PassiveKeeps ==
    ASSUME NEW d, NEW s, NEW prefix, NEW keyAge, Passive(d, s, prefix, keyAge)
    PROVE  \E a \in Actions : Keep(d, s, a)
  BY DEF Passive, Suppress, SameTier, HoldEscalation, HoldDemotion, Actions

\* Escalation and demotion commit.
LEMMA EscalateCommits ==
    ASSUME NEW d, NEW s, NEW prefix, NEW keyAge, Escalate(d, s, prefix, keyAge)
    PROVE  \E a \in Actions : Commit(d, s, a)
  BY DEF Escalate, Actions

LEMMA DemoteCommits ==
    ASSUME NEW d, NEW s, NEW prefix, NEW keyAge, Demote(d, s, prefix, keyAge)
    PROVE  Commit(d, s, "DEESCALATE") /\ "DEESCALATE" \in Actions /\ UNCHANGED seen
  BY DEF Demote, Actions

\* An escalation records at most one well-formed dedup entry.
LEMMA EscalateSeenType ==
    ASSUME TypeOK, NEW d \in Devices, NEW s \in Signals,
           NEW prefix \in Prefixes \cup {NoPrefix}, NEW keyAge \in KeyAges,
           Escalate(d, s, prefix, keyAge)
    PROVE  seen' \in [Devices -> [Prefixes -> SeenEntry]]
<1>1. [age |-> 0, keyAge |-> keyAge] \in SeenEntry
  BY PolicyAssumption DEF SeenEntry, KeyAges
<1>2. CASE prefix # NoPrefix
  <2>1. prefix \in Prefixes
    BY <1>2
  <2> QED BY <1>1, <2>1 DEF TypeOK, Escalate
<1>3. CASE prefix = NoPrefix
  BY <1>3 DEF TypeOK, Escalate
<1> QED BY <1>2, <1>3

LEMMA EvaluateType ==
    ASSUME TypeOK, NEW d \in Devices, NEW s \in Signals,
           NEW prefix \in Prefixes \cup {NoPrefix}, NEW keyAge \in KeyAges,
           \/ Passive(d, s, prefix, keyAge)
           \/ Escalate(d, s, prefix, keyAge)
           \/ Demote(d, s, prefix, keyAge)
    PROVE  TypeOK'
<1>1. CASE Passive(d, s, prefix, keyAge)
  BY <1>1, PassiveKeeps, KeepType
<1>2. CASE Escalate(d, s, prefix, keyAge)
  BY <1>2, EscalateCommits, EscalateSeenType, CommitType
<1>3. CASE Demote(d, s, prefix, keyAge)
  BY <1>3, DemoteCommits, CommitType DEF TypeOK
<1> QED BY <1>1, <1>2, <1>3

\* Every state of the engine is well typed; in particular window_buf never
\* outgrows its bound.
THEOREM TypeCorrect == Spec => []TypeOK
<1>1. TypeOK /\ [Next]_vars => TypeOK'
  <2> SUFFICES ASSUME TypeOK, [Next]_vars PROVE TypeOK'
    OBVIOUS
  <2>1. ASSUME NEW d \in Devices, Evaluate(d) PROVE TypeOK'
    BY <2>1, EvaluateType DEF Evaluate, Passive
  <2>2. ASSUME NEW d \in Devices, Reset(d) PROVE TypeOK'
    BY <2>2, ResetType
  <2>3. CASE Tick
    BY <2>3, TickType
  <2>4. CASE UNCHANGED vars
    BY <2>4 DEF TypeOK, vars
  <2> QED BY <2>1, <2>2, <2>3, <2>4 DEF Next
<1> QED BY <1>1, InitType, PTL DEF Spec

-----------------------------------------------------------------------------
(* The engine with its observer.                                            *)

\* The observer does not disturb the engine.
LEMMA ObserverStep == [HNext]_hvars => [Next]_vars
  BY DEF HNext, HEvaluate, HReset, HTick, Next, Evaluate, hvars, vars

THEOREM ObserverIsPassive == HSpec => Spec
  BY ObserverStep, PTL DEF HSpec, HInit, Spec

\* What Remember keeps: the newest window is last, and the others keep their
\* distance to the end.
LEMMA RememberElements ==
    ASSUME NEW buf \in Seq(Tiers), Len(buf) <= BufLen, NEW want \in Tiers
    PROVE  LET m == Remember(buf, want)
           IN  /\ Len(m) \in Nat \ {0} /\ Len(m) <= Len(buf) + 1
               /\ m[Len(m)] = want
               /\ \A j \in 1..(Len(m) - 1) :
                      m[Len(m) - j] = buf[Len(buf) + 1 - j]
<1>1. BufLen \in Nat \ {0}
  BY PolicyAssumption
<1>2. CASE Len(buf) < BufLen
  BY <1>2 DEF Remember
<1>3. CASE ~(Len(buf) < BufLen)
  <2>1. Len(buf) = BufLen
    BY <1>1, <1>3
  <2>2. /\ Tail(buf) \in Seq(Tiers) /\ Len(Tail(buf)) = Len(buf) - 1
        /\ \A i \in 1..(Len(buf) - 1) : Tail(buf)[i] = buf[i + 1]
    BY <1>1, <2>1
  <2>3. Remember(buf, want) = Append(Tail(buf), want)
    BY <1>3 DEF Remember
  <2> QED BY <1>1, <2>1, <2>2, <2>3
<1> QED BY <1>2, <1>3

\* k wanting windows in the new buffer are the new one and k - 1 in the old.
LEMMA LastWantSplits ==
    ASSUME NEW buf \in Seq(Tiers), Len(buf) <= BufLen, NEW want \in Tiers,
           NEW t \in Tiers, NEW k \in 1..EscalateWins,
           LastWant(Remember(buf, want), t, k)
    PROVE  want >= t /\ (k > 1 => LastWant(buf, t, k - 1))
<1> DEFINE m == Remember(buf, want)
<1>1. /\ Len(m) \in Nat \ {0} /\ Len(m) <= Len(buf) + 1
      /\ m[Len(m)] = want
      /\ \A j \in 1..(Len(m) - 1) : m[Len(m) - j] = buf[Len(buf) + 1 - j]
  BY RememberElements
<1>2. k \in Nat \ {0} /\ k <= Len(m)
      /\ \A i \in (Len(m) - k + 1)..Len(m) : m[i] >= t
  BY PolicyAssumption DEF LastWant
<1> HIDE DEF m
<1>3. want >= t
  BY <1>1, <1>2
<1>4. ASSUME k > 1 PROVE LastWant(buf, t, k - 1)
  <2>1. Len(buf) \in Nat /\ k - 1 <= Len(buf)
    BY <1>1, <1>2
  <2>2. ASSUME NEW i \in (Len(buf) - (k - 1) + 1)..Len(buf) PROVE buf[i] >= t
    <3> DEFINE j == Len(buf) + 1 - i
    <3>1. j \in 1..(k - 1) /\ Len(buf) + 1 - j = i
      BY <1>2, <2>1
    <3>2. j \in 1..(Len(m) - 1) /\ (Len(m) - j) \in (Len(m) - k + 1)..Len(m)
      BY <1>1, <1>2, <3>1
    <3> HIDE DEF j
    <3>3. m[Len(m) - j] = buf[i] /\ m[Len(m) - j] >= t
      BY <1>1, <1>2, <3>1, <3>2
    <3> QED BY <3>3
  <2> QED BY <2>1, <2>2 DEF LastWant
<1> QED BY <1>3, <1>4

\* The saturation bound of the observer's clock covers both guards.
LEMMA MaxDwellBounds ==
    MaxDwell \in Nat /\ MaxDwell >= FreqGuard /\ MaxDwell >= AbateHold
  BY PolicyAssumption DEF MaxDwell

LEMMA ObserveType ==
    ASSUME HTypeOK, NEW d \in Devices, NEW s \in Signals, Observe(d, s)
    PROVE  /\ sinceHot' \in [Devices -> 0..AbateHold]
           /\ streak' \in [Devices -> [Tiers -> 0..EscalateWins]]
<1>1. sinceHot' \in [Devices -> 0..AbateHold]
  BY PolicyAssumption DEF HTypeOK, Observe
<1>2. [t \in Tiers |-> IF Decide(s) >= t THEN Older(streak[d][t], EscalateWins) ELSE 0]
         \in [Tiers -> 0..EscalateWins]
  <2> SUFFICES ASSUME NEW t \in Tiers
               PROVE  Older(streak[d][t], EscalateWins) \in 0..EscalateWins
    BY PolicyAssumption
  <2>1. streak[d][t] \in 0..EscalateWins
    BY DEF HTypeOK
  <2> QED BY <2>1, PolicyAssumption, OlderType
<1> QED BY <1>1, <1>2 DEF HTypeOK, Observe

\* Counting a wanting window.
LEMMA OlderCounts ==
    \A cap \in Nat \ {0} : \A age \in 0..cap : \A k \in 1..cap :
        age >= k - 1 => Older(age, cap) >= k
  BY DEF Older

\* Every recorded window is observed: the streaks stay as long as the buffer says.
LEMMA ObserveStreaks ==
    ASSUME HistoryInv, NEW d \in Devices, NEW s \in Signals,
           Record(d, s), Observe(d, s)
    PROVE  StreaksRemembered'
<1> SUFFICES ASSUME NEW e \in Devices, NEW t \in Tiers, NEW k \in 1..EscalateWins,
                    LastWant(windows'[e], t, k)
             PROVE  streak'[e][t] >= k
  BY DEF StreaksRemembered, LastWant
<1>1. CASE e # d
  <2>1. windows'[e] = windows[e] /\ streak'[e] = streak[e]
    BY <1>1 DEF Record, Observe, HistoryInv, HTypeOK, TypeOK
  <2> QED BY <2>1 DEF HistoryInv, StreaksRemembered
<1>2. CASE e = d
  <2>1. /\ windows[d] \in Seq(Tiers) /\ Len(windows[d]) <= BufLen
        /\ windows'[d] = Remember(windows[d], Decide(s))
    BY DEF Record, HistoryInv, HTypeOK, TypeOK
  <2>2. Decide(s) >= t /\ (k > 1 => LastWant(windows[d], t, k - 1))
    BY <1>2, <2>1, DecisionType, LastWantSplits
  <2>3. streak[d][t] \in 0..EscalateWins
    BY DEF HistoryInv, HTypeOK
  <2>4. streak'[d][t] = Older(streak[d][t], EscalateWins)
    BY <2>2 DEF Observe, HistoryInv, HTypeOK
  <2>5. streak[d][t] >= k - 1
    <3>1. CASE k = 1
      BY <2>3, <3>1
    <3>2. CASE k > 1
      <4>1. k - 1 \in 1..EscalateWins
        BY <3>2, PolicyAssumption
      <4> QED BY <2>2, <3>2, <4>1 DEF HistoryInv, StreaksRemembered
    <3> QED BY <3>1, <3>2
  <2> QED BY <1>2, <2>3, <2>4, <2>5, PolicyAssumption, OlderCounts
<1> QED BY <1>1, <1>2

-----------------------------------------------------------------------------
(* The dedup table and the timers, one lemma per kind of step.              *)

TimeInv == DedupOutlivedByTier /\ TimersAgree

\* A call that leaves the tier alone only moves the abatement timer, and only
\* back to none, or from none to zero.
LEMMA KeepTime ==
    ASSUME HistoryInv, NEW d \in Devices, NEW s \in Signals, NEW a,
           Keep(d, s, a), UNCHANGED dwell, Observe(d, s)
    PROVE  TimeInv'
<1> DEFINE c == Abatement(calm[d], ObservedP(s))
<1>1. /\ calm[d] \in NotCalm..AbateHold /\ dwell[d] \in 0..MaxDwell
      /\ sinceHot[d] \in 0..AbateHold /\ ObservedP(s) \in Percent
  BY DecisionType DEF HistoryInv, HTypeOK, TypeOK
<1>2. c \in {calm[d], 0, NotCalm} /\ (c # NotCalm => ObservedP(s) < AbateP)
  BY <1>1, AbatementCases
<1>3. /\ calm'[d] = c
      /\ \A e \in Devices \ {d} : calm'[e] = calm[e]
      /\ UNCHANGED <<tier, sinceAction, seen, dwell>>
  BY DEF Keep, HistoryInv, HTypeOK, TypeOK
<1> HIDE DEF c
<1>4. ASSUME NEW e \in Devices, NEW x \in Prefixes, seen[e][x].age < DedupWindow
      PROVE  tier[e] >= MITIGATE /\ calm'[e] <= seen[e][x].age
  <2>1. tier[e] >= MITIGATE /\ calm[e] <= seen[e][x].age /\ seen[e][x].age \in Nat
    BY <1>4, PolicyAssumption DEF HistoryInv, DedupOutlivedByTier, HTypeOK, TypeOK, SeenEntry
  <2> QED BY <1>1, <1>2, <1>3, <2>1 DEF NotCalm
<1>5. ASSUME NEW e \in Devices
      PROVE  /\ calm'[e] <= dwell[e]
             /\ calm'[e] # NotCalm => calm'[e] <= sinceHot'[e]
  <2>1. calm[e] <= dwell[e] /\ (calm[e] # NotCalm => calm[e] <= sinceHot[e])
    BY DEF HistoryInv, TimersAgree
  <2>2. CASE e = d
    <3>1. c # NotCalm => sinceHot'[d] = sinceHot[d]
      BY <1>1, <1>2, PolicyAssumption DEF Observe, Percent
    <3> QED BY <1>1, <1>2, <1>3, <2>1, <2>2, <3>1 DEF NotCalm
  <2>3. CASE e # d
    <3>1. sinceHot'[e] = sinceHot[e]
      BY <2>3 DEF Observe, HistoryInv, HTypeOK
    <3> QED BY <1>3, <2>1, <2>3, <3>1
  <2> QED BY <2>2, <2>3
<1>6. DedupOutlivedByTier'
  BY <1>3, <1>4 DEF DedupOutlivedByTier
<1>7. TimersAgree'
  BY <1>3, <1>5 DEF TimersAgree, HistoryInv
<1> QED BY <1>6, <1>7 DEF TimeInv

\* What a commit does to the timers.
LEMMA CommitTimers ==
    ASSUME HistoryInv, NEW d \in Devices, NEW s \in Signals, NEW a,
           Commit(d, s, a), dwell' = [dwell EXCEPT ![d] = 0], Observe(d, s)
    PROVE  /\ TimersAgree'
           /\ calm'[d] = NotCalm /\ tier'[d] = Decide(s)
           /\ \A e \in Devices \ {d} : calm'[e] = calm[e] /\ tier'[e] = tier[e]
<1>1. /\ calm'[d] = NotCalm /\ tier'[d] = Decide(s)
      /\ sinceAction'[d] = 0 /\ dwell'[d] = 0
  BY DEF Commit, HistoryInv, HTypeOK, TypeOK
<1>2. \A e \in Devices \ {d} :
          /\ calm'[e] = calm[e] /\ tier'[e] = tier[e]
          /\ sinceAction'[e] = sinceAction[e] /\ dwell'[e] = dwell[e]
          /\ sinceHot'[e] = sinceHot[e]
  BY DEF Commit, Observe, HistoryInv, HTypeOK, TypeOK
<1>3. ASSUME NEW e \in Devices
      PROVE  /\ sinceAction'[e] = IF dwell'[e] < FreqGuard THEN dwell'[e] ELSE FreqGuard
             /\ calm'[e] <= dwell'[e]
             /\ calm'[e] # NotCalm => calm'[e] <= sinceHot'[e]
  <2>1. CASE e = d
    BY <1>1, <2>1, PolicyAssumption DEF NotCalm
  <2>2. CASE e # d
    BY <1>2, <2>2 DEF HistoryInv, TimersAgree
  <2> QED BY <2>1, <2>2
<1> QED BY <1>1, <1>2, <1>3 DEF TimersAgree

\* An escalation raises the tier of every live dedup entry of the device.
LEMMA EscalateTime ==
    ASSUME HistoryInv, NEW d \in Devices, NEW s \in Signals,
           NEW prefix \in Prefixes \cup {NoPrefix}, NEW keyAge \in KeyAges,
           Escalate(d, s, prefix, keyAge),
           dwell' = [dwell EXCEPT ![d] = 0], Observe(d, s)
    PROVE  TimeInv'
<1>1. /\ TimersAgree'
      /\ calm'[d] = NotCalm /\ tier'[d] = Decide(s)
      /\ \A e \in Devices \ {d} : calm'[e] = calm[e] /\ tier'[e] = tier[e]
  BY EscalateCommits, CommitTimers
<1>2. ASSUME NEW e \in Devices, NEW x \in Prefixes, seen'[e][x].age < DedupWindow
      PROVE  tier'[e] >= MITIGATE /\ calm'[e] <= seen'[e][x].age
  <2>1. CASE e = d /\ x = prefix /\ Decide(s) = MITIGATE /\ prefix # NoPrefix
    <3>1. seen'[e][x].age = 0
      BY <2>1 DEF Escalate, HistoryInv, HTypeOK, TypeOK
    <3> QED BY <1>1, <2>1, <3>1 DEF NotCalm, MITIGATE
  <2>2. CASE ~(e = d /\ x = prefix /\ Decide(s) = MITIGATE /\ prefix # NoPrefix)
    <3>1. seen'[e][x] = seen[e][x]
      BY <2>2 DEF Escalate, HistoryInv, HTypeOK, TypeOK
    <3>2. tier[e] >= MITIGATE /\ calm[e] <= seen[e][x].age /\ seen[e][x].age \in Nat
      BY <1>2, <3>1, PolicyAssumption
      DEF HistoryInv, DedupOutlivedByTier, HTypeOK, TypeOK, SeenEntry
    <3>3. tier[e] \in Tiers /\ Decide(s) \in Tiers /\ (e = d => Decide(s) > tier[e])
      BY DecisionType DEF Escalate, HistoryInv, HTypeOK, TypeOK
    <3> QED BY <1>1, <3>1, <3>2, <3>3 DEF Tiers, NORMAL, ISOLATE, MITIGATE, NotCalm
  <2> QED BY <2>1, <2>2
<1>3. DedupOutlivedByTier'
  BY <1>2 DEF DedupOutlivedByTier
<1> QED BY <1>1, <1>3 DEF TimeInv

\* What a demotion can rely on: it goes to NORMAL, both guards have been kept,
\* no attack was seen for the whole abatement period, and no dedup entry of the
\* device is alive any more.
LEMMA DemoteFacts ==
    ASSUME HistoryInv, NEW d \in Devices, NEW s \in Signals,
           NEW prefix, NEW keyAge, Demote(d, s, prefix, keyAge)
    PROVE  /\ Decide(s) = NORMAL /\ ObservedP(s) < AbateP
           /\ dwell[d] >= FreqGuard /\ dwell[d] >= AbateHold
           /\ sinceHot[d] >= AbateHold
           /\ \A x \in Prefixes : ~(seen[d][x].age < DedupWindow)
<1> DEFINE c == Abatement(calm[d], ObservedP(s))
<1>1. /\ calm[d] \in NotCalm..AbateHold /\ dwell[d] \in 0..MaxDwell
      /\ sinceHot[d] \in 0..AbateHold /\ sinceAction[d] \in 0..FreqGuard
      /\ ObservedP(s) \in Percent
  BY DecisionType DEF HistoryInv, HTypeOK, TypeOK
<1>2. /\ c \in {calm[d], 0, NotCalm} /\ c # NotCalm /\ c >= AbateHold
      /\ ObservedP(s) < AbateP
  BY <1>1, AbatementCases DEF Demote, DemotionReady
<1> HIDE DEF c
<1>3. Decide(s) = NORMAL
  BY <1>1, <1>2, WantIsNotCalm, PolicyAssumption DEF Percent
<1>4. dwell[d] >= FreqGuard
  <2>1. ~(sinceAction[d] < FreqGuard)
    BY DEF Demote, DemotionReady, FreqBlocked
  <2>2. sinceAction[d] = IF dwell[d] < FreqGuard THEN dwell[d] ELSE FreqGuard
    BY DEF HistoryInv, TimersAgree
  <2> QED BY <1>1, <2>1, <2>2, MaxDwellBounds, PolicyAssumption
<1>5. calm[d] <= dwell[d] /\ (calm[d] # NotCalm => calm[d] <= sinceHot[d])
  BY DEF HistoryInv, TimersAgree
<1>6. dwell[d] >= AbateHold /\ sinceHot[d] >= AbateHold
  BY <1>1, <1>2, <1>5, MaxDwellBounds, PolicyAssumption DEF NotCalm
<1>7. ASSUME NEW x \in Prefixes, seen[d][x].age < DedupWindow PROVE FALSE
  <2>1. calm[d] <= seen[d][x].age /\ seen[d][x].age \in Nat
    BY <1>7, PolicyAssumption DEF HistoryInv, DedupOutlivedByTier, HTypeOK, TypeOK, SeenEntry
  <2> QED BY <1>1, <1>2, <1>7, <2>1, PolicyAssumption, TuningAssumption DEF NotCalm
<1> QED BY <1>2, <1>3, <1>4, <1>6, <1>7

LEMMA DemoteTime ==
    ASSUME HistoryInv, NEW d \in Devices, NEW s \in Signals,
           NEW prefix, NEW keyAge, Demote(d, s, prefix, keyAge),
           dwell' = [dwell EXCEPT ![d] = 0], Observe(d, s)
    PROVE  TimeInv'
<1>1. /\ TimersAgree'
      /\ \A e \in Devices \ {d} : calm'[e] = calm[e] /\ tier'[e] = tier[e]
  BY DemoteCommits, CommitTimers
<1>2. ASSUME NEW e \in Devices, NEW x \in Prefixes, seen'[e][x].age < DedupWindow
      PROVE  tier'[e] >= MITIGATE /\ calm'[e] <= seen'[e][x].age
  <2>1. seen' = seen /\ e # d
    BY <1>2, DemoteCommits, DemoteFacts
  <2> QED BY <1>1, <1>2, <2>1 DEF HistoryInv, DedupOutlivedByTier
<1>3. DedupOutlivedByTier'
  BY <1>2 DEF DedupOutlivedByTier
<1> QED BY <1>1, <1>3 DEF TimeInv

\* reset() starts from scratch.
LEMMA ResetTime ==
    ASSUME HistoryInv, NEW d \in Devices, HReset(d)
    PROVE  TimeInv' /\ StreaksRemembered'
<1>1. /\ windows'[d] = << >> /\ calm'[d] = NotCalm
      /\ sinceAction'[d] = FreqGuard /\ dwell'[d] = MaxDwell
      /\ \A x \in Prefixes : seen'[d][x] = FreshEntry
  BY DEF HReset, Reset, HistoryInv, HTypeOK, TypeOK
<1>2. \A e \in Devices \ {d} :
         /\ windows'[e] = windows[e] /\ calm'[e] = calm[e] /\ tier'[e] = tier[e]
         /\ sinceAction'[e] = sinceAction[e] /\ dwell'[e] = dwell[e]
         /\ sinceHot'[e] = sinceHot[e] /\ streak'[e] = streak[e]
         /\ seen'[e] = seen[e]
  BY DEF HReset, Reset, HistoryInv, HTypeOK, TypeOK
<1>3. DedupOutlivedByTier'
  <2> SUFFICES ASSUME NEW e \in Devices, NEW x \in Prefixes,
                      seen'[e][x].age < DedupWindow
               PROVE  tier'[e] >= MITIGATE /\ calm'[e] <= seen'[e][x].age
    BY DEF DedupOutlivedByTier
  <2>1. e # d
    BY <1>1, PolicyAssumption DEF FreshEntry
  <2> QED BY <1>2, <2>1 DEF HistoryInv, DedupOutlivedByTier
<1>4. TimersAgree'
  <2> SUFFICES ASSUME NEW e \in Devices
               PROVE  /\ sinceAction'[e] = IF dwell'[e] < FreqGuard THEN dwell'[e] ELSE FreqGuard
                      /\ calm'[e] <= dwell'[e]
                      /\ calm'[e] # NotCalm => calm'[e] <= sinceHot'[e]
    BY DEF TimersAgree
  <2>1. CASE e = d
    BY <1>1, <2>1, MaxDwellBounds, PolicyAssumption DEF NotCalm
  <2>2. CASE e # d
    BY <1>2, <2>2 DEF HistoryInv, TimersAgree
  <2> QED BY <2>1, <2>2
<1>5. StreaksRemembered'
  <2> SUFFICES ASSUME NEW e \in Devices, NEW t \in Tiers, NEW k \in 1..EscalateWins,
                      LastWant(windows'[e], t, k)
               PROVE  streak'[e][t] >= k
    BY DEF StreaksRemembered, LastWant
  <2>1. e # d
    BY <1>1, PolicyAssumption DEF LastWant
  <2> QED BY <1>2, <2>1 DEF HistoryInv, StreaksRemembered
<1> QED BY <1>3, <1>4, <1>5 DEF TimeInv

\* Time moves all clocks alike.
LEMMA TickTime ==
    ASSUME HistoryInv, HTick
    PROVE  TimeInv' /\ StreaksRemembered'
<1>1. DedupOutlivedByTier'
  <2> SUFFICES ASSUME NEW e \in Devices, NEW x \in Prefixes,
                      seen'[e][x].age < DedupWindow
               PROVE  tier'[e] >= MITIGATE /\ calm'[e] <= seen'[e][x].age
    BY DEF DedupOutlivedByTier
  <2>1. /\ seen[e][x].age \in 0..DedupWindow /\ calm[e] \in NotCalm..AbateHold
        /\ seen'[e][x].age = Older(seen[e][x].age, DedupWindow)
        /\ calm'[e] = IF calm[e] = NotCalm THEN NotCalm ELSE Older(calm[e], AbateHold)
        /\ tier'[e] = tier[e]
    BY DEF HTick, Tick, HistoryInv, HTypeOK, TypeOK, SeenEntry
  <2>2. seen[e][x].age < DedupWindow /\ seen'[e][x].age = seen[e][x].age + 1
    BY <2>1, PolicyAssumption DEF Older
  <2>3. tier[e] >= MITIGATE /\ calm[e] <= seen[e][x].age
    BY <2>2 DEF HistoryInv, DedupOutlivedByTier
  <2>4. calm'[e] <= seen[e][x].age + 1
    BY <2>1, <2>3, PolicyAssumption DEF Older, NotCalm
  <2> QED BY <2>1, <2>2, <2>3, <2>4
<1>2. TimersAgree'
  <2> SUFFICES ASSUME NEW e \in Devices
               PROVE  /\ sinceAction'[e] = IF dwell'[e] < FreqGuard THEN dwell'[e] ELSE FreqGuard
                      /\ calm'[e] <= dwell'[e]
                      /\ calm'[e] # NotCalm => calm'[e] <= sinceHot'[e]
    BY DEF TimersAgree
  <2>1. /\ sinceAction[e] \in 0..FreqGuard /\ calm[e] \in NotCalm..AbateHold
        /\ dwell[e] \in 0..MaxDwell /\ sinceHot[e] \in 0..AbateHold
    BY DEF HistoryInv, HTypeOK, TypeOK
  <2>2. /\ sinceAction'[e] = Older(sinceAction[e], FreqGuard)
        /\ calm'[e] = IF calm[e] = NotCalm THEN NotCalm ELSE Older(calm[e], AbateHold)
        /\ dwell'[e] = Older(dwell[e], MaxDwell)
        /\ sinceHot'[e] = Older(sinceHot[e], AbateHold)
    BY DEF HTick, Tick
  <2>3. /\ sinceAction[e] = IF dwell[e] < FreqGuard THEN dwell[e] ELSE FreqGuard
        /\ calm[e] <= dwell[e]
        /\ calm[e] # NotCalm => calm[e] <= sinceHot[e]
    BY DEF HistoryInv, TimersAgree
  <2>4. sinceAction'[e] = IF dwell'[e] < FreqGuard THEN dwell'[e] ELSE FreqGuard
    BY <2>1, <2>2, <2>3, MaxDwellBounds, PolicyAssumption DEF Older
  <2>5. calm'[e] <= dwell'[e]
    BY <2>1, <2>2, <2>3, MaxDwellBounds, PolicyAssumption DEF Older, NotCalm
  <2>6. calm'[e] # NotCalm => calm'[e] <= sinceHot'[e]
    BY <2>1, <2>2, <2>3, PolicyAssumption DEF Older, NotCalm
  <2> QED BY <2>4, <2>5, <2>6
<1>3. StreaksRemembered'
  BY DEF HTick, Tick, HistoryInv, StreaksRemembered, LastWant
<1> QED BY <1>1, <1>2, <1>3 DEF TimeInv

-----------------------------------------------------------------------------
(* The inductive invariant.                                                 *)

LEMMA HInitInv == HInit => HistoryInv
<1> SUFFICES ASSUME HInit PROVE HistoryInv
  OBVIOUS
<1>1. TypeOK
  BY InitType DEF HInit
<1>2. HTypeOK
  BY <1>1, MaxDwellBounds, PolicyAssumption DEF HTypeOK, HInit
<1>3. DedupOutlivedByTier
  BY PolicyAssumption DEF DedupOutlivedByTier, HInit, Init, FreshEntry
<1>4. TimersAgree
  BY MaxDwellBounds, PolicyAssumption DEF TimersAgree, HInit, Init, NotCalm
<1>5. StreaksRemembered
  BY PolicyAssumption DEF StreaksRemembered, LastWant, HInit, Init
<1> QED BY <1>2, <1>3, <1>4, <1>5 DEF HistoryInv

\* One observed evaluate() call, by its outcome.
HPassive(d, s, prefix, keyAge) ==
    Passive(d, s, prefix, keyAge) /\ UNCHANGED dwell /\ Observe(d, s)
HEscalate(d, s, prefix, keyAge) ==
    /\ Escalate(d, s, prefix, keyAge)
    /\ dwell' = [dwell EXCEPT ![d] = 0] /\ Observe(d, s)
HDemote(d, s, prefix, keyAge) ==
    /\ Demote(d, s, prefix, keyAge)
    /\ dwell' = [dwell EXCEPT ![d] = 0] /\ Observe(d, s)

LEMMA HEvaluateCases ==
    ASSUME NEW d, HEvaluate(d)
    PROVE  \E s \in Signals, prefix \in Prefixes \cup {NoPrefix}, keyAge \in KeyAges :
              \/ HPassive(d, s, prefix, keyAge)
              \/ HEscalate(d, s, prefix, keyAge)
              \/ HDemote(d, s, prefix, keyAge)
  BY DEF HEvaluate, HPassive, HEscalate, HDemote, Passive

LEMMA HEvaluateInv ==
    ASSUME HistoryInv, NEW d \in Devices, HEvaluate(d)
    PROVE  HistoryInv'
<1> PICK s \in Signals, prefix \in Prefixes \cup {NoPrefix}, keyAge \in KeyAges :
             \/ HPassive(d, s, prefix, keyAge)
             \/ HEscalate(d, s, prefix, keyAge)
             \/ HDemote(d, s, prefix, keyAge)
  BY HEvaluateCases
<1>1. TypeOK'
  BY EvaluateType DEF HPassive, HEscalate, HDemote, HistoryInv, HTypeOK
<1>2. Observe(d, s) /\ Record(d, s)
  BY PassiveKeeps, EscalateCommits, DemoteCommits
  DEF HPassive, HEscalate, HDemote, Keep, Commit
<1>3. dwell' \in [Devices -> 0..MaxDwell]
  BY MaxDwellBounds DEF HPassive, HEscalate, HDemote, HistoryInv, HTypeOK
<1>4. HTypeOK'
  BY <1>1, <1>2, <1>3, ObserveType DEF HTypeOK, HistoryInv, MaxDwell
<1>5. StreaksRemembered'
  BY <1>2, ObserveStreaks
<1>6. TimeInv'
  <2>1. CASE HPassive(d, s, prefix, keyAge)
    BY <2>1, PassiveKeeps, KeepTime DEF HPassive
  <2>2. CASE HEscalate(d, s, prefix, keyAge)
    BY <2>2, EscalateTime DEF HEscalate
  <2>3. CASE HDemote(d, s, prefix, keyAge)
    BY <2>3, DemoteTime DEF HDemote
  <2> QED BY <2>1, <2>2, <2>3
<1> QED BY <1>4, <1>5, <1>6 DEF HistoryInv, TimeInv

LEMMA HNextInv == HistoryInv /\ [HNext]_hvars => HistoryInv'
<1> SUFFICES ASSUME HistoryInv, [HNext]_hvars PROVE HistoryInv'
  OBVIOUS
<1>1. ASSUME NEW d \in Devices, HEvaluate(d) PROVE HistoryInv'
  BY <1>1, HEvaluateInv
<1>2. ASSUME NEW d \in Devices, HReset(d) PROVE HistoryInv'
  <2>1. TypeOK'
    BY <1>2, ResetType DEF HReset, HistoryInv, HTypeOK
  <2>2. /\ dwell' \in [Devices -> 0..MaxDwell]
        /\ sinceHot' \in [Devices -> 0..AbateHold]
        /\ streak' \in [Devices -> [Tiers -> 0..EscalateWins]]
    BY <1>2, MaxDwellBounds, PolicyAssumption DEF HReset, HistoryInv, HTypeOK
  <2> QED BY <1>2, <2>1, <2>2, ResetTime DEF HistoryInv, HTypeOK, TimeInv, MaxDwell
<1>3. CASE HTick
  <2>1. TypeOK'
    BY <1>3, TickType DEF HTick, HistoryInv, HTypeOK
  <2>2. /\ dwell' \in [Devices -> 0..MaxDwell]
        /\ sinceHot' \in [Devices -> 0..AbateHold]
        /\ streak' \in [Devices -> [Tiers -> 0..EscalateWins]]
    BY <1>3, MaxDwellBounds, PolicyAssumption, OlderType DEF HTick, HistoryInv, HTypeOK
  <2> QED BY <1>3, <2>1, <2>2, TickTime DEF HistoryInv, HTypeOK, TimeInv, MaxDwell
<1>4. CASE UNCHANGED hvars
  BY <1>4 DEF hvars, HistoryInv, HTypeOK, TypeOK, DedupOutlivedByTier, TimersAgree,
              StreaksRemembered, LastWant, MaxDwell
<1> QED BY <1>1, <1>2, <1>3, <1>4 DEF HNext

\* The timers, the dedup table, the window buffer and the tier stay coherent in
\* every reachable state.
THEOREM HistoryInvariant == HSpec => []HistoryInv
  BY HInitInv, HNextInv, PTL DEF HSpec

\* The engine's variables and the observer's keep their types.
THEOREM HistoryTypes == HSpec => []HTypeOK
<1>1. HistoryInv => HTypeOK
  BY DEF HistoryInv
<1> QED BY <1>1, HistoryInvariant, PTL

-----------------------------------------------------------------------------
(* The properties.                                                          *)

\* The early return for duplicate Tier-3 events is only ever taken by a device
\* that is already mitigating, so it cannot swallow a needed escalation.
THEOREM DedupSafe == HSpec => []DedupOnlyWhileMitigating
<1>1. HistoryInv => DedupOnlyWhileMitigating
  BY DEF HistoryInv, DedupOutlivedByTier, DedupOnlyWhileMitigating
<1> QED BY <1>1, HistoryInvariant, PTL

\* The abatement timer never claims more calm than was observed.
THEOREM CalmTimerHonest == HSpec => []CalmTimerIsHonest
<1>1. HistoryInv => CalmTimerIsHonest
  BY DEF HistoryInv, TimersAgree, CalmTimerIsHonest
<1> QED BY <1>1, HistoryInvariant, PTL

\* How a step of the observed engine can move a tier.
LEMMA TierMoves ==
    ASSUME HistoryInv, [HNext]_hvars, NEW d \in Devices, tier'[d] # tier[d]
    PROVE  \/ \E s \in Signals, prefix \in Prefixes \cup {NoPrefix}, keyAge \in KeyAges :
                \/ HEscalate(d, s, prefix, keyAge)
                \/ HDemote(d, s, prefix, keyAge)
           \/ HReset(d)
<1>1. ASSUME NEW e \in Devices, HEvaluate(e)
      PROVE  e = d /\ \E s \in Signals, prefix \in Prefixes \cup {NoPrefix}, keyAge \in KeyAges :
                \/ HEscalate(e, s, prefix, keyAge)
                \/ HDemote(e, s, prefix, keyAge)
  <2> PICK s \in Signals, prefix \in Prefixes \cup {NoPrefix}, keyAge \in KeyAges :
               \/ HPassive(e, s, prefix, keyAge)
               \/ HEscalate(e, s, prefix, keyAge)
               \/ HDemote(e, s, prefix, keyAge)
    BY <1>1, HEvaluateCases
  <2>1. CASE HPassive(e, s, prefix, keyAge)
    BY <2>1, PassiveKeeps DEF HPassive, Keep
  <2>2. CASE HEscalate(e, s, prefix, keyAge) \/ HDemote(e, s, prefix, keyAge)
    <3>1. tier' = [tier EXCEPT ![e] = Decide(s)]
      BY <2>2, EscalateCommits, DemoteCommits DEF HEscalate, HDemote, Commit
    <3>2. e = d
      BY <3>1 DEF HistoryInv, HTypeOK, TypeOK
    <3> QED BY <2>2, <3>2
  <2> QED BY <2>1, <2>2
<1>2. ASSUME NEW e \in Devices, HReset(e) PROVE e = d
  BY <1>2 DEF HReset, Reset, HistoryInv, HTypeOK, TypeOK
<1>3. ~HTick /\ ~UNCHANGED hvars
  BY DEF HTick, Tick, hvars
<1> QED BY <1>1, <1>2, <1>3 DEF HNext

\* A device leaves a tier downwards only for NORMAL.
THEOREM DemotionsAreFull == HSpec => DemotionsReachNormal
<1>1. ASSUME HistoryInv, [HNext]_hvars, NEW d \in Devices, tier'[d] < tier[d]
      PROVE  tier'[d] = NORMAL
  <2>1. tier[d] \in Tiers
    BY <1>1 DEF HistoryInv, HTypeOK, TypeOK
  <2>2. tier'[d] # tier[d]
    BY <1>1, <2>1 DEF Tiers, NORMAL, ISOLATE
  <2>3. CASE HReset(d)
    BY <2>3, <1>1 DEF HReset, Reset, HistoryInv, HTypeOK, TypeOK
  <2>4. ASSUME NEW s \in Signals, NEW prefix \in Prefixes \cup {NoPrefix},
               NEW keyAge \in KeyAges,
               HEscalate(d, s, prefix, keyAge) \/ HDemote(d, s, prefix, keyAge)
        PROVE  tier'[d] = NORMAL
    <3>1. tier'[d] = Decide(s) /\ Decide(s) \in Tiers
      BY <1>1, <2>4, EscalateCommits, DemoteCommits, DecisionType
      DEF HEscalate, HDemote, Commit, HistoryInv, HTypeOK, TypeOK
    <3>2. ~HEscalate(d, s, prefix, keyAge)
      BY <1>1, <2>1, <3>1 DEF HEscalate, Escalate, Tiers, NORMAL, ISOLATE
    <3> QED BY <1>1, <2>4, <3>1, <3>2, DemoteFacts DEF HDemote
  <2> QED BY <1>1, <2>2, <2>3, <2>4, TierMoves
<1>2. HistoryInv /\ [HNext]_hvars
        => [\A d \in Devices : tier'[d] < tier[d] => tier'[d] = NORMAL]_hvars
  BY <1>1
<1> QED BY <1>2, HistoryInvariant, PTL DEF HSpec, DemotionsReachNormal

\* No demotion before a whole abatement period without an attack window.
THEOREM DemotionsAreCalm == HSpec => DemotionNeedsSustainedCalm
<1>1. ASSUME HistoryInv, [HNext]_hvars, NEW d \in Devices,
             action'[d] = "DEESCALATE", tier'[d] # tier[d]
      PROVE  sinceHot[d] >= AbateHold
  <2>1. ~HReset(d)
    BY <1>1 DEF HReset, Reset, HistoryInv, HTypeOK, TypeOK
  <2>2. ASSUME NEW s \in Signals, NEW prefix \in Prefixes \cup {NoPrefix},
               NEW keyAge \in KeyAges
        PROVE  ~HEscalate(d, s, prefix, keyAge)
    BY <1>1 DEF HEscalate, Escalate, Commit, HistoryInv, HTypeOK, TypeOK
  <2> QED BY <1>1, <2>1, <2>2, TierMoves, DemoteFacts DEF HDemote
<1>2. HistoryInv /\ [HNext]_hvars
        => [\A d \in Devices : action'[d] = "DEESCALATE" /\ tier'[d] # tier[d]
               => sinceHot[d] >= AbateHold]_hvars
  BY <1>1
<1> QED BY <1>2, HistoryInvariant, PTL DEF HSpec, DemotionNeedsSustainedCalm

\* No escalation without EscalateWins consecutive windows that want it.
THEOREM EscalationsAreSustained == HSpec => EscalationNeedsStreak
<1>1. ASSUME HistoryInv, [HNext]_hvars, NEW d \in Devices, tier'[d] > tier[d]
      PROVE  streak'[d][tier'[d]] >= EscalateWins
  <2>1. tier[d] \in Tiers /\ HistoryInv'
    BY <1>1, HNextInv DEF HistoryInv, HTypeOK, TypeOK
  <2>2. tier'[d] # tier[d]
    BY <1>1, <2>1 DEF Tiers, NORMAL, ISOLATE
  <2>3. ~HReset(d)
    BY <1>1, <2>1 DEF HReset, Reset, HistoryInv, HTypeOK, TypeOK, Tiers, NORMAL, ISOLATE
  <2>4. ASSUME NEW s \in Signals, NEW prefix \in Prefixes \cup {NoPrefix},
               NEW keyAge \in KeyAges
        PROVE  ~HDemote(d, s, prefix, keyAge)
    <3> SUFFICES ASSUME HDemote(d, s, prefix, keyAge) PROVE FALSE
      OBVIOUS
    <3>1. tier'[d] = Decide(s) /\ Decide(s) = NORMAL
      BY <1>1, DemoteCommits, DemoteFacts DEF HDemote, Commit, HistoryInv, HTypeOK, TypeOK
    <3> QED BY <1>1, <2>1, <3>1 DEF Tiers, NORMAL, ISOLATE
  <2>5. ASSUME NEW s \in Signals, NEW prefix \in Prefixes \cup {NoPrefix},
               NEW keyAge \in KeyAges, HEscalate(d, s, prefix, keyAge)
        PROVE  streak'[d][tier'[d]] >= EscalateWins
    <3>1. /\ tier'[d] = Decide(s) /\ Decide(s) \in Tiers
          /\ windows'[d] = Remember(windows[d], Decide(s))
      BY <1>1, <2>5, EscalateCommits, DecisionType
      DEF HEscalate, Commit, Record, HistoryInv, HTypeOK, TypeOK
    <3>2. LastWant(windows'[d], Decide(s), EscalateWins)
      BY <2>5, <3>1, PolicyAssumption
      DEF HEscalate, Escalate, EscalationReady, Sustained, LastWant
    <3>3. EscalateWins \in 1..EscalateWins
      BY PolicyAssumption
    <3> QED BY <2>1, <3>1, <3>2, <3>3 DEF HistoryInv, StreaksRemembered, LastWant
  <2> QED BY <1>1, <2>2, <2>3, <2>4, <2>5, TierMoves
<1>2. HistoryInv /\ [HNext]_hvars
        => [\A d \in Devices : tier'[d] > tier[d]
               => streak'[d][tier'[d]] >= EscalateWins]_hvars
  BY <1>1
<1> QED BY <1>2, HistoryInvariant, PTL DEF HSpec, EscalationNeedsStreak

-----------------------------------------------------------------------------
(* The engine implements the abstract graduated response.                   *)

\* A commit is one abstract move of the device.
LEMMA CommitMoves ==
    ASSUME NEW d \in Devices, NEW s \in Signals, NEW a, Commit(d, s, a)
    PROVE  tier' = [tier EXCEPT ![d] = Decide(s)]
  BY DEF Commit

\* Escalations are Raise steps, demotions Relax, resets Forget, ticks Pass;
\* everything else the engine does is invisible in the abstract view.
THEOREM EngineImplementsResponse == HSpec => ImplementsGraduatedResponse
<1>1. HInit => Abstract!Init
  BY DEF HInit, Init, Abstract!Init, Abstract!MaxDwell, MaxDwell, NORMAL
<1>2. HistoryInv /\ [HNext]_hvars => [Abstract!Next]_(Abstract!gvars)
  <2> SUFFICES ASSUME HistoryInv, [HNext]_hvars
               PROVE  Abstract!Next \/ UNCHANGED <<tier, dwell>>
    BY DEF Abstract!gvars
  <2>1. ASSUME NEW d \in Devices, HEvaluate(d)
        PROVE  Abstract!Next \/ UNCHANGED <<tier, dwell>>
    <3> PICK s \in Signals, prefix \in Prefixes \cup {NoPrefix}, keyAge \in KeyAges :
                 \/ HPassive(d, s, prefix, keyAge)
                 \/ HEscalate(d, s, prefix, keyAge)
                 \/ HDemote(d, s, prefix, keyAge)
      BY <2>1, HEvaluateCases
    <3>1. CASE HPassive(d, s, prefix, keyAge)
      BY <3>1, PassiveKeeps DEF HPassive, Keep
    <3>2. CASE HEscalate(d, s, prefix, keyAge)
      <4>1. dwell[d] >= FreqGuard
        <5>1. ~(sinceAction[d] < FreqGuard)
          BY <3>2 DEF HEscalate, Escalate, EscalationReady, FreqBlocked
        <5>2. /\ dwell[d] \in 0..MaxDwell
              /\ sinceAction[d] = IF dwell[d] < FreqGuard THEN dwell[d] ELSE FreqGuard
          BY DEF HistoryInv, HTypeOK, TimersAgree
        <5> QED BY <5>1, <5>2, MaxDwellBounds, PolicyAssumption
      <4>2. /\ Decide(s) \in Abstract!TierRange /\ Decide(s) > tier[d]
            /\ tier' = [tier EXCEPT ![d] = Decide(s)]
            /\ dwell' = [dwell EXCEPT ![d] = 0]
        BY <3>2, DecisionType, EscalateCommits, CommitMoves
        DEF HEscalate, Escalate, Abstract!TierRange, Tiers, NORMAL, ISOLATE
      <4>3. Abstract!Raise(d)
        BY <4>1, <4>2 DEF Abstract!Raise
      <4> QED BY <4>3 DEF Abstract!Next
    <3>3. CASE HDemote(d, s, prefix, keyAge)
      <4>1. /\ Decide(s) = 0
            /\ dwell[d] >= FreqGuard /\ dwell[d] >= AbateHold
        BY <3>3, DemoteFacts DEF HDemote, NORMAL
      <4>2. /\ tier[d] > 0
            /\ tier' = [tier EXCEPT ![d] = 0]
            /\ dwell' = [dwell EXCEPT ![d] = 0]
        BY <3>3, <4>1, DemoteCommits, CommitMoves
        DEF HDemote, Demote, HistoryInv, HTypeOK, TypeOK, Tiers, NORMAL, ISOLATE
      <4>3. Abstract!Relax(d)
        BY <4>1, <4>2 DEF Abstract!Relax
      <4> QED BY <4>3 DEF Abstract!Next
    <3> QED BY <3>1, <3>2, <3>3
  <2>2. ASSUME NEW d \in Devices, HReset(d)
        PROVE  Abstract!Next \/ UNCHANGED <<tier, dwell>>
    <3>1. Abstract!Forget(d)
      BY <2>2 DEF HReset, Reset, Abstract!Forget, Abstract!MaxDwell, MaxDwell, NORMAL
    <3> QED BY <3>1 DEF Abstract!Next
  <2>3. CASE HTick
    <3>1. Abstract!Pass
      BY <2>3 DEF HTick, Tick, Older, Abstract!Pass, Abstract!MaxDwell, MaxDwell
    <3> QED BY <3>1 DEF Abstract!Next
  <2>4. CASE UNCHANGED hvars
    BY <2>4 DEF hvars
  <2> QED BY <2>1, <2>2, <2>3, <2>4 DEF HNext
<1> QED BY <1>1, <1>2, HistoryInvariant, PTL
        DEF HSpec, ImplementsGraduatedResponse, Abstract!Spec

=============================================================================
