-------------------------- MODULE AlgorithmProofs --------------------------
(***************************************************************************)
(* The decision of M3 for every payload and every choice of its thresholds, *)
(* the outputs of older models, the allocator for any number of tenants,    *)
(* and the routes of the fat-tree for every size.                           *)
(***************************************************************************)
EXTENDS Algorithms, SequenceTheorems, WellFoundedInduction, TLAPS

USE ThresholdsAssumption DEF ThresholdsAssumption

\* A set of numbers has a least one.
LEMMA LeastOf ==
    ASSUME NEW S \in SUBSET Nat, S # {}
    PROVE  \E x \in S : \A y \in S : x <= y
<1>. DEFINE R == { ss \in Nat \X Nat : ss[1] < ss[2] }
<1>1. IsWellFoundedOn(R, Nat)
  BY NatLessThanWellFounded DEF OpToRel
<1>2. \E x \in S : \A y \in S : ~ (<<y, x>> \in R)
  <2>. HIDE DEF R
  <2>. QED  BY <1>1, WFMin
<1>3. PICK x \in S : \A y \in S : ~ (<<y, x>> \in R)
  BY <1>2
<1>4. \A y \in S : x <= y
  <2>. SUFFICES ASSUME NEW y \in S PROVE x <= y
    OBVIOUS
  <2>1. ~ (y < x)
    BY <1>3
  <2>. QED  BY <2>1
<1>. QED  BY <1>4

\* Induction up to n, for a set of numbers.
LEMMA UpTo ==
    ASSUME NEW m \in Nat, NEW n \in Nat, NEW A, m \in A \/ n < m,
           \A i \in m..n : i \in A /\ i + 1 <= n => i + 1 \in A
    PROVE  m..n \subseteq A
<1>. DEFINE B == (m..n) \ A
<1>. SUFFICES ASSUME B # {} PROVE FALSE
  OBVIOUS
<1>1. B \in SUBSET Nat
  OBVIOUS
<1>2. PICK x \in B : \A y \in B : x <= y
  BY <1>1, LeastOf
<1>3. x # m
  OBVIOUS
<1>4. x - 1 \in m..n /\ x - 1 \notin B
  BY <1>2, <1>3
<1>5. x - 1 \in A /\ (x - 1) + 1 = x /\ x <= n
  BY <1>4
<1>. QED  BY <1>4, <1>5

\* What arrives as a result is a payload of inference_layer.py.
LEMMA ResultsArePayloads == Results \subseteq Payloads
BY InputsAssumption DEF InputsAssumption

\* The tiers of tier_mapper.py as numbers.
LEMMA TiersInOrder ==
    NORMAL = 0 /\ ALERT = 1 /\ PREEMPT = 2 /\ MITIGATE = 3 /\ ISOLATE = 4
BY DEF NORMAL, ALERT, PREEMPT, MITIGATE, ISOLATE

\* The severities of tier_mapper.py as numbers.
LEMMA SeveritiesInOrder == INFO = 0 /\ MINOR = 1 /\ MAJOR = 2 /\ CRITICAL = 3
BY DEF INFO, MINOR, MAJOR, CRITICAL

\* A chain of integer comparisons on the fields of a payload.
LEMMA Fields ==
    ASSUME NEW s \in Payloads
    PROVE  s.conf \in Int /\ s.p1 \in Int /\ s.p5 \in Int /\ s.p15 \in Int
           /\ s.type \in AttackTypes
BY DEF Payloads, Percent

\* Every input comes from the sets that Arrive chooses from.
LEMMA InputFrom == Spec => [](input \in Results \cup Others)
<1>1. Init => input \in Results \cup Others
  BY DEF Init
<1>2. input \in Results \cup Others /\ [Arrive]_input => (input \in Results \cup Others)'
  BY DEF Arrive
<1>. QED  BY <1>1, <1>2, PTL DEF Spec

\* The kind of an input says which set it comes from.
LEMMA KindOfInput ==
    ASSUME NEW i \in Results \cup Others
    PROVE  /\ i.kind = "result" => i \in Payloads
           /\ i.kind = "legacy" => i.p120 \in Percent
           /\ i.kind = "old" => i.v \in OldVectors
           /\ i.kind = "link" => i \in Links
           /\ i.kind = "flow" => /\ i.k \in TreeSizes /\ i.src \in Tree!Hosts(i.k)
                                 /\ i.dst \in Tree!Hosts(i.k) /\ i.src # i.dst
<1>1. CASE i \in Results
  <2>1. i.kind = "result" /\ i \in Payloads
    BY <1>1, ResultsArePayloads DEF Payloads
  <2>. QED  BY <2>1
<1>2. CASE i \in [kind : {"legacy"}, p120 : Percent]
  BY <1>2
<1>3. CASE i \in [kind : {"old"}, v : OldVectors]
  BY <1>3
<1>4. CASE i \in Loads
  <2>1. i \in Links /\ i.kind = "link"
    BY <1>4, InputsAssumption DEF InputsAssumption, Links
  <2>. QED  BY <2>1
<1>5. CASE i \in { f \in Flows : f.src # f.dst }
  <2>1. PICK k \in TreeSizes : i \in { [kind |-> "flow", k |-> k, src |-> s, dst |-> d] :
                                         s \in Tree!Hosts(k), d \in Tree!Hosts(k) }
    BY <1>5 DEF Flows
  <2>2. PICK s \in Tree!Hosts(k), d \in Tree!Hosts(k) :
            i = [kind |-> "flow", k |-> k, src |-> s, dst |-> d]
    BY <2>1
  <2>. QED  BY <1>5, <2>2
<1>. QED  BY <1>1, <1>2, <1>3, <1>4, <1>5 DEF Others

\* decide() on two payloads of which the second shows more of the attack.
LEMMA MoreEvidence ==
    ASSUME NEW s1 \in Payloads, NEW s2 \in Payloads, Worse(s1, s2)
    PROVE  Decide(s2) >= Decide(s1)
<1>1. ShortCircuit(s2) => ShortCircuit(s1) \/ ComputeTier(s1) = NORMAL
  <2>. SUFFICES ASSUME ShortCircuit(s2) PROVE ShortCircuit(s1)
    OBVIOUS
  <2>1. s1.type = "BENIGN"
    BY DEF Worse, ShortCircuit
  <2>2. s1.conf < P15T1 /\ s1.p15 < P15T1
    BY Fields DEF Worse, ShortCircuit
  <2>. QED  BY <2>1, <2>2 DEF ShortCircuit
<1>2. ComputeTier(s2) >= ComputeTier(s1)
  BY Fields, TiersInOrder DEF Worse, ComputeTier
<1>3. ComputeTier(s2) >= NORMAL
  BY TiersInOrder DEF ComputeTier
<1>4. NORMAL >= NORMAL
  BY TiersInOrder
<1>. QED  BY <1>1, <1>2, <1>3, <1>4 DEF Decide

\* decide() never answers more evidence with a lower tier, whatever the thresholds.
THEOREM ResponseIsMonotone ==
    /\ \A s1, s2 \in Payloads : Worse(s1, s2) => Decide(s2) >= Decide(s1)
    /\ Spec => MonotoneResponse
<1>1. Spec => [](input \in Results \cup Others)
  BY InputFrom
<1>2. input \in Results \cup Others /\ [Arrive]_input =>
        [IsResult /\ Worse(input, input') => Decide(input') >= Decide(input)]_input
  <2>. SUFFICES ASSUME input \in Results \cup Others, Arrive, IsResult,
                       Worse(input, input')
                PROVE  Decide(input') >= Decide(input)
    OBVIOUS
  <2>1. input' \in Results
    BY DEF Arrive, IsResult
  <2>2. input \in Payloads
    BY KindOfInput DEF IsResult
  <2>. QED  BY <2>1, <2>2, ResultsArePayloads, MoreEvidence
<1>3. Spec => MonotoneResponse
  BY <1>1, <1>2, PTL DEF Spec, MonotoneResponse
<1>. QED  BY <1>3, MoreEvidence

\* The severity chain and the tier chain, side by side.
LEMMA AlarmFits ==
    ASSUME P1T3 <= 95, SameHorizons, NEW s \in Payloads
    PROVE  LET t == Decide(s)
               v == Severity(s)
           IN  /\ t = ISOLATE => v = CRITICAL
               /\ t = MITIGATE => v >= MAJOR
               /\ t = PREEMPT => v = MINOR
               /\ s.type # "BENIGN" =>
                      /\ v >= MAJOR => t >= MITIGATE
                      /\ v = MINOR => t = PREEMPT
                      /\ PrePosition(s) => t >= ALERT
               /\ t = PREEMPT => PrePosition(s)
<1>1. PrePosition(s) <=> s.p1 < P1T3 /\ (s.p5 >= P5T2 \/ s.p15 >= P15T1)
  BY Fields DEF PrePosition, TriggeredHorizon, SameHorizons
<1>2. /\ ComputeTier(s) = ISOLATE => Severity(s) = CRITICAL
      /\ ComputeTier(s) = MITIGATE => Severity(s) >= MAJOR
      /\ ComputeTier(s) = PREEMPT => Severity(s) = MINOR
      /\ Severity(s) >= MAJOR => ComputeTier(s) >= MITIGATE
      /\ Severity(s) = MINOR => ComputeTier(s) = PREEMPT
  BY Fields, TiersInOrder, SeveritiesInOrder DEF ComputeTier, Severity
<1>3. /\ s.p1 < P1T3 /\ (s.p5 >= P5T2 \/ s.p15 >= P15T1) => ComputeTier(s) >= ALERT
      /\ ComputeTier(s) = PREEMPT => s.p1 < P1T3 /\ s.p5 >= P5T2
  BY Fields, TiersInOrder DEF ComputeTier
<1>4. Decide(s) = ComputeTier(s) \/ (Decide(s) = NORMAL /\ s.type = "BENIGN")
  BY DEF Decide, ShortCircuit
<1>. QED  BY <1>1, <1>2, <1>3, <1>4, TiersInOrder

\* An input that is a result is a payload.
LEMMA InputIsResult == Spec => [](IsResult => input \in Payloads)
<1>1. input \in Results \cup Others => (IsResult => input \in Payloads)
  BY KindOfInput DEF IsResult
<1>. QED  BY <1>1, InputFrom, PTL

\* The alarm that goes with a payload fits its tier, as long as the forecast that
\* raises MITIGATE is not above the one that is CRITICAL by itself and both tables
\* of horizons agree.
THEOREM AlarmsFit ==
    ASSUME P1T3 <= 95, SameHorizons
    PROVE  Spec => []AlarmAgreesWithTier
<1>1. (IsResult => input \in Payloads) => AlarmAgreesWithTier
  BY AlarmFits DEF AlarmAgreesWithTier
<1>. QED  BY <1>1, InputIsResult, PTL

\* For a detected attack, what decide() names can be deployed.
THEOREM AttacksAreDeployable == Spec => []DetectedAttackIsDeployable
<1>1. ASSUME NEW s \in Payloads, s.type # "BENIGN", NEW t \in Tiers
      PROVE  IF t >= PREEMPT THEN CnfProfile(t, s.type) \in Catalog
                             ELSE CnfProfile(t, s.type) = NoProfile
  <2>1. s.type \in {"Amplification", "Syn", "UDP-lag", "WebDDoS"}
    BY <1>1, Fields DEF AttackTypes
  <2>2. CASE t \in {NORMAL, ALERT}
    BY <2>2, TiersInOrder DEF CnfProfile
  <2>3. CASE t = PREEMPT
    BY <2>3, TiersInOrder DEF CnfProfile, Catalog
  <2>4. CASE t = MITIGATE
    BY <2>1, <2>4, TiersInOrder DEF CnfProfile, CnfOfType, Catalog
  <2>5. CASE t = ISOLATE
    BY <2>5, TiersInOrder DEF CnfProfile, Catalog
  <2>. QED  BY <1>1, <2>2, <2>3, <2>4, <2>5, TiersInOrder DEF Tiers
<1>2. ASSUME NEW s \in Payloads PROVE Decide(s) \in Tiers
  BY TiersInOrder DEF Decide, ComputeTier, Tiers
<1>3. (IsResult => input \in Payloads) => DetectedAttackIsDeployable
  BY <1>1, <1>2 DEF DetectedAttackIsDeployable
<1>. QED  BY <1>3, InputIsResult, PTL

\* As long as the thresholds agree wherever they are written down, the severity
\* chains of the coalescer, of build_payload and of M3 are one, and a missing half
\* never raises the alarm.
THEOREM SeveritiesAgree ==
    ASSUME ConfT3 = 85, ConfT4 = 95, M2ConfT3 = 85, M2ConfT4 = 95, SameHorizons
    PROVE  Spec => []ChainsAgree
<1>1. ASSUME NEW s \in Payloads
      PROVE  /\ s # NoPart
             /\ CoalescerSeverity(s, s) = Severity(s)
             /\ \A a, b \in {s, NoPart} : CoalescerSeverity(a, b) = PayloadSeverity(a, b)
             /\ CoalescerSeverity(s, s)
                    \in {CoalescerSeverity(s, NoPart), CoalescerSeverity(NoPart, s)}
             /\ CoalescerSeverity(s, NoPart) <= CoalescerSeverity(s, s)
             /\ CoalescerSeverity(NoPart, s) <= CoalescerSeverity(s, s)
  <2>1. s # NoPart
    BY DEF Payloads, NoPart
  <2>2. CoalescerSeverity(s, s) = Severity(s)
    BY <2>1 DEF CoalescerSeverity, Severity, SameHorizons
  <2>3. /\ CoalescerSeverity(s, NoPart) =
              IF s.conf >= ConfT4 THEN CRITICAL ELSE IF s.conf >= ConfT3 THEN MAJOR ELSE INFO
        /\ CoalescerSeverity(NoPart, s) =
              IF s.p1 >= 95 THEN CRITICAL
              ELSE IF s.p1 >= P1T3 THEN MAJOR ELSE IF s.p5 >= P5T2 THEN MINOR ELSE INFO
        /\ CoalescerSeverity(NoPart, NoPart) = INFO
    BY <2>1 DEF CoalescerSeverity, SameHorizons
  <2>4. \A a, b \in {s, NoPart} : CoalescerSeverity(a, b) = PayloadSeverity(a, b)
    <3>1. PayloadSeverity(s, s) = Severity(s)
      BY <2>1 DEF PayloadSeverity, SeverityFromSignals, Severity
    <3>2. /\ PayloadSeverity(s, NoPart) = CoalescerSeverity(s, NoPart)
          /\ PayloadSeverity(NoPart, s) = CoalescerSeverity(NoPart, s)
          /\ PayloadSeverity(NoPart, NoPart) = INFO
      BY <2>1, <2>3 DEF PayloadSeverity, SeverityFromSignals
    <3>. QED  BY <2>2, <2>3, <3>1, <3>2
  <2>. QED  BY <2>1, <2>2, <2>3, <2>4, SeveritiesInOrder DEF Severity
<1>2. (IsResult => input \in Payloads) => ChainsAgree
  BY <1>1 DEF ChainsAgree
<1>. QED  BY <1>2, InputIsResult, PTL

-----------------------------------------------------------------------------
(* Older models. *)

\* Of finitely many numbers there is a first largest.
LEMMA FirstLargest ==
    ASSUME NEW n \in Nat \ {0}, NEW f, \A i \in 1..n : f[i] \in Int
    PROVE  \E i \in 1..n : \A j \in 1..n : f[j] <= f[i] /\ (j < i => f[j] < f[i])
<1>. DEFINE First(m, i) == \A j \in 1..m : f[j] <= f[i] /\ (j < i => f[j] < f[i])
            A == { m \in 1..n : \E i \in 1..m : First(m, i) }
<1>1. 1 \in A
  OBVIOUS
<1>2. \A m \in 1..n : m \in A /\ m + 1 <= n => m + 1 \in A
  <2>. SUFFICES ASSUME NEW m \in 1..n, m \in A, m + 1 <= n
                PROVE  \E i \in 1..m+1 : First(m + 1, i)
    OBVIOUS
  <2>1. PICK i \in 1..m : First(m, i)
    OBVIOUS
  <2>2. f[i] \in Int /\ f[m+1] \in Int
    OBVIOUS
  <2>3. CASE f[m+1] <= f[i]
    <3>1. First(m + 1, i)
      BY <2>1, <2>2, <2>3
    <3>. QED  BY <3>1
  <2>4. CASE f[i] < f[m+1]
    <3>1. \A j \in 1..m : f[j] < f[m+1]
      BY <2>1, <2>2, <2>4
    <3>2. First(m + 1, m + 1)
      BY <2>2, <3>1
    <3>. QED  BY <3>2
  <2>. QED  BY <2>2, <2>3, <2>4
<1>. HIDE DEF A
<1>3. 1..n \subseteq A
  BY <1>1, <1>2, UpTo
<1>4. n \in A
  BY <1>3
<1>. QED  BY <1>4 DEF A

\* np.argmax: the first largest.
LEMMA ArgMaxIs ==
    ASSUME NEW v \in Seq(Nat), Len(v) > 0
    PROVE  /\ ArgMax(v) \in 1..Len(v)
           /\ \A j \in 1..Len(v) :
                 v[j] <= v[ArgMax(v)] /\ (j < ArgMax(v) => v[j] < v[ArgMax(v)])
<1>. DEFINE Is(i) == /\ \A j \in DOMAIN v : v[j] <= v[i]
                     /\ \A j \in DOMAIN v : j < i => v[j] < v[i]
<1>1. DOMAIN v = 1..Len(v) /\ Len(v) \in Nat \ {0}
  OBVIOUS
<1>2. \A i \in 1..Len(v) : v[i] \in Int
  BY ElementOfSeq
<1>3. \E i \in DOMAIN v : Is(i)
  BY <1>1, <1>2, FirstLargest
<1>4. ArgMax(v) = CHOOSE i \in DOMAIN v : Is(i)
  BY DEF ArgMax
<1>5. ArgMax(v) \in DOMAIN v /\ Is(ArgMax(v))
  BY <1>3, <1>4
<1>. QED  BY <1>1, <1>5

\* The fold of twelve classes leaves some attack above BENIGN if one was above it.
LEMMA Fold12Keeps ==
    ASSUME NEW v, \A i \in 1..12 : v[i] \in Nat, NEW m \in 2..12, v[1] < v[m]
    PROVE  /\ Fold12(v) \in Seq(Nat) /\ Len(Fold12(v)) = 5
           /\ \E j \in 1..5 : Fold12(v)[1] < Fold12(v)[j]
<1>1. PICK most : most = v[2] + v[3] + v[4] + v[5] + v[6] + v[7] + v[8] + v[9]
  OBVIOUS
<1>2. /\ v[1] \in Nat /\ v[2] \in Nat /\ v[3] \in Nat /\ v[4] \in Nat
      /\ v[5] \in Nat /\ v[6] \in Nat /\ v[7] \in Nat /\ v[8] \in Nat
      /\ v[9] \in Nat /\ v[10] \in Nat /\ v[11] \in Nat /\ v[12] \in Nat
  OBVIOUS
<1>3. /\ most \in Nat
      /\ v[2] <= most /\ v[3] <= most /\ v[4] <= most /\ v[5] <= most
      /\ v[6] <= most /\ v[7] <= most /\ v[8] <= most /\ v[9] <= most
  BY <1>1, <1>2
<1>4. Fold12(v) = <<v[1], most, v[10], v[11], v[12]>>
  BY <1>1 DEF Fold12
<1>5. \/ v[1] < most \/ v[1] < v[10] \/ v[1] < v[11] \/ v[1] < v[12]
  BY <1>2, <1>3
<1>6. <<v[1], most, v[10], v[11], v[12]>> \in Seq(Nat)
  BY <1>2, <1>3
<1>. QED  BY <1>4, <1>5, <1>6

\* The same for the fold of seven classes.
LEMMA Fold7Keeps ==
    ASSUME NEW v, \A i \in 1..7 : v[i] \in Nat, NEW m \in 2..7, v[1] < v[m]
    PROVE  /\ Fold7(v) \in Seq(Nat) /\ Len(Fold7(v)) = 5
           /\ \E j \in 1..5 : Fold7(v)[1] < Fold7(v)[j]
<1>1. PICK a, b : a = v[2] + v[6] /\ b = v[4] + v[7]
  OBVIOUS
<1>2. /\ v[1] \in Nat /\ v[2] \in Nat /\ v[3] \in Nat /\ v[4] \in Nat
      /\ v[5] \in Nat /\ v[6] \in Nat /\ v[7] \in Nat
  OBVIOUS
<1>3. a \in Nat /\ b \in Nat /\ v[2] <= a /\ v[6] <= a /\ v[4] <= b /\ v[7] <= b
  BY <1>1, <1>2
<1>4. Fold7(v) = <<v[1], a, v[3], v[5], b>>
  BY <1>1 DEF Fold7
<1>5. v[1] < a \/ v[1] < v[3] \/ v[1] < v[5] \/ v[1] < b
  BY <1>2, <1>3
<1>6. <<v[1], a, v[3], v[5], b>> \in Seq(Nat)
  BY <1>2, <1>3
<1>. QED  BY <1>4, <1>5, <1>6

\* _coerce_class_probs never turns an attack into BENIGN.
LEMMA FoldKeepsAttack ==
    ASSUME NEW v \in Seq(Nat), Len(v) \in {7, 12}, ArgMax(v) # 1
    PROVE  ArgMax(CoerceClassProbs(v)) # 1
<1>1. ASSUME NEW u, u \in Seq(Nat), Len(u) = 5, \E j \in 1..5 : u[1] < u[j]
      PROVE  ArgMax(u) # 1
  <2>1. PICK n : n = Len(u) /\ n = 5
    BY <1>1
  <2>2. n > 0
    BY <2>1
  <2>3. \A j \in 1..n : u[j] <= u[ArgMax(u)] /\ u[j] \in Nat
    BY <1>1, <2>1, <2>2, ArgMaxIs, ElementOfSeq
  <2>4. \A j \in 1..5 : u[j] <= u[ArgMax(u)] /\ u[j] \in Nat
    BY <2>1, <2>3
  <2>. QED  BY <1>1, <2>4
<1>2. PICK n \in Nat : n = Len(v)
  OBVIOUS
<1>3. n = 7 \/ n = 12
  BY <1>2
<1>4. /\ \A i \in 1..n : v[i] \in Nat
      /\ ArgMax(v) \in 2..n
      /\ v[1] < v[ArgMax(v)]
  <2>1. \A i \in 1..n : v[i] \in Nat
    BY <1>2, ElementOfSeq
  <2>2. 1 \in 1..n /\ n > 0
    BY <1>3
  <2>3. ArgMax(v) \in 1..n /\ (1 < ArgMax(v) => v[1] < v[ArgMax(v)])
    BY <1>2, <2>2, ArgMaxIs
  <2>. QED  BY <2>1, <2>2, <2>3
<1>5. CASE n = 7
  <2>1. CoerceClassProbs(v) = Fold7(v)
    BY <1>2, <1>5 DEF CoerceClassProbs
  <2>. QED  BY <1>1, <1>4, <1>5, <2>1, Fold7Keeps
<1>6. CASE n = 12
  <2>1. CoerceClassProbs(v) = Fold12(v)
    BY <1>2, <1>6 DEF CoerceClassProbs
  <2>. QED  BY <1>1, <1>4, <1>6, <2>1, Fold12Keeps
<1>. QED  BY <1>3, <1>5, <1>6

\* The tier of a forecast stretched from the two-minute head alone.
StretchedTier(p) ==
    LET f == LegacyForecast(p)
    IN  Decide([type |-> "Syn", conf |-> 0, p1 |-> f.p1, p5 |-> f.p5, p15 |-> f.p15])

\* compute_tier on one horizon stretched over three, as a chain of comparisons.
LEMMA StretchedTierIs ==
    ASSUME NEW p \in Percent
    PROVE  StretchedTier(p) =
               IF p >= P1T3 THEN MITIGATE
               ELSE IF (p * 85) \div 100 >= P5T2 THEN PREEMPT
               ELSE IF p \div 2 >= P15T1 THEN ALERT
               ELSE NORMAL
<1>. DEFINE s == [type |-> "Syn", conf |-> 0,
                  p1 |-> p, p5 |-> (p * 85) \div 100, p15 |-> p \div 2]
<1>1. StretchedTier(p) = Decide(s)
  BY DEF StretchedTier, LegacyForecast
<1>2. /\ s.type = "Syn" /\ s.conf = 0 /\ s.p1 = p
      /\ s.p5 = (p * 85) \div 100 /\ s.p15 = p \div 2
  OBVIOUS
<1>. HIDE DEF s
<1>3. Decide(s) = ComputeTier(s)
  BY <1>2 DEF Decide, ShortCircuit
<1>4. ~ (0 >= ConfT4) /\ ~ (0 >= ConfT3)
  OBVIOUS
<1>. QED  BY <1>1, <1>2, <1>3, <1>4 DEF ComputeTier

\* Stretching keeps the order of the probabilities, up to its rounding.
LEMMA StretchRises ==
    ASSUME NEW p \in Percent, NEW q \in 0..p
    PROVE  /\ (q * 85) \div 100 \in Nat /\ (p * 85) \div 100 \in Nat
           /\ (q * 85) \div 100 <= (p * 85) \div 100
           /\ q \div 2 \in Nat /\ p \div 2 \in Nat /\ q \div 2 <= p \div 2
           /\ (p \div 2) * 2 <= p
BY DEF Percent

\* Folding never turns an attack into BENIGN, whatever the vector; and the stretched
\* forecast only rises, and never stops at ALERT as long as its threshold is at least
\* half that of MITIGATE.
THEOREM OlderModelsAlarm ==
    ASSUME P1T3 <= 2 * P15T1
    PROVE  Spec => []OlderModelsStillAlarm
<1>1. ASSUME NEW p \in Percent
      PROVE  /\ StretchedTier(p) # ALERT
             /\ \A q \in 0..p : StretchedTier(q) <= StretchedTier(p)
  <2>1. StretchedTier(p) # ALERT
    <3>1. p \in Int /\ p \div 2 \in Nat /\ (p \div 2) * 2 <= p
      BY <1>1, StretchRises DEF Percent
    <3>2. p \div 2 >= P15T1 => p >= P1T3
      BY <3>1
    <3>. QED  BY <1>1, <3>2, StretchedTierIs, TiersInOrder
  <2>2. ASSUME NEW q \in 0..p PROVE StretchedTier(q) <= StretchedTier(p)
    <3>1. q \in Percent /\ p \in Percent
      BY <1>1, <2>2 DEF Percent
    <3>2. /\ q <= p /\ (q * 85) \div 100 <= (p * 85) \div 100 /\ q \div 2 <= p \div 2
          /\ (q * 85) \div 100 \in Nat /\ (p * 85) \div 100 \in Nat
          /\ q \div 2 \in Nat /\ p \div 2 \in Nat /\ p \in Nat /\ q \in Nat
      BY <1>1, <2>2, StretchRises DEF Percent
    <3>3. StretchedTier(q) =
               IF q >= P1T3 THEN MITIGATE
               ELSE IF (q * 85) \div 100 >= P5T2 THEN PREEMPT
               ELSE IF q \div 2 >= P15T1 THEN ALERT
               ELSE NORMAL
      BY <3>1, StretchedTierIs
    <3>4. StretchedTier(p) =
               IF p >= P1T3 THEN MITIGATE
               ELSE IF (p * 85) \div 100 >= P5T2 THEN PREEMPT
               ELSE IF p \div 2 >= P15T1 THEN ALERT
               ELSE NORMAL
      BY <3>1, StretchedTierIs
    <3>5. P1T3 \in Int /\ P5T2 \in Int /\ P15T1 \in Int
      OBVIOUS
    <3>. QED  BY <3>2, <3>3, <3>4, <3>5, TiersInOrder
  <2>. QED  BY <2>1, <2>2
<1>2. input \in Results \cup Others => OlderModelsStillAlarm
  <2>. SUFFICES ASSUME input \in Results \cup Others PROVE OlderModelsStillAlarm
    OBVIOUS
  <2>1. ASSUME input.kind = "old"
        PROVE  ArgMax(input.v) # 1 => ArgMax(CoerceClassProbs(input.v)) # 1
    <3>1. input.v \in Seq(Nat) /\ Len(input.v) \in {7, 12}
      BY <2>1, KindOfInput, InputsAssumption DEF InputsAssumption
    <3>. QED  BY <3>1, FoldKeepsAttack
  <2>2. ASSUME input.kind = "legacy"
        PROVE  /\ StretchedTier(input.p120) # ALERT
               /\ \A q \in 0..input.p120 : StretchedTier(q) <= StretchedTier(input.p120)
    <3>1. input.p120 \in Percent
      BY <2>2, KindOfInput
    <3>. QED  BY <1>1, <3>1
  <2>. QED  BY <2>1, <2>2 DEF OlderModelsStillAlarm, StretchedTier
<1>. QED  BY <1>2, InputFrom, PTL

-----------------------------------------------------------------------------
(* The fat-tree. *)

\* The five nodes of a path inside a pod.
LEMMA Joined5 ==
    ASSUME NEW a, NEW b, NEW c, NEW d, NEW g
    PROVE  <<a, b, c>> \o <<d>> \o <<g>> = <<a, b, c, d, g>>
<1>. DEFINE S == {a, b, c, d, g}
            x == <<a, b, c>>
            y == <<d>>
            z == <<g>>
<1>1. x \in Seq(S) /\ y \in Seq(S) /\ z \in Seq(S) /\ <<a, b, c, d, g>> \in Seq(S)
  OBVIOUS
<1>2. /\ x \o y \in Seq(S) /\ Len(x \o y) = 4
      /\ \A i \in 1..4 : (x \o y)[i] = IF i <= 3 THEN x[i] ELSE y[i - 3]
  BY <1>1, ConcatProperties
<1>3. /\ (x \o y) \o z \in Seq(S) /\ Len((x \o y) \o z) = 5
      /\ \A i \in 1..5 : ((x \o y) \o z)[i] = IF i <= 4 THEN (x \o y)[i] ELSE z[i - 4]
  BY <1>1, <1>2, ConcatProperties
<1>4. \A i \in 1..5 : ((x \o y) \o z)[i] = <<a, b, c, d, g>>[i]
  BY <1>2, <1>3
<1>. QED  BY <1>1, <1>3, <1>4, SeqEqual

\* The seven nodes of a path across the core.
LEMMA Joined7 ==
    ASSUME NEW a, NEW b, NEW c, NEW d, NEW x, NEW y, NEW z
    PROVE  <<a, b, c>> \o <<d, x, y>> \o <<z>> = <<a, b, c, d, x, y, z>>
<1>. DEFINE S == {a, b, c, d, x, y, z}
            up == <<a, b, c>>
            down == <<d, x, y>>
            all == <<a, b, c, d, x, y, z>>
<1>1. up \in Seq(S) /\ down \in Seq(S) /\ <<z>> \in Seq(S) /\ all \in Seq(S)
      /\ Len(up) = 3 /\ Len(down) = 3 /\ Len(<<z>>) = 1 /\ Len(all) = 7
  OBVIOUS
<1>2. /\ up \o down \in Seq(S) /\ Len(up \o down) = 6
      /\ \A i \in 1..6 : (up \o down)[i] = IF i <= 3 THEN up[i] ELSE down[i - 3]
  BY <1>1, ConcatProperties
<1>3. /\ (up \o down) \o <<z>> \in Seq(S) /\ Len((up \o down) \o <<z>>) = 7
      /\ \A i \in 1..7 : ((up \o down) \o <<z>>)[i]
                             = IF i <= 6 THEN (up \o down)[i] ELSE <<z>>[i - 6]
  BY <1>1, <1>2, ConcatProperties
<1>4. \A i \in 1..7 : ((up \o down) \o <<z>>)[i] = all[i]
  BY <1>2, <1>3
<1>. QED  BY <1>1, <1>3, <1>4, SeqEqual, ZenonT(60)

\* A packet at a switch goes on to its next hop; at a host it stays.
LEMMA OneHop ==
    ASSUME NEW k, NEW dst, NEW w
    PROVE  /\ w[Len(w)] \in Tree!Switches(k) =>
                Tree!SentOn(k, dst, w) = Append(w, Tree!NextHop(k, w[Len(w)], dst))
           /\ w[Len(w)] \notin Tree!Switches(k) => Tree!SentOn(k, dst, w) = w
BY DEF Tree!SentOn, Tree!Last

\* A path that follows the rules from switch to switch and ends outside them is the
\* way a packet goes.
LEMMA Route ==
    ASSUME NEW k, NEW src, NEW dst, NEW S, NEW t \in Seq(S), NEW n \in Nat,
           2 <= Len(t), Len(t) <= n,
           t[1] = src, t[2] = Tree!Edge(src[2], src[3]),
           \A i \in 2..Len(t)-1 : /\ t[i] \in Tree!Switches(k)
                                 /\ t[i+1] = Tree!NextHop(k, t[i], dst),
           t[Len(t)] \notin Tree!Switches(k)
    PROVE  Tree!Walk(k, src, dst, n) = t
<1>. DEFINE start == <<src, Tree!Edge(src[2], src[3])>>
            upTo(i) == IF i <= Len(t) THEN SubSeq(t, 1, i) ELSE t
            Walks(w) == w = [i \in 2..n |-> IF i = 2 THEN start
                                           ELSE Tree!SentOn(k, dst, w[i-1])]
<1>0. Len(t) \in Nat
  OBVIOUS
<1>1. \A i \in 1..Len(t) : /\ SubSeq(t, 1, i) \in Seq(S) /\ Len(SubSeq(t, 1, i)) = i
                           /\ \A j \in 1..i : SubSeq(t, 1, i)[j] = t[j]
  <2>. SUFFICES ASSUME NEW i \in 1..Len(t)
                PROVE  /\ SubSeq(t, 1, i) \in Seq(S) /\ Len(SubSeq(t, 1, i)) = i
                       /\ \A j \in 1..i : SubSeq(t, 1, i)[j] = t[j]
    OBVIOUS
  <2>. QED  BY <1>0, SubSeqProperties
<1>2. upTo(2) = start
  <2>1. SubSeq(t, 1, 2) = <<t[1], t[2]>>
    <3>1. Len(<<t[1], t[2]>>) = 2 /\ <<t[1], t[2]>> \in Seq(S)
      BY <1>0
    <3>2. \A j \in 1..2 : SubSeq(t, 1, 2)[j] = <<t[1], t[2]>>[j]
      BY <1>0, <1>1
    <3>3. SubSeq(t, 1, 2) \in Seq(S) /\ Len(SubSeq(t, 1, 2)) = 2
      BY <1>0, <1>1
    <3>. QED  BY <3>1, <3>2, <3>3, SeqEqual
  <2>. QED  BY <1>0, <2>1
<1>3. \A i \in 2..n : i + 1 <= n => upTo(i + 1) = Tree!SentOn(k, dst, upTo(i))
  <2>. SUFFICES ASSUME NEW i \in 2..n PROVE upTo(i + 1) = Tree!SentOn(k, dst, upTo(i))
    OBVIOUS
  <2>1. CASE i < Len(t)
    <3>1. i \in 1..Len(t) /\ i + 1 \in 1..Len(t) /\ i \in 2..Len(t)-1
      BY <1>0, <2>1
    <3>2. Len(SubSeq(t, 1, i)) = i /\ SubSeq(t, 1, i)[i] = t[i]
      BY <1>1, <3>1
    <3>3. Append(SubSeq(t, 1, i), t[i+1]) = SubSeq(t, 1, i + 1)
      <4>1. t[i+1] \in S
        BY <3>1, ElementOfSeq
      <4>2. /\ Append(SubSeq(t, 1, i), t[i+1]) \in Seq(S)
            /\ Len(Append(SubSeq(t, 1, i), t[i+1])) = i + 1
            /\ \A j \in 1..i : Append(SubSeq(t, 1, i), t[i+1])[j] = t[j]
            /\ Append(SubSeq(t, 1, i), t[i+1])[i+1] = t[i+1]
        BY <1>1, <3>1, <4>1, AppendProperties
      <4>3. \A j \in 1..(i+1) : Append(SubSeq(t, 1, i), t[i+1])[j] = SubSeq(t, 1, i + 1)[j]
        BY <1>1, <3>1, <4>2
      <4>. QED  BY <1>1, <3>1, <4>2, <4>3, SeqEqual
    <3>4. upTo(i) = SubSeq(t, 1, i) /\ upTo(i + 1) = SubSeq(t, 1, i + 1)
      BY <1>0, <3>1
    <3>5. /\ t[i] \in Tree!Switches(k)
          /\ t[i+1] = Tree!NextHop(k, t[i], dst)
      BY <3>1
    <3>6. Tree!SentOn(k, dst, SubSeq(t, 1, i))
              = Append(SubSeq(t, 1, i), Tree!NextHop(k, t[i], dst))
      <4>1. \A w : Len(w) = i /\ w[i] = t[i] =>
                Tree!SentOn(k, dst, w) = Append(w, Tree!NextHop(k, t[i], dst))
        BY <3>5, OneHop
      <4>. QED  BY <3>2, <4>1
    <3>. HIDE DEF upTo
    <3>. QED  BY <3>3, <3>4, <3>5, <3>6
  <2>2. CASE i >= Len(t)
    <3>1. upTo(i) = t
      <4>1. CASE i = Len(t)
        <5>1. SubSeq(t, 1, Len(t)) = t
          BY <1>0, <1>1, SeqEqual
        <5>. QED  BY <1>0, <4>1, <5>1
      <4>2. CASE i > Len(t)
        BY <1>0, <4>2
      <4>. QED  BY <1>0, <2>2, <4>1, <4>2
    <3>2. upTo(i + 1) = t
      BY <1>0, <2>2
    <3>. HIDE DEF upTo
    <3>. QED  BY <3>1, <3>2, OneHop
  <2>. QED  BY <1>0, <2>1, <2>2
<1>. HIDE DEF start, upTo
<1>4. Walks([i \in 2..n |-> upTo(i)])
  <2>1. \A i \in 2..n : upTo(i) = IF i = 2 THEN start
                        ELSE Tree!SentOn(k, dst, [m \in 2..n |-> upTo(m)][i-1])
    <3>. SUFFICES ASSUME NEW i \in 2..n, i # 2
                  PROVE  upTo(i) = Tree!SentOn(k, dst, [m \in 2..n |-> upTo(m)][i-1])
      BY <1>2
    <3>1. i - 1 \in 2..n /\ (i - 1) + 1 = i /\ i <= n
      OBVIOUS
    <3>2. upTo((i - 1) + 1) = Tree!SentOn(k, dst, upTo(i - 1))
      BY <1>3, <3>1
    <3>. QED  BY <3>1, <3>2
  <2>. QED  BY <2>1
<1>5. PICK w : Walks(w) /\ Tree!Walk(k, src, dst, n) = w[n]
  <2>. DEFINE c == CHOOSE w : Walks(w)
  <2>1. Walks(c)
    BY <1>4
  <2>2. Tree!Walk(k, src, dst, n) = c[n]
    BY DEF Tree!Walk, start
  <2>. QED  BY <2>1, <2>2
<1>6. 2..n \subseteq { i \in 2..n : w[i] = upTo(i) }
  <2>. DEFINE A == { i \in 2..n : w[i] = upTo(i) }
  <2>1. 2 \in 2..n
    BY <1>0
  <2>2. w[2] = start
    BY <1>5, <2>1
  <2>3. \A i \in 2..n : i \in A /\ i + 1 <= n => i + 1 \in A
    <3>. SUFFICES ASSUME NEW i \in 2..n, w[i] = upTo(i), i + 1 <= n
                  PROVE  w[i+1] = upTo(i+1)
      OBVIOUS
    <3>1. i + 1 \in 2..n /\ i + 1 # 2 /\ (i + 1) - 1 = i
      OBVIOUS
    <3>2. w[i+1] = Tree!SentOn(k, dst, w[i])
      BY <1>5, <3>1
    <3>. QED  BY <1>3, <3>2
  <2>4. 2 \in A
    BY <1>2, <2>1, <2>2
  <2>. HIDE DEF A
  <2>. QED  BY <2>3, <2>4, UpTo DEF A
<1>7. n \in 2..n /\ upTo(n) = t
  <2>1. SubSeq(t, 1, Len(t)) = t
    BY <1>0, <1>1, SeqEqual
  <2>. QED  BY <1>0, <2>1 DEF upTo
<1>. QED  BY <1>5, <1>6, <1>7

\* The ports above the middle of an aggregation switch lead to the cores.
LEMMA AggToCore ==
    ASSUME NEW k, NEW sw, NEW port, sw[1] = "agg", port > Tree!Half(k),
           ~(port <= Tree!Half(k))
    PROVE  Tree!Peer(k, sw, port) = Tree!Core(sw[3] * Tree!Half(k) + port - Tree!Half(k) - 1)
BY Zenon DEF Tree!Peer

\* Which cable the installed port of a switch leads to: down from an edge switch, an
\* aggregation switch and a core, then up.
LEMMA Hops ==
    ASSUME NEW k \in Nat, k % 2 = 0,
           NEW src \in Tree!Hosts(k), NEW dst \in Tree!Hosts(k)
    PROVE  /\ Tree!NextHop(k, Tree!Edge(dst[2], dst[3]), dst) = dst
           /\ Tree!NextHop(k, Tree!Agg(dst[2], 0), dst) = Tree!Edge(dst[2], dst[3])
           /\ Tree!NextHop(k, Tree!Core(0), dst) = Tree!Agg(dst[2], 0)
           /\ <<src[2], src[3]>> # <<dst[2], dst[3]>> =>
                 Tree!NextHop(k, Tree!Edge(src[2], src[3]), dst) = Tree!Agg(src[2], 0)
           /\ src[2] # dst[2] =>
                 Tree!NextHop(k, Tree!Agg(src[2], 0), dst) = Tree!Core(0)
<1>. DEFINE half == Tree!Half(k)
<1>1. PICK p \in 0..k-1, e \in 0..half-1, h \in 1..half : dst = <<"host", p, e, h>>
  BY DEF Tree!Hosts, Tree!Pods, Tree!Inner, Tree!Host
<1>2. PICK q \in 0..k-1, f \in 0..half-1, g \in 1..half : src = <<"host", q, f, g>>
  BY DEF Tree!Hosts, Tree!Pods, Tree!Inner, Tree!Host
<1>3. half \in Nat \ {0} /\ k \in Nat
  BY <1>1 DEF Tree!Half
<1>. HIDE DEF half
<1>4. \A sw : Tree!NextHop(k, sw, dst) = Tree!Peer(k, sw, Tree!OutPort(k, sw, dst))
  BY DEF Tree!NextHop
<1>5. dst[2] = p /\ dst[3] = e /\ dst[4] = h /\ src[2] = q /\ src[3] = f
  BY <1>1, <1>2
<1>6. Tree!NextHop(k, <<"edge", p, e>>, dst) = dst
  <2>1. Tree!OutPort(k, <<"edge", p, e>>, dst) = h
    BY <1>5 DEF Tree!OutPort
  <2>2. Tree!Peer(k, <<"edge", p, e>>, h) = <<"host", p, e, h>>
    BY <1>3 DEF Tree!Peer, Tree!Host, half
  <2>. QED  BY <1>1, <1>4, <2>1, <2>2
<1>7. Tree!NextHop(k, <<"agg", p, 0>>, dst) = <<"edge", p, e>>
  <2>1. Tree!OutPort(k, <<"agg", p, 0>>, dst) = e + 1
    BY <1>5 DEF Tree!OutPort
  <2>2. Tree!Peer(k, <<"agg", p, 0>>, e + 1) = <<"edge", p, e + 1 - 1>>
    BY <1>3 DEF Tree!Peer, Tree!Edge, half
  <2>. QED  BY <1>3, <1>4, <2>1, <2>2
<1>8. Tree!NextHop(k, <<"core", 0>>, dst) = <<"agg", p, 0>>
  <2>1. Tree!OutPort(k, <<"core", 0>>, dst) = p + 1
    BY <1>5 DEF Tree!OutPort
  <2>2. Tree!Peer(k, <<"core", 0>>, p + 1) = <<"agg", p + 1 - 1, 0 \div half>>
    BY <1>3 DEF Tree!Peer, Tree!Agg, half
  <2>3. 0 \div half = 0
    BY <1>3
  <2>. QED  BY <1>3, <1>4, <2>1, <2>2, <2>3
<1>9. <<q, f>> # <<p, e>> => Tree!NextHop(k, <<"edge", q, f>>, dst) = <<"agg", q, 0>>
  <2>. SUFFICES ASSUME <<q, f>> # <<p, e>>
                PROVE  Tree!NextHop(k, <<"edge", q, f>>, dst) = <<"agg", q, 0>>
    OBVIOUS
  <2>1. Tree!OutPort(k, <<"edge", q, f>>, dst) = half + 1
    BY <1>5 DEF Tree!OutPort, half
  <2>2. Tree!Peer(k, <<"edge", q, f>>, half + 1) = <<"agg", q, half + 1 - half - 1>>
    BY <1>3 DEF Tree!Peer, Tree!Agg, half
  <2>. QED  BY <1>3, <1>4, <2>1, <2>2
<1>10. q # p => Tree!NextHop(k, <<"agg", q, 0>>, dst) = <<"core", 0>>
  <2>. SUFFICES ASSUME q # p PROVE Tree!NextHop(k, <<"agg", q, 0>>, dst) = <<"core", 0>>
    OBVIOUS
  <2>1. Tree!OutPort(k, <<"agg", q, 0>>, dst) = half + 1
    BY <1>5 DEF Tree!OutPort, half
  <2>. DEFINE sw == <<"agg", q, 0>>
  <2>2. Tree!Peer(k, sw, half + 1) = Tree!Core(sw[3] * half + (half + 1) - half - 1)
    <3>1. half + 1 > half /\ ~(half + 1 <= half)
      BY <1>3
    <3>. QED  BY <3>1, AggToCore DEF half
  <2>3. sw[3] * half + (half + 1) - half - 1 = 0
    BY <1>3
  <2>4. Tree!Core(0) = <<"core", 0>>
    BY DEF Tree!Core
  <2>. QED  BY <1>4, <2>1, <2>2, <2>3, <2>4
<1>. QED  BY <1>5, <1>6, <1>7, <1>8, <1>9, <1>10 DEF Tree!Edge, Tree!Agg, Tree!Core

\* The switches a route of the testbed can name are switches of the tree.
LEMMA SwitchesOfRoute ==
    ASSUME NEW k \in Nat, k % 2 = 0, NEW x \in Tree!Hosts(k)
    PROVE  /\ Tree!Edge(x[2], x[3]) \in Tree!Switches(k)
           /\ Tree!Agg(x[2], 0) \in Tree!Switches(k)
           /\ Tree!Core(0) \in Tree!Switches(k)
           /\ x \notin Tree!Switches(k)
           /\ x = <<"host", x[2], x[3], x[4]>>
<1>. DEFINE half == Tree!Half(k)
<1>1. PICK p \in 0..k-1, e \in 0..half-1, h \in 1..half : x = <<"host", p, e, h>>
  BY DEF Tree!Hosts, Tree!Pods, Tree!Inner, Tree!Host
<1>2. half \in Nat \ {0} /\ k \in Nat
  BY <1>1 DEF Tree!Half
<1>. HIDE DEF half
<1>3. p \in Tree!Pods(k) /\ e \in Tree!Inner(k) /\ 0 \in Tree!Inner(k)
  BY <1>1, <1>2 DEF Tree!Pods, Tree!Inner, half
<1>4. x[1] = "host" /\ x[2] = p /\ x[3] = e /\ x[4] = h
  BY <1>1
<1>5. \A sw \in Tree!Switches(k) : sw[1] # "host"
  BY DEF Tree!Switches, Tree!Core, Tree!Agg, Tree!Edge
<1>6. Tree!Edge(p, e) \in Tree!Switches(k)
  BY <1>3 DEF Tree!Switches
<1>7. Tree!Agg(p, 0) \in Tree!Switches(k)
  BY <1>3 DEF Tree!Switches
<1>8. 0 \in 0..half*half-1
  <2>1. half * half >= 1 /\ half * half \in Int
    BY <1>2
  <2>. QED  BY <2>1
<1>9. Tree!Core(0) \in Tree!Switches(k)
  BY <1>8 DEF Tree!Switches, half
<1>. QED  BY <1>1, <1>4, <1>5, <1>6, <1>7, <1>9

\* The nodes between two hosts.
Nodes(src, dst) ==
    IF src[2] # dst[2]
    THEN <<src, Tree!Edge(src[2], src[3]), Tree!Agg(src[2], 0), Tree!Core(0),
           Tree!Agg(dst[2], 0), Tree!Edge(dst[2], dst[3]), dst>>
    ELSE IF src[3] # dst[3]
    THEN <<src, Tree!Edge(src[2], src[3]), Tree!Agg(src[2], 0),
           Tree!Edge(dst[2], dst[3]), dst>>
    ELSE <<src, Tree!Edge(src[2], src[3]), dst>>

\* The path the demo shows, in the two cases of _shortest_fat_tree_path.
LEMMA ShownNodes ==
    ASSUME NEW src, NEW dst, src[2] # dst[2] \/ src[3] # dst[3]
    PROVE  Tree!ShownPath(src, dst) = Nodes(src, dst)
<1>. DEFINE up == <<src, Tree!Edge(src[2], src[3]), Tree!Agg(src[2], 0)>>
            down == <<Tree!Core(0), Tree!Agg(dst[2], 0), Tree!Edge(dst[2], dst[3])>>
<1>1. CASE src[2] # dst[2]
  <2>1. Tree!ShownPath(src, dst) = up \o down \o <<dst>>
    BY <1>1, Zenon DEF Tree!ShownPath
  <2>2. Nodes(src, dst) = <<src, Tree!Edge(src[2], src[3]), Tree!Agg(src[2], 0), Tree!Core(0),
                            Tree!Agg(dst[2], 0), Tree!Edge(dst[2], dst[3]), dst>>
    BY <1>1, Zenon DEF Nodes
  <2>3. up \o down \o <<dst>> =
            <<src, Tree!Edge(src[2], src[3]), Tree!Agg(src[2], 0), Tree!Core(0),
              Tree!Agg(dst[2], 0), Tree!Edge(dst[2], dst[3]), dst>>
    BY Joined7, SMT
  <2>. QED  BY <2>1, <2>2, <2>3, Zenon
<1>2. CASE src[2] = dst[2]
  <2>1. src[3] # dst[3]
    BY <1>2
  <2>2. Tree!ShownPath(src, dst) = up \o <<Tree!Edge(dst[2], dst[3])>> \o <<dst>>
    BY <1>2, <2>1, Zenon DEF Tree!ShownPath
  <2>3. Nodes(src, dst) = <<src, Tree!Edge(src[2], src[3]), Tree!Agg(src[2], 0),
                            Tree!Edge(dst[2], dst[3]), dst>>
    BY <1>2, <2>1, Zenon DEF Nodes
  <2>4. up \o <<Tree!Edge(dst[2], dst[3])>> \o <<dst>> =
            <<src, Tree!Edge(src[2], src[3]), Tree!Agg(src[2], 0),
              Tree!Edge(dst[2], dst[3]), dst>>
    BY Joined5, ZenonT(60)
  <2>. QED  BY <2>2, <2>3, <2>4, Zenon
<1>. QED  BY <1>1, <1>2

\* Where a packet goes, in a tree of any size.
LEMMA WayTaken ==
    ASSUME NEW k \in Nat, k % 2 = 0,
           NEW src \in Tree!Hosts(k), NEW dst \in Tree!Hosts(k), NEW n \in Nat, n >= 7
    PROVE  Tree!Walk(k, src, dst, n) = Nodes(src, dst)
<1>. DEFINE t == Nodes(src, dst)
            S == { t[i] : i \in 1..7 }
<1>1. CASE src[2] # dst[2]
  <2>1. t = <<src, Tree!Edge(src[2], src[3]), Tree!Agg(src[2], 0), Tree!Core(0),
              Tree!Agg(dst[2], 0), Tree!Edge(dst[2], dst[3]), dst>>
    BY <1>1, Zenon DEF Nodes
  <2>. HIDE DEF t
  <2>2. t \in Seq(S) /\ Len(t) = 7 /\ t[1] = src /\ t[2] = Tree!Edge(src[2], src[3])
        /\ t[3] = Tree!Agg(src[2], 0) /\ t[4] = Tree!Core(0) /\ t[5] = Tree!Agg(dst[2], 0)
        /\ t[6] = Tree!Edge(dst[2], dst[3]) /\ t[7] = dst
    BY <2>1
  <2>3. <<src[2], src[3]>> # <<dst[2], dst[3]>>
    BY <1>1
  <2>. HIDE DEF S
  <2>4. \A i \in 2..Len(t)-1 : /\ t[i] \in Tree!Switches(k)
                              /\ t[i+1] = Tree!NextHop(k, t[i], dst)
    <3>1. /\ t[2] \in Tree!Switches(k) /\ t[3] \in Tree!Switches(k)
          /\ t[4] \in Tree!Switches(k) /\ t[5] \in Tree!Switches(k)
          /\ t[6] \in Tree!Switches(k)
      BY <2>2, SwitchesOfRoute
    <3>2. /\ t[3] = Tree!NextHop(k, t[2], dst) /\ t[4] = Tree!NextHop(k, t[3], dst)
          /\ t[5] = Tree!NextHop(k, t[4], dst) /\ t[6] = Tree!NextHop(k, t[5], dst)
          /\ t[7] = Tree!NextHop(k, t[6], dst)
      BY <1>1, <2>2, <2>3, Hops
    <3>3. \A i \in 2..Len(t)-1 : i \in {2, 3, 4, 5, 6}
      BY <2>2
    <3>. QED  BY <3>1, <3>2, <3>3
  <2>5. t[Len(t)] \notin Tree!Switches(k)
    BY <2>2, SwitchesOfRoute
  <2>6. 2 <= Len(t) /\ Len(t) <= n
    BY <2>2
  <2>7. Tree!Walk(k, src, dst, n) = t
    BY <2>2, <2>4, <2>5, <2>6, Route, ZenonT(60)
  <2>. QED  BY <2>7 DEF t
<1>2. CASE src[2] = dst[2] /\ src[3] # dst[3]
  <2>1. t = <<src, Tree!Edge(src[2], src[3]), Tree!Agg(src[2], 0),
              Tree!Edge(dst[2], dst[3]), dst>>
    BY <1>2, Zenon DEF Nodes
  <2>. HIDE DEF t
  <2>2. t \in Seq(S) /\ Len(t) = 5 /\ t[1] = src /\ t[2] = Tree!Edge(src[2], src[3])
        /\ t[3] = Tree!Agg(src[2], 0)
        /\ t[4] = Tree!Edge(dst[2], dst[3]) /\ t[5] = dst
    BY <2>1
  <2>3. <<src[2], src[3]>> # <<dst[2], dst[3]>>
    BY <1>2
  <2>. HIDE DEF S
  <2>4. \A i \in 2..Len(t)-1 : /\ t[i] \in Tree!Switches(k)
                              /\ t[i+1] = Tree!NextHop(k, t[i], dst)
    BY <1>2, <2>2, <2>3, Hops, SwitchesOfRoute, SMTT(60)
  <2>5. t[Len(t)] \notin Tree!Switches(k)
    BY <2>2, SwitchesOfRoute
  <2>6. 2 <= Len(t) /\ Len(t) <= n
    BY <2>2
  <2>7. Tree!Walk(k, src, dst, n) = t
    BY <2>2, <2>4, <2>5, <2>6, Route, ZenonT(60)
  <2>. QED  BY <2>7 DEF t
<1>3. CASE src[2] = dst[2] /\ src[3] = dst[3]
  <2>1. t = <<src, Tree!Edge(src[2], src[3]), dst>>
    BY <1>3, Zenon DEF Nodes
  <2>. HIDE DEF t
  <2>2. t \in Seq(S) /\ Len(t) = 3 /\ t[1] = src /\ t[2] = Tree!Edge(src[2], src[3])
        /\ t[3] = dst
    BY <2>1
  <2>. HIDE DEF S
  <2>3. \A i \in 2..Len(t)-1 : /\ t[i] \in Tree!Switches(k)
                              /\ t[i+1] = Tree!NextHop(k, t[i], dst)
    BY <1>3, <2>2, Hops, SwitchesOfRoute
  <2>4. t[Len(t)] \notin Tree!Switches(k)
    BY <2>2, SwitchesOfRoute
  <2>5. 2 <= Len(t) /\ Len(t) <= n
    BY <2>2
  <2>6. Tree!Walk(k, src, dst, n) = t
    BY <2>2, <2>3, <2>4, <2>5, Route, ZenonT(60)
  <2>. QED  BY <2>6 DEF t
<1>. QED  BY <1>1, <1>2, <1>3

\* For a tree of any size and hosts below different edge switches, the path the
\* frontend draws is the one the base routes and the cables make: every hop from
\* the edge switch of the sender on leaves by the port the controller installed.
THEOREM ShownPathFollowsRules ==
    ASSUME NEW k \in Nat, k % 2 = 0,
           NEW src \in Tree!Hosts(k), NEW dst \in Tree!Hosts(k),
           <<src[2], src[3]>> # <<dst[2], dst[3]>>
    PROVE  Tree!ShownPath(src, dst) = Tree!Walk(k, src, dst, 9)
<1>1. src[2] # dst[2] \/ src[3] # dst[3]
  OBVIOUS
<1>. QED  BY <1>1, ShownNodes, WayTaken

\* In every tree the controller is started for, the path drawn is the one taken.
THEOREM PathsShownAreTaken == Spec => []ShownPathIsTaken
<1>1. input \in Results \cup Others => ShownPathIsTaken
  <2>. SUFFICES ASSUME input \in Results \cup Others, input.kind = "flow",
                       <<input.src[2], input.src[3]>> # <<input.dst[2], input.dst[3]>>
                PROVE  Tree!ShownPath(input.src, input.dst)
                           = Tree!Walk(input.k, input.src, input.dst, 9)
    BY DEF ShownPathIsTaken
  <2>1. /\ input.k \in TreeSizes
        /\ input.src \in Tree!Hosts(input.k) /\ input.dst \in Tree!Hosts(input.k)
    BY KindOfInput
  <2>2. input.k \in Nat /\ input.k % 2 = 0
    BY <2>1, InputsAssumption DEF InputsAssumption
  <2>. QED  BY <2>1, <2>2, ShownPathFollowsRules
<1>. QED  BY <1>1, InputFrom, PTL

\* In every tree the controller is started for, the base routes bring a packet of any
\* host to any other, over no switch twice and without a detour.
THEOREM RoutesDeliver == Spec => []BaseRoutesDeliver
<1>1. input \in Results \cup Others => BaseRoutesDeliver
  <2>. SUFFICES ASSUME input \in Results \cup Others, input.kind = "flow"
                PROVE  BaseRoutesDeliver
    BY DEF BaseRoutesDeliver
  <2>. DEFINE src == input.src
              dst == input.dst
              w == Tree!Walk(input.k, src, dst, 9)
  <2>1. /\ input.k \in TreeSizes
        /\ src \in Tree!Hosts(input.k) /\ dst \in Tree!Hosts(input.k) /\ src # dst
    BY KindOfInput
  <2>2. input.k \in Nat /\ input.k % 2 = 0
    BY <2>1, InputsAssumption DEF InputsAssumption
  <2>3. w = Nodes(src, dst)
    BY <2>1, <2>2, WayTaken
  <2>4. src = <<"host", src[2], src[3], src[4]>> /\ dst = <<"host", dst[2], dst[3], dst[4]>>
    BY <2>1, <2>2, SwitchesOfRoute
  <2>. HIDE DEF src, dst, w
  <2>5. /\ w[Len(w)] = dst
        /\ \A i, j \in DOMAIN w : w[i] = w[j] => i = j
        /\ Len(w) = IF src[2] # dst[2] THEN 7 ELSE IF src[3] # dst[3] THEN 5 ELSE 3
    <3>1. CASE src[2] # dst[2]
      <4>1. w = <<src, Tree!Edge(src[2], src[3]), Tree!Agg(src[2], 0), Tree!Core(0),
                  Tree!Agg(dst[2], 0), Tree!Edge(dst[2], dst[3]), dst>>
        BY <2>3, <3>1, Zenon DEF Nodes
      <4>. QED  BY <2>1, <2>4, <3>1, <4>1 DEF Tree!Edge, Tree!Agg, Tree!Core
    <3>2. CASE src[2] = dst[2] /\ src[3] # dst[3]
      <4>1. w = <<src, Tree!Edge(src[2], src[3]), Tree!Agg(src[2], 0),
                  Tree!Edge(dst[2], dst[3]), dst>>
        BY <2>3, <3>2, Zenon DEF Nodes
      <4>. QED  BY <2>1, <2>4, <3>2, <4>1 DEF Tree!Edge, Tree!Agg
    <3>3. CASE src[2] = dst[2] /\ src[3] = dst[3]
      <4>1. w = <<src, Tree!Edge(src[2], src[3]), dst>>
        BY <2>3, <3>3, Zenon DEF Nodes
      <4>. QED  BY <2>1, <2>4, <3>3, <4>1 DEF Tree!Edge
    <3>. QED  BY <3>1, <3>2, <3>3
  <2>. QED  BY <2>5 DEF BaseRoutesDeliver, Last, src, dst, w
<1>. QED  BY <1>1, InputFrom, PTL

-----------------------------------------------------------------------------
(* Sums. *)

HIDE ThresholdsAssumption DEF ThresholdsAssumption

\* A row of n numbers.
Row(n, f) == f \in [1..n -> Int]

\* The running sums of f.
Sums(s, n, f) == /\ s \in [0..n -> Int]
                 /\ s[0] = 0
                 /\ \A i \in 1..n : s[i] = s[i-1] + f[i]

\* A total is the last of the running sums.
LEMMA TotalSums ==
    ASSUME NEW n \in Nat, NEW f, Row(n, f)
    PROVE  \E s : Sums(s, n, f) /\ Total(f) = s[n]
<1>. USE DEF Row
<1>. DEFINE Rec(s) == s = [m \in 0..n |-> IF m = 0 THEN 0 ELSE s[m-1] + f[m]]
            A == { m \in 0..n : \E s : Sums(s, m, f) }
<1>1. Len(f) = n
  <2>1. f \in Seq(Int)
    OBVIOUS
  <2>. QED  BY <2>1, LenProperties
<1>2. 0 \in A
  <2>1. Sums([i \in 0..0 |-> 0], 0, f)
    BY DEF Sums
  <2>. QED  BY <2>1
<1>3. \A m \in 0..n : m \in A /\ m + 1 <= n => m + 1 \in A
  <2>. SUFFICES ASSUME NEW m \in 0..n, m + 1 <= n, NEW s, Sums(s, m, f)
                PROVE  \E t : Sums(t, m + 1, f)
    OBVIOUS
  <2>. DEFINE t == [i \in 0..m+1 |-> IF i = m + 1 THEN s[m] + f[m+1] ELSE s[i]]
  <2>1. s[m] \in Int /\ f[m+1] \in Int
    BY DEF Sums
  <2>2. t \in [0..m+1 -> Int] /\ t[0] = 0
    BY <2>1 DEF Sums
  <2>3. ASSUME NEW i \in 1..m+1 PROVE t[i] = t[i-1] + f[i]
    <3>1. CASE i = m + 1
      BY <3>1
    <3>2. CASE i # m + 1
      <4>1. i \in 1..m /\ i - 1 \in 0..m /\ i - 1 # m + 1
        BY <3>2
      <4>. QED  BY <3>2, <4>1 DEF Sums
    <3>. QED  BY <3>1, <3>2
  <2>4. Sums(t, m + 1, f)
    BY <2>2, <2>3 DEF Sums
  <2>. QED  BY <2>4
<1>4. \E s : Sums(s, n, f)
  <2>. HIDE DEF A
  <2>1. 0..n \subseteq A
    BY <1>2, <1>3, UpTo
  <2>2. n \in A
    BY <2>1
  <2>. QED  BY <2>2 DEF A
<1>5. PICK s : Sums(s, n, f)
  BY <1>4
<1>6. Rec(s)
  <2>1. s = [m \in 0..n |-> s[m]]
    BY <1>5 DEF Sums
  <2>2. \A m \in 0..n : s[m] = IF m = 0 THEN 0 ELSE s[m-1] + f[m]
    BY <1>5 DEF Sums
  <2>. QED  BY <2>1, <2>2
<1>7. PICK c : Rec(c) /\ Total(f) = c[n]
  <2>. DEFINE d == CHOOSE x : Rec(x)
  <2>1. Rec(d)
    BY <1>6
  <2>2. Total(f) = d[n]
    BY <1>1 DEF Total
  <2>. QED  BY <2>1, <2>2
<1>8. c[n] = s[n]
  <2>. DEFINE B == { m \in 0..n : c[m] = s[m] }
  <2>1. 0 \in B
    BY <1>5, <1>7 DEF Sums
  <2>2. \A m \in 0..n : m \in B /\ m + 1 <= n => m + 1 \in B
    <3>. SUFFICES ASSUME NEW m \in 0..n, c[m] = s[m], m + 1 <= n
                  PROVE  c[m+1] = s[m+1]
      OBVIOUS
    <3>1. m + 1 \in 0..n /\ m + 1 \in 1..n /\ m + 1 # 0 /\ (m + 1) - 1 = m
      OBVIOUS
    <3>2. c[m+1] = c[m] + f[m+1]
      BY <1>7, <3>1
    <3>3. s[m+1] = s[m] + f[m+1]
      BY <1>5, <3>1 DEF Sums
    <3>. QED  BY <3>2, <3>3
  <2>. HIDE DEF B
  <2>3. 0..n \subseteq B
    BY <2>1, <2>2, UpTo
  <2>4. n \in B
    BY <2>3
  <2>. QED  BY <2>4 DEF B
<1>. QED  BY <1>5, <1>7, <1>8

\* A total of integers is an integer.
LEMMA TotalIsInt ==
    ASSUME NEW n \in Nat, NEW f, Row(n, f)
    PROVE  Total(f) \in Int
<1>. USE DEF Row
<1>1. PICK s : Sums(s, n, f) /\ Total(f) = s[n]
  BY TotalSums
<1>2. n \in 0..n
  OBVIOUS
<1>. QED  BY <1>1, <1>2 DEF Sums

\* A sum is at most another whose terms are, and sums of sums are sums.
LEMMA TotalOrder ==
    ASSUME NEW n \in Nat, NEW f, Row(n, f), NEW g, Row(n, g),
           \A i \in 1..n : f[i] <= g[i]
    PROVE  Total(f) <= Total(g)
<1>. USE DEF Row
<1>1. PICK s : Sums(s, n, f) /\ Total(f) = s[n]
  BY TotalSums
<1>2. PICK t : Sums(t, n, g) /\ Total(g) = t[n]
  BY TotalSums
<1>. DEFINE A == { m \in 0..n : s[m] <= t[m] }
<1>3. 0 \in A
  BY <1>1, <1>2 DEF Sums
<1>4. \A m \in 0..n : m \in A /\ m + 1 <= n => m + 1 \in A
  <2>. SUFFICES ASSUME NEW m \in 0..n, s[m] <= t[m], m + 1 <= n
                PROVE  s[m+1] <= t[m+1]
    OBVIOUS
  <2>1. m + 1 \in 1..n /\ (m + 1) - 1 = m
    OBVIOUS
  <2>2. s[m+1] = s[m] + f[m+1] /\ t[m+1] = t[m] + g[m+1]
    BY <1>1, <1>2, <2>1 DEF Sums
  <2>3. s[m] \in Int /\ t[m] \in Int /\ f[m+1] \in Int /\ g[m+1] \in Int
    BY <1>1, <1>2, <2>1 DEF Sums
  <2>4. f[m+1] <= g[m+1]
    BY <2>1
  <2>. QED  BY <2>2, <2>3, <2>4
<1>. HIDE DEF A
<1>5. 0..n \subseteq A
  BY <1>3, <1>4, UpTo
<1>6. n \in A
  BY <1>5
<1>. QED  BY <1>1, <1>2, <1>6 DEF A

\* The total of the sums of two rows is the sum of their totals.
LEMMA TotalAdds ==
    ASSUME NEW n \in Nat, NEW f, Row(n, f), NEW g, Row(n, g),
           NEW h, Row(n, h), \A i \in 1..n : h[i] = f[i] + g[i]
    PROVE  Total(h) = Total(f) + Total(g)
<1>. USE DEF Row
<1>1. PICK s : Sums(s, n, f) /\ Total(f) = s[n]
  BY TotalSums
<1>2. PICK t : Sums(t, n, g) /\ Total(g) = t[n]
  BY TotalSums
<1>3. PICK u : Sums(u, n, h) /\ Total(h) = u[n]
  BY TotalSums
<1>. DEFINE A == { m \in 0..n : u[m] = s[m] + t[m] }
<1>4. 0 \in A
  BY <1>1, <1>2, <1>3 DEF Sums
<1>5. \A m \in 0..n : m \in A /\ m + 1 <= n => m + 1 \in A
  <2>. SUFFICES ASSUME NEW m \in 0..n, u[m] = s[m] + t[m], m + 1 <= n
                PROVE  u[m+1] = s[m+1] + t[m+1]
    OBVIOUS
  <2>1. m + 1 \in 1..n /\ (m + 1) - 1 = m
    OBVIOUS
  <2>2. s[m+1] = s[m] + f[m+1] /\ t[m+1] = t[m] + g[m+1] /\ u[m+1] = u[m] + h[m+1]
    BY <1>1, <1>2, <1>3, <2>1 DEF Sums
  <2>3. s[m] \in Int /\ t[m] \in Int /\ f[m+1] \in Int /\ g[m+1] \in Int
    BY <1>1, <1>2, <2>1 DEF Sums
  <2>4. h[m+1] = f[m+1] + g[m+1]
    BY <2>1
  <2>. QED  BY <2>2, <2>3, <2>4
<1>. HIDE DEF A
<1>6. 0..n \subseteq A
  BY <1>4, <1>5, UpTo
<1>7. n \in A
  BY <1>6
<1>. QED  BY <1>1, <1>2, <1>3, <1>7 DEF A

\* Arithmetic that the leaves below need one fact at a time.
LEMMA Distribute ==
    ASSUME NEW c \in Int, NEW x \in Int, NEW y \in Int
    PROVE  c * (x + y) = c * x + c * y
OBVIOUS

\* A factor common to all terms is a factor of the total.
LEMMA TotalScales ==
    ASSUME NEW n \in Nat, NEW f, Row(n, f), NEW c \in Int,
           NEW g, Row(n, g), \A i \in 1..n : g[i] = c * f[i]
    PROVE  Total(g) = c * Total(f)
<1>. USE DEF Row
<1>1. PICK s : Sums(s, n, f) /\ Total(f) = s[n]
  BY TotalSums
<1>2. PICK t : Sums(t, n, g) /\ Total(g) = t[n]
  BY TotalSums
<1>. DEFINE A == { m \in 0..n : t[m] = c * s[m] }
<1>3. 0 \in A
  BY <1>1, <1>2 DEF Sums
<1>4. \A m \in 0..n : m \in A /\ m + 1 <= n => m + 1 \in A
  <2>. SUFFICES ASSUME NEW m \in 0..n, t[m] = c * s[m], m + 1 <= n
                PROVE  t[m+1] = c * s[m+1]
    OBVIOUS
  <2>1. m + 1 \in 1..n /\ (m + 1) - 1 = m
    OBVIOUS
  <2>2. s[m+1] = s[m] + f[m+1] /\ t[m+1] = t[m] + g[m+1]
    BY <1>1, <1>2, <2>1 DEF Sums
  <2>3. s[m] \in Int /\ f[m+1] \in Int
    BY <1>1, <2>1 DEF Sums
  <2>4. g[m+1] = c * f[m+1]
    BY <2>1
  <2>5. c * (s[m] + f[m+1]) = c * s[m] + c * f[m+1]
    BY <2>3, Distribute
  <2>. QED  BY <2>2, <2>4, <2>5
<1>. HIDE DEF A
<1>5. 0..n \subseteq A
  BY <1>3, <1>4, UpTo
<1>6. n \in A
  BY <1>5
<1>. QED  BY <1>1, <1>2, <1>6 DEF A

\* c at i and nothing elsewhere.
Only(n, i, c) == [k \in 1..n |-> IF k = i THEN c ELSE 0]

\* A row with one term that is not zero has that term as its total.
LEMMA TotalOfOnly ==
    ASSUME NEW n \in Nat, NEW i \in 1..n, NEW c \in Int
    PROVE  Row(n, Only(n, i, c)) /\ Total(Only(n, i, c)) = c
<1>. USE DEF Row
<1>. DEFINE f == Only(n, i, c)
<1>0. f \in [1..n -> Int] /\ \A k \in 1..n : f[k] = IF k = i THEN c ELSE 0
  BY DEF Only
<1>. HIDE DEF f
<1>1. PICK s : Sums(s, n, f) /\ Total(f) = s[n]
  BY <1>0, TotalSums
<1>. DEFINE A == { m \in 0..n : s[m] = IF m < i THEN 0 ELSE c }
<1>2. 0 \in A
  BY <1>1 DEF Sums
<1>3. \A m \in 0..n : m \in A /\ m + 1 <= n => m + 1 \in A
  <2>. SUFFICES ASSUME NEW m \in 0..n, s[m] = IF m < i THEN 0 ELSE c, m + 1 <= n
                PROVE  s[m+1] = IF m + 1 < i THEN 0 ELSE c
    OBVIOUS
  <2>1. m + 1 \in 1..n /\ (m + 1) - 1 = m
    OBVIOUS
  <2>2. s[m+1] = s[m] + f[m+1]
    BY <1>1, <2>1 DEF Sums
  <2>3. f[m+1] = IF m + 1 = i THEN c ELSE 0
    BY <1>0, <2>1
  <2>. QED  BY <2>2, <2>3
<1>. HIDE DEF A
<1>4. 0..n \subseteq A
  BY <1>2, <1>3, UpTo
<1>5. n \in A
  BY <1>4
<1>6. Total(f) = c
  BY <1>1, <1>5 DEF A
<1>. QED  BY <1>0, <1>6 DEF f

\* Two rows can be added up term by term.
LEMMA RowOfSums ==
    ASSUME NEW n \in Nat, NEW f, NEW g, Row(n, f), Row(n, g)
    PROVE  \E h : Row(n, h) /\ \A k \in 1..n : h[k] = f[k] + g[k]
<1>. DEFINE h == [k \in 1..n |-> f[k] + g[k]]
<1>1. Row(n, h) /\ \A k \in 1..n : h[k] = f[k] + g[k]
  BY DEF Row
<1>. QED  BY <1>1

\* Rows with the same terms are the same.
LEMMA RowsEqual ==
    ASSUME NEW n \in Nat, NEW f, NEW g, Row(n, f), Row(n, g), \A k \in 1..n : f[k] = g[k]
    PROVE  f = g
BY DEF Row

\* A total moves by as much as the one term that changes.
LEMMA TotalMove ==
    ASSUME NEW n \in Nat, NEW f, NEW g, Row(n, f), Row(n, g), NEW i \in 1..n, NEW c \in Int,
           \A k \in 1..n : g[k] = f[k] + (IF k = i THEN c ELSE 0)
    PROVE  Total(g) = Total(f) + c
<1>1. PICK o : /\ Row(n, o) /\ Total(o) = c
               /\ \A k \in 1..n : o[k] = IF k = i THEN c ELSE 0
  <2>1. \A k \in 1..n : Only(n, i, c)[k] = IF k = i THEN c ELSE 0
    BY DEF Only
  <2>. QED  BY <2>1, TotalOfOnly
<1>2. \A k \in 1..n : g[k] = f[k] + o[k]
  BY <1>1
<1>3. Total(g) = Total(f) + Total(o)
  BY <1>1, <1>2, TotalAdds
<1>. QED  BY <1>1, <1>3

\* A total of natural numbers is one, and none of them is above it.
LEMMA TotalIsNat ==
    ASSUME NEW n \in Nat \ {0}, NEW f, Row(n, f), \A i \in 1..n : f[i] \in Nat
    PROVE  /\ Total(f) \in Nat
           /\ \A i \in 1..n : f[i] <= Total(f)
           /\ Total(f) = 0 <=> \A i \in 1..n : f[i] = 0
<1>. USE DEF Row
<1>0. f \in [1..n -> Int] /\ n \in Nat
  OBVIOUS
<1>1. ASSUME NEW i \in 1..n PROVE f[i] <= Total(f)
  <2>1. f[i] \in Int
    OBVIOUS
  <2>2. Only(n, i, f[i]) \in [1..n -> Int] /\ Total(Only(n, i, f[i])) = f[i]
    BY <1>0, <2>1, TotalOfOnly
  <2>3. \A k \in 1..n : Only(n, i, f[i])[k] <= f[k]
    BY DEF Only
  <2>4. Total(Only(n, i, f[i])) <= Total(f)
    BY <1>0, <2>2, <2>3, TotalOrder
  <2>. QED  BY <2>2, <2>4
<1>2. Total(f) \in Int
  BY <1>0, TotalIsInt
<1>3. 1 \in 1..n /\ f[1] \in Nat /\ f[1] <= Total(f)
  BY <1>1
<1>4. ASSUME \A i \in 1..n : f[i] = 0 PROVE Total(f) = 0
  <2>1. f = Only(n, 1, 0)
    BY <1>4 DEF Only
  <2>. QED  BY <1>0, <1>3, <2>1, TotalOfOnly
<1>5. ASSUME Total(f) = 0, NEW i \in 1..n PROVE f[i] = 0
  BY <1>1, <1>5
<1>. QED  BY <1>1, <1>2, <1>3, <1>4, <1>5

-----------------------------------------------------------------------------
(* The tenants and the order in which they are paid. *)

\* n tenants with the numbers that the code takes them to have.
Asks(ts, n) == /\ DOMAIN ts = 1..n
               /\ \A i \in 1..n : /\ ts[i].floor \in Nat /\ ts[i].demand \in Nat
                                  /\ ts[i].weight \in Nat
                                  /\ 0 < ts[i].weight /\ ts[i].weight <= 1000

\* The tenants of a link are tenants in the sense of Asks.
LEMMA TenantsAsk ==
    ASSUME NEW ts \in Seq(Tenant) \ {<<>>}
    PROVE  Len(ts) \in Nat \ {0} /\ Asks(ts, Len(ts))
<1>1. Len(ts) \in Nat \ {0} /\ DOMAIN ts = 1..Len(ts)
  OBVIOUS
<1>2. \A i \in 1..Len(ts) : ts[i] \in Tenant
  BY ElementOfSeq
<1>3. \A x \in Tenant : x.floor \in Nat /\ x.demand \in Nat /\ x.weight \in 1..1000
  BY DEF Tenant
<1>4. ASSUME NEW x \in Tenant PROVE x.weight \in Nat /\ 0 < x.weight /\ x.weight <= 1000
  <2>1. x.weight \in 1..1000
    BY <1>3
  <2>2. PICK w : w = x.weight
    OBVIOUS
  <2>3. w \in 1..1000
    BY <2>1, <2>2
  <2>4. w \in Nat /\ 0 < w /\ w <= 1000
    BY <2>3
  <2>. QED  BY <2>2, <2>4
<1>5. \A i \in 1..Len(ts) : /\ ts[i].floor \in Nat /\ ts[i].demand \in Nat
                            /\ ts[i].weight \in Nat
                            /\ 0 < ts[i].weight /\ ts[i].weight <= 1000
  BY <1>2, <1>3, <1>4
<1>. QED  BY <1>1, <1>5 DEF Asks

\* The numbers a tenant comes with.
LEMMA Weights ==
    ASSUME NEW ts, NEW n \in Nat \ {0}, Asks(ts, n), NEW i \in 1..n
    PROVE  /\ ts[i].weight \in Nat /\ 0 < ts[i].weight /\ ts[i].weight <= 1000
           /\ ts[i].floor \in Nat /\ ts[i].demand \in Nat
BY DEF Asks

\* The order of the sort: the heavier first, then the earlier.
LEMMA PaidFirst ==
    ASSUME NEW ts, NEW n \in Nat \ {0}, Asks(ts, n), NEW i \in 1..n, NEW j \in 1..n
    PROVE  j \in PaidBefore(ts, i) <=> \/ ts[j].weight > ts[i].weight
                                       \/ ts[j].weight = ts[i].weight /\ j < i
BY DEF Asks, PaidBefore

\* That order is total and strict.
LEMMA PaidInOrder ==
    ASSUME NEW ts, NEW n \in Nat \ {0}, Asks(ts, n)
    PROVE  \A i, j, k \in 1..n :
              /\ i \notin PaidBefore(ts, i)
              /\ i # j => (i \in PaidBefore(ts, j) <=> j \notin PaidBefore(ts, i))
              /\ k \in PaidBefore(ts, j) /\ j \in PaidBefore(ts, i) => k \in PaidBefore(ts, i)
              /\ j \in PaidBefore(ts, i) => ts[j].weight >= ts[i].weight
<1>. SUFFICES ASSUME NEW i \in 1..n, NEW j \in 1..n, NEW k \in 1..n
              PROVE  /\ i \notin PaidBefore(ts, i)
                     /\ i # j => (i \in PaidBefore(ts, j) <=> j \notin PaidBefore(ts, i))
                     /\ k \in PaidBefore(ts, j) /\ j \in PaidBefore(ts, i)
                            => k \in PaidBefore(ts, i)
                     /\ j \in PaidBefore(ts, i) => ts[j].weight >= ts[i].weight
  OBVIOUS
<1>1. ts[i].weight \in Nat /\ ts[j].weight \in Nat /\ ts[k].weight \in Nat
  BY Weights
<1>. QED  BY <1>1, PaidFirst

\* Of some tenants one is paid before the others, and one after them.
LEMMA Foremost ==
    ASSUME NEW ts, NEW n \in Nat \ {0}, Asks(ts, n), NEW S \in SUBSET (1..n), S # {}
    PROVE  \E m \in S : \A j \in S : j # m => m \in PaidBefore(ts, j)
<1>0. \A i \in 1..n : ts[i].weight \in Nat /\ 0 < ts[i].weight
  BY Weights
<1>a. PICK f : f = [i \in 1..n |-> IF i \in S THEN ts[i].weight ELSE 0]
  OBVIOUS
<1>1. \A i \in 1..n : f[i] \in Int /\ f[i] = IF i \in S THEN ts[i].weight ELSE 0
  BY <1>0, <1>a
<1>2. PICK m \in 1..n : \A j \in 1..n : f[j] <= f[m] /\ (j < m => f[j] < f[m])
  <2>1. \A i \in 1..n : f[i] \in Int
    BY <1>1
  <2>. QED  BY <2>1, FirstLargest, Zenon
<1>3. m \in S
  <2>1. PICK x \in S : f[x] > 0
    BY <1>0, <1>1
  <2>2. f[m] > 0
    BY <1>1, <1>2, <2>1
  <2>. QED  BY <1>1, <2>2
<1>4. ASSUME NEW j \in S, j # m PROVE m \in PaidBefore(ts, j)
  <2>1. f[j] = ts[j].weight /\ f[m] = ts[m].weight /\ j \in 1..n
    BY <1>1, <1>3
  <2>2. ts[j].weight <= ts[m].weight /\ (j < m => ts[j].weight < ts[m].weight)
    BY <1>2, <2>1
  <2>. QED  BY <1>0, <1>4, <2>1, <2>2, PaidFirst
<1>. QED  BY <1>3, <1>4

\* Of any tenants one is paid last.
LEMMA Hindmost ==
    ASSUME NEW ts, NEW n \in Nat \ {0}, Asks(ts, n), NEW S \in SUBSET (1..n), S # {}
    PROVE  \E m \in S : \A j \in S : j # m => j \in PaidBefore(ts, m)
<1>0. \A i \in 1..n : ts[i].weight \in Nat /\ ts[i].weight <= 1000
  BY Weights
<1>1. PICK f : \A i \in 1..n : f[i] = IF n + 1 - i \in S THEN 1001 - ts[n + 1 - i].weight ELSE 0
  <2>. DEFINE g(i) == IF n + 1 - i \in S THEN 1001 - ts[n + 1 - i].weight ELSE 0
  <2>. HIDE DEF g
  <2>. DEFINE x == [i \in 1..n |-> g(i)]
  <2>1. \A i \in 1..n : x[i] = g(i)
    OBVIOUS
  <2>. HIDE DEF x
  <2>. QED  BY <2>1 DEF g
<1>2. \A i \in 1..n : n + 1 - i \in 1..n /\ n + 1 - (n + 1 - i) = i
  OBVIOUS
<1>3. \A i \in 1..n : f[i] \in Int
  BY <1>0, <1>1, <1>2
<1>4. PICK r \in 1..n : \A j \in 1..n : f[j] <= f[r] /\ (j < r => f[j] < f[r])
  BY <1>3, FirstLargest, Zenon
<1>5. PICK m \in 1..n : m = n + 1 - r /\ n + 1 - m = r
  BY <1>2
<1>6. \A x \in S : f[n + 1 - x] = 1001 - ts[x].weight /\ f[n + 1 - x] # 0
  <2>. SUFFICES ASSUME NEW x \in S
                PROVE  f[n + 1 - x] = 1001 - ts[x].weight /\ f[n + 1 - x] # 0
    OBVIOUS
  <2>1. x \in 1..n
    OBVIOUS
  <2>2. f[n + 1 - x] = 1001 - ts[x].weight
    BY <1>1, <1>2, <2>1
  <2>3. 1001 - ts[x].weight # 0
    BY <1>0, <2>1
  <2>. QED  BY <2>2, <2>3
<1>7. m \in S
  <2>1. PICK x \in S : TRUE
    OBVIOUS
  <2>2. PICK q \in 1..n : q = n + 1 - x
    BY <1>2, <2>1
  <2>3. f[q] = 1001 - ts[x].weight /\ ts[x].weight \in Nat /\ ts[x].weight <= 1000
    BY <1>0, <1>6, <2>1, <2>2
  <2>4. f[q] <= f[r] /\ f[r] \in Int
    BY <1>3, <1>4
  <2>5. f[r] # 0
    BY <2>3, <2>4
  <2>. QED  BY <1>1, <1>5, <2>5
<1>8. ASSUME NEW j \in S, j # m PROVE j \in PaidBefore(ts, m)
  <2>1. PICK q \in 1..n : q = n + 1 - j
    BY <1>2
  <2>2. f[q] = 1001 - ts[j].weight /\ f[r] = 1001 - ts[m].weight
    BY <1>5, <1>6, <1>7, <2>1
  <2>3. f[q] <= f[r] /\ (q < r => f[q] < f[r])
    BY <1>4
  <2>4. ts[m].weight \in Nat /\ ts[j].weight \in Nat /\ j \in 1..n
    BY <1>0, <1>7
  <2>5. ts[j].weight >= ts[m].weight /\ (q < r => ts[j].weight > ts[m].weight)
    BY <2>2, <2>3, <2>4
  <2>6. ~(q < r) => j < m
    BY <1>5, <1>8, <2>1, <2>4
  <2>. QED  BY <2>4, <2>5, <2>6, PaidFirst
<1>. QED  BY <1>7, <1>8

\* What is set aside for those before i.
Owed(ts, i) ==
    [j \in DOMAIN ts |-> IF j \in PaidBefore(ts, i) THEN ts[j].floor ELSE 0]

\* What has gone out before a tenant is paid, as a row.
LEMMA OwedIs ==
    ASSUME NEW ts, NEW n \in Nat \ {0}, Asks(ts, n)
    PROVE  \A i \in 1..n :
              /\ Row(n, Owed(ts, i)) /\ Total(Owed(ts, i)) \in Nat
              /\ \A k \in 1..n : Owed(ts, i)[k] =
                      IF k \in PaidBefore(ts, i) THEN ts[k].floor ELSE 0
<1>1. DOMAIN ts = 1..n /\ \A i \in 1..n : ts[i].floor \in Nat /\ ts[i].floor \in Int
  BY DEF Asks
<1>2. \A i, k \in 1..n : Owed(ts, i)[k] = IF k \in PaidBefore(ts, i) THEN ts[k].floor ELSE 0
  BY <1>1 DEF Owed
<1>3. \A i \in 1..n : Row(n, Owed(ts, i))
  BY <1>1 DEF Row, Owed
<1>4. \A i, k \in 1..n : Owed(ts, i)[k] \in Nat
  BY <1>1, <1>2
<1>5. \A i \in 1..n : Total(Owed(ts, i)) \in Nat
  BY <1>3, <1>4, TotalIsNat
<1>. QED  BY <1>2, <1>3, <1>5

\* A tenant paid later finds at least one more floor gone.
LEMMA OwedGrows ==
    ASSUME NEW ts, NEW n \in Nat \ {0}, Asks(ts, n), NEW i \in 1..n, NEW j \in 1..n,
           i \in PaidBefore(ts, j)
    PROVE  /\ Total(Owed(ts, j)) >= Total(Owed(ts, i)) + ts[i].floor
           /\ (\A k \in 1..n : k \in PaidBefore(ts, j) => k \in PaidBefore(ts, i) \/ k = i)
                => Total(Owed(ts, j)) = Total(Owed(ts, i)) + ts[i].floor
<1>1. PICK c \in Nat : c = ts[i].floor
  BY Weights
<1>2. PICK f : Row(n, f) /\ f = Owed(ts, i)
  BY OwedIs
<1>3. PICK g : Row(n, g) /\ g = Owed(ts, j)
  BY OwedIs
<1>4. /\ \A k \in 1..n : f[k] = IF k \in PaidBefore(ts, i) THEN ts[k].floor ELSE 0
      /\ \A k \in 1..n : g[k] = IF k \in PaidBefore(ts, j) THEN ts[k].floor ELSE 0
      /\ \A k \in 1..n : ts[k].floor \in Nat
  BY <1>2, <1>3, OwedIs, Weights
<1>5. c \in Int
  OBVIOUS
<1>6. PICK o : /\ Row(n, o) /\ Total(o) = c
               /\ \A k \in 1..n : o[k] = IF k = i THEN c ELSE 0
  <2>1. \A k \in 1..n : Only(n, i, c)[k] = IF k = i THEN c ELSE 0
    BY DEF Only
  <2>. QED  BY <1>5, <2>1, TotalOfOnly
<1>7. PICK h : Row(n, h) /\ \A k \in 1..n : h[k] = f[k] + o[k]
  <2>1. Row(n, f) /\ Row(n, o) /\ n \in Nat
    BY <1>2, <1>6
  <2>. QED  BY <2>1, RowOfSums
<1>8. Total(h) = Total(f) + c
  BY <1>2, <1>6, <1>7, TotalAdds
<1>9. \A k \in 1..n : h[k] <= g[k] /\ (h[k] = g[k] \/
          ~ (k \in PaidBefore(ts, j) => k \in PaidBefore(ts, i) \/ k = i))
  <2>. SUFFICES ASSUME NEW k \in 1..n
                PROVE  h[k] <= g[k] /\ (h[k] = g[k] \/
          ~ (k \in PaidBefore(ts, j) => k \in PaidBefore(ts, i) \/ k = i))
    OBVIOUS
  <2>1. /\ i \notin PaidBefore(ts, i)
        /\ k \in PaidBefore(ts, i) => k \in PaidBefore(ts, j)
    BY PaidInOrder
  <2>2. PICK d \in Nat : d = ts[k].floor /\ (k = i => d = c)
    BY <1>1, <1>4
  <2>3. f[k] = IF k \in PaidBefore(ts, i) THEN d ELSE 0
    BY <1>4, <2>2
  <2>4. g[k] = IF k \in PaidBefore(ts, j) THEN d ELSE 0
    BY <1>4, <2>2
  <2>5. h[k] = f[k] + (IF k = i THEN d ELSE 0)
    BY <1>6, <1>7, <2>2
  <2>. QED  BY <2>1, <2>3, <2>4, <2>5
<1>10. Total(h) <= Total(g)
  BY <1>3, <1>7, <1>9, TotalOrder
<1>11. ASSUME \A k \in 1..n : k \in PaidBefore(ts, j) => k \in PaidBefore(ts, i) \/ k = i
       PROVE  Total(g) = Total(h)
  <2>1. \A k \in 1..n : h[k] = g[k]
    BY <1>9, <1>11
  <2>2. h = g
    BY <1>3, <1>7, <2>1, RowsEqual
  <2>. QED  BY <2>2
<1>. QED  BY <1>1, <1>2, <1>3, <1>8, <1>10, <1>11

\* What the payment of the floors gives each tenant, from what had gone before.
LEMMA PaidIs ==
    ASSUME NEW ts, NEW n \in Nat \ {0}, Asks(ts, n), NEW avail \in Nat
    PROVE  LET p == PayFloors(ts, avail)
           IN  /\ Row(n, p)
               /\ \A i \in 1..n :
                     LET taken == Total(Owed(ts, i)) IN
                     /\ p[i] \in Nat /\ p[i] <= ts[i].floor
                     /\ taken + ts[i].floor <= avail => p[i] = ts[i].floor
                     /\ taken <= avail /\ avail < taken + ts[i].floor => p[i] = avail - taken
                     /\ avail < taken => p[i] = 0
<1>. DEFINE p == PayFloors(ts, avail)
<1>1. DOMAIN ts = 1..n
  BY DEF Asks
<1>2. p = [i \in 1..n |-> Least(ts[i].floor, AtLeastZero(avail - Total(Owed(ts, i))))]
  BY <1>1 DEF PayFloors, Owed
<1>. HIDE DEF p
<1>3. ASSUME NEW i \in 1..n
      PROVE  LET taken == Total(Owed(ts, i)) IN
             /\ p[i] \in Nat /\ p[i] \in Int /\ p[i] <= ts[i].floor
             /\ taken + ts[i].floor <= avail => p[i] = ts[i].floor
             /\ taken <= avail /\ avail < taken + ts[i].floor => p[i] = avail - taken
             /\ avail < taken => p[i] = 0
  <2>1. PICK taken \in Nat : taken = Total(Owed(ts, i))
    BY OwedIs
  <2>2. PICK c \in Nat : c = ts[i].floor
    BY Weights
  <2>3. p[i] = Least(c, AtLeastZero(avail - taken))
    BY <1>2, <2>1, <2>2
  <2>4. /\ p[i] \in Nat /\ p[i] \in Int /\ p[i] <= c
        /\ taken + c <= avail => p[i] = c
        /\ taken <= avail /\ avail < taken + c => p[i] = avail - taken
        /\ avail < taken => p[i] = 0
    BY <2>3 DEF Least, AtLeastZero
  <2>. QED  BY <2>1, <2>2, <2>4
<1>4. Row(n, p)
  <2>1. \A i \in 1..n : p[i] \in Int
    BY <1>3
  <2>2. p = [i \in 1..n |-> p[i]]
    BY <1>2
  <2>. QED  BY <2>1, <2>2 DEF Row
<1>. QED  BY <1>3, <1>4 DEF p

\* The floors are all paid, or they are paid in order until nothing is left.
LEMMA PayShape ==
    ASSUME NEW ts, NEW n \in Nat \ {0}, Asks(ts, n), NEW avail \in Nat
    PROVE  LET p == PayFloors(ts, avail)
           IN  \/ Total(p) <= avail /\ \A i \in 1..n : p[i] = ts[i].floor
               \/ /\ Total(p) = avail
                  /\ \E m \in 1..n :
                        /\ \A j \in PaidBefore(ts, m) : p[j] = ts[j].floor
                        /\ \A j \in 1..n : m \in PaidBefore(ts, j) => p[j] = 0
<1>1. PICK p : p = PayFloors(ts, avail)
  OBVIOUS
<1>2. /\ Row(n, p)
      /\ \A i \in 1..n :
             /\ p[i] \in Nat /\ p[i] <= ts[i].floor
             /\ Total(Owed(ts, i)) + ts[i].floor <= avail => p[i] = ts[i].floor
             /\ Total(Owed(ts, i)) <= avail /\ avail < Total(Owed(ts, i)) + ts[i].floor
                    => p[i] = avail - Total(Owed(ts, i))
             /\ avail < Total(Owed(ts, i)) => p[i] = 0
  BY <1>1, PaidIs
<1>. DEFINE U == { i \in 1..n : avail < Total(Owed(ts, i)) + ts[i].floor }
<1>3. \A m \in 1..n : /\ Total(Owed(ts, m)) \in Nat /\ ts[m].floor \in Nat
                      /\ Row(n, Owed(ts, m))
                      /\ \A k \in 1..n : Owed(ts, m)[k] =
                             IF k \in PaidBefore(ts, m) THEN ts[k].floor ELSE 0
  BY OwedIs, Weights
<1>3a. \A m \in 1..n : PaidBefore(ts, m) \subseteq 1..n
  BY DEF PaidBefore, Asks
<1>4. ASSUME NEW m \in 1..n, NEW c \in Int, p[m] = c,
             \A k \in 1..n : k # m => p[k] = IF k \in PaidBefore(ts, m) THEN ts[k].floor ELSE 0
      PROVE  Total(p) = Total(Owed(ts, m)) + c
  <2>1. PICK f : f = Owed(ts, m)
    OBVIOUS
  <2>2. Row(n, f) /\ Total(f) \in Nat
    BY <1>3, <2>1
  <2>3. \A k \in 1..n : f[k] \in Int /\ f[k] = IF k \in PaidBefore(ts, m) THEN ts[k].floor ELSE 0
    BY <1>3, <2>1
  <2>4. m \notin PaidBefore(ts, m)
    BY PaidInOrder
  <2>5. \A k \in 1..n : p[k] = f[k] + (IF k = m THEN c ELSE 0)
    BY <1>4, <2>3, <2>4
  <2>6. n \in Nat /\ Row(n, p) /\ Row(n, f)
    BY <1>2, <2>2
  <2>7. Total(p) = Total(f) + c
    BY <2>5, <2>6, TotalMove
  <2>. QED  BY <2>1, <2>2, <2>7
<1>5. CASE U = {}
  <2>1. \A i \in 1..n : p[i] = ts[i].floor /\ Total(Owed(ts, i)) + ts[i].floor <= avail
    <3>1. \A i \in 1..n : ~ (avail < Total(Owed(ts, i)) + ts[i].floor)
      BY <1>5
    <3>2. \A i \in 1..n : Total(Owed(ts, i)) + ts[i].floor <= avail
      BY <1>3, <3>1
    <3>. QED  BY <1>2, <3>2
  <2>2. PICK m \in 1..n : \A j \in 1..n : j # m => j \in PaidBefore(ts, m)
    <3>1. 1 \in 1..n
      OBVIOUS
    <3>2. 1..n # {} /\ 1..n \in SUBSET (1..n)
      BY <3>1
    <3>. QED  BY <3>2, Hindmost
  <2>3. PICK c \in Int : c = ts[m].floor
    BY <1>3
  <2>4. Total(p) = Total(Owed(ts, m)) + c
    <3>1. p[m] = c
      BY <2>1, <2>3
    <3>2. \A k \in 1..n : k # m => p[k] = IF k \in PaidBefore(ts, m) THEN ts[k].floor ELSE 0
      BY <2>1, <2>2
    <3>. QED  BY <1>4, <3>1, <3>2
  <2>5. Total(p) <= avail
    BY <2>1, <2>3, <2>4
  <2>. QED  BY <1>1, <2>1, <2>5
<1>6. CASE U # {}
  <2>1. PICK m \in U : \A j \in U : j # m => m \in PaidBefore(ts, j)
    BY <1>6, Foremost
  <2>2. m \in 1..n /\ avail < Total(Owed(ts, m)) + ts[m].floor
    OBVIOUS
  <2>3. \A j \in 1..n : j \in PaidBefore(ts, m) =>
              p[j] = ts[j].floor /\ Total(Owed(ts, j)) + ts[j].floor <= avail
    <3>. SUFFICES ASSUME NEW j \in 1..n, j \in PaidBefore(ts, m)
                  PROVE  p[j] = ts[j].floor /\ Total(Owed(ts, j)) + ts[j].floor <= avail
      OBVIOUS
    <3>1. j \notin U
      <4>1. j # m /\ m \notin PaidBefore(ts, j)
        BY <2>2, PaidInOrder
      <4>. QED  BY <2>1, <4>1
    <3>2. ~ (avail < Total(Owed(ts, j)) + ts[j].floor)
      BY <3>1
    <3>3. Total(Owed(ts, j)) + ts[j].floor <= avail
      BY <1>3, <3>2
    <3>. QED  BY <1>2, <3>3
  <2>. HIDE DEF U
  <2>4. Total(Owed(ts, m)) <= avail
    <3>1. CASE PaidBefore(ts, m) = {}
      <4>1. \A k \in 1..n : Owed(ts, m)[k] = 0
        BY <1>3, <2>2, <3>1
      <4>2. Row(n, Owed(ts, m)) /\ \A k \in 1..n : Owed(ts, m)[k] \in Nat
        BY <1>3, <2>2, <4>1
      <4>3. Total(Owed(ts, m)) = 0
        BY <4>1, <4>2, TotalIsNat
      <4>. QED  BY <4>3
    <3>2. CASE PaidBefore(ts, m) # {}
      <4>1. PaidBefore(ts, m) \in SUBSET (1..n)
        BY <1>3a, <2>2
      <4>2. PICK q \in PaidBefore(ts, m) :
                \A j \in PaidBefore(ts, m) : j # q => j \in PaidBefore(ts, q)
        BY <3>2, <4>1, Hindmost
      <4>3. q \in 1..n
        BY <4>1, <4>2
      <4>4. \A k \in 1..n : k \in PaidBefore(ts, m) => k \in PaidBefore(ts, q) \/ k = q
        BY <4>2
      <4>5. Total(Owed(ts, m)) = Total(Owed(ts, q)) + ts[q].floor
        BY <2>2, <4>2, <4>3, <4>4, OwedGrows
      <4>6. Total(Owed(ts, q)) + ts[q].floor <= avail
        BY <2>3, <4>2, <4>3
      <4>. QED  BY <4>5, <4>6
    <3>. QED  BY <3>1, <3>2
  <2>5. \A j \in 1..n : m \in PaidBefore(ts, j) => p[j] = 0
    <3>. SUFFICES ASSUME NEW j \in 1..n, m \in PaidBefore(ts, j) PROVE p[j] = 0
      OBVIOUS
    <3>1. Total(Owed(ts, j)) >= Total(Owed(ts, m)) + ts[m].floor
      BY <2>2, OwedGrows
    <3>2. /\ Total(Owed(ts, j)) \in Nat /\ Total(Owed(ts, m)) \in Nat /\ ts[m].floor \in Nat
      BY <1>3, <2>2
    <3>3. avail < Total(Owed(ts, j))
      BY <2>2, <3>1, <3>2
    <3>. QED  BY <1>2, <3>3
  <2>6. p[m] = avail - Total(Owed(ts, m))
    BY <1>2, <2>2, <2>4
  <2>7. PICK c \in Int : c = avail - Total(Owed(ts, m))
    BY <1>3, <2>2
  <2>8. Total(p) = Total(Owed(ts, m)) + c
    <3>1. \A k \in 1..n : k # m => p[k] = IF k \in PaidBefore(ts, m) THEN ts[k].floor ELSE 0
      BY <2>2, <2>3, <2>5, PaidInOrder
    <3>. QED  BY <1>4, <2>2, <2>6, <2>7, <3>1
  <2>9. Total(p) = avail
    <3>1. Total(Owed(ts, m)) \in Nat
      BY <1>3, <2>2
    <3>. QED  BY <2>7, <2>8, <3>1
  <2>10. \A j \in PaidBefore(ts, m) : p[j] = ts[j].floor
    BY <1>3a, <2>2, <2>3
  <2>. QED  BY <1>1, <2>2, <2>5, <2>9, <2>10
<1>. QED  BY <1>5, <1>6

\* Rounding down.
LEMMA DivBelow ==
    ASSUME NEW x \in Nat, NEW t \in Nat \ {0}
    PROVE  x \div t \in Nat /\ t * (x \div t) <= x
OBVIOUS

\* A positive factor can be cancelled.
LEMMA Cancel ==
    ASSUME NEW t \in Nat \ {0}, NEW x \in Int, NEW y \in Int, t * x <= t * y
    PROVE  x <= y
<1>. SUFFICES ASSUME y + 1 <= x PROVE FALSE
  OBVIOUS
<1>1. t * (x - y) = t * x - t * y
  OBVIOUS
<1>2. x - y >= 1 /\ t >= 1
  OBVIOUS
<1>3. t * (x - y) >= 1
  BY <1>2
<1>. QED  BY <1>1, <1>3

\* A factor that is not negative keeps the order.
LEMMA ProductGrows ==
    ASSUME NEW r \in Nat, NEW x \in Nat, NEW y \in Nat, x <= y
    PROVE  r * x \in Nat /\ r * x <= r * y
OBVIOUS

\* What is shared out is not more than there is, and lowers nobody.
LEMMA SpreadFits ==
    ASSUME NEW ts, NEW n \in Nat \ {0}, Asks(ts, n),
           NEW p, Row(n, p), \A i \in 1..n : p[i] = ts[i].floor, NEW rem \in Nat
    PROVE  LET a == Spread(ts, p, rem)
           IN  /\ Row(n, a)
               /\ \A i \in 1..n : /\ a[i] \in Nat /\ a[i] <= ts[i].demand
                                  /\ a[i] < ts[i].floor => a[i] = ts[i].demand
               /\ Total(a) <= Total(p) + rem
<1>1. DOMAIN ts = 1..n
  BY DEF Asks
<1>2. PICK s : s = [i \in 1..n |-> AtLeastZero(ts[i].demand - p[i]) * ts[i].weight]
  OBVIOUS
<1>3. PICK t : t = IF Total(s) = 0 THEN 1 ELSE Total(s)
  OBVIOUS
<1>4. PICK a : a = [i \in 1..n |-> Least(ts[i].demand, p[i] + (rem * s[i]) \div t)]
  OBVIOUS
<1>5. a = Spread(ts, p, rem)
  BY <1>1, <1>2, <1>3, <1>4 DEF Spread
<1>6. \A i \in 1..n : s[i] \in Nat
  <2>. SUFFICES ASSUME NEW i \in 1..n PROVE s[i] \in Nat
    OBVIOUS
  <2>1. PICK d \in Nat, f \in Nat, w \in Nat :
            d = ts[i].demand /\ f = ts[i].floor /\ w = ts[i].weight
    BY Weights
  <2>2. s[i] = AtLeastZero(d - f) * w
    BY <1>2, <2>1
  <2>3. AtLeastZero(d - f) \in Nat
    BY DEF AtLeastZero
  <2>4. \A x \in Nat : x * w \in Nat
    OBVIOUS
  <2>. QED  BY <2>2, <2>3, <2>4
<1>7. Row(n, s)
  <2>1. \A i \in 1..n : s[i] \in Int
    BY <1>6
  <2>2. s = [i \in 1..n |-> s[i]]
    BY <1>2
  <2>. QED  BY <2>1, <2>2 DEF Row
<1>8. Total(s) \in Nat /\ t \in Nat \ {0} /\ Total(s) <= t
  <2>1. Total(s) \in Nat
    BY <1>6, <1>7, TotalIsNat
  <2>. QED  BY <1>3, <2>1
<1>9. PICK r : /\ Row(n, r) /\ \A i \in 1..n : r[i] \in Nat /\ r[i] = rem * s[i]
  <2>1. \A i \in 1..n : rem * s[i] \in Nat /\ rem * s[i] \in Int
    BY <1>6
  <2>. DEFINE x == [i \in 1..n |-> rem * s[i]]
  <2>2. Row(n, x) /\ \A i \in 1..n : x[i] \in Nat /\ x[i] = rem * s[i]
    BY <2>1 DEF Row
  <2>. QED  BY <2>2
<1>10. PICK q : /\ Row(n, q) /\ \A i \in 1..n : /\ q[i] \in Nat /\ q[i] = r[i] \div t
                                                /\ t * q[i] <= r[i]
  <2>1. \A i \in 1..n : /\ r[i] \div t \in Nat /\ r[i] \div t \in Int
                        /\ t * (r[i] \div t) <= r[i]
    BY <1>8, <1>9, DivBelow
  <2>. DEFINE x == [i \in 1..n |-> r[i] \div t]
  <2>2. Row(n, x) /\ \A i \in 1..n : x[i] \in Nat /\ x[i] = r[i] \div t /\ t * x[i] <= r[i]
    BY <2>1 DEF Row
  <2>. QED  BY <2>2
<1>11. PICK m : Row(n, m) /\ \A i \in 1..n : m[i] = t * q[i] /\ m[i] <= r[i]
  <2>1. \A i \in 1..n : t * q[i] \in Int
    BY <1>8, <1>10
  <2>. DEFINE x == [i \in 1..n |-> t * q[i]]
  <2>2. Row(n, x) /\ \A i \in 1..n : x[i] = t * q[i] /\ x[i] <= r[i]
    BY <1>10, <2>1 DEF Row
  <2>. QED  BY <2>2
<1>12. Total(q) <= rem
  <2>1. Total(m) = t * Total(q)
    <3>1. n \in Nat /\ t \in Int /\ Row(n, q) /\ Row(n, m)
      BY <1>8, <1>10, <1>11
    <3>. QED  BY <1>11, <3>1, TotalScales
  <2>2. Total(r) = rem * Total(s)
    <3>1. n \in Nat /\ rem \in Int /\ Row(n, s) /\ Row(n, r)
      BY <1>7, <1>9
    <3>. QED  BY <1>9, <3>1, TotalScales
  <2>3. Total(m) <= Total(r)
    <3>1. n \in Nat /\ Row(n, m) /\ Row(n, r)
      BY <1>9, <1>11
    <3>. QED  BY <1>11, <3>1, TotalOrder
  <2>4. rem * Total(s) <= rem * t
    BY <1>8, ProductGrows
  <2>5. Total(q) \in Int /\ t * rem = rem * t
    BY <1>8, <1>10, TotalIsInt
  <2>6. t * Total(q) <= t * rem
    <3>1. t * Total(q) \in Int /\ rem * Total(s) \in Int /\ rem * t \in Int
      BY <1>8, <2>5
    <3>. QED  BY <2>1, <2>2, <2>3, <2>4, <2>5, <3>1
  <2>. QED  BY <1>8, <2>5, <2>6, Cancel
<1>13. \A i \in 1..n : /\ a[i] \in Nat /\ a[i] \in Int /\ a[i] <= ts[i].demand
                       /\ a[i] < ts[i].floor => a[i] = ts[i].demand
                       /\ a[i] <= p[i] + q[i]
  <2>. SUFFICES ASSUME NEW i \in 1..n
                PROVE  /\ a[i] \in Nat /\ a[i] \in Int /\ a[i] <= ts[i].demand
                       /\ a[i] < ts[i].floor => a[i] = ts[i].demand
                       /\ a[i] <= p[i] + q[i]
    OBVIOUS
  <2>1. PICK d \in Nat, f \in Nat : d = ts[i].demand /\ f = ts[i].floor /\ p[i] = f
    BY Weights
  <2>2. PICK c \in Nat : c = q[i]
    BY <1>10
  <2>3. a[i] = Least(d, f + c)
    BY <1>4, <1>9, <1>10, <2>1, <2>2
  <2>4. a[i] \in Nat /\ a[i] \in Int /\ a[i] <= d /\ (a[i] < f => a[i] = d) /\ a[i] <= f + c
    BY <2>3 DEF Least
  <2>. QED  BY <2>1, <2>2, <2>4
<1>14. Row(n, a)
  <2>1. \A i \in 1..n : a[i] \in Int
    BY <1>13
  <2>2. a = [i \in 1..n |-> a[i]]
    BY <1>4
  <2>. QED  BY <2>1, <2>2 DEF Row
<1>15. Total(a) <= Total(p) + rem
  <2>1. PICK h : Row(n, h) /\ \A k \in 1..n : h[k] = p[k] + q[k]
    <3>1. n \in Nat /\ Row(n, p) /\ Row(n, q)
      BY <1>10
    <3>. QED  BY <3>1, RowOfSums
  <2>2. Total(h) = Total(p) + Total(q)
    BY <1>10, <2>1, TotalAdds
  <2>3. Total(a) <= Total(h)
    BY <1>13, <1>14, <2>1, TotalOrder
  <2>4. Total(a) \in Int /\ Total(p) \in Int /\ Total(q) \in Int
    BY <1>10, <1>14, TotalIsInt
  <2>. QED  BY <1>12, <2>2, <2>3, <2>4
<1>. QED  BY <1>5, <1>13, <1>14, <1>15

\* Nobody is short, or the floors are paid in order and nothing is left.
Served(ts, n, a) == \A i \in 1..n : a[i] < ts[i].floor => a[i] >= ts[i].demand
InOrder(ts, n, a) ==
    \E m \in 1..n : /\ \A j \in PaidBefore(ts, m) : a[j] = ts[j].floor
                    /\ \A j \in 1..n : m \in PaidBefore(ts, j) => a[j] = 0

\* The heuristic stays below the link and below every demand, and either pays all
\* floors or uses up the link in the order of payment.
LEMMA HeuristicShape ==
    ASSUME NEW ts, NEW n \in Nat \ {0}, Asks(ts, n), NEW avail \in Nat
    PROVE  LET a == ProportionalAllocation(ts, avail)
           IN  /\ Row(n, a) /\ Total(a) <= avail
               /\ \A i \in 1..n : /\ a[i] \in Nat
                                  /\ ts[i].floor <= ts[i].demand => a[i] <= ts[i].demand
               /\ \/ Served(ts, n, a)
                  \/ Total(a) = avail /\ InOrder(ts, n, a)
                        /\ \A i \in 1..n : a[i] <= ts[i].floor
<1>1. PICK p : p = PayFloors(ts, avail)
  OBVIOUS
<1>2. Row(n, p) /\ \A i \in 1..n : p[i] \in Nat /\ p[i] <= ts[i].floor
  BY <1>1, PaidIs
<1>3. PICK rem : rem = avail - Total(p)
  OBVIOUS
<1>4. PICK a : a = ProportionalAllocation(ts, avail)
  OBVIOUS
<1>5. a = IF rem > 0 THEN Spread(ts, p, rem) ELSE p
  BY <1>1, <1>3, <1>4 DEF ProportionalAllocation
<1>6. Total(p) \in Nat /\ rem \in Int
  <2>1. Total(p) \in Nat
    BY <1>2, TotalIsNat
  <2>. QED  BY <1>3, <2>1
<1>7. \A i \in 1..n : p[i] \in Nat /\ (ts[i].floor <= ts[i].demand => p[i] <= ts[i].demand)
  BY <1>2, Weights
<1>8. CASE Total(p) <= avail /\ \A i \in 1..n : p[i] = ts[i].floor
  <2>1. CASE rem > 0
    <3>1. a = Spread(ts, p, rem) /\ rem \in Nat
      BY <1>5, <1>6, <2>1
    <3>2. /\ Row(n, a)
          /\ \A i \in 1..n : /\ a[i] \in Nat /\ a[i] <= ts[i].demand
                             /\ a[i] < ts[i].floor => a[i] = ts[i].demand
          /\ Total(a) <= Total(p) + rem
      BY <1>2, <1>8, <3>1, SpreadFits
    <3>3. Total(a) \in Int
      BY <3>2, TotalIsInt
    <3>4. Total(a) <= avail
      BY <1>3, <1>6, <3>2, <3>3
    <3>5. Served(ts, n, a)
      <4>1. \A i \in 1..n : ts[i].demand \in Nat
        BY Weights
      <4>. QED  BY <3>2, <4>1 DEF Served
    <3>. QED  BY <1>4, <3>2, <3>4, <3>5
  <2>2. CASE ~ (rem > 0)
    <3>1. a = p
      BY <1>5, <2>2
    <3>2. Served(ts, n, a)
      <4>1. \A i \in 1..n : ~ (p[i] < ts[i].floor)
        BY <1>2, <1>8, Weights
      <4>. QED  BY <3>1, <4>1 DEF Served
    <3>. QED  BY <1>2, <1>4, <1>7, <1>8, <3>1, <3>2
  <2>. QED  BY <2>1, <2>2
<1>9. CASE Total(p) = avail /\ InOrder(ts, n, p)
  <2>1. ~ (rem > 0)
    BY <1>3, <1>6, <1>9
  <2>2. a = p
    BY <1>5, <2>1
  <2>3. Total(p) <= avail
    BY <1>9
  <2>. QED  BY <1>2, <1>4, <1>7, <1>9, <2>2, <2>3
<1>10. \/ Total(p) <= avail /\ \A i \in 1..n : p[i] = ts[i].floor
       \/ Total(p) = avail /\ InOrder(ts, n, p)
  BY <1>1, PayShape DEF InOrder
<1>. QED  BY <1>8, <1>9, <1>10

\* No unit for a tenant while one of higher weight is short.
InPriority(ts, n, a) ==
    \A i, j \in 1..n :
        a[i] < ts[i].floor /\ a[i] < ts[i].demand /\ ts[j].weight < ts[i].weight => a[j] = 0

\* The heuristic leaves nobody short for the sake of a lighter tenant.
LEMMA HeuristicPriority ==
    ASSUME NEW ts, NEW n \in Nat \ {0}, Asks(ts, n), NEW avail \in Nat
    PROVE  LET a == ProportionalAllocation(ts, avail)
           IN  InPriority(ts, n, a) /\ Total(a) <= avail
<1>1. PICK a : a = ProportionalAllocation(ts, avail)
  OBVIOUS
<1>2. /\ Total(a) <= avail
      /\ \A i \in 1..n : a[i] \in Nat
      /\ Served(ts, n, a) \/ InOrder(ts, n, a)
  BY <1>1, HeuristicShape
<1>3. CASE Served(ts, n, a)
  <2>1. \A i \in 1..n : ts[i].demand \in Nat /\ a[i] \in Nat
    BY <1>2, Weights
  <2>2. \A i \in 1..n : ~ (a[i] < ts[i].floor /\ a[i] < ts[i].demand)
    BY <1>3, <2>1 DEF Served
  <2>. QED  BY <1>1, <1>2, <2>2 DEF InPriority
<1>4. CASE InOrder(ts, n, a)
  <2>1. PICK m \in 1..n : /\ \A j \in PaidBefore(ts, m) : a[j] = ts[j].floor
                          /\ \A j \in 1..n : m \in PaidBefore(ts, j) => a[j] = 0
    BY <1>4 DEF InOrder
  <2>2. InPriority(ts, n, a)
    <3>. SUFFICES ASSUME NEW i \in 1..n, NEW j \in 1..n, a[i] < ts[i].floor,
                         ts[j].weight < ts[i].weight
                  PROVE  a[j] = 0
      BY DEF InPriority
    <3>1. /\ ts[i].floor \in Nat /\ a[i] \in Nat
          /\ ts[i].weight \in Nat /\ ts[j].weight \in Nat
      BY <1>2, Weights
    <3>2. a[i] # ts[i].floor
      BY <3>1
    <3>3. i \notin PaidBefore(ts, m)
      BY <2>1, <3>2
    <3>4. i \in PaidBefore(ts, j)
      BY <3>1, PaidFirst
    <3>5. m \in PaidBefore(ts, j)
      <4>1. i = m \/ m \in PaidBefore(ts, i)
        BY <3>3, PaidInOrder
      <4>. QED  BY <3>4, <4>1, PaidInOrder
    <3>. QED  BY <2>1, <3>5
  <2>. QED  BY <1>1, <1>2, <2>2
<1>. QED  BY <1>2, <1>3, <1>4

-----------------------------------------------------------------------------
(* The linear program. *)

\* The weighted shortfall of each tenant, and the weighted amount it gets.
Gap(ts, a) == [i \in DOMAIN ts |-> ts[i].weight * AtLeastZero(ts[i].floor - a[i])]
Gain(ts, a) == [i \in DOMAIN ts |-> ts[i].weight * a[i]]

\* An amount for each tenant.
Amounts(n, a) == Row(n, a) /\ \A i \in 1..n : a[i] \in Nat

\* The two terms of the objective, as rows.
LEMMA GapIs ==
    ASSUME NEW ts, NEW n \in Nat \ {0}, Asks(ts, n), NEW a, Amounts(n, a)
    PROVE  /\ Row(n, Gap(ts, a)) /\ Row(n, Gain(ts, a))
           /\ \A i \in 1..n :
                 /\ Gap(ts, a)[i] = ts[i].weight * AtLeastZero(ts[i].floor - a[i])
                 /\ Gain(ts, a)[i] = ts[i].weight * a[i]
                 /\ Gap(ts, a)[i] \in Nat /\ Gain(ts, a)[i] \in Nat
           /\ Violation(ts, a) = Total(Gap(ts, a))
           /\ Violation(ts, a) \in Nat /\ Total(Gain(ts, a)) \in Nat
           /\ Cost(ts, a) = 1000 * Violation(ts, a) - Total(Gain(ts, a))
<1>1. DOMAIN ts = 1..n
  BY DEF Asks
<1>2. \A i \in 1..n : /\ Gap(ts, a)[i] = ts[i].weight * AtLeastZero(ts[i].floor - a[i])
                      /\ Gain(ts, a)[i] = ts[i].weight * a[i]
  BY <1>1 DEF Gap, Gain
<1>3. \A i \in 1..n : /\ Gap(ts, a)[i] \in Nat /\ Gain(ts, a)[i] \in Nat
                      /\ Gap(ts, a)[i] \in Int /\ Gain(ts, a)[i] \in Int
  <2>. SUFFICES ASSUME NEW i \in 1..n
                PROVE  /\ Gap(ts, a)[i] \in Nat /\ Gain(ts, a)[i] \in Nat
                       /\ Gap(ts, a)[i] \in Int /\ Gain(ts, a)[i] \in Int
    OBVIOUS
  <2>1. PICK f \in Nat, w \in Nat, x \in Nat : f = ts[i].floor /\ w = ts[i].weight /\ x = a[i]
    BY Weights DEF Amounts
  <2>2. Gap(ts, a)[i] = w * AtLeastZero(f - x) /\ Gain(ts, a)[i] = w * x
    BY <1>2, <2>1
  <2>3. AtLeastZero(f - x) \in Nat
    BY DEF AtLeastZero
  <2>4. \A y \in Nat : w * y \in Nat /\ w * y \in Int
    OBVIOUS
  <2>. QED  BY <2>2, <2>3, <2>4
<1>4. Row(n, Gap(ts, a)) /\ Row(n, Gain(ts, a))
  <2>1. /\ Gap(ts, a) = [i \in 1..n |-> Gap(ts, a)[i]]
        /\ Gain(ts, a) = [i \in 1..n |-> Gain(ts, a)[i]]
    BY <1>1 DEF Gap, Gain
  <2>. QED  BY <1>3, <2>1 DEF Row
<1>5. Violation(ts, a) = Total(Gap(ts, a))
  BY DEF Violation, Gap
<1>6. Cost(ts, a) = 1000 * Violation(ts, a) - Total(Gain(ts, a))
  BY DEF Cost, Gain
<1>7. Total(Gap(ts, a)) \in Nat /\ Total(Gain(ts, a)) \in Nat
  BY <1>3, <1>4, TotalIsNat
<1>. QED  BY <1>2, <1>3, <1>4, <1>5, <1>6, <1>7

\* One unit given to a tenant below its floor, and one taken.
LEMMA UnitGiven ==
    ASSUME NEW w \in Nat, NEW f \in Nat, NEW x \in Nat, x < f
    PROVE  /\ w * AtLeastZero(f - (x + 1)) = w * AtLeastZero(f - x) - w
           /\ w * (x + 1) = w * x + w
<1>1. AtLeastZero(f - (x + 1)) = f - (x + 1) /\ AtLeastZero(f - x) = f - x
  BY DEF AtLeastZero
<1>2. f - x = (f - (x + 1)) + 1 /\ f - (x + 1) \in Int
  OBVIOUS
<1>3. w * ((f - (x + 1)) + 1) = w * (f - (x + 1)) + w * 1
  BY <1>2, Distribute
<1>4. w * (x + 1) = w * x + w * 1
  BY Distribute
<1>5. w * 1 = w /\ w * (f - (x + 1)) \in Int /\ w * (f - x) \in Int
  BY <1>2
<1>. QED  BY <1>1, <1>2, <1>3, <1>4, <1>5

\* What one unit less costs.
LEMMA UnitTaken ==
    ASSUME NEW w \in Nat, NEW f \in Nat, NEW x \in Nat, 0 < x
    PROVE  /\ w * AtLeastZero(f - (x - 1)) <= w * AtLeastZero(f - x) + w
           /\ f < x => w * AtLeastZero(f - (x - 1)) = w * AtLeastZero(f - x)
           /\ w * (x - 1) = w * x - w
<1>1. w * x = w * (x - 1) + w
  <2>1. w * ((x - 1) + 1) = w * (x - 1) + w * 1
    BY Distribute
  <2>. QED  BY <2>1
<1>2. CASE f < x
  <2>1. AtLeastZero(f - (x - 1)) = 0 /\ AtLeastZero(f - x) = 0
    BY <1>2 DEF AtLeastZero
  <2>2. w * (x - 1) \in Int /\ w * 0 = 0
    OBVIOUS
  <2>. QED  BY <1>1, <2>1, <2>2
<1>3. CASE x <= f
  <2>1. AtLeastZero(f - (x - 1)) = (f - x) + 1 /\ AtLeastZero(f - x) = f - x
    BY <1>3 DEF AtLeastZero
  <2>2. w * ((f - x) + 1) = w * (f - x) + w * 1
    BY Distribute
  <2>3. w * (x - 1) \in Int /\ w * (f - x) \in Int /\ w * 1 = w
    OBVIOUS
  <2>. QED  BY <1>1, <1>3, <2>1, <2>2, <2>3
<1>. QED  BY <1>2, <1>3

\* One unit more for a tenant that is short.
LEMMA Give ==
    ASSUME NEW ts, NEW n \in Nat \ {0}, Asks(ts, n), NEW a, Amounts(n, a),
           NEW i \in 1..n, a[i] < ts[i].floor
    PROVE  \E b : /\ Amounts(n, b)
                  /\ \A k \in 1..n : b[k] = a[k] + (IF k = i THEN 1 ELSE 0)
                  /\ Total(b) = Total(a) + 1
                  /\ Violation(ts, b) = Violation(ts, a) - ts[i].weight
                  /\ Total(Gain(ts, b)) = Total(Gain(ts, a)) + ts[i].weight
<1>. DEFINE z == [k \in 1..n |-> a[k] + (IF k = i THEN 1 ELSE 0)]
<1>0. Row(n, a) /\ \A k \in 1..n : a[k] \in Nat
  BY DEF Amounts
<1>1. PICK b : Amounts(n, b) /\ \A k \in 1..n : b[k] = a[k] + (IF k = i THEN 1 ELSE 0)
  <2>1. \A k \in 1..n : z[k] = a[k] + (IF k = i THEN 1 ELSE 0) /\ z[k] \in Nat /\ z[k] \in Int
    BY <1>0
  <2>2. Amounts(n, z)
    BY <2>1 DEF Amounts, Row
  <2>. HIDE DEF z
  <2>. QED  BY <2>1, <2>2
<1>. HIDE DEF z
<1>2. Row(n, b)
  BY <1>1 DEF Amounts
<1>3. Total(b) = Total(a) + 1
  BY <1>0, <1>1, <1>2, TotalMove
<1>4. /\ Row(n, Gap(ts, a)) /\ Row(n, Gain(ts, a)) /\ Row(n, Gap(ts, b)) /\ Row(n, Gain(ts, b))
      /\ Violation(ts, a) = Total(Gap(ts, a)) /\ Violation(ts, b) = Total(Gap(ts, b))
      /\ Violation(ts, a) \in Nat /\ Violation(ts, b) \in Nat
  BY <1>1, GapIs
<1>5. PICK w \in Nat, f \in Nat, x \in Nat : w = ts[i].weight /\ f = ts[i].floor /\ x = a[i]
  BY <1>0, Weights
<1>6. w \in Int /\ -w \in Int
  OBVIOUS
<1>7. ASSUME NEW k \in 1..n
      PROVE  /\ Gap(ts, b)[k] = Gap(ts, a)[k] + (IF k = i THEN -w ELSE 0)
             /\ Gain(ts, b)[k] = Gain(ts, a)[k] + (IF k = i THEN w ELSE 0)
  <2>1. /\ Gap(ts, a)[k] = ts[k].weight * AtLeastZero(ts[k].floor - a[k])
        /\ Gain(ts, a)[k] = ts[k].weight * a[k]
        /\ Gap(ts, a)[k] \in Int /\ Gain(ts, a)[k] \in Int
    BY GapIs
  <2>2. /\ Gap(ts, b)[k] = ts[k].weight * AtLeastZero(ts[k].floor - b[k])
        /\ Gain(ts, b)[k] = ts[k].weight * b[k]
    BY <1>1, GapIs
  <2>3. CASE k = i
    <3>1. b[k] = x + 1 /\ x < f
      BY <1>1, <1>5, <2>3
    <3>2. /\ Gap(ts, a)[k] = w * AtLeastZero(f - x) /\ Gain(ts, a)[k] = w * x
          /\ Gap(ts, b)[k] = w * AtLeastZero(f - (x + 1)) /\ Gain(ts, b)[k] = w * (x + 1)
      BY <1>5, <2>1, <2>2, <2>3, <3>1
    <3>3. Gap(ts, b)[k] = Gap(ts, a)[k] - w /\ Gain(ts, b)[k] = Gain(ts, a)[k] + w
      <4>1. /\ w * AtLeastZero(f - (x + 1)) = w * AtLeastZero(f - x) - w
            /\ w * (x + 1) = w * x + w
        BY <3>1, UnitGiven
      <4>. QED  BY <3>2, <4>1, Zenon
    <3>. QED  BY <2>1, <2>3, <3>3
  <2>4. CASE k # i
    <3>1. b[k] = a[k]
      BY <1>0, <1>1, <2>4
    <3>. QED  BY <2>1, <2>2, <2>4, <3>1
  <2>. QED  BY <2>3, <2>4
<1>8. Total(Gap(ts, b)) = Total(Gap(ts, a)) + (-w)
  <2>1. \A k \in 1..n : Gap(ts, b)[k] = Gap(ts, a)[k] + (IF k = i THEN -w ELSE 0)
    BY <1>7
  <2>2. Row(n, Gap(ts, a)) /\ Row(n, Gap(ts, b)) /\ n \in Nat
    BY <1>4
  <2>3. ASSUME NEW d \in Int, d = -w
        PROVE  Total(Gap(ts, b)) = Total(Gap(ts, a)) + d
    <3>1. \A k \in 1..n : Gap(ts, b)[k] = Gap(ts, a)[k] + (IF k = i THEN d ELSE 0)
      BY <2>1, <2>3
    <3>. QED  BY <2>2, <3>1, TotalMove
  <2>. QED  BY <1>6, <2>3
<1>9. Total(Gain(ts, b)) = Total(Gain(ts, a)) + w
  <2>1. \A k \in 1..n : Gain(ts, b)[k] = Gain(ts, a)[k] + (IF k = i THEN w ELSE 0)
    BY <1>7
  <2>2. Row(n, Gain(ts, a)) /\ Row(n, Gain(ts, b)) /\ n \in Nat
    BY <1>4
  <2>. QED  BY <1>6, <2>1, <2>2, TotalMove
<1>10. Violation(ts, b) = Violation(ts, a) - w
  BY <1>4, <1>8
<1>. QED  BY <1>1, <1>3, <1>5, <1>9, <1>10

\* One unit less for a tenant that has some.
LEMMA Take ==
    ASSUME NEW ts, NEW n \in Nat \ {0}, Asks(ts, n), NEW a, Amounts(n, a),
           NEW i \in 1..n, 0 < a[i]
    PROVE  \E b : /\ Amounts(n, b)
                  /\ \A k \in 1..n : b[k] = a[k] + (IF k = i THEN -1 ELSE 0)
                  /\ Total(b) = Total(a) - 1
                  /\ Violation(ts, b) <= Violation(ts, a) + ts[i].weight
                  /\ ts[i].floor < a[i] => Violation(ts, b) = Violation(ts, a)
                  /\ Total(Gain(ts, b)) = Total(Gain(ts, a)) - ts[i].weight
<1>. DEFINE z == [k \in 1..n |-> a[k] + (IF k = i THEN -1 ELSE 0)]
<1>0. Row(n, a) /\ \A k \in 1..n : a[k] \in Nat
  BY DEF Amounts
<1>1. PICK b : Amounts(n, b) /\ \A k \in 1..n : b[k] = a[k] + (IF k = i THEN -1 ELSE 0)
  <2>1. \A k \in 1..n : z[k] = a[k] + (IF k = i THEN -1 ELSE 0) /\ z[k] \in Nat /\ z[k] \in Int
    BY <1>0
  <2>2. Amounts(n, z)
    BY <2>1 DEF Amounts, Row
  <2>. HIDE DEF z
  <2>. QED  BY <2>1, <2>2
<1>. HIDE DEF z
<1>2. Row(n, b)
  BY <1>1 DEF Amounts
<1>3. Total(b) = Total(a) - 1
  <2>1. PICK m \in Int : m = -1
    OBVIOUS
  <2>2. \A k \in 1..n : b[k] = a[k] + (IF k = i THEN m ELSE 0)
    BY <1>1, <2>1
  <2>3. Total(b) = Total(a) + m
    <3>1. Row(n, a) /\ Row(n, b) /\ n \in Nat
      BY <1>0, <1>2
    <3>. QED  BY <2>2, <3>1, TotalMove
  <2>4. Total(a) \in Int
    BY <1>0, TotalIsInt
  <2>. QED  BY <2>1, <2>3, <2>4
<1>4. /\ Row(n, Gap(ts, a)) /\ Row(n, Gain(ts, a)) /\ Row(n, Gap(ts, b)) /\ Row(n, Gain(ts, b))
      /\ Violation(ts, a) = Total(Gap(ts, a)) /\ Violation(ts, b) = Total(Gap(ts, b))
      /\ Violation(ts, a) \in Nat /\ Violation(ts, b) \in Nat
  BY <1>1, GapIs
<1>5. PICK w \in Nat, f \in Nat, x \in Nat : w = ts[i].weight /\ f = ts[i].floor /\ x = a[i]
  BY <1>0, Weights
<1>6. PICK v \in Int : v = -w
  OBVIOUS
<1>7. ASSUME NEW k \in 1..n
      PROVE  /\ Gap(ts, b)[k] <= Gap(ts, a)[k] + (IF k = i THEN w ELSE 0)
             /\ f < x => Gap(ts, b)[k] = Gap(ts, a)[k]
             /\ Gain(ts, b)[k] = Gain(ts, a)[k] + (IF k = i THEN v ELSE 0)
  <2>1. /\ Gap(ts, a)[k] = ts[k].weight * AtLeastZero(ts[k].floor - a[k])
        /\ Gain(ts, a)[k] = ts[k].weight * a[k]
        /\ Gap(ts, a)[k] \in Int /\ Gain(ts, a)[k] \in Int
    BY GapIs
  <2>2. /\ Gap(ts, b)[k] = ts[k].weight * AtLeastZero(ts[k].floor - b[k])
        /\ Gain(ts, b)[k] = ts[k].weight * b[k]
    BY <1>1, GapIs
  <2>3. CASE k = i
    <3>1. b[k] = x - 1 /\ 0 < x
      BY <1>1, <1>5, <2>3
    <3>2. /\ Gap(ts, a)[k] = w * AtLeastZero(f - x) /\ Gain(ts, a)[k] = w * x
          /\ Gap(ts, b)[k] = w * AtLeastZero(f - (x - 1)) /\ Gain(ts, b)[k] = w * (x - 1)
      BY <1>5, <2>1, <2>2, <2>3, <3>1
    <3>3. /\ Gap(ts, b)[k] <= Gap(ts, a)[k] + w
          /\ f < x => Gap(ts, b)[k] = Gap(ts, a)[k]
          /\ Gain(ts, b)[k] = Gain(ts, a)[k] - w
      <4>1. /\ w * AtLeastZero(f - (x - 1)) <= w * AtLeastZero(f - x) + w
            /\ f < x => w * AtLeastZero(f - (x - 1)) = w * AtLeastZero(f - x)
            /\ w * (x - 1) = w * x - w
        BY <3>1, UnitTaken
      <4>. QED  BY <3>2, <4>1, Zenon
    <3>. QED  BY <1>6, <2>1, <2>3, <3>3
  <2>4. CASE k # i
    <3>1. b[k] = a[k]
      BY <1>0, <1>1, <2>4
    <3>. QED  BY <2>1, <2>2, <2>4, <3>1
  <2>. QED  BY <2>3, <2>4
<1>8. Total(Gap(ts, b)) <= Total(Gap(ts, a)) + w
  <2>1. PICK h : Row(n, h) /\ \A k \in 1..n : h[k] = Gap(ts, a)[k] + (IF k = i THEN w ELSE 0)
    <3>1. PICK e : e = Gap(ts, a)
      OBVIOUS
    <3>2. \A k \in 1..n : e[k] \in Int
      BY <1>4, <3>1 DEF Row
    <3>. DEFINE y == [k \in 1..n |-> e[k] + (IF k = i THEN w ELSE 0)]
    <3>3. \A k \in 1..n : y[k] = e[k] + (IF k = i THEN w ELSE 0) /\ y[k] \in Int
      BY <3>2
    <3>4. Row(n, y)
      BY <3>3 DEF Row
    <3>. HIDE DEF y
    <3>. QED  BY <3>1, <3>3, <3>4
  <2>2. Total(h) = Total(Gap(ts, a)) + w
    <3>1. Row(n, Gap(ts, a)) /\ Row(n, h) /\ n \in Nat /\ w \in Int
      BY <1>4, <2>1
    <3>. QED  BY <2>1, <3>1, TotalMove
  <2>3. \A k \in 1..n : Gap(ts, b)[k] <= h[k]
    BY <1>7, <2>1
  <2>4. Total(Gap(ts, b)) <= Total(h)
    BY <1>4, <2>1, <2>3, TotalOrder
  <2>. QED  BY <2>2, <2>4
<1>9. f < x => Total(Gap(ts, b)) = Total(Gap(ts, a))
  BY <1>4, <1>7, RowsEqual
<1>10. Total(Gain(ts, b)) = Total(Gain(ts, a)) - w
  <2>1. Total(Gain(ts, b)) = Total(Gain(ts, a)) + v
    BY <1>4, <1>7, TotalMove
  <2>2. Total(Gain(ts, a)) \in Int
    BY <1>4, TotalIsInt
  <2>. QED  BY <1>6, <2>1, <2>2
<1>. QED  BY <1>1, <1>3, <1>4, <1>5, <1>8, <1>9, <1>10

\* The bounds of the solver's unknowns let through what the demands let through.
LEMMA FeasibleIs ==
    ASSUME NEW ts, NEW n \in Nat \ {0}, Asks(ts, n), NEW avail \in Int, NEW a
    PROVE  a \in Feasible(ts, avail) <=>
               /\ Amounts(n, a) /\ Total(a) <= avail
               /\ \A i \in 1..n : a[i] <= ts[i].demand
<1>. DEFINE D == { t.demand : t \in Range(ts) }
<1>1. DOMAIN ts = 1..n
  BY DEF Asks
<1>2. D = { ts[i].demand : i \in 1..n }
  BY <1>1 DEF Range
<1>3. \A i \in 1..n : ts[i].demand \in Nat /\ ts[i].demand \in D
  BY <1>2, Weights
<1>4. PICK f : \A i \in 1..n : f[i] \in Int /\ f[i] = ts[i].demand
  <2>1. \A i \in 1..n : [k \in 1..n |-> ts[k].demand][i] = ts[i].demand
    OBVIOUS
  <2>2. \A i \in 1..n : ts[i].demand \in Int
    BY <1>3
  <2>. QED  BY <2>1, <2>2
<1>5. PICK m \in 1..n : \A j \in 1..n : f[j] <= f[m]
  <2>1. \A i \in 1..n : f[i] \in Int
    BY <1>4
  <2>2. \E m \in 1..n : \A j \in 1..n : f[j] <= f[m] /\ (j < m => f[j] < f[m])
    BY <2>1, FirstLargest
  <2>. QED  BY <2>2
<1>6. ts[m].demand \in D /\ \A y \in D : ts[m].demand >= y
  <2>1. \A i \in 1..n : ts[m].demand >= ts[i].demand
    BY <1>3, <1>4, <1>5
  <2>. QED  BY <1>2, <1>3, <2>1
<1>. HIDE DEF D
<1>7. Max(D) \in D /\ \A y \in D : Max(D) >= y
  BY <1>6 DEF Max
<1>8. Max(D) \in Nat /\ \A i \in 1..n : ts[i].demand <= Max(D)
  BY <1>2, <1>3, <1>7
<1>9. Feasible(ts, avail) = { x \in [1..n -> 0..Max(D)] : /\ \A i \in 1..n : x[i] <= ts[i].demand
                                                         /\ Total(x) <= avail }
  BY <1>1 DEF Feasible, D
<1>10. ASSUME a \in Feasible(ts, avail)
       PROVE  Amounts(n, a) /\ Total(a) <= avail /\ \A i \in 1..n : a[i] <= ts[i].demand
  <2>1. a \in [1..n -> 0..Max(D)] /\ Total(a) <= avail /\ \A i \in 1..n : a[i] <= ts[i].demand
    BY <1>9, <1>10
  <2>2. 0..Max(D) \subseteq Nat /\ 0..Max(D) \subseteq Int
    BY <1>8
  <2>3. Amounts(n, a)
    BY <2>1, <2>2 DEF Amounts, Row
  <2>. QED  BY <2>1, <2>3
<1>11. ASSUME Amounts(n, a), Total(a) <= avail, \A i \in 1..n : a[i] <= ts[i].demand
       PROVE  a \in Feasible(ts, avail)
  <2>1. \A i \in 1..n : a[i] \in 0..Max(D)
    <3>. SUFFICES ASSUME NEW i \in 1..n PROVE a[i] \in 0..Max(D)
      OBVIOUS
    <3>1. PICK d \in Nat, x \in Nat, u \in Nat : d = ts[i].demand /\ x = a[i] /\ u = Max(D)
      BY <1>3, <1>8, <1>11 DEF Amounts
    <3>2. x <= d /\ d <= u
      BY <1>8, <1>11, <3>1
    <3>3. x \in 0..u
      BY <3>2
    <3>. QED  BY <3>1, <3>3
  <2>2. a \in [1..n -> 0..Max(D)]
    BY <1>11, <2>1 DEF Amounts, Row
  <2>. QED  BY <1>9, <1>11, <2>2
<1>. QED  BY <1>10, <1>11

\* What the solver returns costs least of all that is feasible.
LEMMA LpIsLeast ==
    ASSUME NEW ts, NEW n \in Nat \ {0}, Asks(ts, n), NEW avail \in Int,
           NEW a \in LpAllocations(ts, avail)
    PROVE  a \in Feasible(ts, avail) /\ \A b \in Feasible(ts, avail) : Cost(ts, a) <= Cost(ts, b)
<1>. DEFINE C == { Cost(ts, b) : b \in Feasible(ts, avail) }
<1>1. a \in Feasible(ts, avail) /\ Cost(ts, a) = Min(C)
  BY DEF LpAllocations
<1>2. PICK d : /\ Row(n, d) /\ \A i \in 1..n : d[i] = ts[i].weight * ts[i].demand
                                              /\ d[i] \in Nat
  <2>. DEFINE x == [i \in 1..n |-> ts[i].weight * ts[i].demand]
  <2>1. \A i \in 1..n : /\ x[i] = ts[i].weight * ts[i].demand
                        /\ x[i] \in Nat /\ x[i] \in Int
    <3>. SUFFICES ASSUME NEW i \in 1..n PROVE ts[i].weight * ts[i].demand \in Nat
      OBVIOUS
    <3>1. ts[i].weight \in Nat /\ ts[i].demand \in Nat
      BY Weights
    <3>2. \A u, v \in Nat : u * v \in Nat
      OBVIOUS
    <3>. QED  BY <3>1, <3>2
  <2>2. Row(n, x)
    BY <2>1 DEF Row
  <2>. HIDE DEF x
  <2>. QED  BY <2>1, <2>2
<1>3. Total(d) \in Nat
  BY <1>2, TotalIsNat
<1>4. \A b \in Feasible(ts, avail) : Cost(ts, b) \in Int /\ Cost(ts, b) + Total(d) \in Nat
  <2>. SUFFICES ASSUME NEW b \in Feasible(ts, avail)
                PROVE  Cost(ts, b) \in Int /\ Cost(ts, b) + Total(d) \in Nat
    OBVIOUS
  <2>1. Amounts(n, b) /\ \A i \in 1..n : b[i] <= ts[i].demand
    BY FeasibleIs
  <2>2. /\ Row(n, Gain(ts, b)) /\ Violation(ts, b) \in Nat /\ Total(Gain(ts, b)) \in Nat
        /\ Cost(ts, b) = 1000 * Violation(ts, b) - Total(Gain(ts, b))
    BY <2>1, GapIs
  <2>3. \A i \in 1..n : Gain(ts, b)[i] <= d[i]
    <3>. SUFFICES ASSUME NEW i \in 1..n PROVE Gain(ts, b)[i] <= d[i]
      OBVIOUS
    <3>1. PICK w \in Nat, x \in Nat, e \in Nat :
              w = ts[i].weight /\ x = b[i] /\ e = ts[i].demand
      BY <2>1, Weights DEF Amounts
    <3>2. x <= e /\ Gain(ts, b)[i] = w * x /\ d[i] = w * e
      BY <1>2, <2>1, <3>1, GapIs
    <3>3. w * x <= w * e
      BY <3>2, ProductGrows
    <3>. QED  BY <3>2, <3>3
  <2>4. Total(Gain(ts, b)) <= Total(d)
    BY <1>2, <2>2, <2>3, TotalOrder
  <2>. QED  BY <1>3, <2>2, <2>4
<1>5. PICK c \in C : \A y \in C : c <= y
  <2>. DEFINE S == { Cost(ts, b) + Total(d) : b \in Feasible(ts, avail) }
  <2>1. S \in SUBSET Nat /\ S # {}
    BY <1>1, <1>4
  <2>2. PICK x \in S : \A y \in S : x <= y
    <3>. HIDE DEF S
    <3>. QED  BY <2>1, LeastOf
  <2>3. PICK b \in Feasible(ts, avail) : x = Cost(ts, b) + Total(d)
    OBVIOUS
  <2>4. ASSUME NEW y \in C PROVE Cost(ts, b) <= y
    <3>1. PICK e \in Feasible(ts, avail) : y = Cost(ts, e)
      OBVIOUS
    <3>2. Cost(ts, b) + Total(d) <= Cost(ts, e) + Total(d)
      BY <2>2, <2>3
    <3>3. Cost(ts, b) \in Int /\ Cost(ts, e) \in Int
      BY <1>4
    <3>. QED  BY <1>3, <3>1, <3>2, <3>3
  <2>. QED  BY <2>4
<1>. HIDE DEF C
<1>6. Min(C) \in C /\ \A y \in C : Min(C) <= y
  BY <1>5 DEF Min
<1>. QED  BY <1>1, <1>6 DEF C

\* The solver would rather move a unit to a tenant that is short than keep it with
\* one that weighs less, or that has its floor already.
LEMMA LpMoves ==
    ASSUME NEW ts, NEW n \in Nat \ {0}, Asks(ts, n), NEW avail \in Int,
           NEW a \in LpAllocations(ts, avail), NEW i \in 1..n, NEW j \in 1..n, i # j,
           a[i] < ts[i].floor, a[i] < ts[i].demand, 0 < a[j]
    PROVE  ts[i].weight <= ts[j].weight /\ a[j] <= ts[j].floor
<1>1. /\ a \in Feasible(ts, avail) /\ \A b \in Feasible(ts, avail) : Cost(ts, a) <= Cost(ts, b)
      /\ Amounts(n, a) /\ Total(a) <= avail /\ \A k \in 1..n : a[k] <= ts[k].demand
  BY LpIsLeast, FeasibleIs
<1>2. \A k \in 1..n : a[k] \in Nat
  BY <1>1 DEF Amounts
<1>3. PICK c : /\ Amounts(n, c)
               /\ \A k \in 1..n : c[k] = a[k] + (IF k = j THEN -1 ELSE 0)
               /\ Total(c) = Total(a) - 1
               /\ Violation(ts, c) <= Violation(ts, a) + ts[j].weight
               /\ ts[j].floor < a[j] => Violation(ts, c) = Violation(ts, a)
               /\ Total(Gain(ts, c)) = Total(Gain(ts, a)) - ts[j].weight
  BY <1>1, Take
<1>4. c[i] = a[i] /\ c[i] < ts[i].floor
  BY <1>2, <1>3
<1>5. PICK b : /\ Amounts(n, b)
               /\ \A k \in 1..n : b[k] = c[k] + (IF k = i THEN 1 ELSE 0)
               /\ Total(b) = Total(c) + 1
               /\ Violation(ts, b) = Violation(ts, c) - ts[i].weight
               /\ Total(Gain(ts, b)) = Total(Gain(ts, c)) + ts[i].weight
  BY <1>3, <1>4, Give
<1>6. b \in Feasible(ts, avail)
  <2>1. Total(a) \in Int
    BY <1>1, TotalIsInt DEF Amounts
  <2>2. Total(b) <= avail
    BY <1>1, <1>3, <1>5, <2>1
  <2>3. \A k \in 1..n : b[k] <= ts[k].demand
    <3>. SUFFICES ASSUME NEW k \in 1..n PROVE b[k] <= ts[k].demand
      OBVIOUS
    <3>1. a[k] \in Nat /\ ts[k].demand \in Nat /\ a[k] <= ts[k].demand
      BY <1>1, <1>2, Weights
    <3>2. b[k] = a[k] + (IF k = j THEN -1 ELSE 0) + (IF k = i THEN 1 ELSE 0)
      BY <1>3, <1>5
    <3>3. k = i => a[k] < ts[k].demand
      OBVIOUS
    <3>. QED  BY <3>1, <3>2, <3>3
  <2>. QED  BY <1>5, <2>2, <2>3, FeasibleIs
<1>7. Cost(ts, a) <= Cost(ts, b)
  BY <1>1, <1>6
<1>8. /\ Violation(ts, a) \in Nat /\ Violation(ts, b) \in Nat /\ Violation(ts, c) \in Nat
      /\ Total(Gain(ts, a)) \in Nat /\ Total(Gain(ts, b)) \in Nat /\ Total(Gain(ts, c)) \in Nat
      /\ Cost(ts, a) = 1000 * Violation(ts, a) - Total(Gain(ts, a))
      /\ Cost(ts, b) = 1000 * Violation(ts, b) - Total(Gain(ts, b))
  BY <1>1, <1>3, <1>5, GapIs
<1>9. PICK u \in Nat, v \in Nat, f \in Nat, x \in Nat :
          /\ u = ts[i].weight /\ 0 < u /\ v = ts[j].weight /\ v <= 1000
          /\ f = ts[j].floor /\ x = a[j]
  BY <1>2, Weights
<1>10. PICK va \in Nat, vb \in Nat, vc \in Nat, ga \in Nat, gb \in Nat, gc \in Nat :
           /\ va = Violation(ts, a) /\ vb = Violation(ts, b) /\ vc = Violation(ts, c)
           /\ ga = Total(Gain(ts, a)) /\ gb = Total(Gain(ts, b)) /\ gc = Total(Gain(ts, c))
  BY <1>8, ZenonT(90)
<1>11. /\ 1000 * va - ga <= 1000 * vb - gb
       /\ vc <= va + v /\ (f < x => vc = va) /\ vb = vc - u
       /\ gc = ga - v /\ gb = gc + u
  BY <1>3, <1>5, <1>7, <1>8, <1>9, <1>10
<1>12. u <= v /\ x <= f
  BY <1>9, <1>11
<1>. QED  BY <1>9, <1>12

\* Nor does the solver.
LEMMA LpPriority ==
    ASSUME NEW ts, NEW n \in Nat \ {0}, Asks(ts, n), NEW avail \in Int,
           NEW a \in LpAllocations(ts, avail)
    PROVE  InPriority(ts, n, a) /\ Total(a) <= avail
<1>1. Amounts(n, a) /\ Total(a) <= avail
  BY LpIsLeast, FeasibleIs
<1>2. InPriority(ts, n, a)
  <2>. SUFFICES ASSUME NEW i \in 1..n, NEW j \in 1..n, a[i] < ts[i].floor,
                       a[i] < ts[i].demand, ts[j].weight < ts[i].weight
                PROVE  a[j] = 0
    BY DEF InPriority
  <2>1. /\ ts[i].weight \in Nat /\ ts[j].weight \in Nat /\ a[j] \in Nat
    BY <1>1, Weights DEF Amounts
  <2>2. i # j
    BY <2>1
  <2>3. 0 < a[j] => ts[i].weight <= ts[j].weight
    BY <2>2, LpMoves
  <2>. QED  BY <2>1, <2>3
<1>. QED  BY <1>1, <1>2

\* While somebody is short, the solver leaves nothing over.
LEMMA LpUsesAll ==
    ASSUME NEW ts, NEW n \in Nat \ {0}, Asks(ts, n), NEW avail \in Int,
           NEW a \in LpAllocations(ts, avail), NEW i \in 1..n,
           a[i] < ts[i].floor, a[i] < ts[i].demand
    PROVE  Total(a) = avail
<1>1. /\ \A b \in Feasible(ts, avail) : Cost(ts, a) <= Cost(ts, b)
      /\ Amounts(n, a) /\ Total(a) <= avail /\ \A k \in 1..n : a[k] <= ts[k].demand
  BY LpIsLeast, FeasibleIs
<1>2. Total(a) \in Int /\ \A k \in 1..n : a[k] \in Nat
  BY <1>1, TotalIsInt DEF Amounts
<1>. SUFFICES ASSUME Total(a) < avail PROVE FALSE
  BY <1>1, <1>2
<1>3. PICK b : /\ Amounts(n, b)
               /\ \A k \in 1..n : b[k] = a[k] + (IF k = i THEN 1 ELSE 0)
               /\ Total(b) = Total(a) + 1
               /\ Violation(ts, b) = Violation(ts, a) - ts[i].weight
               /\ Total(Gain(ts, b)) = Total(Gain(ts, a)) + ts[i].weight
  BY <1>1, Give
<1>4. b \in Feasible(ts, avail)
  <2>1. Total(b) <= avail
    BY <1>2, <1>3
  <2>2. \A k \in 1..n : b[k] <= ts[k].demand
    <3>. SUFFICES ASSUME NEW k \in 1..n PROVE b[k] <= ts[k].demand
      OBVIOUS
    <3>1. a[k] \in Nat /\ ts[k].demand \in Nat /\ a[k] <= ts[k].demand
      BY <1>1, <1>2, Weights
    <3>2. b[k] = a[k] + (IF k = i THEN 1 ELSE 0)
      BY <1>3
    <3>3. k = i => a[k] < ts[k].demand
      OBVIOUS
    <3>. QED  BY <3>1, <3>2, <3>3
  <2>. QED  BY <1>3, <2>1, <2>2, FeasibleIs
<1>5. Cost(ts, a) <= Cost(ts, b)
  BY <1>1, <1>4
<1>6. /\ Violation(ts, a) \in Nat /\ Violation(ts, b) \in Nat
      /\ Total(Gain(ts, a)) \in Nat /\ Total(Gain(ts, b)) \in Nat
      /\ Cost(ts, a) = 1000 * Violation(ts, a) - Total(Gain(ts, a))
      /\ Cost(ts, b) = 1000 * Violation(ts, b) - Total(Gain(ts, b))
  BY <1>1, <1>3, GapIs
<1>7. PICK u \in Nat : u = ts[i].weight /\ 0 < u
  BY Weights
<1>8. PICK va \in Nat, vb \in Nat, ga \in Nat, gb \in Nat :
           /\ va = Violation(ts, a) /\ vb = Violation(ts, b)
           /\ ga = Total(Gain(ts, a)) /\ gb = Total(Gain(ts, b))
  BY <1>6
<1>9. 1000 * va - ga <= 1000 * vb - gb /\ vb = va - u /\ gb = ga + u
  BY <1>3, <1>5, <1>6, <1>7, <1>8
<1>. QED  BY <1>7, <1>9

-----------------------------------------------------------------------------
(* Both against the least violation. *)

\* With a price l on every unit, no amount y does better for a tenant than its floor
\* if it weighs more than l and nothing if it weighs less.
LEMMA TermLeast ==
    ASSUME NEW w \in Nat, NEW l \in Nat, NEW f \in Nat, NEW x \in Nat, NEW y \in Nat,
           x <= f, l < w => x = f, w < l => x = 0
    PROVE  w * AtLeastZero(f - x) + l * x <= w * AtLeastZero(f - y) + l * y
<1>1. AtLeastZero(f - x) = f - x /\ f - x \in Nat
  BY DEF AtLeastZero
<1>2. AtLeastZero(f - y) = IF f <= y THEN 0 ELSE f - y
  BY DEF AtLeastZero
<1>3. CASE l < w
  <2>1. AtLeastZero(f - x) = 0 /\ w * 0 = 0 /\ x = f
    BY <1>1, <1>3
  <2>2. CASE f <= y
    <3>1. l * f <= l * y /\ l * f \in Nat /\ l * y \in Nat
      BY <2>2, ProductGrows
    <3>. QED  BY <1>2, <2>1, <2>2, <3>1
  <2>3. CASE y < f
    <3>1. PICK d \in Nat : d = f - y /\ f = y + d
      BY <2>3
    <3>2. d * l <= d * w /\ d * l \in Nat
      BY <1>3, ProductGrows
    <3>3. l * (y + d) = l * y + l * d
      BY Distribute
    <3>4. d * l = l * d /\ d * w = w * d
      OBVIOUS
    <3>5. AtLeastZero(f - y) = d
      BY <1>2, <2>3, <3>1
    <3>6. l * x = l * y + l * d
      BY <2>1, <3>1, <3>3
    <3>7. l * y \in Nat /\ l * d \in Nat /\ w * d \in Nat
      OBVIOUS
    <3>8. l * d <= w * d
      BY <3>2, <3>4
    <3>9. w * AtLeastZero(f - y) = w * d /\ w * AtLeastZero(f - x) = 0
      BY <2>1, <3>5
    <3>10. PICK p \in Nat, q \in Nat, r \in Nat, t \in Nat :
               p = l * y /\ q = l * d /\ r = w * d /\ t = l * x
      BY <3>6, <3>7
    <3>. QED  BY <3>6, <3>8, <3>9, <3>10
  <2>. QED  BY <2>2, <2>3
<1>4. CASE l = w
  <2>1. w * (f - x) + w * x = w * f
    <3>1. w * ((f - x) + x) = w * (f - x) + w * x
      BY <1>1, Distribute
    <3>2. (f - x) + x = f
      OBVIOUS
    <3>. QED  BY <3>1, <3>2
  <2>2. CASE f <= y
    <3>1. w * f <= w * y
      BY <2>2, ProductGrows
    <3>2. w * y \in Nat /\ w * 0 = 0
      OBVIOUS
    <3>. QED  BY <1>1, <1>2, <1>4, <2>1, <2>2, <3>1, <3>2
  <2>3. CASE y < f
    <3>1. w * ((f - y) + y) = w * (f - y) + w * y
      BY Distribute
    <3>2. (f - y) + y = f /\ AtLeastZero(f - y) = f - y
      BY <1>2, <2>3
    <3>3. w * (f - y) + w * y = w * f
      BY <3>1, <3>2
    <3>4. w * f \in Int /\ w * f <= w * f
      OBVIOUS
    <3>. QED  BY <1>1, <1>4, <2>1, <3>2, <3>3, <3>4
  <2>. QED  BY <2>2, <2>3
<1>5. CASE w < l
  <2>1. AtLeastZero(f - x) = f /\ l * x = 0
    <3>1. x = 0 /\ f - x = f /\ l * 0 = 0
      BY <1>5
    <3>. QED  BY <1>1, <3>1
  <2>2. w * f \in Nat
    OBVIOUS
  <2>3. CASE f <= y
    <3>1. w * f <= w * y /\ w * y \in Nat
      BY <2>3, ProductGrows
    <3>2. y * w <= y * l /\ y * w = w * y /\ y * l = l * y /\ l * y \in Nat
      BY <1>5, ProductGrows
    <3>. QED  BY <1>2, <2>1, <2>2, <2>3, <3>1, <3>2
  <2>4. CASE y < f
    <3>1. w * ((f - y) + y) = w * (f - y) + w * y
      BY Distribute
    <3>2. (f - y) + y = f /\ AtLeastZero(f - y) = f - y
      BY <1>2, <2>4
    <3>3. y * w <= y * l /\ y * w = w * y /\ y * l = l * y /\ l * y \in Nat /\ w * y \in Nat
      BY <1>5, ProductGrows
    <3>4. w * (f - y) \in Int
      OBVIOUS
    <3>5. w * f = w * (f - y) + w * y
      BY <3>1, <3>2
    <3>. QED  BY <2>1, <2>2, <3>2, <3>3, <3>4, <3>5
  <2>. QED  BY <2>3, <2>4
<1>. QED  BY <1>3, <1>4, <1>5

\* The price certifies an allocation that uses everything.
LEMMA Certified ==
    ASSUME NEW ts, NEW n \in Nat \ {0}, Asks(ts, n), NEW avail \in Nat,
           NEW a, Amounts(n, a), Total(a) = avail, NEW l \in Nat,
           \A i \in 1..n : /\ a[i] <= ts[i].floor
                           /\ l < ts[i].weight => a[i] = ts[i].floor
                           /\ ts[i].weight < l => a[i] = 0,
           NEW b, Amounts(n, b), Total(b) <= avail
    PROVE  Violation(ts, a) <= Violation(ts, b)
<1>1. ASSUME NEW x, Amounts(n, x)
      PROVE  \E g : /\ Row(n, g) /\ Total(g) = Violation(ts, x) + l * Total(x)
                    /\ \A i \in 1..n : g[i] = ts[i].weight * AtLeastZero(ts[i].floor - x[i])
                                              + l * x[i]
  <2>0. Row(n, x) /\ \A i \in 1..n : x[i] \in Nat
    BY <1>1 DEF Amounts
  <2>1. PICK h : Row(n, h) /\ \A i \in 1..n : h[i] = l * x[i]
    <3>. DEFINE y == [i \in 1..n |-> l * x[i]]
    <3>1. \A i \in 1..n : l * x[i] \in Int
      BY <2>0
    <3>2. Row(n, y) /\ \A i \in 1..n : y[i] = l * x[i]
      BY <3>1 DEF Row
    <3>. QED  BY <3>2
  <2>2. Total(h) = l * Total(x)
    <3>1. l \in Int /\ n \in Nat
      OBVIOUS
    <3>. QED  BY <2>0, <2>1, <3>1, TotalScales
  <2>3. /\ Row(n, Gap(ts, x)) /\ Violation(ts, x) = Total(Gap(ts, x))
        /\ \A i \in 1..n : Gap(ts, x)[i] = ts[i].weight * AtLeastZero(ts[i].floor - x[i])
    BY <1>1, GapIs
  <2>4. PICK g : Row(n, g) /\ \A i \in 1..n : g[i] = Gap(ts, x)[i] + h[i]
    <3>1. PICK e : e = Gap(ts, x)
      OBVIOUS
    <3>2. n \in Nat /\ Row(n, e) /\ Row(n, h)
      BY <2>1, <2>3, <3>1
    <3>3. PICK g : Row(n, g) /\ \A i \in 1..n : g[i] = e[i] + h[i]
      BY <3>2, RowOfSums
    <3>. QED  BY <3>1, <3>3
  <2>5. Total(g) = Total(Gap(ts, x)) + Total(h)
    <3>1. n \in Nat /\ Row(n, Gap(ts, x)) /\ Row(n, h) /\ Row(n, g)
      BY <2>1, <2>3, <2>4
    <3>. QED  BY <2>4, <3>1, TotalAdds
  <2>6. \A i \in 1..n : g[i] = ts[i].weight * AtLeastZero(ts[i].floor - x[i]) + l * x[i]
    BY <2>1, <2>3, <2>4
  <2>7. Total(g) = Violation(ts, x) + l * Total(x)
    BY <2>2, <2>3, <2>5
  <2>. QED  BY <2>4, <2>6, <2>7
<1>2. PICK g : /\ Row(n, g) /\ Total(g) = Violation(ts, a) + l * Total(a)
               /\ \A i \in 1..n : g[i] = ts[i].weight * AtLeastZero(ts[i].floor - a[i])
                                         + l * a[i]
  BY <1>1
<1>3. PICK h : /\ Row(n, h) /\ Total(h) = Violation(ts, b) + l * Total(b)
               /\ \A i \in 1..n : h[i] = ts[i].weight * AtLeastZero(ts[i].floor - b[i])
                                         + l * b[i]
  BY <1>1
<1>4. \A i \in 1..n : g[i] <= h[i]
  <2>. SUFFICES ASSUME NEW i \in 1..n PROVE g[i] <= h[i]
    OBVIOUS
  <2>1. PICK w \in Nat, f \in Nat, x \in Nat, y \in Nat :
            w = ts[i].weight /\ f = ts[i].floor /\ x = a[i] /\ y = b[i]
    BY Weights DEF Amounts
  <2>2. x <= f /\ (l < w => x = f) /\ (w < l => x = 0)
    BY <2>1
  <2>3. w * AtLeastZero(f - x) + l * x <= w * AtLeastZero(f - y) + l * y
    BY <2>2, TermLeast
  <2>4. g[i] = w * AtLeastZero(f - x) + l * x /\ h[i] = w * AtLeastZero(f - y) + l * y
    BY <1>2, <1>3, <2>1
  <2>. QED  BY <2>3, <2>4
<1>5. Total(g) <= Total(h)
  BY <1>2, <1>3, <1>4, TotalOrder
<1>6. /\ Violation(ts, a) \in Nat /\ Violation(ts, b) \in Nat /\ Total(b) \in Nat
  BY GapIs, TotalIsNat DEF Amounts
<1>7. l * Total(b) <= l * avail /\ l * Total(b) \in Nat /\ l * avail \in Nat
  BY <1>6, ProductGrows
<1>. QED  BY <1>2, <1>3, <1>5, <1>6, <1>7

\* Floors that are all paid violate nothing.
LEMMA NoViolation ==
    ASSUME NEW ts, NEW n \in Nat \ {0}, Asks(ts, n), NEW a, Amounts(n, a),
           \A i \in 1..n : ts[i].floor <= a[i]
    PROVE  Violation(ts, a) = 0
<1>1. \A i \in 1..n : Gap(ts, a)[i] = 0
  <2>. SUFFICES ASSUME NEW i \in 1..n PROVE Gap(ts, a)[i] = 0
    OBVIOUS
  <2>1. PICK w \in Nat, f \in Nat, x \in Nat : w = ts[i].weight /\ f = ts[i].floor /\ x = a[i]
    BY Weights DEF Amounts
  <2>2. Gap(ts, a)[i] = w * AtLeastZero(f - x)
    BY <2>1, GapIs
  <2>3. AtLeastZero(f - x) = 0 /\ w * 0 = 0
    BY <2>1 DEF AtLeastZero
  <2>. QED  BY <2>2, <2>3
<1>2. Row(n, Gap(ts, a)) /\ \A i \in 1..n : Gap(ts, a)[i] \in Nat
  BY GapIs
<1>3. Total(Gap(ts, a)) = 0
  BY <1>1, <1>2, TotalIsNat
<1>. QED  BY <1>3, GapIs

\* The heuristic and the solver violate the floors as little as can be.
LEMMA LeastViolation ==
    ASSUME NEW ts, NEW n \in Nat \ {0}, Asks(ts, n), NEW avail \in Nat \ {0},
           \A i \in 1..n : ts[i].floor <= ts[i].demand,
           NEW solver \in BOOLEAN, NEW a \in Allocations(ts, avail, solver)
    PROVE  /\ a \in Feasible(ts, avail)
           /\ \A b \in Feasible(ts, avail) : Violation(ts, a) <= Violation(ts, b)
<1>1. CASE solver
  <2>1. a \in LpAllocations(ts, avail)
    BY <1>1 DEF Allocations
  <2>2. /\ a \in Feasible(ts, avail) /\ Amounts(n, a)
        /\ \A i \in 1..n : a[i] \in Nat
    BY <2>1, LpIsLeast, FeasibleIs DEF Amounts
  <2>. DEFINE Short == { i \in 1..n : a[i] < ts[i].floor }
  <2>3. CASE Short = {}
    <3>1. \A i \in 1..n : ts[i].floor <= a[i]
      <4>1. \A i \in 1..n : ~ (a[i] < ts[i].floor) /\ ts[i].floor \in Nat
        BY <2>3, Weights
      <4>. QED  BY <2>2, <4>1
    <3>2. Violation(ts, a) = 0
      BY <2>2, <3>1, NoViolation
    <3>3. \A b \in Feasible(ts, avail) : Violation(ts, b) \in Nat
      BY FeasibleIs, GapIs
    <3>. QED  BY <2>2, <3>2, <3>3
  <2>4. CASE Short # {}
    <3>1. PICK m \in Short : \A j \in Short : j # m => m \in PaidBefore(ts, j)
      BY <2>4, Foremost
    <3>2. m \in 1..n /\ a[m] < ts[m].floor /\ a[m] < ts[m].demand
      BY <2>2, Weights
    <3>3. \A j \in 1..n : a[j] < ts[j].floor => ts[j].weight <= ts[m].weight
      <4>. SUFFICES ASSUME NEW j \in 1..n, a[j] < ts[j].floor
                    PROVE  ts[j].weight <= ts[m].weight
        OBVIOUS
      <4>1. j = m \/ m \in PaidBefore(ts, j)
        BY <3>1
      <4>2. ts[j].weight \in Nat /\ ts[m].weight \in Nat
        BY <3>2, Weights
      <4>. QED  BY <3>2, <4>1, <4>2, PaidInOrder
    <3>4. ASSUME NEW i \in 1..n
          PROVE  /\ a[i] <= ts[i].floor
                 /\ ts[m].weight < ts[i].weight => a[i] = ts[i].floor
                 /\ ts[i].weight < ts[m].weight => a[i] = 0
      <4>1. /\ a[i] \in Nat /\ ts[i].floor \in Nat
            /\ ts[i].weight \in Nat /\ ts[m].weight \in Nat
        BY <2>2, <3>2, Weights
      <4>2. i # m /\ 0 < a[i] => ts[m].weight <= ts[i].weight /\ a[i] <= ts[i].floor
        BY <2>1, <3>2, LpMoves
      <4>3. a[i] <= ts[i].floor
        BY <3>2, <4>1, <4>2
      <4>4. ts[m].weight < ts[i].weight => ~ (a[i] < ts[i].floor)
        BY <3>3, <4>1
      <4>5. ts[i].weight < ts[m].weight => a[i] = 0
        BY <4>1, <4>2
      <4>. QED  BY <4>1, <4>3, <4>4, <4>5
    <3>5. Total(a) = avail
      BY <2>1, <3>2, LpUsesAll
    <3>6. PICK l \in Nat : l = ts[m].weight
      BY <3>2, Weights
    <3>. HIDE DEF Short
    <3>7. \A b \in Feasible(ts, avail) : Violation(ts, a) <= Violation(ts, b)
      <4>. SUFFICES ASSUME NEW b \in Feasible(ts, avail)
                    PROVE  Violation(ts, a) <= Violation(ts, b)
        OBVIOUS
      <4>1. Amounts(n, b) /\ Total(b) <= avail
        BY FeasibleIs
      <4>. QED  BY <2>2, <3>4, <3>5, <3>6, <4>1, Certified
    <3>. QED  BY <2>2, <3>7
  <2>. QED  BY <2>3, <2>4
<1>2. CASE ~ solver
  <2>1. a = ProportionalAllocation(ts, avail)
    BY <1>2 DEF Allocations
  <2>2. /\ Row(n, a) /\ Total(a) <= avail
        /\ \A i \in 1..n : a[i] \in Nat /\ a[i] <= ts[i].demand
        /\ \/ Served(ts, n, a)
           \/ /\ Total(a) = avail /\ InOrder(ts, n, a)
              /\ \A i \in 1..n : a[i] <= ts[i].floor
    BY <2>1, HeuristicShape
  <2>3. Amounts(n, a)
    BY <2>2 DEF Amounts
  <2>4. a \in Feasible(ts, avail)
    BY <2>2, <2>3, FeasibleIs
  <2>5. CASE Served(ts, n, a)
    <3>1. \A i \in 1..n : ts[i].floor <= a[i]
      <4>. SUFFICES ASSUME NEW i \in 1..n PROVE ts[i].floor <= a[i]
        OBVIOUS
      <4>1. ts[i].floor \in Nat /\ ts[i].demand \in Nat /\ a[i] \in Nat
        BY <2>2, Weights
      <4>2. a[i] < ts[i].floor => a[i] >= ts[i].demand
        BY <2>5 DEF Served
      <4>. QED  BY <4>1, <4>2
    <3>2. Violation(ts, a) = 0
      BY <2>3, <3>1, NoViolation
    <3>3. \A b \in Feasible(ts, avail) : Violation(ts, b) \in Nat
      BY FeasibleIs, GapIs
    <3>. QED  BY <2>4, <3>2, <3>3
  <2>6. CASE /\ Total(a) = avail /\ InOrder(ts, n, a)
             /\ \A i \in 1..n : a[i] <= ts[i].floor
    <3>1. PICK m \in 1..n : /\ \A j \in PaidBefore(ts, m) : a[j] = ts[j].floor
                            /\ \A j \in 1..n : m \in PaidBefore(ts, j) => a[j] = 0
      BY <2>6 DEF InOrder
    <3>2. ASSUME NEW i \in 1..n
          PROVE  /\ a[i] <= ts[i].floor
                 /\ ts[m].weight < ts[i].weight => a[i] = ts[i].floor
                 /\ ts[i].weight < ts[m].weight => a[i] = 0
      <4>1. ts[i].weight \in Nat /\ ts[m].weight \in Nat
        BY Weights
      <4>2. ts[m].weight < ts[i].weight => i \in PaidBefore(ts, m)
        BY <4>1, PaidFirst
      <4>3. ts[i].weight < ts[m].weight => m \in PaidBefore(ts, i)
        BY <4>1, PaidFirst
      <4>. QED  BY <2>6, <3>1, <4>2, <4>3
    <3>3. PICK l \in Nat : l = ts[m].weight
      BY Weights
    <3>4. \A b \in Feasible(ts, avail) : Violation(ts, a) <= Violation(ts, b)
      <4>. SUFFICES ASSUME NEW b \in Feasible(ts, avail)
                    PROVE  Violation(ts, a) <= Violation(ts, b)
        OBVIOUS
      <4>1. Amounts(n, b) /\ Total(b) <= avail
        BY FeasibleIs
      <4>. QED  BY <2>3, <2>6, <3>2, <3>3, <4>1, Certified
    <3>. QED  BY <2>4, <3>4
  <2>. QED  BY <2>2, <2>5, <2>6
<1>. QED  BY <1>1, <1>2

\* The tenants and the capacity of a link in the input.
LEMMA LinkIs ==
    ASSUME input \in Results \cup Others, Link
    PROVE  /\ input.available \in Nat \ {0} /\ input.available > 0
           /\ Len(input.tenants) \in Nat \ {0}
           /\ Asks(input.tenants, Len(input.tenants))
<1>1. input \in Links
  BY KindOfInput DEF Link
<1>2. input.available \in Int /\ input.tenants \in Seq(Tenant) \ {<<>>} /\ input.available > 0
  BY <1>1 DEF Links, Link
<1>. QED  BY <1>2, TenantsAsk

\* For any tenants on any link, no unit goes to a tenant while one of higher weight
\* is short, whether the solver or the heuristic shares it out.
THEOREM WeightsArePriorities == Spec => []PriorityRespected
<1>1. input \in Results \cup Others => PriorityRespected
  <2>. SUFFICES ASSUME input \in Results \cup Others, Link,
                       NEW solver \in BOOLEAN, NEW a \in Answers(solver)
                PROVE  /\ Total(a) <= input.available
                       /\ \A i, j \in DOMAIN input.tenants :
                             /\ a[i] < Least(input.tenants[i].floor, input.tenants[i].demand)
                             /\ input.tenants[j].weight < input.tenants[i].weight
                             => a[j] = 0
    BY DEF PriorityRespected
  <2>1. PICK ts, avail, n : ts = input.tenants /\ avail = input.available /\ n = Len(ts)
    OBVIOUS
  <2>2. avail \in Nat \ {0} /\ avail > 0 /\ n \in Nat \ {0} /\ Asks(ts, n)
    BY <2>1, LinkIs
  <2>3. a \in Allocations(ts, avail, solver)
    BY <2>1 DEF Answers
  <2>4. InPriority(ts, n, a) /\ Total(a) <= avail
    <3>0. ~ (avail <= 0) /\ avail \in Nat /\ avail \in Int
      BY <2>2
    <3>1. CASE solver
      <4>1. a \in LpAllocations(ts, avail)
        BY <2>3, <3>0, <3>1 DEF Allocations
      <4>. QED  BY <2>2, <3>0, <4>1, LpPriority
    <3>2. CASE ~ solver
      <4>1. a = ProportionalAllocation(ts, avail)
        BY <2>3, <3>0, <3>2 DEF Allocations
      <4>. QED  BY <2>2, <3>0, <4>1, HeuristicPriority
    <3>. QED  BY <3>1, <3>2
  <2>5. DOMAIN ts = 1..n
    BY <2>2 DEF Asks
  <2>6. \A i \in 1..n : a[i] < Least(ts[i].floor, ts[i].demand) =>
                            a[i] < ts[i].floor /\ a[i] < ts[i].demand
    <3>1. \A i \in 1..n : a[i] \in Nat
      <4>1. CASE solver
        <5>1. a \in LpAllocations(ts, avail) /\ avail \in Int
          BY <2>2, <2>3, <4>1 DEF Allocations
        <5>2. a \in Feasible(ts, avail)
          BY <2>2, <5>1, LpIsLeast
        <5>. QED  BY <2>2, <5>1, <5>2, FeasibleIs DEF Amounts
      <4>2. CASE ~ solver
        <5>1. a = ProportionalAllocation(ts, avail) /\ avail \in Nat
          BY <2>2, <2>3, <4>2 DEF Allocations
        <5>. QED  BY <2>2, <5>1, HeuristicShape
      <4>. QED  BY <4>1, <4>2
    <3>. SUFFICES ASSUME NEW i \in 1..n, a[i] < Least(ts[i].floor, ts[i].demand)
                  PROVE  a[i] < ts[i].floor /\ a[i] < ts[i].demand
      OBVIOUS
    <3>2. PICK f \in Nat, d \in Nat, x \in Nat :
              f = ts[i].floor /\ d = ts[i].demand /\ x = a[i]
      BY <2>2, <3>1, Weights
    <3>3. x < Least(f, d) => x < f /\ x < d
      BY DEF Least
    <3>. QED  BY <3>2, <3>3
  <2>. QED  BY <2>1, <2>4, <2>5, <2>6 DEF InPriority
<1>. QED  BY <1>1, InputFrom, PTL

\* For any tenants that ask for their floors at least, the heuristic violates them as
\* little as the solver does, and neither more than it must.
THEOREM HeuristicIsAsGood == Spec => []FallbackAsGoodAsLp
<1>1. input \in Results \cup Others => FallbackAsGoodAsLp
  <2>. DEFINE V(a) == Violation(input.tenants, a)
              C == { V(b) : b \in Feasible(input.tenants, input.available) }
  <2>. SUFFICES ASSUME input \in Results \cup Others, Link,
                       \A i \in DOMAIN input.tenants :
                           input.tenants[i].floor <= input.tenants[i].demand,
                       NEW solver \in BOOLEAN, NEW a \in Answers(solver)
                PROVE  V(a) = Min(C)
    BY DEF FallbackAsGoodAsLp
  <2>1. PICK ts, avail, n : ts = input.tenants /\ avail = input.available /\ n = Len(ts)
    OBVIOUS
  <2>2. avail \in Nat \ {0} /\ n \in Nat \ {0} /\ Asks(ts, n)
    BY <2>1, LinkIs
  <2>3. a \in Allocations(ts, avail, solver)
    BY <2>1 DEF Answers
  <2>4. \A i \in 1..n : ts[i].floor <= ts[i].demand
    BY <2>1, <2>2 DEF Asks
  <2>5. /\ a \in Feasible(ts, avail)
        /\ \A b \in Feasible(ts, avail) : Violation(ts, a) <= Violation(ts, b)
    BY <2>2, <2>3, <2>4, LeastViolation
  <2>6. \A b \in Feasible(ts, avail) : Violation(ts, b) \in Nat
    <3>1. avail \in Int
      BY <2>2
    <3>. QED  BY <2>2, <3>1, FeasibleIs, GapIs
  <2>7. C = { Violation(ts, b) : b \in Feasible(ts, avail) } /\ V(a) = Violation(ts, a)
    BY <2>1
  <2>. HIDE DEF C, V
  <2>8. V(a) \in C /\ \A y \in C : V(a) <= y /\ y \in Nat
    BY <2>5, <2>6, <2>7
  <2>9. Min(C) \in C /\ \A y \in C : Min(C) <= y
    BY <2>8 DEF Min
  <2>. QED  BY <2>8, <2>9
<1>. QED  BY <1>1, InputFrom, PTL

=============================================================================
