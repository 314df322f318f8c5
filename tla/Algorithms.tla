----------------------------- MODULE Algorithms -----------------------------
(***************************************************************************)
(* The pure parts of the system over a stream of inputs: the decision of M3 *)
(* and what M2 prepares for it (TierMapper, AIOutput), the bandwidth        *)
(* allocator (SlaAllocator), and the fat-tree (FatTree).  None keeps state, *)
(* so the only variable is the input that arrived last.                     *)
(***************************************************************************)
EXTENDS AIOutput, SlaAllocator, SequencesExt

Tree == INSTANCE FatTree

CONSTANTS
    Results,     \* results of M2
    OldVectors,  \* class vectors of the older detectors
    Loads,       \* links and the tenants on them
    TreeSizes    \* k of the fat-trees

VARIABLE input

\* Every payload M2 can emit.
Payloads ==
    { s \in [kind : {"result"}, type : AttackTypes, conf : Percent,
             p1 : Percent, p5 : Percent, p15 : Percent] : Emittable(s) }

\* PRIORITY_GOLD is 3, PRIORITY_BRONZE 1; a hundred times that spread and more is
\* allowed for.
Tenant == [floor : Nat, demand : Nat, weight : 1..1000]
Links == [kind : {"link"}, available : Int, tenants : Seq(Tenant) \ {<<>>}]

ASSUME InputsAssumption ==
    /\ \A s \in Results : s \in Payloads
    /\ \A v \in OldVectors : v \in Seq(Nat) /\ Len(v) \in {7, 12}
    /\ \A l \in Loads : l \in Links
    /\ \A k \in TreeSizes : k \in Nat /\ k % 2 = 0

\* Pairs of different hosts of one tree.
Flows ==
    UNION { { [kind |-> "flow", k |-> k, src |-> s, dst |-> d] :
                s \in Tree!Hosts(k), d \in Tree!Hosts(k) } : k \in TreeSizes }

Others ==
    [kind : {"legacy"}, p120 : Percent]
    \cup [kind : {"old"}, v : OldVectors]
    \cup Loads
    \cup { f \in Flows : f.src # f.dst }

Init == input \in Results \cup Others
\* Only pairs of results are compared; any other input is looked at once.
Arrive == input' \in IF input.kind = "result" THEN Results ELSE {input}
Spec == Init /\ [][Arrive]_input

-----------------------------------------------------------------------------
IsResult == input.kind = "result"

\* s2 is at least as alarming as s1: no score is lower, and an attack that was
\* named stays named.
Worse(s1, s2) ==
    /\ s1.type \in {"BENIGN", s2.type}
    /\ s1.conf <= s2.conf /\ s1.p1 <= s2.p1 /\ s1.p5 <= s2.p5 /\ s1.p15 <= s2.p15

\* More evidence never lowers the response: decide() is monotone in all four
\* scores at once, across the BENIGN short-circuit and the threshold chain.
MonotoneResponse ==
    [][IsResult /\ Worse(input, input')
          => Decide(input') >= Decide(input)]_input

\* What accompanies a payload fits the tier decided from it.  The alarm severity,
\* computed by a chain of its own, never understates the tier, and for a detected
\* attack it does not overstate it either.  M2's pre_position_recommended is set
\* if the tier is PREEMPT, and never for a named attack that is NORMAL.
AlarmAgreesWithTier ==
    IsResult =>
        LET t == Decide(input)
            v == Severity(input)
        IN  /\ t = ISOLATE => v = CRITICAL
            /\ t = MITIGATE => v >= MAJOR
            /\ t = PREEMPT => v = MINOR
            /\ input.type # "BENIGN" =>
                   /\ v >= MAJOR => t >= MITIGATE
                   /\ v = MINOR => t = PREEMPT
                   /\ PrePosition(input) => t >= ALERT
            /\ t = PREEMPT => PrePosition(input)

\* For a detected attack, a tier that calls for a CNF names one the catalog can
\* instantiate, and the tiers below call for none.
DetectedAttackIsDeployable ==
    IsResult /\ input.type # "BENIGN" =>
        LET t == Decide(input)
            p == CnfProfile(t, input.type)
        IN  IF t >= PREEMPT THEN p \in Catalog ELSE p = NoProfile

\* The three severity chains (the coalescer's, build_payload's, TierMapper's) agree
\* on every output that reaches M3, whole or half; and half an output (flush_stale)
\* never carries a higher severity than the whole would, which carries that of one
\* of its halves: nothing is alarming only because its partner is missing.
ChainsAgree ==
    IsResult =>
        LET whole == CoalescerSeverity(input, input)
            halfA == CoalescerSeverity(input, NoPart)
            halfB == CoalescerSeverity(NoPart, input)
        IN  /\ whole = Severity(input)
            /\ \A a, b \in {input, NoPart} : CoalescerSeverity(a, b) = PayloadSeverity(a, b)
            /\ whole \in {halfA, halfB} /\ halfA <= whole /\ halfB <= whole

\* Outputs of older models still raise the alarm.  Folding a detector's vector
\* never turns an attack into BENIGN: if its largest share is an attack's, so is
\* the largest of the five.  And as the two-minute head of the v1 forecaster rises,
\* the stretched forecast goes from NORMAL to PREEMPT and on to MITIGATE, never
\* back; ALERT, which rests on P(t+15), is never reached by it alone.
OlderModelsStillAlarm ==
    /\ input.kind = "old" =>
           (ArgMax(input.v) # 1 => ArgMax(CoerceClassProbs(input.v)) # 1)
    /\ input.kind = "legacy" =>
           LET tier(p) == LET f == LegacyForecast(p)
                          IN  Decide([type |-> "Syn", conf |-> 0,
                                      p1 |-> f.p1, p5 |-> f.p5, p15 |-> f.p15])
           IN  /\ tier(input.p120) # ALERT
               /\ \A q \in 0..input.p120 : tier(q) <= tier(input.p120)

-----------------------------------------------------------------------------
\* allocate() of the link that arrived last.
Answers(solver) == Allocations(input.tenants, input.available, solver)
Link == input.kind = "link" /\ input.available > 0

\* With or without the solver, no tenant gets a unit while one of higher weight is
\* short of its floor (or of its demand, if that is less), and the link is not
\* overbooked.
PriorityRespected ==
    Link => \A solver \in BOOLEAN : \A a \in Answers(solver) :
        LET ts == input.tenants IN
        /\ Total(a) <= input.available
        /\ \A i, j \in DOMAIN ts :
               a[i] < Least(ts[i].floor, ts[i].demand) /\ ts[j].weight < ts[i].weight
                   => a[j] = 0

\* The heuristic is as good as the solver in the term that matters: as long as
\* every tenant asks for its floor at least, the weighted violation is the least
\* possible, and what the solver breaks ties with never costs a floor.
FallbackAsGoodAsLp ==
    Link /\ (\A i \in DOMAIN input.tenants :
                input.tenants[i].floor <= input.tenants[i].demand) =>
        LET cost(a) == Violation(input.tenants, a)
            least == Min({ cost(a) : a \in Feasible(input.tenants, input.available) })
        IN  \A solver \in BOOLEAN : \A a \in Answers(solver) : cost(a) = least

-----------------------------------------------------------------------------
\* The ports the controller installs and the ports Mininet numbered by adding
\* links fit together: every packet reaches its host, over no switch twice, and
\* takes no detour (one, three or five switches).
BaseRoutesDeliver ==
    input.kind = "flow" =>
        LET w == Tree!Walk(input.k, input.src, input.dst, 9)
        IN  /\ Last(w) = input.dst
            /\ \A i, j \in DOMAIN w : w[i] = w[j] => i = j
            /\ Len(w) = IF input.src[2] # input.dst[2] THEN 7
                        ELSE IF input.src[3] # input.dst[3] THEN 5 ELSE 3

\* The attack path the frontend draws is the one the traffic takes, for hosts
\* below different edge switches.
ShownPathIsTaken ==
    input.kind = "flow"
        /\ <<input.src[2], input.src[3]>> # <<input.dst[2], input.dst[3]>> =>
        Tree!ShownPath(input.src, input.dst)
            = Tree!Walk(input.k, input.src, input.dst, 9)

=============================================================================
