--------------------------- MODULE BlackholeProofs ---------------------------
(***************************************************************************)
(* The promises of the blackhole container, for any set of addresses and    *)
(* any number of rules, failing calls and restarts.                         *)
(***************************************************************************)
EXTENDS Blackhole, TLAPS

\* A rule that nothing excuses is the only one of its address, its address is
\* listed, and a /deactivate under way will come to it.
EveryRuleIsListed ==
    \A a \in Addresses : rules[a] > 0 /\ a \notin excused =>
        /\ rules[a] = 1 /\ a \in listed
        /\ deactivating => a \in toDelete

\* Without iptables no rule is ever put into the kernel.
StubHasNoRules == ~real => \A a \in Addresses : rules[a] = 0

\* Standby begins with /deactivate, which leaves an empty list.
StandbyListsNothing == Idle /\ mode = "standby" => listed = {}

BlackholeInv ==
    /\ BTypeOK /\ (deactivating => mode = "standby")
    /\ ListedIsDropped /\ EveryRuleIsListed /\ StandbyListsNothing
    /\ StubHasNoRules

USE BlackholeAssumption DEF BlackholeAssumption

LEMMA InitiallyEmpty == Init => BlackholeInv
<1>. SUFFICES ASSUME Init PROVE BlackholeInv
  OBVIOUS
<1>. USE DEF Init
<1>0. rules \in [Addresses -> 0..MaxRules]
  OBVIOUS
<1>1. BTypeOK
  <2>1. faults \in 0..MaxFaults
    OBVIOUS
  <2>2. deactivating \in BOOLEAN /\ (toDelete # {} => deactivating)
    OBVIOUS
  <2>. QED  BY <1>0, <2>1, <2>2 DEF BTypeOK
<1>2. ListedIsDropped /\ EveryRuleIsListed /\ StandbyListsNothing
  BY DEF ListedIsDropped, EveryRuleIsListed, StandbyListsNothing, Idle
<1>. QED  BY <1>1, <1>2 DEF BlackholeInv, StubHasNoRules

\* iptables, where there is one, adds and deletes one rule of one address.
LEMMA Counts ==
    ASSUME BTypeOK, NEW a \in Addresses
    PROVE  /\ rules[a] < MaxRules => Added(a) \in [Addresses -> 0..MaxRules]
           /\ Deleted(a) \in [Addresses -> 0..MaxRules]
           /\ Added(a)[a] = IF real THEN rules[a] + 1 ELSE rules[a]
           /\ real => Deleted(a)[a] = IF rules[a] > 0 THEN rules[a] - 1 ELSE 0
           /\ ~real => Added(a) = rules /\ Deleted(a) = rules
           /\ \A b \in Addresses \ {a} :
                  Added(a)[b] = rules[b] /\ Deleted(a)[b] = rules[b]
BY DEF BTypeOK, Added, Deleted

LEMMA BlockKeeps ==
    ASSUME BlackholeInv, NEW a \in Addresses, Block(a)
    PROVE  BlackholeInv'
<1>. USE DEF BlackholeInv
<1>1. PICK ok \in BOOLEAN :
          /\ listed' = IF ok THEN listed \cup {a} ELSE listed
          /\ \/ /\ ok /\ Works /\ rules' = Added(a)
                /\ excused' = IF rules[a] > 0 THEN excused \cup {a} ELSE excused
             \/ /\ ~ok /\ real /\ Fails /\ rules' \in {rules, Added(a)}
                /\ excused' = excused \cup {a}
  BY DEF Block, Listing
<1>2. /\ Idle /\ mode = "active" /\ rules[a] < MaxRules
      /\ UNCHANGED <<real, mode, toDelete, deactivating>>
  BY DEF Block
<1>3. BTypeOK'
  BY <1>1, <1>2, Counts DEF BTypeOK, Works, Fails
<1>4. ListedIsDropped'
  BY <1>1, <1>2, Counts DEF BTypeOK, ListedIsDropped, Idle
<1>5. EveryRuleIsListed'
  BY <1>1, <1>2, Counts DEF BTypeOK, EveryRuleIsListed, Idle
<1>6. StubHasNoRules'
  BY <1>1, <1>2, Counts DEF StubHasNoRules
<1>. QED  BY <1>2, <1>3, <1>4, <1>5, <1>6 DEF StandbyListsNothing, Idle

LEMMA DeleteKeeps ==
    ASSUME BTypeOK, StubHasNoRules, NEW a \in Addresses, Delete(a)
    PROVE  /\ rules' \in [Addresses -> 0..MaxRules]
           /\ faults' \in 0..MaxFaults
           /\ excused \subseteq excused' /\ excused' \subseteq excused \cup {a}
           /\ rules'[a] <= rules[a]
           /\ a \notin excused' /\ rules[a] <= 1 => rules'[a] = 0
           /\ \A b \in Addresses \ {a} : rules'[b] = rules[b]
<1>1. rules' \in {rules, Deleted(a)}
  BY DEF Delete
<1>2. a \notin excused' => rules' = Deleted(a)
  BY DEF Delete
<1>3. ~real => rules[a] = 0 /\ Deleted(a) = rules
  BY Counts DEF StubHasNoRules
<1>4. /\ faults' \in 0..MaxFaults
      /\ excused \subseteq excused' /\ excused' \subseteq excused \cup {a}
  BY DEF Delete, BTypeOK, Works, Fails
<1>5. rules \in [Addresses -> 0..MaxRules]
  BY DEF BTypeOK
<1>. QED  BY <1>1, <1>2, <1>3, <1>4, <1>5, Counts

LEMMA UnblockKeeps ==
    ASSUME BlackholeInv, NEW a \in Addresses, Unblock(a)
    PROVE  BlackholeInv'
<1>. USE DEF BlackholeInv
<1>1. /\ Idle /\ Delete(a) /\ listed' = listed \ {a}
      /\ UNCHANGED <<real, mode, toDelete, deactivating>>
  BY DEF Unblock
<1>2. BTypeOK'
  BY <1>1, DeleteKeeps DEF BTypeOK, Idle
<1>3. ListedIsDropped'
  BY <1>1, DeleteKeeps DEF BTypeOK, ListedIsDropped, Idle
<1>4. EveryRuleIsListed'
  BY <1>1, DeleteKeeps DEF BTypeOK, EveryRuleIsListed, Idle
<1>5. StubHasNoRules'
  BY <1>1, DeleteKeeps DEF BTypeOK, StubHasNoRules
<1>. QED  BY <1>1, <1>2, <1>3, <1>4, <1>5 DEF StandbyListsNothing, Idle

LEMMA DeactivateKeeps ==
    ASSUME BlackholeInv,
           BeginDeactivate \/ EndDeactivate \/ \E a \in Addresses : DeleteNext(a)
    PROVE  BlackholeInv'
<1>. USE DEF BlackholeInv
<1>1. CASE BeginDeactivate
  BY <1>1 DEF BeginDeactivate, Snapshot, BTypeOK, ListedIsDropped,
              EveryRuleIsListed, StandbyListsNothing, StubHasNoRules, Idle
<1>2. CASE EndDeactivate
  BY <1>2 DEF EndDeactivate, BTypeOK, ListedIsDropped, EveryRuleIsListed,
              StandbyListsNothing, StubHasNoRules, Idle
<1>3. ASSUME NEW a \in Addresses, DeleteNext(a)
      PROVE  BlackholeInv'
  <2>1. /\ a \in toDelete /\ Delete(a) /\ toDelete' = toDelete \ {a}
        /\ UNCHANGED <<real, mode, listed, deactivating>>
    BY <1>3 DEF DeleteNext
  <2>2. deactivating /\ deactivating'
    BY <2>1 DEF BTypeOK
  <2>3. BTypeOK'
    BY <2>1, <2>2, DeleteKeeps DEF BTypeOK
  <2>4. EveryRuleIsListed'
    BY <2>1, <2>2, DeleteKeeps DEF BTypeOK, EveryRuleIsListed
  <2>5. StubHasNoRules'
    BY <2>1, DeleteKeeps DEF BTypeOK, StubHasNoRules
  <2>. QED  BY <2>1, <2>2, <2>3, <2>4, <2>5 DEF ListedIsDropped, StandbyListsNothing, Idle
<1>. QED  BY <1>1, <1>2, <1>3

LEMMA RestartKeeps == BlackholeInv /\ Restart => BlackholeInv'
<1>. SUFFICES ASSUME BlackholeInv, Restart PROVE BlackholeInv'
  OBVIOUS
<1>. USE DEF Restart
<1>1. BTypeOK'
  <2>1. [a \in Addresses |-> 0] \in [Addresses -> 0..MaxRules]
    OBVIOUS
  <2>2. rules' \in [Addresses -> 0..MaxRules] /\ excused' \subseteq Addresses
    BY <2>1 DEF BlackholeInv, BTypeOK
  <2>3. faults' \in 0..MaxFaults
    BY DEF BlackholeInv, BTypeOK, Fails
  <2>4. deactivating' \in BOOLEAN /\ (toDelete' # {} => deactivating')
    OBVIOUS
  <2>. QED  BY <2>2, <2>3, <2>4 DEF BlackholeInv, BTypeOK
<1>2. EveryRuleIsListed'
  BY DEF EveryRuleIsListed
<1>3. StubHasNoRules'
  BY DEF BlackholeInv, StubHasNoRules
<1>. QED  BY <1>1, <1>2, <1>3 DEF BlackholeInv, ListedIsDropped, StandbyListsNothing, Idle

LEMMA ActivateKeeps == BlackholeInv /\ Activate => BlackholeInv'
BY DEF BlackholeInv, Activate, BTypeOK, ListedIsDropped, EveryRuleIsListed,
       StandbyListsNothing, StubHasNoRules, Idle

\* The list and the rules agree as far as calls that failed, double posts and
\* restarts let them: the inductive invariant behind the three theorems below.
THEOREM BlackholeInvariant == Spec => []BlackholeInv
<1>1. BlackholeInv /\ [Next]_vars => BlackholeInv'
  <2>. SUFFICES ASSUME BlackholeInv, [Next]_vars PROVE BlackholeInv'
    OBVIOUS
  <2>1. CASE UNCHANGED vars
    BY <2>1 DEF vars, BlackholeInv, BTypeOK, ListedIsDropped, EveryRuleIsListed,
                StandbyListsNothing, StubHasNoRules, Idle
  <2>2. CASE Next
    BY <2>2, BlockKeeps, UnblockKeeps, DeactivateKeeps, RestartKeeps, ActivateKeeps
       DEF Next
  <2>. QED  BY <2>1, <2>2
<1>. QED  BY InitiallyEmpty, <1>1, PTL DEF Spec

\* The variables keep their types, and a /deactivate goes through listed
\* addresses only.
THEOREM BlackholeTypes == Spec => []BTypeOK
BY BlackholeInvariant, PTL DEF BlackholeInv

\* Where there is an iptables, what GET /blackholed answers is dropped, whatever
\* failed.
THEOREM ListedAddressesAreDropped == Spec => []ListedIsDropped
BY BlackholeInvariant, PTL DEF BlackholeInv

\* Only double posts, failed calls and restarts leave rules behind in standby.
THEOREM StandbyIsQuiet == Spec => []StandbyDropsNothing
<1>1. BlackholeInv => StandbyDropsNothing
  BY DEF BlackholeInv, EveryRuleIsListed, StandbyListsNothing, StandbyDropsNothing
<1>. QED  BY BlackholeInvariant, <1>1, PTL

=============================================================================
