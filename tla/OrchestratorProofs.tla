-------------------------- MODULE OrchestratorProofs --------------------------
(***************************************************************************)
(* The promises of Orchestrator, proved for any number of instances,        *)
(* policies, failures and restarts.  OrchestratorInv says, phase by phase,  *)
(* what the process knows and what the world looks like; each part that     *)
(* speaks of the world names the failures it survives.                      *)
(***************************************************************************)
EXTENDS Orchestrator, TLAPS

\* Where a step is determines what it is about.
Phases ==
    /\ pc = "idle" <=> act = "HOLD"
    /\ act = "HOLD" \/ act = "SUPPRESSED" => pc \in {"idle", "push"}
    /\ pc \in {"start", "wait", "steer"} => act = "RAISE" /\ tier[Self] >= PREEMPT
    /\ pc = "revoke" => act = "DEESCALATE"
    /\ act = "RAISE" => tier[Self] > 0
    /\ act = "RAISE" /\ pc \in {"push", "unsteer", "stop", "start"} => nextId <= MaxInst
    /\ act = "DEESCALATE" => tier[Self] = 0
    /\ act = "SUPPRESSED" => tier[Self] >= MITIGATE

\* The rule book follows ownership, whatever fails.
Books ==
    /\ owned # None => /\ pc \in {"idle", "push"}
                       /\ registry[owned] = "ACTIVE" /\ book = {owned}
    /\ owned = None /\ pc # "unsteer" => book = {}
    /\ pc = "unsteer" => book = {old}
    /\ old # None => registry[old] = "ACTIVE"
    /\ pc = "steer" => registry[current] = "ACTIVE"
    /\ \A i \in Inst : address[i] \in {None, i, Loopback}

\* An id that was not given out yet stands for nothing.
Fresh ==
    \A i \in Inst : i >= nextId =>
        pod[i] = "none" /\ registry[i] = "absent" /\ address[i] = None

\* An instance that is being waited for is a real one; one that was made up runs
\* only if the answer to its start was lost.
Honest ==
    \A i \in Inst :
        /\ registry[i] = "PENDING" => ~Simulation(i)
        /\ Simulation(i) /\ Running(i) => "start" \in faults

\* An instance that runs is in hand, or one of the failures answers for it.
Accounts == \A i \in Inst : Running(i) => i \in {owned, old, current} \/ Accounted(i)

\* No instance runs that the process does not know of.
Instances ==
    OnlyFaults({"push", "steer", "revoke"}) =>
        \A i \in Inst : /\ address[i] \in {None, i}
                        /\ mode # "stub" => address[i] = None
                        /\ Running(i) => i = owned \/ i = old \/ i = current

\* The flow, which nothing ever removes, points at an instance that runs or that
\* was terminated; without Docker there is none.
Flows ==
    OnlyFaults({"push", "steer", "revoke"}) =>
        /\ flow # None =>
               flow \in Inst /\ (Running(flow) \/ registry[flow] = "TERMINATED")
        /\ mode # "stub" => flow = None
        /\ pc \in {"wait", "steer"} => Running(current)

\* Nothing is left behind at NORMAL.
Cleanliness ==
    OnlyFaults(Faults \ {"revoke", "profile", "crash"}) =>
        (tier[Self] = 0 /\ pc = "idle" => policies = 0 /\ owned = None)

\* The tier is in force whenever no step is under way.
InForce ==
    OnlyFaults({"push", "revoke"}) =>
        /\ pc = "idle" \/ act = "SUPPRESSED" =>
               (owned # None <=> tier[Self] >= PREEMPT)
        /\ owned # None =>
               /\ Running(owned)
               /\ mode = "helm" => pod[owned] = "ready"
               /\ mode = "stub" => pod[owned] = "ready" /\ flow = owned
        /\ pc \in {"wait", "steer"} =>
               /\ mode = "helm" => pod[current] = "ready"
               /\ mode = "stub" => address[current] = current
        /\ pc = "wait" => registry[current] = "PENDING"
        /\ pc = "steer" /\ mode = "stub" => pod[current] = "ready"

OrchestratorInv ==
    /\ OTypeOK /\ Phases /\ Books
    /\ Fresh /\ Honest /\ Accounts
    /\ Instances /\ Flows /\ Cleanliness /\ InForce

-----------------------------------------------------------------------------
(* Each action preserves the invariant.                                     *)

\* The abstract decisions keep the types of tier and dwell.
LEMMA ResponseType ==
    ASSUME TypeInv,
           Raise(Self) \/ Relax(Self) \/ Forget(Self) \/ Pass \/ UNCHANGED gvars
    PROVE  TypeInv'
<1>0. MaxDwell \in Nat
  BY GuardsAssumption DEF MaxDwell
<1> USE <1>0 DEF TypeInv, TierRange
<1>1. CASE Raise(Self) \/ Relax(Self)
  BY <1>1 DEF Raise, Relax
<1>2. CASE Forget(Self)
  <2>1. tier' = [tier EXCEPT ![Self] = 0] /\ tier \in [Devices -> 0..4]
    BY <1>2 DEF Forget
  <2>2. MaxDwell \in 0..MaxDwell
    OBVIOUS
  <2>3. dwell' \in [Devices -> 0..MaxDwell]
    BY <1>2, <2>2 DEF Forget
  <2>4. tier' \in [Devices -> 0..4]
    <3>1. \A d \in Devices : tier'[d] \in 0..4
      BY <2>1
    <3> QED BY <2>1, <3>1
  <2> QED BY <2>3, <2>4
<1>3. CASE Pass
  BY <1>3 DEF Pass
<1>4. CASE UNCHANGED gvars
  BY <1>4 DEF gvars
<1> QED BY <1>1, <1>2, <1>3, <1>4

\* A decision to raise the tier changes the tier and starts a step.
LEMMA DecideRaiseKeeps ==
    ASSUME OrchestratorInv, DecideRaise
    PROVE  OrchestratorInv'
<1> USE OrchestratorAssumption DEF OrchestratorInv, OTypeOK, ControlType,
        InstanceType, CounterType, Statuses, Charts, Faults, None, Inst, Loopback,
        PREEMPT, MITIGATE, ISOLATE, DecideRaise, Raise, Begin, TierRange, process, world, model
<1>1. OTypeOK'
  <2>1. TypeInv'
    BY ResponseType DEF gvars
  <2>2. ControlType'
    BY DEF Phases, Books
  <2>3. InstanceType'
    OBVIOUS
  <2>4. CounterType'
    OBVIOUS
  <2> QED BY <2>1, <2>2, <2>3, <2>4
<1>2. Phases'
  BY DEF Phases, TypeInv, TierRange
<1>3. Books'
  BY DEF Phases, Books
<1>4. Instances'
  BY DEF Phases, Instances, OnlyFaults, Running, Books
<1>8. Fresh' /\ Honest'
  BY DEF Phases, Books, Fresh, Honest, Simulation, Running
<1>9. Accounts'
  BY DEF Phases, Books, Honest, Accounts, Accounted, Simulation, Running
<1>5. Flows'
  BY DEF Phases, Books, Instances, Flows, OnlyFaults, Running
<1>6. Cleanliness'
  BY DEF Phases, Books, Cleanliness, OnlyFaults, TypeInv, TierRange
<1>7. InForce'
  BY DEF Phases, Books, Instances, Flows, InForce, OnlyFaults, Running, TypeInv, TierRange
<1> QED BY <1>1, <1>2, <1>3, <1>4, <1>5, <1>6, <1>7, <1>8, <1>9

\* So does a decision to return to NORMAL.
LEMMA DecideDemotionKeeps ==
    ASSUME OrchestratorInv, DecideDemotion
    PROVE  OrchestratorInv'
<1> USE OrchestratorAssumption DEF OrchestratorInv, OTypeOK, ControlType,
        InstanceType, CounterType, Statuses, Charts, Faults, None, Inst, Loopback,
        PREEMPT, MITIGATE, ISOLATE, DecideDemotion, Relax, Begin, process, world, model
<1>1. OTypeOK'
  <2>1. TypeInv'
    BY ResponseType DEF gvars
  <2>2. ControlType'
    BY DEF Phases, Books
  <2>3. InstanceType'
    OBVIOUS
  <2>4. CounterType'
    OBVIOUS
  <2> QED BY <2>1, <2>2, <2>3, <2>4
<1>2. Phases'
  BY DEF Phases, TypeInv, TierRange
<1>3. Books'
  BY DEF Phases, Books
<1>4. Instances'
  BY DEF Phases, Instances, OnlyFaults, Running, Books
<1>8. Fresh' /\ Honest'
  BY DEF Phases, Books, Fresh, Honest, Simulation, Running
<1>9. Accounts'
  BY DEF Phases, Books, Honest, Accounts, Accounted, Simulation, Running
<1>5. Flows'
  BY DEF Phases, Books, Instances, Flows, OnlyFaults, Running
<1>6. Cleanliness'
  BY DEF Phases, Books, Cleanliness, OnlyFaults, TypeInv, TierRange
<1>7. InForce'
  BY DEF Phases, Books, Instances, Flows, InForce, OnlyFaults, Running, TypeInv, TierRange
<1> QED BY <1>1, <1>2, <1>3, <1>4, <1>5, <1>6, <1>7, <1>8, <1>9

\* A suppressed window starts a step that only pushes.
LEMMA DecideSuppressedKeeps ==
    ASSUME OrchestratorInv, DecideSuppressed
    PROVE  OrchestratorInv'
<1> USE OrchestratorAssumption DEF OrchestratorInv, OTypeOK, ControlType,
        InstanceType, CounterType, Statuses, Charts, Faults, None, Inst, Loopback,
        PREEMPT, MITIGATE, ISOLATE, DecideSuppressed, Begin, world, model
<1>1. OTypeOK'
  BY DEF TypeInv, TierRange
<1>2. Phases'
  BY DEF Phases, TypeInv, TierRange
<1>3. Books'
  BY DEF Phases, Books
<1>4. Instances'
  BY DEF Phases, Instances, OnlyFaults, Running, Books
<1>8. Fresh' /\ Honest'
  BY DEF Phases, Books, Fresh, Honest, Simulation, Running
<1>9. Accounts'
  BY DEF Phases, Books, Honest, Accounts, Accounted, Simulation, Running
<1>5. Flows'
  BY DEF Phases, Books, Instances, Flows, OnlyFaults, Running
<1>6. Cleanliness'
  BY DEF Phases, Books, Cleanliness, OnlyFaults, TypeInv, TierRange
<1>7. InForce'
  BY DEF Phases, Books, Instances, Flows, InForce, OnlyFaults, Running, TypeInv, TierRange
<1> QED BY <1>1, <1>2, <1>3, <1>4, <1>5, <1>6, <1>7, <1>8, <1>9

\* The push hands the owned instance over to the teardown.
LEMMA PushKeeps ==
    ASSUME OrchestratorInv, Push
    PROVE  OrchestratorInv'
<1> USE OrchestratorAssumption DEF OrchestratorInv, OTypeOK, ControlType,
        InstanceType, CounterType, Statuses, Charts, Faults, None, Inst, Loopback,
        PREEMPT, MITIGATE, ISOLATE, Push, HandOver, AfterTeardown, Goto, OneMore, Fault
<1>1. OTypeOK'
  <2>1. TypeInv'
    BY ResponseType DEF gvars
  <2>2. ControlType'
    BY DEF Phases, Books
  <2>3. InstanceType'
    OBVIOUS
  <2>4. CounterType'
    OBVIOUS
  <2> QED BY <2>1, <2>2, <2>3, <2>4
<1>2. Phases'
  BY DEF Phases, TypeInv, TierRange
<1>3. Books'
  BY DEF Phases, Books
<1>4. Instances'
  BY DEF Phases, Instances, OnlyFaults, Running, Books
<1>8. Fresh' /\ Honest'
  BY DEF Phases, Books, Fresh, Honest, Simulation, Running
<1>9. Accounts'
  BY DEF Phases, Books, Honest, Accounts, Accounted, Simulation, Running
<1>5. Flows'
  BY DEF Phases, Books, Instances, Flows, OnlyFaults, Running
<1>6. Cleanliness'
  BY DEF Phases, Books, Cleanliness, OnlyFaults, TypeInv, TierRange
<1>7. InForce'
  BY DEF Phases, Books, Instances, Flows, InForce, OnlyFaults, Running, TypeInv, TierRange
<1> QED BY <1>1, <1>2, <1>3, <1>4, <1>5, <1>6, <1>7, <1>8, <1>9

\* Removing the rules empties the book before anything else.
LEMMA UnsteerKeeps ==
    ASSUME OrchestratorInv, Unsteer
    PROVE  OrchestratorInv'
<1> USE OrchestratorAssumption DEF OrchestratorInv, OTypeOK, ControlType,
        InstanceType, CounterType, Statuses, Charts, Faults, None, Inst, Loopback,
        PREEMPT, MITIGATE, ISOLATE, Unsteer, Goto, world, model
<1>1. OTypeOK'
  BY DEF TypeInv, TierRange
<1>2. Phases'
  BY DEF Phases, TypeInv, TierRange
<1>3. Books'
  BY DEF Phases, Books
<1>4. Instances'
  BY DEF Phases, Instances, OnlyFaults, Running, Books
<1>8. Fresh' /\ Honest'
  BY DEF Phases, Books, Fresh, Honest, Simulation, Running
<1>9. Accounts'
  BY DEF Phases, Books, Honest, Accounts, Accounted, Simulation, Running
<1>5. Flows'
  BY DEF Phases, Books, Instances, Flows, OnlyFaults, Running
<1>6. Cleanliness'
  BY DEF Phases, Books, Cleanliness, OnlyFaults, TypeInv, TierRange
<1>7. InForce'
  BY DEF Phases, Books, Instances, Flows, InForce, OnlyFaults, Running, TypeInv, TierRange
<1> QED BY <1>1, <1>2, <1>3, <1>4, <1>5, <1>6, <1>7, <1>8, <1>9

\* Terminating the old instance, or failing to.
LEMMA StopKeeps ==
    ASSUME OrchestratorInv, Stop
    PROVE  OrchestratorInv'
<1> USE OrchestratorAssumption DEF OrchestratorInv, OTypeOK, ControlType,
        InstanceType, CounterType, Statuses, Charts, Faults, None, Inst, Loopback,
        PREEMPT, MITIGATE, ISOLATE, Stop, AfterTeardown, Goto, Fault, Simulation
<1>1. OTypeOK'
  <2>1. TypeInv'
    BY ResponseType DEF gvars
  <2>2. ControlType'
    BY DEF Phases, Books
  <2>3. InstanceType'
    OBVIOUS
  <2>4. CounterType'
    OBVIOUS
  <2> QED BY <2>1, <2>2, <2>3, <2>4
<1>2. Phases'
  BY DEF Phases, TypeInv, TierRange
<1>3. Books'
  BY DEF Phases, Books
<1>10. old \in Inst /\ registry[old] = "ACTIVE"
  BY DEF Books
<1>4. Instances'
  <2> SUFFICES ASSUME OnlyFaults({"push", "steer", "revoke"})'
               PROVE  Instances'
    BY DEF Instances
  <2>1. OnlyFaults({"push", "steer", "revoke"})
    BY DEF OnlyFaults
  <2>2. ~Simulation(old)
    BY <2>1, <1>10 DEF Instances
  <2>3. "stop" \notin faults'
    BY DEF OnlyFaults
  <2>4. pod' = [pod EXCEPT ![old] = "stopped"]
    BY <2>2, <2>3
  <2> QED BY <2>1, <2>4 DEF Instances, Running
<1>8. Fresh' /\ Honest'
  <2>1. Fresh'
    <3>1. \A i \in Inst : i # old => pod'[i] = pod[i] /\ registry'[i] = registry[i]
      BY <1>10
    <3>. QED  BY <1>10, <3>1 DEF Fresh
  <2>2. \A i \in Inst : registry'[i] = "PENDING" => registry[i] = "PENDING"
    BY <1>10
  <2>3. \A i \in Inst : Simulation(i)' = Simulation(i)
    OBVIOUS
  <2>4. \A i \in Inst : Running(i)' => Running(i)
    BY DEF Running
  <2>5. faults \subseteq faults'
    OBVIOUS
  <2> HIDE DEF Simulation, Stop
  <2> QED BY <2>1, <2>2, <2>3, <2>4, <2>5 DEF Honest
<1>9. Accounts'
  BY <1>10 DEF Honest, Accounts, Accounted, Running
<1>5. Flows'
  <2> SUFFICES ASSUME OnlyFaults({"push", "steer", "revoke"})'
               PROVE  Flows'
    BY DEF Flows
  <2>1. OnlyFaults({"push", "steer", "revoke"})
    BY DEF OnlyFaults
  <2>2. \A i \in Inst : i # old => pod'[i] = pod[i] /\ registry'[i] = registry[i]
    BY <1>10
  <2>3. ~Simulation(old)
    BY <2>1, <1>10 DEF Instances
  <2>4. "stop" \notin faults'
    BY DEF OnlyFaults
  <2>5. flow' = flow /\ registry'[old] = "TERMINATED"
    BY <1>10, <2>3, <2>4
  <2>6. pc' \notin {"wait", "steer"}
    BY DEF Phases
  <2> QED BY <2>1, <2>2, <2>5, <2>6 DEF Flows, Running
<1>6. Cleanliness'
  BY DEF Phases, Books, Cleanliness, OnlyFaults, TypeInv, TierRange
<1>7. InForce'
  BY DEF Phases, Books, Instances, Flows, InForce, OnlyFaults, Running, TypeInv, TierRange
<1> QED BY <1>1, <1>2, <1>3, <1>4, <1>5, <1>6, <1>7, <1>8, <1>9

\* A new instance takes the next id.
LEMMA StartKeeps ==
    ASSUME OrchestratorInv, Start
    PROVE  OrchestratorInv'
<1> USE OrchestratorAssumption DEF OrchestratorInv, OTypeOK, ControlType,
        InstanceType, CounterType, Statuses, Charts, Faults, None, Inst, Loopback,
        PREEMPT, MITIGATE, ISOLATE
<1>1. PICK c \in ChartsFor(tier[Self]) :
          /\ chart' = [chart EXCEPT ![nextId] = c]
          /\ Started(c) \/ Simulated(c)
  BY DEF Start
<1>2. /\ pc = "start" /\ pc' = "wait" /\ act' = act /\ act = "RAISE"
      /\ current' = nextId /\ nextId' = nextId + 1
      /\ UNCHANGED <<tier, dwell, owned, old, book, flow, policies, crashes, mode>>
  BY DEF Start, Goto, Phases
<1>3. owned = None /\ old = None /\ current = None /\ book = {}
  BY <1>2 DEF Books
<1>4. nextId \in Inst /\ tier[Self] \in {PREEMPT, MITIGATE, ISOLATE} /\ c \in Charts
  <2>1. tier[Self] \in 0..4 /\ tier[Self] >= 2
    BY <1>2 DEF Phases, TypeInv, TierRange
  <2>2. tier[Self] \in {2, 3, 4}
    BY <2>1
  <2> QED BY <1>2, <2>2 DEF Phases, ChartsFor
<1>5. faults' = faults \/ faults' = faults \cup {"start"}
  BY <1>1 DEF Started, Simulated, Fault
<1>6. /\ \/ pod' = pod
         \/ pod' = [pod EXCEPT ![nextId] = "ready"]
         \/ pod' = [pod EXCEPT ![nextId] = "booting"]
      /\ \/ registry' = [registry EXCEPT ![nextId] = "PENDING"]
         \/ registry' = [registry EXCEPT ![nextId] = "ACTIVE"]
      /\ \/ address' = address
         \/ address' = [address EXCEPT ![nextId] = nextId]
         \/ address' = [address EXCEPT ![nextId] = None]
         \/ address' = [address EXCEPT ![nextId] = Loopback]
  BY <1>1 DEF Started, Simulated
<1>7. ASSUME OnlyFaults({"push", "steer", "revoke"})'
      PROVE  /\ OnlyFaults({"push", "steer", "revoke"}) /\ faults' = faults
             /\ pod' = [pod EXCEPT ![nextId] = IF mode = "helm" THEN "ready" ELSE "booting"]
             /\ registry' = [registry EXCEPT ![nextId] = "PENDING"]
             /\ address' = [address EXCEPT ![nextId] = IF mode = "stub" THEN nextId
                                                                       ELSE None]
  <2>1. "start" \notin faults'
    BY <1>7 DEF OnlyFaults
  <2>2. OnlyFaults({"push", "steer", "revoke"}) /\ faults' = faults
    BY <1>5, <1>7, <2>1 DEF OnlyFaults
  <2>3. PortFree(c)
    <3>1. \A i \in Inst : ~Running(i)
      BY <1>3, <2>2 DEF Instances
    <3> QED BY <3>1 DEF PortFree
  <2>4. Started(c)
    BY <1>1, <2>1, <2>3 DEF Simulated, Fault
  <2> QED BY <2>1, <2>2, <2>4 DEF Started, Fault
<1>8. OTypeOK'
  <2>1. TypeInv'
    BY <1>2, ResponseType DEF gvars
  <2>2. ControlType'
    BY <1>2, <1>3, <1>4
  <2>3. registry' \in [Inst -> Statuses]
    BY <1>6
  <2>4. address' \in [Inst -> Inst \cup {None, Loopback}]
    BY <1>4, <1>6
  <2>5. pod' \in [Inst -> {"none", "booting", "ready", "stopped"}]
    BY <1>6
  <2>6. chart' \in [Inst -> Charts]
    BY <1>1, <1>4
  <2>7. faults' \subseteq Faults
    BY <1>5
  <2>8. CounterType'
    BY <1>2, <1>4, <2>7
  <2> QED BY <1>2, <1>3, <2>1, <2>2, <2>3, <2>4, <2>5, <2>6, <2>8
<1>9. Phases'
  BY <1>2 DEF Phases
<1>10. Books'
  BY <1>2, <1>3, <1>4, <1>6 DEF Books
<1>11. Instances'
  BY <1>2, <1>3, <1>4, <1>7 DEF Instances, Running
<1>15. /\ pod[nextId] = "none" /\ registry[nextId] = "absent" /\ address[nextId] = None
  BY <1>4 DEF Fresh
<1>16. \A i \in Inst \ {nextId} :
          pod'[i] = pod[i] /\ registry'[i] = registry[i] /\ address'[i] = address[i]
  BY <1>4, <1>6
<1>17. Fresh'
  BY <1>2, <1>4, <1>16 DEF Fresh
<1>18. Honest'
  <2>1. ASSUME NEW i \in Inst \ {nextId}
        PROVE  /\ registry'[i] = "PENDING" => address'[i] # Loopback
               /\ address'[i] = Loopback /\ pod'[i] \in {"booting", "ready"}
                     => "start" \in faults'
    BY <1>5, <1>16 DEF Honest, Simulation, Running
  <2>2. registry'[nextId] = "PENDING" => address'[nextId] # Loopback
    BY <1>1, <1>4, <1>15 DEF Started, Simulated, Fault
  <2>3. address'[nextId] = Loopback /\ pod'[nextId] \in {"booting", "ready"}
            => "start" \in faults'
    BY <1>1, <1>4, <1>15 DEF Started, Simulated, Fault
  <2> QED BY <2>1, <2>2, <2>3, <1>4 DEF Honest, Simulation, Running
<1>19. Accounts'
  BY <1>2, <1>3, <1>4, <1>5, <1>16 DEF Accounts, Accounted, Simulation, Running
<1>12. Flows'
  <2> SUFFICES ASSUME OnlyFaults({"push", "steer", "revoke"})'
               PROVE  Flows'
    BY DEF Flows
  <2>1. OnlyFaults({"push", "steer", "revoke"}) /\ pod'[nextId] \in {"booting", "ready"}
    BY <1>4, <1>7
  <2>2. flow # None => flow \in Inst \ {nextId}
    BY <1>15, <2>1 DEF Flows, Running
  <2> QED BY <1>2, <1>4, <1>16, <2>1, <2>2 DEF Flows, Running
<1>13. Cleanliness'
  BY <1>2, <1>3, <1>5 DEF Cleanliness, OnlyFaults
<1>14. InForce'
  <2> SUFFICES ASSUME OnlyFaults({"push", "revoke"})'
               PROVE  InForce'
    BY DEF InForce
  <2>1. OnlyFaults({"push", "steer", "revoke"})'
    BY DEF OnlyFaults
  <2> QED BY <1>2, <1>3, <1>4, <1>7, <2>1 DEF InForce
<1> QED BY <1>8, <1>9, <1>10, <1>11, <1>12, <1>13, <1>14, <1>17, <1>18, <1>19

\* Nothing to wait for.
LEMMA WaitSimulatedKeeps ==
    ASSUME OrchestratorInv, WaitSimulated
    PROVE  OrchestratorInv'
<1> USE OrchestratorAssumption DEF OrchestratorInv, OTypeOK, ControlType,
        InstanceType, CounterType, Statuses, Charts, Faults, None, Inst, Loopback,
        PREEMPT, MITIGATE, ISOLATE, WaitSimulated, Goto, world, model
<1>1. OTypeOK'
  BY DEF TypeInv, TierRange
<1>2. Phases'
  BY DEF Phases, TypeInv, TierRange
<1>3. Books'
  BY DEF Phases, Books
<1>4. Instances'
  BY DEF Phases, Instances, OnlyFaults, Running, Books
<1>8. Fresh' /\ Honest'
  BY DEF Phases, Books, Fresh, Honest, Simulation, Running
<1>9. Accounts'
  BY DEF Phases, Books, Honest, Accounts, Accounted, Simulation, Running
<1>5. Flows'
  BY DEF Phases, Books, Instances, Flows, OnlyFaults, Running
<1>6. Cleanliness'
  BY DEF Phases, Books, Cleanliness, OnlyFaults, TypeInv, TierRange
<1>7. InForce'
  BY DEF Phases, Books, Instances, Flows, InForce, OnlyFaults, Running, TypeInv, TierRange
<1> QED BY <1>1, <1>2, <1>3, <1>4, <1>5, <1>6, <1>7, <1>8, <1>9

\* The instance becomes ACTIVE.
LEMMA WaitReadyKeeps ==
    ASSUME OrchestratorInv, WaitReady
    PROVE  OrchestratorInv'
<1> USE OrchestratorAssumption DEF OrchestratorInv, OTypeOK, ControlType,
        InstanceType, CounterType, Statuses, Charts, Faults, None, Inst, Loopback,
        PREEMPT, MITIGATE, ISOLATE, WaitReady, Goto, model
<1>1. OTypeOK'
  BY DEF TypeInv, TierRange
<1>2. Phases'
  BY DEF Phases, TypeInv, TierRange
<1>3. Books'
  BY DEF Phases, Books
<1>4. Instances'
  BY DEF Phases, Instances, OnlyFaults, Running, Books
<1>8. Fresh' /\ Honest'
  BY DEF Phases, Books, Fresh, Honest, Simulation, Running
<1>9. Accounts'
  BY DEF Phases, Books, Honest, Accounts, Accounted, Simulation, Running
<1>5. Flows'
  BY DEF Phases, Books, Instances, Flows, OnlyFaults, Running
<1>6. Cleanliness'
  BY DEF Phases, Books, Cleanliness, OnlyFaults, TypeInv, TierRange
<1>7. InForce'
  BY DEF Phases, Books, Instances, Flows, InForce, OnlyFaults, Running, TypeInv, TierRange
<1> QED BY <1>1, <1>2, <1>3, <1>4, <1>5, <1>6, <1>7, <1>8, <1>9

\* The deadline passes.
LEMMA WaitTimeoutKeeps ==
    ASSUME OrchestratorInv, WaitTimeout
    PROVE  OrchestratorInv'
<1> USE OrchestratorAssumption DEF OrchestratorInv, OTypeOK, ControlType,
        InstanceType, CounterType, Statuses, Charts, Faults, None, Inst, Loopback,
        PREEMPT, MITIGATE, ISOLATE, WaitTimeout, Goto, Fault, world
<1>1. OTypeOK'
  <2>1. TypeInv'
    BY ResponseType DEF gvars
  <2>2. ControlType'
    BY DEF Phases, Books
  <2>3. InstanceType'
    OBVIOUS
  <2>4. CounterType'
    OBVIOUS
  <2> QED BY <2>1, <2>2, <2>3, <2>4
<1>2. Phases'
  BY DEF Phases, TypeInv, TierRange
<1>3. Books'
  BY DEF Phases, Books
<1>4. Instances'
  BY DEF Phases, Instances, OnlyFaults, Running, Books
<1>8. Fresh' /\ Honest'
  BY DEF Phases, Books, Fresh, Honest, Simulation, Running
<1>9. Accounts'
  BY DEF Phases, Books, Honest, Accounts, Accounted, Simulation, Running
<1>5. Flows'
  BY DEF Phases, Books, Instances, Flows, OnlyFaults, Running
<1>6. Cleanliness'
  BY DEF Phases, Books, Cleanliness, OnlyFaults, TypeInv, TierRange
<1>7. InForce'
  BY DEF Phases, Books, Instances, Flows, InForce, OnlyFaults, Running, TypeInv, TierRange
<1> QED BY <1>1, <1>2, <1>3, <1>4, <1>5, <1>6, <1>7, <1>8, <1>9

\* The instance is claimed.
LEMMA SteerKeeps ==
    ASSUME OrchestratorInv, Steer
    PROVE  OrchestratorInv'
<1> USE OrchestratorAssumption DEF OrchestratorInv, OTypeOK, ControlType,
        InstanceType, CounterType, Statuses, Charts, Faults, None, Inst, Loopback,
        PREEMPT, MITIGATE, ISOLATE, Steer, Goto, Fault
<1>1. OTypeOK'
  BY DEF TypeInv, TierRange
<1>2. Phases'
  BY DEF Phases, TypeInv, TierRange
<1>3. Books'
  BY DEF Phases, Books
<1>4. Instances'
  BY DEF Phases, Instances, OnlyFaults, Running, Books
<1>8. Fresh' /\ Honest'
  BY DEF Phases, Books, Fresh, Honest, Simulation, Running
<1>9. Accounts'
  BY DEF Phases, Books, Honest, Accounts, Accounted, Simulation, Running
<1>5. Flows'
  BY DEF Phases, Books, Instances, Flows, OnlyFaults, Running
<1>6. Cleanliness'
  BY DEF Phases, Books, Cleanliness, OnlyFaults, TypeInv, TierRange
<1>7. InForce'
  BY DEF Phases, Books, Instances, Flows, InForce, OnlyFaults, Running, TypeInv, TierRange
<1> QED BY <1>1, <1>2, <1>3, <1>4, <1>5, <1>6, <1>7, <1>8, <1>9

\* The policies are removed.
LEMMA RevokeKeeps ==
    ASSUME OrchestratorInv, Revoke
    PROVE  OrchestratorInv'
<1> USE OrchestratorAssumption DEF OrchestratorInv, OTypeOK, ControlType,
        InstanceType, CounterType, Statuses, Charts, Faults, None, Inst, Loopback,
        PREEMPT, MITIGATE, ISOLATE, Revoke, Goto, Fault
<1>1. OTypeOK'
  <2>1. TypeInv'
    BY ResponseType DEF gvars
  <2>2. ControlType'
    BY DEF Phases, Books
  <2>3. InstanceType'
    OBVIOUS
  <2>4. policies' \in 0..MaxPolicies
    OBVIOUS
  <2>5. CounterType'
    BY <2>4
  <2> QED BY <2>1, <2>2, <2>3, <2>4
<1>2. Phases'
  BY DEF Phases, TypeInv, TierRange
<1>3. Books'
  BY DEF Phases, Books
<1>4. Instances'
  BY DEF Phases, Instances, OnlyFaults, Running, Books
<1>8. Fresh' /\ Honest'
  BY DEF Phases, Books, Fresh, Honest, Simulation, Running
<1>9. Accounts'
  BY DEF Phases, Books, Honest, Accounts, Accounted, Simulation, Running
<1>5. Flows'
  BY DEF Phases, Books, Instances, Flows, OnlyFaults, Running
<1>6. Cleanliness'
  BY DEF Phases, Books, Cleanliness, OnlyFaults, TypeInv, TierRange
<1>7. InForce'
  BY DEF Phases, Books, Instances, Flows, InForce, OnlyFaults, Running, TypeInv, TierRange
<1> QED BY <1>1, <1>2, <1>3, <1>4, <1>5, <1>6, <1>7, <1>8, <1>9

\* The process is gone; what it did is not.
LEMMA RestartKeeps ==
    ASSUME OrchestratorInv, NEW kind \in {"crash", "profile"}, Restart(kind)
    PROVE  OrchestratorInv'
<1> USE OrchestratorAssumption DEF OrchestratorInv, OTypeOK, ControlType,
        InstanceType, CounterType, Statuses, Charts, Faults, None, Inst, Loopback,
        PREEMPT, MITIGATE, ISOLATE, Restart, Forget, Fault, world
<1>1. OTypeOK'
  <2>1. TypeInv'
    BY ResponseType DEF gvars
  <2>2. ControlType'
    BY DEF Phases, Books
  <2>3. InstanceType'
    OBVIOUS
  <2>4. CounterType'
    OBVIOUS
  <2> QED BY <2>1, <2>2, <2>3, <2>4
<1>2. Phases'
  BY DEF Phases, TypeInv, TierRange
<1>3. Books'
  BY DEF Phases, Books
<1>4. Instances'
  BY DEF Phases, Instances, OnlyFaults, Running, Books
<1>8. Fresh' /\ Honest'
  BY DEF Phases, Books, Fresh, Honest, Simulation, Running
<1>9. Accounts'
  BY DEF Phases, Books, Honest, Accounts, Accounted, Simulation, Running
<1>5. Flows'
  BY DEF Phases, Books, Instances, Flows, OnlyFaults, Running
<1>6. Cleanliness'
  BY DEF Phases, Books, Cleanliness, OnlyFaults, TypeInv, TierRange
<1>7. InForce'
  BY DEF Phases, Books, Instances, Flows, InForce, OnlyFaults, Running, TypeInv, TierRange
<1> QED BY <1>1, <1>2, <1>3, <1>4, <1>5, <1>6, <1>7, <1>8, <1>9

\* Time alone disturbs nothing.
LEMMA WakeKeeps ==
    ASSUME OrchestratorInv, Wake
    PROVE  OrchestratorInv'
<1> USE OrchestratorAssumption DEF OrchestratorInv, OTypeOK, ControlType,
        InstanceType, CounterType, Statuses, Charts, Faults, None, Inst, Loopback,
        PREEMPT, MITIGATE, ISOLATE, Wake, Pass, process, world, model
<1>1. OTypeOK'
  <2>1. TypeInv'
    BY ResponseType DEF gvars
  <2>2. ControlType'
    BY DEF Phases, Books
  <2>3. InstanceType'
    OBVIOUS
  <2>4. CounterType'
    OBVIOUS
  <2> QED BY <2>1, <2>2, <2>3, <2>4
<1>2. Phases'
  BY DEF Phases, TypeInv, TierRange
<1>3. Books'
  BY DEF Phases, Books
<1>4. Instances'
  BY DEF Phases, Instances, OnlyFaults, Running, Books
<1>8. Fresh' /\ Honest'
  BY DEF Phases, Books, Fresh, Honest, Simulation, Running
<1>9. Accounts'
  BY DEF Phases, Books, Honest, Accounts, Accounted, Simulation, Running
<1>5. Flows'
  BY DEF Phases, Books, Instances, Flows, OnlyFaults, Running
<1>6. Cleanliness'
  BY DEF Phases, Books, Cleanliness, OnlyFaults, TypeInv, TierRange
<1>7. InForce'
  BY DEF Phases, Books, Instances, Flows, InForce, OnlyFaults, Running, TypeInv, TierRange
<1> QED BY <1>1, <1>2, <1>3, <1>4, <1>5, <1>6, <1>7, <1>8, <1>9

-----------------------------------------------------------------------------
(* The invariant, and the promises that follow from it.                     *)

\* A freshly started process in a clean world.
LEMMA InitKeeps ==
    ASSUME OInit
    PROVE  OrchestratorInv
<1> USE OrchestratorAssumption DEF OInit, Init, None, Inst, Loopback, Statuses,
        Charts, Faults
<1>1. OTypeOK
  <2>1. MaxDwell \in Nat
    BY GuardsAssumption DEF MaxDwell
  <2>2. TypeInv
    BY <2>1 DEF TypeInv, TierRange
  <2> QED BY <2>2 DEF OTypeOK, ControlType, InstanceType, CounterType
<1>2. Phases /\ Books
  BY DEF Phases, Books, PREEMPT, MITIGATE
<1>3. Fresh /\ Honest /\ Accounts
  BY DEF Fresh, Honest, Accounts, Simulation, Running
<1>4. Instances /\ Flows /\ Cleanliness /\ InForce
  BY DEF Instances, Flows, Cleanliness, InForce, Running, PREEMPT
<1> QED BY <1>1, <1>2, <1>3, <1>4 DEF OrchestratorInv

\* Every step of the orchestrator, or none, preserves the invariant.
LEMMA NextKeeps ==
    ASSUME OrchestratorInv, [ONext]_ovars
    PROVE  OrchestratorInv'
<1>1. CASE StartUnknown
  BY <1>1, RestartKeeps DEF StartUnknown
<1>2. CASE Crash
  BY <1>2, RestartKeeps DEF Crash
<1>3. CASE UNCHANGED ovars
  BY <1>3 DEF ovars, process, world, model, OrchestratorInv, OTypeOK, TypeInv,
     ControlType, InstanceType, CounterType, Phases, Books, Fresh, Honest,
     Accounts, Accounted, Simulation, Instances, Flows, Cleanliness, InForce,
     OnlyFaults, Running
<1> QED
  BY <1>1, <1>2, <1>3, DecideRaiseKeeps, DecideDemotionKeeps, DecideSuppressedKeeps,
     PushKeeps, UnsteerKeeps, StopKeeps, StartKeeps, WaitSimulatedKeeps,
     WaitReadyKeeps, WaitTimeoutKeeps, SteerKeeps, RevokeKeeps, WakeKeeps
  DEF ONext

\* What the process knows and what the world looks like, in every state.
THEOREM OrchestratorInvariant == OSpec => []OrchestratorInv
  BY InitKeeps, NextKeeps, PTL DEF OSpec

\* Variables keep their types, and a step has an old or a new instance in hand
\* only while it needs it.
THEOREM OrchestratorTypes == OSpec => []OTypeOK
<1>1. OrchestratorInv => OTypeOK
  BY DEF OrchestratorInv
<1> QED BY <1>1, OrchestratorInvariant, PTL

\* The rule book is that of the owned instance, which was reported ACTIVE,
\* whatever call fails and whenever the process dies.
THEOREM OwnershipConsistent == OSpec => []OwnershipInv
<1>1. OrchestratorInv => OwnershipInv
  BY DEF OrchestratorInv, Books, OwnershipInv, AtRest
<1> QED BY <1>1, OrchestratorInvariant, PTL

\* As long as only push, steering and revocation fail, the flow points at a pod
\* that runs or that was terminated, and at a terminated one only without an
\* instance to replace it by, or after a steering call that failed.
THEOREM SteeringSafe == OSpec => []SteeredAtOwnPod
<1>1. OrchestratorInv => SteeredAtOwnPod
  <2> SUFFICES ASSUME OrchestratorInv, flow # None,
                      OnlyFaults({"push", "steer", "revoke"})
               PROVE  /\ flow # Loopback
                      /\ \/ Running(flow)
                         \/ /\ registry[flow] = "TERMINATED"
                            /\ owned = None \/ "steer" \in faults
    BY DEF SteeredAtOwnPod
  <2>1. /\ flow \in Inst /\ (Running(flow) \/ registry[flow] = "TERMINATED")
        /\ mode = "stub"
    BY DEF OrchestratorInv, Flows
  <2>2. OnlyFaults({"push", "revoke"}) \/ "steer" \in faults
    BY DEF OnlyFaults
  <2>3. owned # None /\ OnlyFaults({"push", "revoke"}) => Running(flow)
    BY <2>1 DEF OrchestratorInv, InForce
  <2> QED BY <2>1, <2>2, <2>3 DEF Inst, Loopback
<1> QED BY <1>1, OrchestratorInvariant, PTL

\* Every instance that runs between two steps is the owned one, or the failure
\* that lost it is on the record.
THEOREM NoLeaks == OSpec => []NoLeakedInstance
<1>1. OrchestratorInv => NoLeakedInstance
  BY DEF OrchestratorInv, OTypeOK, ControlType, Accounts, NoLeakedInstance, AtRest,
     RunningPods, None, Inst
<1> QED BY <1>1, OrchestratorInvariant, PTL

\* Without failures other than of push and revoke, the world between two steps
\* is what the tier calls for.
THEOREM TierInForce == OSpec => []TierIsInForce
<1>1. OrchestratorInv => TierIsInForce
  <2> SUFFICES ASSUME OrchestratorInv, AtRest, OnlyFaults({"push", "revoke"})
               PROVE  IF tier[Self] >= PREEMPT
                      THEN /\ owned # None /\ RunningPods = {owned}
                           /\ mode = "helm" => pod[owned] = "ready"
                           /\ mode = "stub" => pod[owned] = "ready" /\ flow = owned
                      ELSE owned = None /\ RunningPods = {}
    BY DEF TierIsInForce
  <2>1. OnlyFaults({"push", "steer", "revoke"})
    BY DEF OnlyFaults
  <2>2. pc = "idle" /\ old = None /\ current = None /\ owned \in Inst \cup {None}
    BY DEF OrchestratorInv, OTypeOK, ControlType, AtRest
  <2>3. RunningPods \subseteq {owned}
    BY <2>1, <2>2 DEF OrchestratorInv, Instances, RunningPods, None, Inst
  <2>4. CASE owned # None
    BY <2>2, <2>3, <2>4 DEF OrchestratorInv, InForce, RunningPods, None
  <2>5. CASE owned = None
    <3>1. ~(tier[Self] >= PREEMPT)
      BY <2>2, <2>5 DEF OrchestratorInv, InForce
    <3>2. RunningPods = {}
      BY <2>3, <2>5 DEF RunningPods, None, Inst
    <3> QED BY <2>5, <3>1, <3>2
  <2> QED BY <2>4, <2>5
<1> QED BY <1>1, OrchestratorInvariant, PTL

\* Back at NORMAL nothing is left at the PAP and nothing is owned, whatever
\* failed on the way up or in the teardown.
THEOREM NormalClean == OSpec => []NormalIsClean
<1>1. OrchestratorInv => NormalIsClean
  BY DEF OrchestratorInv, Cleanliness, NormalIsClean, AtRest
<1> QED BY <1>1, OrchestratorInvariant, PTL

=============================================================================
