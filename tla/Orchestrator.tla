---------------------------- MODULE Orchestrator ----------------------------
(***************************************************************************)
(* The M3 -> M4 side effects of one orchestration step: Orchestrator._step  *)
(* (orchestrator.py) driving CLAMPClient, ONAPSOClient and SFCManager.      *)
(*                                                                          *)
(* The tier decisions come from GraduatedResponse, which PolicyEngine       *)
(* implements.  The loop is single-threaded, but every call it makes leaves *)
(* the process, may fail on its own, and may be the last one before the     *)
(* process dies, so each call is an action.  What the process remembers     *)
(* (tier, owned, book, registry) is lost by a crash; what it did to the     *)
(* world (pod, flow, policies) is not.                                      *)
(***************************************************************************)
EXTENDS GraduatedResponse, FiniteSets

CONSTANTS
    Self,          \* Orchestrator.device_id, the one device it steers
    DeployModes,   \* PAD_DEPLOY_MODE values: "stub" (Docker), "helm", "onap"
    MaxInst,       \* bound: CNF instances ever requested
    MaxPolicies,   \* bound: policies counted at the PAP (more count as this)
    MaxCrashes,    \* bound: process deaths
    MaxFaults      \* bound: kinds of failure in one behaviour

ASSUME OrchestratorAssumption ==
    /\ Devices = {Self}
    /\ DeployModes \subseteq {"stub", "helm", "onap"}
    /\ MaxInst \in Nat /\ MaxPolicies \in Nat \ {0}
    /\ MaxCrashes \in Nat /\ MaxFaults \in Nat

VARIABLES
    \* the process
    pc,        \* the call _step makes next
    act,       \* action of the decision being carried out
    owned,     \* _active_instance[Self], or None
    old,       \* old_iid popped by this step, or None
    current,   \* inst of this step, or None
    book,      \* SFCManager._rules[Self]: instances its rules point at
    registry,  \* ONAPSOClient._instances: status per instance id
    address,   \* VNFInstance.container_ip per instance id
    \* the world
    pod,       \* container or release requested under an instance id
    chart,     \* helm chart / image of an instance: decides its host port
    flow,      \* address the OVS steering flow of Self points at, or None
    policies,  \* ACTIVE policies of Self at the PAP
    \* the configuration and the bookkeeping of the model
    mode,      \* ONAPSOClient.deploy_mode, read once from the environment
    nextId,    \* next fresh instance id
    faults,    \* kinds of failure that have happened so far
    crashes

process == <<pc, act, owned, old, current, book, registry, address>>
world   == <<pod, chart, flow, policies>>
model   == <<mode, nextId, faults, crashes>>
ovars   == <<tier, dwell, process, world, model>>

None == 0
Inst == 1..MaxInst

\* The address of a running instance is written like its id; None is the empty
\* string, Loopback the 127.0.0.1 that _sim_start makes up.
Loopback == -1
PREEMPT  == 2
MITIGATE == 3
ISOLATE  == 4

Charts == {"cnf-scrubber", "cnf-rate-limiter", "cnf-blackhole"}

\* CNF_CATALOG, by way of the profiles the mapper can choose at a tier.
ChartsFor(t) == CASE t = PREEMPT  -> {"cnf-rate-limiter"}
                  [] t = MITIGATE -> {"cnf-scrubber", "cnf-rate-limiter"}
                  [] t = ISOLATE  -> {"cnf-blackhole"}

Statuses == {"absent", "PENDING", "ACTIVE", "FAILED", "TERMINATED"}
Faults == {"push", "start", "wait", "steer", "stop", "revoke", "profile", "crash"}

ControlType ==
    /\ pc \in {"idle", "push", "unsteer", "stop", "start", "wait", "steer", "revoke"}
    /\ act \in {"HOLD", "RAISE", "DEESCALATE", "SUPPRESSED"}
    /\ {owned, old, current} \subseteq Inst \cup {None}
    /\ flow \in Inst \cup {None, Loopback}
    /\ old # None <=> pc \in {"unsteer", "stop"}
    /\ current # None <=> pc \in {"wait", "steer"}

InstanceType ==
    /\ book \subseteq Inst
    /\ registry \in [Inst -> Statuses]
    /\ address \in [Inst -> Inst \cup {None, Loopback}]
    /\ pod \in [Inst -> {"none", "booting", "ready", "stopped"}]
    /\ chart \in [Inst -> Charts]

CounterType ==
    /\ mode \in DeployModes
    /\ policies \in 0..MaxPolicies
    /\ nextId \in 1..(MaxInst + 1)
    /\ faults \subseteq Faults
    /\ crashes \in 0..MaxCrashes

\* Types, and the locals of a step exist exactly while the step needs them.
OTypeOK == TypeInv /\ ControlType /\ InstanceType /\ CounterType

OInit ==
    /\ Init
    /\ pc = "idle" /\ act = "HOLD"
    /\ owned = None /\ old = None /\ current = None
    /\ book = {}
    /\ registry = [i \in Inst |-> "absent"]
    /\ address = [i \in Inst |-> None]
    /\ pod = [i \in Inst |-> "none"]
    /\ chart = [i \in Inst |-> "cnf-scrubber"]
    /\ flow = None /\ policies = 0
    /\ mode \in DeployModes
    /\ nextId = 1 /\ faults = {} /\ crashes = 0

\* A call either succeeds or fails on its own account.  A call that fails may
\* still have had its effect: only the answer is lost (timeouts everywhere).
Fault(kind) == /\ faults' = faults \cup {kind}
               /\ Cardinality(faults') <= MaxFaults
Running(i) == pod[i] \in {"booting", "ready"}

\* Instances made up by _sim_start.
Simulation(i) == address[i] = Loopback

-----------------------------------------------------------------------------
(* The decision.  HOLD has no side effect and leaves the step at idle.      *)

Begin(a) == /\ pc = "idle"
            /\ act' = a /\ pc' = "push"
            /\ UNCHANGED <<owned, old, current, book, registry, address>>
            /\ UNCHANGED <<world, model>>

\* NEW_ATTACK and ESCALATE are handled alike.
DecideRaise == /\ nextId <= MaxInst
               /\ Raise(Self)
               /\ Begin("RAISE")

DecideDemotion == Relax(Self) /\ Begin("DEESCALATE")

\* Only a device that is mitigating has duplicates to suppress
\* (PolicyHistory!DedupOnlyWhileMitigating).
DecideSuppressed == /\ tier[Self] >= MITIGATE
                    /\ Begin("SUPPRESSED")
                    /\ UNCHANGED <<tier, dwell>>

\* Policies at the PAP are counted up to MaxPolicies.
OneMore(n) == IF n < MaxPolicies THEN n + 1 ELSE n

\* The next call of the step; its locals end with it.
Goto(next) == /\ pc' = next
              /\ act' = IF next = "idle" THEN "HOLD" ELSE act

\* Mutant: the standby tier deploys nothing.
AfterTeardownNoStandby == CASE act = "DEESCALATE" -> "revoke"
                   [] act = "RAISE" -> IF tier[Self] > PREEMPT THEN "start" ELSE "idle"

\* Mutant: policies are not revoked at NORMAL.
AfterTeardownNoRevoke == CASE act = "DEESCALATE" -> "idle"
                   [] act = "RAISE" -> IF tier[Self] >= PREEMPT THEN "start" ELSE "idle"

\* What follows once there is nothing (left) to tear down.
AfterTeardown == CASE act = "DEESCALATE" -> "revoke"
                   [] act = "RAISE" -> IF tier[Self] >= PREEMPT THEN "start" ELSE "idle"

\* Mutant: the teardown runs even when nothing is owned.
HandOverAlways == old' = owned /\ owned' = None /\ Goto("unsteer")

\* Mutant: the old instance is forgotten instead of torn down.
HandOverNoTeardown == old' = None /\ owned' = None /\ Goto(AfterTeardown)

\* The old instance is popped from _active_instance before anything is done
\* about it.
HandOver == /\ old' = owned /\ owned' = None
            /\ Goto(IF owned # None THEN "unsteer" ELSE AfterTeardown)

\* CLAMPClient.push; its result is ignored.
Push ==
    /\ pc = "push"
    /\ \/ policies' = OneMore(policies) /\ UNCHANGED faults
       \/ policies' \in {policies, OneMore(policies)} /\ Fault("push")
    /\ \/ act = "SUPPRESSED" /\ Goto("idle") /\ UNCHANGED <<owned, old>>
       \/ act # "SUPPRESSED" /\ HandOver
    /\ UNCHANGED <<tier, dwell, current, book, registry, address,
                   pod, chart, flow, nextId, crashes, mode>>

\* SFCManager.remove forgets the rules, whatever becomes of the flow.  Nothing
\* does: del-flows takes no priority without --strict, so ovs-ofctl refuses the
\* command and the flow stays until an add-flow with the same match replaces
\* it.  (Nor does the controller know the flow under the rule_id it is asked to
\* delete: _sdn_install never sends one.)
Unsteer ==
    /\ pc = "unsteer"
    /\ book' = {}
    /\ Goto("stop")
    /\ UNCHANGED <<tier, dwell, owned, old, current, registry, address, world,
                   model>>

\* ONAPSOClient.terminate; its result is ignored.  The back-end knows nothing
\* under the id of a simulated instance, so terminating one always fails.
Stop ==
    /\ pc = "stop"
    /\ \/ /\ ~Simulation(old)
          /\ pod' = [pod EXCEPT ![old] = "stopped"]
          /\ \/ /\ registry' = [registry EXCEPT ![old] = "TERMINATED"]
                /\ UNCHANGED faults
             \/ Fault("stop") /\ UNCHANGED registry
       \/ /\ ~Simulation(old)
          /\ Fault("stop") /\ UNCHANGED <<pod, registry>>
       \/ /\ Simulation(old)
          /\ UNCHANGED <<pod, registry, faults>>
    /\ old' = None
    /\ Goto(AfterTeardown)
    /\ UNCHANGED <<tier, dwell, owned, current, book, address,
                   chart, flow, policies, nextId, crashes, mode>>

\* In Docker mode the host port of an image can be bound only once.
PortFree(c) == mode = "stub" =>
                   \A i \in Inst : Running(i) => chart[i] # c

\* The back-end started the instance.  helm install --wait comes back when the
\* pod is ready.  Docker alone tells the address, if the look-up succeeds.
Started(c) ==
    /\ PortFree(c)
    /\ pod' = [pod EXCEPT ![nextId] = IF mode = "helm" THEN "ready" ELSE "booting"]
    /\ registry' = [registry EXCEPT ![nextId] = "PENDING"]
    /\ \/ /\ address' = [address EXCEPT ![nextId] = IF mode = "stub" THEN nextId
                                                                  ELSE None]
          /\ UNCHANGED faults
       \/ mode = "stub" /\ Fault("start") /\ UNCHANGED address

\* Any failure of the back-end, a pod that is not ready within helm's deadline
\* included, turns into a simulated instance that is ACTIVE at once; what was
\* requested may be coming up all the same.
Simulated(c) ==
    /\ \/ PortFree(c) /\ Fault("start")
       \/ ~PortFree(c) /\ UNCHANGED faults
    /\ pod' \in {pod} \cup (IF PortFree(c) THEN {[pod EXCEPT ![nextId] = "booting"]}
                                           ELSE {})
    /\ registry' = [registry EXCEPT ![nextId] = "ACTIVE"]
    /\ address' = [address EXCEPT ![nextId] = Loopback]

\* ONAPSOClient.instantiate.
Start ==
    /\ pc = "start"
    /\ \E c \in ChartsFor(tier[Self]) :
        /\ chart' = [chart EXCEPT ![nextId] = c]
        /\ Started(c) \/ Simulated(c)
    /\ current' = nextId
    /\ nextId' = nextId + 1
    /\ Goto("wait")
    /\ UNCHANGED <<tier, dwell, owned, old, book, flow, policies, crashes, mode>>

\* ONAPSOClient.wait_active on a simulated instance: nothing to wait for.
WaitSimulated ==
    /\ pc = "wait" /\ registry[current] = "ACTIVE"
    /\ Goto("steer")
    /\ UNCHANGED <<tier, dwell, owned, old, current, book, registry,
                   address, world, model>>

\* wait_active: the health check or the rollout answers in time.  The health
\* check asks the local host: that is where Docker publishes the port, but it
\* says nothing of a pod that ONAP started somewhere else.
WaitReady ==
    /\ pc = "wait" /\ registry[current] = "PENDING"
    /\ \/ pod' = [pod EXCEPT ![current] = "ready"]
       \/ mode = "onap" /\ UNCHANGED pod
    /\ registry' = [registry EXCEPT ![current] = "ACTIVE"]
    /\ Goto("steer")
    /\ UNCHANGED <<tier, dwell, owned, old, current, book, address,
                   chart, flow, policies, model>>

\* Mutant: the step goes on with an instance that is not ACTIVE.
WaitTimeoutIgnored ==
    /\ pc = "wait" /\ registry[current] = "PENDING"
    /\ Fault("wait")
    /\ registry' = [registry EXCEPT ![current] = "FAILED"]
    /\ Goto("steer")
    /\ UNCHANGED <<tier, dwell, owned, old, current, book, address,
                   world, nextId, crashes, mode>>

\* wait_active: no answer in 30 s.  Helm mode calls the instance ACTIVE, the
\* other two call it FAILED and leave it behind.
WaitTimeout ==
    /\ pc = "wait" /\ registry[current] = "PENDING"
    /\ Fault("wait")
    /\ \/ /\ mode = "helm"
          /\ registry' = [registry EXCEPT ![current] = "ACTIVE"]
          /\ Goto("steer") /\ UNCHANGED current
       \/ /\ mode # "helm"
          /\ registry' = [registry EXCEPT ![current] = "FAILED"]
          /\ Goto("idle") /\ current' = None
    /\ UNCHANGED <<tier, dwell, owned, old, book, address,
                   world, nextId, crashes, mode>>

\* Mutant: a flow that is already there is left as it is.
SteerOnce ==
    /\ pc = "steer"
    /\ book' = book \cup {current}
    /\ flow' = IF flow = None /\ address[current] # None THEN address[current] ELSE flow
    /\ owned' = current /\ current' = None
    /\ Goto("idle")
    /\ UNCHANGED <<tier, dwell, old, registry, address, pod, chart,
                   policies, model>>

\* SFCManager.install, the latency report and the claim of ownership, whatever
\* the outcome.  add-flow replaces a flow with the same match; without an
\* address to rewrite to, the flow is malformed and always refused.
Steer ==
    /\ pc = "steer"
    /\ book' = book \cup {current}
    /\ \/ /\ flow' = IF address[current] = None THEN flow ELSE address[current]
          /\ UNCHANGED faults
       \/ /\ address[current] # None
          /\ flow' \in {flow, address[current]} /\ Fault("steer")
    /\ owned' = current /\ current' = None
    /\ Goto("idle")
    /\ UNCHANGED <<tier, dwell, old, registry, address, pod, chart,
                   policies, nextId, crashes, mode>>

\* CLAMPClient.revoke_all, on the way to NORMAL; a failure stops half-way.
Revoke ==
    /\ pc = "revoke"
    /\ \/ policies' = 0 /\ UNCHANGED faults
       \/ policies' \in 0..policies /\ Fault("revoke")
    /\ Goto("idle")
    /\ UNCHANGED <<tier, dwell, owned, old, current, book, registry, address,
                   pod, chart, flow, nextId, crashes, mode>>

\* The process ends and is started again: everything it remembered is gone,
\* everything it did is still there.
Restart(kind) ==
    /\ crashes < MaxCrashes
    /\ crashes' = crashes + 1
    /\ Fault(kind)
    /\ Forget(Self)
    /\ pc' = "idle" /\ act' = "HOLD"
    /\ owned' = None /\ old' = None /\ current' = None
    /\ book' = {}
    /\ registry' = [i \in Inst |-> "absent"]
    /\ address' = [i \in Inst |-> None]
    /\ UNCHANGED <<world, nextId, mode>>

\* The process dies between two calls, or is told to stop between two steps.
Crash == Restart("crash")

\* BENIGN traffic at MITIGATE has a profile that is not in the catalog:
\* instantiate raises KeyError, which nothing catches.
StartUnknown == pc = "start" /\ tier[Self] = MITIGATE /\ Restart("profile")

\* Time passes, also while a call is under way.
Wake == Pass /\ UNCHANGED <<process, world, model>>

ONext == \/ DecideRaise \/ DecideDemotion \/ DecideSuppressed
         \/ Push \/ Unsteer \/ Stop
         \/ Start \/ StartUnknown
         \/ WaitSimulated \/ WaitReady \/ WaitTimeout
         \/ Steer \/ Revoke
         \/ Crash \/ Wake

OSpec == OInit /\ [][ONext]_ovars

-----------------------------------------------------------------------------
(* Properties.  They say which failures each promise survives: `faults' holds *)
(* the kinds of call that have failed so far, `crash' included.              *)

AtRest == pc = "idle"
RunningPods == {i \in Inst : Running(i)}
OnlyFaults(kinds) == faults \subseteq kinds

\* What the process believes is consistent whatever fails: an owned instance
\* was reported ACTIVE, its rules are the only ones in the rule book, and
\* without an owned instance no rules are kept once a step has ended.
OwnershipInv ==
    /\ owned # None => registry[owned] = "ACTIVE" /\ book = {owned}
    /\ AtRest /\ owned = None => book = {}

\* Removing the rules removes nothing from the switch, so the flow outlives the
\* instance; but as long as only push, steer and revoke fail, it points at a pod
\* that runs or that the orchestrator itself has stopped, never at an address
\* nobody ever had, and at a stopped one only while there is no instance to
\* replace it by, or a steering call failed.
SteeredAtOwnPod ==
    flow # None /\ OnlyFaults({"push", "steer", "revoke"}) =>
        /\ flow # Loopback
        /\ \/ Running(flow)
           \/ registry[flow] = "TERMINATED" /\ (owned = None \/ "steer" \in faults)

\* Between steps the world is what the tier in force calls for, if no call but
\* push and revoke ever failed: from PREEMPT up one owned instance runs, and in
\* Docker mode it is ready and steered at; below PREEMPT none runs.
TierIsInForce ==
    AtRest /\ OnlyFaults({"push", "revoke"}) =>
        IF tier[Self] >= PREEMPT
        THEN /\ owned # None /\ RunningPods = {owned}
             /\ mode = "helm" => pod[owned] = "ready"
             /\ mode = "stub" => pod[owned] = "ready" /\ flow = owned
        ELSE owned = None /\ RunningPods = {}

\* Who is to answer for an instance that runs and that nothing will stop: a
\* process that died and forgot it, a start whose answer was lost and that was
\* replaced by a simulation, a readiness check that gave up on it, or a
\* termination that failed.
Accounted(i) ==
    \/ registry[i] = "absent" /\ faults \cap {"crash", "profile"} # {}
    \/ Simulation(i) /\ "start" \in faults
    \/ registry[i] = "FAILED" /\ "wait" \in faults
    \/ registry[i] = "ACTIVE" /\ "stop" \in faults

\* No instance leaks unaccounted: between steps every one that runs is the owned
\* one, or one of the four failures lost that very instance.  No failure of a
\* push, a steering call or a revocation ever does.
NoLeakedInstance ==
    AtRest => \A i \in RunningPods \ {owned} : Accounted(i)

\* Back at NORMAL nothing is left at the PAP and nothing is owned, unless the
\* revocation failed or the process died in between; failures on the way up (a
\* push, a start, a readiness check, an installation) or in the teardown leave
\* neither behind.
NormalIsClean ==
    AtRest /\ tier[Self] = 0 /\ OnlyFaults(Faults \ {"revoke", "profile", "crash"}) =>
        policies = 0 /\ owned = None

-----------------------------------------------------------------------------
(* What a comment of the client promises and the code does not do.           *)

\* "container_ip = '', # resolved at wait_active" (onap_so_client.py:444): an
\* instance that was waited for has an address to steer to.
AddressIsResolved ==
    \A i \in Inst : registry[i] = "ACTIVE" => address[i] # None

=============================================================================
