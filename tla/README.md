# PAD-ONAP: specification, model checking and proofs

PAD-ONAP predicts and mitigates DDoS attacks on top of ONAP.  Telemetry is
aggregated into windows, two models turn every window into a detection and a
forecast, a policy stage turns these into one of five tiers, and an
orchestrator turns a change of tier into containers, steering rules and
policies.  A second, fast path writes the tier straight into the switches.

This directory holds TLA+ models of that program, the TLC configurations that
check them, and proofs checked by TLAPS.  `PROJECT.json` is the index: which
definition stands for which lines, what every run checks, which hazards the
properties are for, and which theorems are proved.

    tlc -workers 2 -config Policy.cfg MCPolicy.tla
    tlapm PolicyProofs.tla

## 1. Inventory

`telemetry -> feature windows -> inference + coalescer -> tier mapper -> policy
engine -> orchestrator -> {CLAMP, SO/Helm/Docker, SFC}` and, beside it,
`-> dual-path publisher -> {Ryu, CLAMP}` with the scenario state file as the
frontend's window on it all.

| Component | State | Operations | Hard behaviour | Correct when |
|---|---|---|---|---|
| Telemetry producer (`s1_telemetry`) | producer connection | fetch, publish, reconnect | a sample taken while the broker is away is lost | no sample is published twice |
| Feature windows (`s2_features`) | sliding and tumbling buffer, last device id, consumer position | drain, emit A, emit B, reconnect | drain loop that goes on under a fast source; a failed send on one branch skips the other; offsets committed ahead of processing | a window holds exactly its samples; every sample is counted or known to be lost |
| Inference and coalescer (`s3_ai`) | buckets per target and 30 s | add A, add B, flush stale | overwriting and reopening inside a bucket, starvation of the flush, loss on restart, half outputs | two results meet only in their bucket, none vanishes or leaves twice |
| Tier mapper (`tier_mapper.py`) | none | `decide` | short-circuit in front of a threshold chain; three outputs computed by separate chains | monotone in the evidence; tier, severity and CNF agree |
| Policy engine (`policy_engine.py`) | per device: tier, last action, window buffer, abatement timer, dedup table | `evaluate`, `reset` | hysteresis, frequency guard, abatement and dedup interact through shared timers | climbs only when sustained, falls only after sustained calm, is never stuck |
| Orchestrator step (`orchestrator.py`) | owned instance | `_step` | a dozen remote calls, each of which may fail or be the last; all memory is volatile | between steps the world is what the tier calls for |
| CNF client (`onap_so_client.py`) | instance registry, deploy mode | `instantiate`, `wait_active`, `terminate` | failures turned into simulated instances; readiness timeouts mean different things per mode | an ACTIVE instance exists and is ready |
| SFC manager (`sfc_manager.py`) | rule book | `install`, `remove` | the removal never takes effect, so book and switch diverge after every teardown | the flow points at a pod of our own, and at the owned one if there is one |
| CLAMP client (`clamp_simulator.py`) | none (policies live at the PAP) | `push`, `revoke_all` | results ignored by the caller | policies exist while a tier is in force and not after |
| SLA allocator (`sla_allocator.py`) | none | `allocate` | exhausted capacity, a heuristic in place of the solver | the link is not overbooked, nobody gets bandwidth before a more important floor |
| Latency tracker, health endpoint | ring of records, heartbeat time | `record`, `heartbeat` | unset time stamps, a hung step | ready only while steps complete |
| Ryu fast path (`s5_fastpath/ryu_app.py`) | MAC tables, record of installed rules, shared directive table | `apply_tier`, `clear_all_tier_rules`, switch join with base routes, packet-in | rule timeouts, reconnects, aliasing of the directive table, a tier that removes nothing, port numbers agreed with Mininet by arithmetic | a switch holds the rule of the last decision that made one, and it is within reach of a clear; every packet reaches its host |
| Dual-path publisher (`dual_path_publisher.py`) | thread pool | `publish` | two paths with different time limits, requests that arrive after them | both paths end at the tier that is shown |
| Scenario state, stage emitter (`scenario_state.py`) | a JSON file | `update`, `push_event`, `mark_stage`, `reset`, ... | several threads and processes on one file, a crash while writing | readers see whole records, calls are atomic |
| CNF containers (`docker/vnf-*`) | mode, list of blackholed addresses, kernel rules | activate, block, unblock, deactivate | list against kernel rules when calls repeat or fail; an image without iptables | the two agree |
| Testbed, frontend, evaluation, deployment | various | - | - | environment, not the program's logic |

Components interact by call inside the orchestrator process (mapper, engine,
clients), by Kafka topics between stages 1-3 and the orchestrator, by HTTP or
command lines towards ONAP, Kubernetes, OVS and Ryu, and by the shared state
file between publisher, emitter and frontend.  The repository has no unit
tests; its expectations are in `Pipeline.md`, in `docs/`, and in doc strings.

## 2. Plan

| # | Modules | State |
|---|---|---|
| 1 | `TierMapper`, `PolicyEngine`, `GraduatedResponse` (abstract), `PolicyHistory`, `PolicyProofs` | done |
| 2 | `Orchestrator` with the three clients, on top of `GraduatedResponse`; `OrchestratorProofs` | done |
| 3 | `FastPath` (controller, switches, rule timeouts, directive table), `DualPath` (one publisher, two paths), `FastPathProofs` about both | done |
| 4 | `Coalescer`, `HandOnce` (abstract), `CoalescerProofs` | done |
| 5 | `ScenarioState`, `AtomicState` (abstract), `ScenarioStateProofs` | done |
| 6 | `AIOutput`, `SlaAllocator`, `FatTree` as operators, `Algorithms`, `MCAlgorithms`, `AlgorithmProofs` | done |
| 7 | `Blackhole`, `BlackholeProofs` | done |
| 8 | `FeatureWindows`, `FeatureWindowsProofs` | done |
| 9 | the telemetry topics, the feature processor and the coalescer in one module, with partitions; concurrent callers of `publish` with the stage marks they write | open |

Abstract specifications: the graduated response a device is promised
(`GraduatedResponse`), at-most-once hand-over of a result (`HandOnce`), a record
that every call changes in one step (`AtomicState`).

## 3. Modules

Modules whose name ends in `Proofs` are described in section 6; `MC` modules give
the constants of a run their values.

**`TierMapper`** - `decide` as operators over a payload record.  Probabilities
are hundredths, because every constant they are compared with is.  `Emittable`
restricts payloads to those the five-class detector can emit (confidence is
1 - P(BENIGN), so BENIGN cannot win with a confidence above 0.80).

**`PolicyEngine`** - `evaluate` as six actions, one per return statement of the
code: `Suppress`, `SameTier`, `HoldEscalation`, `Escalate`, `HoldDemotion`,
`Demote`; `Reset`; and `Tick` for the clock.  The code keeps time stamps and
compares differences with thresholds; the model keeps the differences,
saturated at the threshold.  A dedup key is `prefix::bucket`; since an entry is
looked up by prefix, the key is modelled by how many bucket boundaries lie
between two of them, and because the mapper reads the clock before the engine
does, the event's own key may be one bucket behind (`KeyAges`).

| Variable | Code |
|---|---|
| `tier` | `_DeviceState.current_tier` |
| `sinceAction` | `now - last_action_ts` |
| `windows` | `window_buf` (deque; 8 in the code, `BufLen` here) |
| `calm` | `now - below_threshold_since`, `NotCalm` for `None` |
| `seen` | `tier3_seen` |
| `phase` | position inside a dedup-key bucket |
| `action` | the `PolicyAction` of the last decision |

**`GraduatedResponse`** - the promise made to the orchestrator: a tier per
device that climbs at will but not twice within the frequency guard, and falls
only to NORMAL and only after having been in force for an abatement period.

**`PolicyHistory`** - the engine with three history variables (`dwell`,
`sinceHot`, `streak`) that record what an observer of `evaluate` saw; the
properties of the engine, the inductive invariant, fairness.

**`Orchestrator`** - one action per remote call of `_step`, with the program
counter `pc` between them; the tier decisions are those of
`GraduatedResponse`.  Every call can succeed, fail, or fail although it had its
effect (a lost answer).  Three layers of state: what the process believes
(`owned`, `book`, `registry`, `address`), what is true in the world (`pod`,
`flow`, `policies`), and the configuration (`mode`, fixed at start).  `Restart`
loses the first and keeps the second: the deployment restarts the container,
and the code reads nothing back.  It happens at any time (`Crash`) and when
BENIGN traffic at MITIGATE names a profile no catalog knows (`StartUnknown`).

| Variable | Code |
|---|---|
| `pc`, `act`, `old`, `current` | progress of `_step`, `pdec.action`, `old_iid`, `inst` |
| `owned` | `Orchestrator._active_instance` |
| `book` | `SFCManager._rules` |
| `registry`, `address` | `ONAPSOClient._instances`: status and `container_ip` |
| `pod`, `chart` | the container or release requested under an instance id, and its image |
| `flow` | where the steering flow in OVS sends the device's traffic |
| `policies` | ACTIVE policies of the device at the PAP |

An address is written like the id of the instance that has it; `Loopback` is
the 127.0.0.1 of a simulated instance and `None` the empty string that helm and
ONAP instances keep.  Of the tool `ovs-ofctl` the model assumes that `add-flow`
replaces a flow with the same match and priority, that a flow with an empty
address is refused, and that `del-flows` takes no `priority` without `--strict`.
`_ovs_remove` passes one (`sfc_manager.py:160`), so the command ends with an
error and removes nothing: `Unsteer` empties the book and leaves `flow` alone,
whatever fails or does not.

**`FastPath`** - the Ryu application, the OpenFlow connections and the switches.
`ApplyTier` and `ClearAllTierRules` are the two REST handlers; each appends to
the connection of every switch with a session (`wire`), and `Deliver` lets one
message take effect.  The deletes of one clear travel as one message, because
nothing comes between them.  A rule is the tier, what it does to a packet (`effect`)
and its cookie, the millisecond of the decision.
`Expire` removes a rule at any time, which stands for both time-outs.  Three
failures share one budget: a session ends and loses what is on the wire
(`Lose`), a switch without a session starts again with an empty table
(`Reboot`), the controller starts again with an empty record (`Restart`).

| Variable | Code |
|---|---|
| `scrubber` | `TIER_MAP[3].redirect_to`, which `directive_for` hands out by reference |
| `online` | `PadFastPath.dpset` |
| `installed` | `PadFastPath.installed` |
| `wire`, `rules` | flow-mods on their way, tier rules in the tables of the switches |
| `now` | the clock the cookie is read from |
| `decided`, `named` | history: the last decision above Tier 0 on each flow since the last clear, as it was posted; the targets named for Tier 3 since the controller started |
| `suspect` | history: switches that have lost a session or outlived the controller |

Of what lies outside the repository the model assumes that the controller
handles one request at a time (Ryu's green threads yield inside a handler only
when the send queue of a switch is full; `MaxWire` keeps it from filling), that
Open vSwitch handles the messages of a connection in order, that adding a rule
with the same match replaces it, and that a switch keeps its rules without the
controller (`failMode='secure'`, `fat_tree_topology.py:77`).

**`DualPath`** - `publish` on top of `FastPath`: two requests in flight, each
handled by its server, lost, or given up by the caller while still on its way
and handled later.  `Show` writes the outcome when both futures have one.  The
caller is sequential, as in the usage the module's doc string gives; nothing in
the repository calls `publish` yet.

**`Coalescer`** - the Kafka runner of the inference engine around
`PayloadCoalescer`.  `Read` is one round of its loop (infer, merge into the slot
of the bucket, publish and pop a complete slot), `FlushStale` what it does after
its consumer has timed out, `Restart` the loss of all slots together with a
position taken back to an offset committed in the background, or, without one,
moved to the end of the topic.  A publication that fails is logged and gone.
Records are named by their offsets.

| Variable | Code |
|---|---|
| `slots` | `PayloadCoalescer._buckets`, with the time a bucket was opened |
| `topic`, `position`, `committed` | the two feature topics as one, in the order of reading; the consumer's offsets |
| `outputs` | what was handed to the producer, `sent` if that went well |
| `life` | incarnation of the process |
| `busy` | whether records kept coming since the clock last moved |
| `took`, `lost` | history: when a record was read; records forgotten by a restart |

**`HandOnce`** - results are taken in, held, and handed over or given up, once.

**`AIOutput`** - pure: class vectors of older detectors folded into five
classes, the v1 forecast stretched to three horizons, the triggered horizon,
the severity of whole and half outputs.  M2 writes its thresholds down once more
(`inference_layer.py:138`, `147`), beside those M3 imports from `ai_output.py`
and those it has itself; the model keeps the three sets apart (`M2P1` ... for
those of M2), and the runs give them the values they have today, which agree.

**`FeatureWindows`** - the loop of the feature processor with both windows.  The
program counter `pc` says whether it is draining the consumer, in branch A, in
branch B, or reconnecting; a failed send leaves the rest of a round out.  What a
feature is computed to is left out; which samples a window holds is not.  A raw
sample is named by its offset, a reading of it by its number in the life of the
process, since a sample may be read twice.

| Variable | Code |
|---|---|
| `flow`, `lastEmit` | `SlidingWindow._buf`, `_last_emit` |
| `ts`, `openedAt` | `TumblingWindow._buf`, `_opened_at` |
| `device` | `last_device_id` |
| `raw`, `position`, `committed` | the raw topics; the consumer's offsets |
| `log`, `sent`, `counted`, `gone` | history: readings and windows of this life, samples that were in a Track B window, samples lost |

**`ScenarioState`** - every writer of the state file as a call that takes the
lock of its process, reads, opens the temporary file (which truncates it),
writes, and renames.  Files are inodes, so that two processes can have the one
temporary file open at once.  The record is reduced to an operator field, a
pipeline field and the history; reset writes all of it.

| Variable | Code |
|---|---|
| `file`, `tmp`, `content` | the inodes that `STATE_PATH` and its `.tmp` name, and their contents |
| `lock` | `_LOCK`, one per process |
| `pc`, `op`, `local`, `fd` | a call in progress: the record it read, the inode it writes |

**`AtomicState`** - the same calls as single steps on one record.

**`FatTree`** - the cabling of Mininet, the controller's output ports, the hop
these give together, and the path the frontend draws.

**`SlaAllocator`** - `allocate` with its three branches.  The linear program is
given by its objective and its rows, of which the model takes an integer
optimum: with one capacity row and boxes its vertices are integer.  Heuristic
shares are rounded down to whole units.

**`Algorithms`** - one input after the other for `TierMapper`, `AIOutput`,
`SlaAllocator` and `FatTree`, which keep no state, and what must hold of each.
The inputs are constants: results of M2 (`Results`), class vectors of older
detectors (`OldVectors`), links with their tenants (`Loads`), sizes of trees
(`TreeSizes`).  `InputsAssumption` says what they may be: any payload M2 can
emit, any vector of seven or twelve natural numbers, any integer capacity with
any positive number of tenants, any even k.  `MCAlgorithms` gives the grids the
run goes through.

**`Blackhole`** - the container that drops traffic: the list it reports
(`listed`), the rules in the kernel (`rules`), and `/deactivate` going through
its snapshot address by address.  Any iptables call may fail, and a failed one
may have had its effect.  The server handles one request at a time.  `real` is
`_REAL_IPTABLES`, found out when the module is loaded: without iptables the calls
only log, succeed, and change no rule.  That is the mode the container's own
image runs in, since `python:3.11-slim` brings no iptables and the Dockerfile
adds none.

## 4. Runs

| Run | Question | Instance | Result |
|---|---|---|---|
| `Policy` | do hysteresis, guard, abatement and dedup work against each other; does the engine refine the graduated response; is a lasting attack met and a calm device released | one device, two prefixes, ten payloads (one per case the engine tells apart), one tick = 15 s with the default ratios: guard 2, hold 4, dedup 2, bucket 2; buffer 3 | holds; about 36 000 states |
| `Algorithms` | do tier, severity, profile and pre-positioning agree, is the response monotone; do older models still alarm; is the allocator fair; do packets arrive | grid of payloads on both sides of every threshold, and all pairs of them; class vectors of 7 and of 12 shares, the 101 v1 forecasts; three tenants with floors to 2, demands to 3 and links from -1 to 7; all pairs of hosts for k = 2 and 4 | holds; about 15 000 states |
| `Orchestrator` | which promise survives which failure | three instances, at most two kinds of failing call, one crash, three deploy modes, policies counted to 2 | holds; about 4.3 million states |
| `FastPath` | does a switch ever hold a rule other than that of the last decision that made one, does a rule do what its directive promises, can the controller clear it | two switches (symmetric), two flows, five decisions, two milliseconds, two messages per connection, one failure | holds; about 2.0 million states |
| `DualPath` | do switch, CLAMP loop and shown tier agree after a call that went well | one switch, two flows, four decisions, two calls, one failure | holds; about 600 000 states |
| `Coalescer` | do results meet only in their bucket, in order, without vanishing or leaving twice; do all leave | two targets, window of 2 ticks, records until time 1, clock to 4, four records, one failed publication, two lives | holds; about 420 000 states |
| `FeatureWindows` | do the windows hold what they should across failed reads and sends and a restart; is every sample counted | two devices, samples without id and without metrics, windows of 2 (slide 1) and 3 ticks, samples until time 1, clock to 4, three samples, one fault, two lives | holds; about 760 000 states |
| `ScenarioState` | do readers see whole records; are calls atomic | two threads of one process, history of 2, four calls, one crash | holds; about 32 000 states |
| `Blackhole` | do list and kernel agree | with and without iptables, two addresses, at most two rules each, two failures | holds; about 500 states |
| `Address` | `onap_so_client.py:444`: the address is resolved by `wait_active` | helm mode, no failure | violated |
| `InTime` | `inference_layer.py:1225`: a half-filled bucket reaches M3 in time | as `Coalescer`, records until time 6, six records | violated |
| `LostUpdate` | `scenario_state.py:139`: `update` is atomic | two threads in two processes, two calls, no crash | violated |

Why the bounds are enough.  Devices share nothing inside the engine but the
clock, so one device shows every behaviour of one device; the proofs cover any
number.  Two prefixes are needed for the dedup table to matter.  A buffer of
three is longer than the two windows the hysteresis reads, so the dropping of
old entries happens.  Three CNF instances are a first raise, a raise on top of
it, and one more after a failure or restart; with two kinds of failure the
promises that name one failing call are also shown to hold when it is combined
with another that is allowed.  `MaxFaults` bounds the *kinds* of failure, how
often each occurs.  Two switches are what it takes to disagree, and two messages
per connection let a clear and a decision, or two decisions, be half done; a
decision repeated in the same millisecond and in the next are both reached with
two cookies.  Two calls of `publish` are enough for a request of the first to
arrive during the second.  Four records are a pair that completes a bucket and
a second pair for the same or the next one, or one that is overwritten; a clock
that goes to twice the window lets the bucket of the last record become stale.
Three samples and windows that overlap let a sample leave the sliding window
while another stays, and let both windows be due in one round or in different
ones.  Two threads and a crash are what it takes to leave a torn temporary file
to another call.  Deadlock is checked everywhere.

`SwitchHoldsLastRule` and `RulesAreOnRecord` speak of switches that are not
`suspect`, which have kept their session with the controller; what a clear
forgets on a switch it could not reach is outside them.  They allow a rule to be
missing: a rule that expired is not installed again until the next decision, and
a switch that joins gets no tier rule.  And `SwitchHoldsLastRule` says nothing of
what a decision of Tier 0 asks for: the code installs nothing and removes nothing
at Tier 0 (`ryu_app.py:232`), so the rule of the decision before it stays.  What
the property says of a rule in the switch is that it is no older than the last
decision that made one, and what it does is judged not by the code's own
`TargetOf` but by what was posted (`Promised`): a redirect goes to the target
its decision named and to no other.  `DualPathInv` excepts calls after a request
that outlived its time limit, because such a request overwrites a later decision,
and Tier 0.  `StandbyDropsNothing` excepts addresses that were posted twice or
that a failure touched, and the model shows that nothing else is left behind.
`ListedIsDropped` is conditional on `real`: without iptables nothing is ever
dropped.  `HandsOverOnce` counts per life of the process; records read again
after a restart are published again.  `ReadersSeeWhole` and `CallsAreAtomic` are
checked for the threads of one process; two processes on one temporary file are
not covered by them.

What the properties of `Orchestrator` say is deliberately conditional: `faults`
records which kinds of call have failed, and each promise names the failures it
survives.  `OwnershipInv` survives all of them.  `NoLeakedInstance` does too, and
says which failure answers for an instance that runs without being owned: a
crash, a start whose answer was lost, a readiness check that gave up, a
termination that failed; push, steering and revocation never lose one.
`NormalIsClean` survives all but a failed revocation and the end of the process,
by a crash or an unknown profile; it speaks of
policies and ownership, not of the switch, where the flow always stays.
`SteeredAtOwnPod` says how far that goes: while only push, steering and
revocation fail, the flow points at a pod that runs or that the orchestrator has
stopped itself, and at a stopped one only until the next one is steered at or
after a steering call that failed.  `TierIsInForce` survives push and revocation:
from PREEMPT up, the one pod that runs is the owned one and in Docker mode the
flow points at it.

`FlowIsExact` and `TsPartition` go by the time of reading, as the code does;
after a backlog a Track A window therefore spans more than five seconds of
sampling time.

### Findings

1. `Address`: nothing ever sets the address of a helm (or ONAP) instance, so the
   steering flow is malformed and refused (`sfc_manager.py:94`); the instance is
   ACTIVE and owned, and no traffic reaches it.  This is why `TierIsInForce`
   promises steering in Docker mode only.
2. `InTime`: `flush_stale` runs only after the consumer has waited 300 ms in
   vain (`inference_layer.py:1227`).  While records keep coming, a bucket that
   has one of its two results is not published however old it is.
3. `LostUpdate`: the lock around read-modify-write orders the threads of one
   process (`scenario_state.py:144`); backend, publisher and every process that
   marks stages write the same file.  A call that falls between the read and the
   write of another process is undone by it.

Seen while modelling, without a run of their own.

- Policy and mapper.  The BENIGN short-circuit ignores the 1- and 5-minute
  forecasts (`tier_mapper.py:193` against line 8).  BENIGN raised to MITIGATE by
  the forecast gets the profile `'none'` (`tier_mapper.py:304`), and
  `instantiate` raises `KeyError` after the tier has been committed and the old
  instance removed.  A SUPPRESSED window counts as acted upon, so every duplicate
  pushes another policy (`policy_engine.py:295`, `orchestrator.py:541`).  The
  frequency guard is measured from the decision, so two instantiations can be
  closer than the guard when the first one was slow.  `window_buf` has room for
  eight windows: an `escalate_wins` above eight would never be met.
- Steering.  `remove` promises to "Remove all SFC rules for a device (called on
  tier de-escalation)" (`sfc_manager.py:117`).  It removes them from the book
  only: `del-flows` with a `priority` and without `--strict` (line 160) is
  refused, so after every fault-free teardown in Docker mode the device's traffic
  is rewritten to the address of a stopped container, until the next instance is
  steered at.  `Orchestrator` reaches this state without a failure.  The
  controller variant sends no id when it installs and asks to delete by one.
- Orchestrator and clients.  The result of `clamp.push` is ignored
  (`orchestrator.py:543` against `Pipeline.md:456`).  When `helm install --wait`
  gives up on a pod, the client makes up a simulated ACTIVE instance
  (`onap_so_client.py:451` against `Pipeline.md:457`), and a failed start is
  reported in the same way although `Pipeline.md:454` expects an error.  A failed
  SFC installation is claimed and timed like a successful one.
- Inference.  One bucket may be published several times: its slot is popped and
  opened again (`inference_layer.py:245`, `143`).  `triggered_horizon` ends up as
  the shortest horizon met (`ai_output.py:322`).  `to_legacy_v2_dict` is unused.
- Fast path.  A decision of Tier 0 leaves the rule of the tier before it in force
  (`ryu_app.py:232`; the comment next to it speaks of keeping the baseline L2
  learning).  A redirect has no hard time-out and its idle time starts again with
  every packet, so a source that keeps sending stays redirected after it was
  found benign; a drop ends after 120 s.  A clear forgets the rules of a switch it could not reach
  (`ryu_app.py:305`); they are in force when the switch is back, and no later
  clear finds them (`ryu_app.py:22` promises the baseline).  A redirect target
  given once stays in the shared directive table and applies to every later
  Tier-3 event (`ryu_app.py:222`).
- Allocator.  On an exhausted link every tenant is given its floor and the report
  says `sla_satisfied` (`sla_allocator.py:282`).  A floor above the demand counts
  as violated, and the heuristic may pay it beyond the demand.
- Blackhole container.  Without iptables, as in the image its Dockerfile builds,
  `/blackhole` answers that an address is dropped and lists it, and nothing is
  (`blackhole.py:48`); the module's doc string announces the simulation (line
  18), the answers do not.  A second POST for an address adds a second rule, which
  outlives DELETE and `/deactivate` (`blackhole.py:104`).
- Frontend and testbed.  The frontend reads `PAD_K`, the controller
  `PAD_FATTREE_K`.  Between hosts of one edge switch the frontend draws a hop to
  the pod that the traffic does not take.  The NetFlow collector publishes its
  last window again when the flows stop.

## 5. Fairness

`Policy` assumes weak fairness of `HTick` (the clock runs) and of `HEvaluate(d)`
(the orchestrator calls the engine once per telemetry window and the stream does
not end).  Nothing is assumed about which payload arrives: the properties are
conditional on the windows themselves (`<>[]WantsAtLeast`, `<>[]` calm).
`HReset` is never required.

`Coalescer` assumes weak fairness of `Read`, `FlushStale` and `Tick`: the loop
of the runner goes on, and its consumer times out when there is nothing to
read.  `FeatureWindows` assumes it of `Read`, `DrainEnds`, both branches,
`Reconnect` (the broker comes back; the code retries for ever) and `Tick`.
Neither requires a new record, a failure or a restart.  Both let the records
pause after `LastArrival`: the code does not guarantee that a slot is flushed or
a drain ends before the source pauses, and `InTime` shows that it is not so.

No other run uses fairness; the violation runs check state invariants only.

## 6. Proofs

`PolicyProofs` proves, for any set of devices, prefixes and payloads and all
timer values that satisfy the assumptions:

| Theorem | Statement |
|---|---|
| `TypeCorrect` | `Spec => []TypeOK` |
| `ObserverIsPassive` | `HSpec => Spec`: history variables restrict nothing |
| `HistoryInvariant` | `HSpec => []HistoryInv` |
| `HistoryTypes` | `HSpec => []HTypeOK` |
| `DedupSafe` | `HSpec => []DedupOnlyWhileMitigating` |
| `CalmTimerHonest` | `HSpec => []CalmTimerIsHonest` |
| `DemotionsAreFull` | `HSpec => DemotionsReachNormal` |
| `DemotionsAreCalm` | `HSpec => DemotionNeedsSustainedCalm` |
| `EscalationsAreSustained` | `HSpec => EscalationNeedsStreak` |
| `EngineImplementsResponse` | `HSpec => ImplementsGraduatedResponse` |

Assumptions.  `ThresholdsAssumption` and `PolicyAssumption` give the constants
their types.  `TuningAssumption` says what the properties need of them: the
abatement threshold is below every threshold that raises a tier, the confidence
at which Track A speaks for P(attack) is at most the one that raises MITIGATE,
and a dedup entry does not outlive the abatement period.  The defaults (0.30
against 0.50, 0.70, 0.85; 0.50 against 0.85; 30 s against 60 s) satisfy it; the
constructor accepts values that do not.

Argument.  `DedupOnlyWhileMitigating` is not inductive: that a demotion finds no
live dedup entry follows from time, not from the tier.  `HistoryInv` adds that a
device has been calm no longer than any live entry is old
(`DedupOutlivedByTier`): the entry is made by an escalation, which clears the
timer, so when the timer has run for a whole abatement period the entry, being
at least as old, has expired.  `TimersAgree` ties the engine's two timers to the
observer's, which gives the calm and the refinement theorems (the engine's
guards imply those of the abstraction).  `StreaksRemembered` says that the
buffer never shows more consecutive windows than there were.  That demotions are
full rests on `WantIsNotCalm`: a payload that still wants any tier shows
P(attack) at or above the abatement threshold.

`OrchestratorProofs` proves, for any number of instances, policies, failures
and restarts, every property of the `Orchestrator` run:

| Theorem | Statement |
|---|---|
| `OrchestratorInvariant` | `OSpec => []OrchestratorInv` |
| `OrchestratorTypes` | `OSpec => []OTypeOK` |
| `OwnershipConsistent` | `OSpec => []OwnershipInv` |
| `SteeringSafe` | `OSpec => []SteeredAtOwnPod` |
| `TierInForce` | `OSpec => []TierIsInForce` |
| `NoLeaks` | `OSpec => []NoLeakedInstance` |
| `NormalClean` | `OSpec => []NormalIsClean` |

Argument.  The promises speak of the state between two steps, or of one
variable; none is inductive.  `OrchestratorInv` says what holds at every call:
`Phases` (which action a program counter belongs to, and which tier), `Books`
(rule book against ownership), `Fresh` (an id not given out stands for nothing),
`Honest` (an instance is waited for only if it is real) and `Accounts` (what runs
is in hand, or one of the failures answers for it), all unconditionally, and four
parts that name the failures they survive.  `Instances` says that only the owned
instance, the one being torn down or the one being started runs; with it, a start
finds the host port free, so it fails only on its own account.  `Flows` says that
the flow points at an instance that runs or was terminated: since nothing removes
it, it follows the pod from `ACTIVE` to `TERMINATED`.  `Cleanliness` and
`InForce` carry the promises at NORMAL and in force through the step.  There is one lemma per action, with one step per
part.  `MaxInst` bounds only which ids exist: `DecideRaise` is not taken when
none is left.

`FastPathProofs` proves about `FastPath` and `DualPath`, for any number of
switches, flows, decisions, messages on their way, calls and lost sessions:

| Theorem | Statement |
|---|---|
| `FastPathInvariant`, `FastPathTypes` | `FSpec => []FastPathInv`, `FSpec => []FTypeOK` |
| `SwitchesFollow` | `FSpec => []SwitchHoldsLastRule` |
| `RulesOnRecord` | `FSpec => []RulesAreOnRecord` |
| `DualPathInvariant` | `DSpec => []DualInv` |
| `BothPathsAgree` | `DSpec => []DualPathInv` |

Argument.  Both promises of the fast path speak of settled switches, whose
connection is empty.  The invariant says what holds while messages are on their
way: a rule in a trusted switch, and one in a message to it, is that of the last
decision above Tier 0, does what was promised and is on record (`IsLatest`), or a
message further behind on the same connection replaces or removes it
(`Overtaken`).  On an empty connection nothing can.  That a rule does what was
promised when it is made (`RuleIsPromised`) rests on `TableIsNamed`: the shared
directive table holds only targets that were named.  A clear must name every rule that can still be there, which is what
the record is for.  `DualInv` adds where the two requests of a call are, and what
their answers mean as long as none has outlived its caller.

`CoalescerProofs` proves, for any number of targets and records, any window,
and any failures and restarts:

| Theorem | Statement |
|---|---|
| `CoalescerInvariant`, `CoalescerTypes` | `CSpec => []CoalescerInv`, `CSpec => []CTypeOK` |
| `PairsBelong` | `CSpec => []PairsBelongTogether` |
| `HalvesAreFinal` | `CSpec => []HalfMeansClosed` |
| `PairsAreOrdered` | `CSpec => []PairsInOrder` |
| `NothingVanishes` | `CSpec => []ResultsAccounted` |
| `CoalescerHandsOnce` | `CSpec => HandsOverOnce` |

Argument.  `SlotsFit` and `OutputsFit` tie every result in a slot or an output to
the bucket it was read in.  A slot becomes stale only when its window is over,
because it was opened inside it; from then on no record falls into the bucket,
which is why half an output is final (`HalfCloses`).  Results in slots are newer
than those in complete outputs of the same target, which orders the outputs and
keeps a result from leaving twice.

`ScenarioStateProofs` proves, for any number of threads, calls and crashes,
under the assumption `OneHome` that all threads belong to one process:

| Theorem | Statement |
|---|---|
| `StateInvariant`, `StateTypes` | `SSpec => []StateInv`, `SSpec => []STypeOK` |
| `ReadersNeverSeeHalf` | `SSpec => []ReadersSeeWhole` |
| `CallsImplementAtomicState` | `SSpec => CallsAreAtomic` |

Argument.  The lock leaves one call under way.  What it has read is what the
file shows until it renames (`CallOk`), the temporary file is never the state
file, and it is torn until the write; so the rename, and no other step, is the
step of the abstraction.  `LostUpdate` shows that `OneHome` is needed.

`BlackholeProofs` proves, for any set of addresses and any number of rules,
failures and restarts: `BlackholeInvariant`, `BlackholeTypes`,
`ListedAddressesAreDropped` (`Spec => []ListedIsDropped`) and `StandbyIsQuiet`
(`Spec => []StandbyDropsNothing`).  The invariant adds that a rule nothing
excuses is the only one of its address, is listed, and is still to come in a
deactivation under way, and that without iptables there are none.

`FeatureWindowsProofs` proves, for any set of devices, any lengths of windows
and slide, and any number of samples, failing calls and restarts:

| Theorem | Statement |
|---|---|
| `WindowsInvariant` | `WSpec => []WindowsInduct` |
| `FlowExact` | `WSpec => []FlowIsExact` |
| `LabelsHonest` | `WSpec => []LabelIsFromWindow` |
| `WindowsPartition` | `WSpec => []WindowsInv` |

Argument.  The three properties speak of windows that were emitted; the
invariant says what the buffers hold in between.  Both always hold the latest
readings in the order of reading (`Latest`), whichever rounds were cut short.
What has left the sliding buffer was older than the window at some emission and
only gets older (`FlowOk`), so popping from the left until the first reading
that is young enough removes exactly what is too old: reading times never fall
along the buffer (`LogOk`).  What has left the tumbling buffer is in exactly one
emitted window (`TsOk`); the buffer is cut even when nothing could be sent.
`DeviceOk` is the strengthening the label needs: of any latest readings,
however many, that name a device at all, the device seen last is among the
named ones.  A window is such a set, because both buffers are.

`AlgorithmProofs` proves about the pure parts, for all inputs that
`InputsAssumption` admits and every choice of the thresholds:

| Theorem | Statement |
|---|---|
| `ResponseIsMonotone` | more evidence never lowers the tier; `Spec => MonotoneResponse` |
| `AlarmsFit` | `Spec => []AlarmAgreesWithTier`, if `P1T3 <= 95` and `SameHorizons` |
| `AttacksAreDeployable` | `Spec => []DetectedAttackIsDeployable` |
| `SeveritiesAgree` | `Spec => []ChainsAgree`, if `ConfT3 = M2ConfT3 = 85`, `ConfT4 = M2ConfT4 = 95` and `SameHorizons` |
| `OlderModelsAlarm` | `Spec => []OlderModelsStillAlarm`, if `P1T3 <= 2 * P15T1` |
| `WeightsArePriorities` | `Spec => []PriorityRespected` |
| `HeuristicIsAsGood` | `Spec => []FallbackAsGoodAsLp` |
| `RoutesDeliver` | `Spec => []BaseRoutesDeliver` |
| `ShownPathFollowsRules`, `PathsShownAreTaken` | in a fat-tree of any even k the path drawn is the path taken; `Spec => []ShownPathIsTaken` |

Three of them have a condition on the thresholds that the defaults (0.50, 0.70,
0.85; 0.85 and 0.95) satisfy.  `SameHorizons` says that the table of
`inference_layer.py` and that of `ai_output.py` have the same values.  The other
conditions of `AlarmsFit` and `SeveritiesAgree` come from `severity_from_signals`,
which has 0.85 and 0.95 written into it, whatever the thresholds of the engine
are.  That of `OlderModelsAlarm` comes from the
stretched forecast, which gives P(t+15) half of P(t+1): were twice the threshold
of ALERT below that of MITIGATE, a two-minute forecast could stop at ALERT.

Argument for the older models.  Folding adds up shares of attacks only and
leaves BENIGN its own, so the attack that was above BENIGN is part of a sum
that is.

Argument for the allocator.  Total amounts are related by their running sums
(`TotalSums`), so that a row can be changed at one place, scaled and compared
term by term.  The order of payment is total and strict (`PaidInOrder`);
`PayShape` says that paying the floors in that order either pays all of them,
or stops at one tenant, with every floor before it paid and nothing after it.
What the heuristic then spreads raises nobody above his demand and fits into
what is left (`SpreadFits`), which gives its priorities.  For the linear program
the argument is the exchange of one unit: if a tenant is short while a lighter
one has a unit, or anyone has one above his floor, moving the unit lowers the
weighted violation by at least one, and the tie-breaker, a thousandth of the
weighted amounts, cannot make up for it, because no weight is above 1000
(`LpMoves`).  The weights of the three priorities are 1, 2 and 3; the
constructor takes any, and far above the bound the tie-breaker would begin to
cost floors.  That the heuristic violates the floors no more than the
solver follows from a price: with the weight of the first tenant who is short as
the price of a unit, no amount does better for any tenant than the one both give
him (`TermLeast`), and both use up the link, so the sum is the least
(`Certified`).

Argument for the routes.  A route is unrolled hop by hop: up to the edge switch,
its first aggregation switch and the core, and down again (`Hops`, `WayTaken`),
where the output port computed by the controller and the port Mininet numbered
by adding links meet at every switch, for every even k.

Proved and not run: `FTypeOK`, `CTypeOK`, `STypeOK` and `BTypeOK`, the types of
`FastPath`, `Coalescer`, `ScenarioState` and `Blackhole`.

Induction in the proofs goes over finite ranges of numbers, by the least element
of a set that a property fails for (`LeastOf` and `UpTo`, from the theorem that
< is well founded on Nat).  That is enough for sums over rows of any length and
for paths; theorems that take a property as a parameter are not used.

Only model-checked: the liveness properties `PersistentAttackIsMet`,
`CalmReleasesDevice`, `ResultsLeave` and `EverySampleIsCounted`, since fairness
and ENABLED are outside the prover.  Every invariant, every action property and
every refinement that a run checks and finds to hold is also proved.

## 7. Not modelled

- Numeric code: the networks and the forecaster's tensors, scaling, SHAP values,
  feature arithmetic.  No property of the control depends on their values; the
  models start from what they output.
- Reporting: log texts, policy bodies, metrics, latency records, the heartbeat
  endpoint, utilisation and satisfaction in the allocator's report.  Nothing in
  the program reads them back.
- Notebooks, plots, evaluation and training scripts, deployment files and
  container builds.  They are a large part of the repository's lines and run
  outside the system; what they fix about it (restart policies, environment
  variables, `reset` between experiments) is in the models.
- The other three CNF containers, which keep a mode and counters they make up;
  the token bucket of the rate limiter is never consulted.
- `LiveLoop`: `poll_latest` and the drain of Track B keep nothing between
  rounds but the newest window.  The DMaaP publisher, which nothing imports.
- In `Orchestrator`: pods that die by themselves; the SDN-controller variant of
  steering, which deletes by a rule id that its install never sends; the stub
  mode of steering and policies (`PAD_ONAP_STUB`), which writes logs and files;
  allocations, which the step computes and nothing reads back.
- In `FastPath`: MAC learning and packet-in (base routes cover every host),
  packet rates, statistics.  In `DualPath`: concurrent callers, stage marks.
- In `FeatureWindows`: the flush on SIGTERM; several partitions.  In `Coalescer`:
  several consumers of one group.
- The testbed beyond its cabling: collectors, simulators and attack scripts are
  test equipment around the system.  The frontend beyond its writes to the
  scenario state and the path it computes.
