------------------------------ MODULE FastPath ------------------------------
(***************************************************************************)
(* The fast path: PadFastPath (ryu_app.py) turns a tier into one OpenFlow   *)
(* rule per switch, remembers what it installed and clears it on request.   *)
(*                                                                          *)
(* The controller handles one event at a time.  Between it and a switch is  *)
(* a connection that keeps the order and may be lost; a switch keeps its    *)
(* rules without the controller (failMode secure) until they time out.      *)
(***************************************************************************)
EXTENDS Integers, Sequences, FiniteSets

CONSTANTS
    Switches,      \* datapaths
    Flows,         \* (src_ip, dst_ip) pairs
    LocalFlows,    \* flows whose destination is a host of the fat-tree
    Addresses,     \* redirect targets
    Hosts,         \* redirect targets that are hosts of the fat-tree
    Decisions,     \* tier decisions ever posted
    NoTarget,      \* the empty redirect_to
    MaxNow,        \* bound: milliseconds
    MaxWire,       \* bound: flow-mods on their way to a switch
    MaxLosses      \* bound: sessions lost, switches and controllers restarted

Decision == [flow : Flows, tier : 0..4, redirect : Addresses \cup {NoTarget}]

ASSUME FastPathAssumption ==
    /\ LocalFlows \subseteq Flows /\ Hosts \subseteq Addresses
    /\ NoTarget \notin Addresses
    /\ Addresses \cap {"normal", "forward", "drop", "none"} = {}
    /\ Decisions \subseteq Decision
    /\ MaxNow \in Nat \ {0} /\ MaxWire \in Nat \ {0} /\ MaxLosses \in Nat

VARIABLES
    scrubber,   \* TIER_MAP[3].redirect_to
    online,     \* dpset: switches with a session
    installed,  \* PadFastPath.installed: cookie per switch and flow, 0 for none
    wire,       \* flow-mods on their way to a switch
    rules,      \* tier rule of a flow in a switch
    now,        \* int(time.time() * 1000)
    \* history
    decided,    \* last decision above Tier 0 on a flow since the last clear
    named,      \* targets decisions of Tier 3 named since the controller started
    suspect,    \* switches that may hold what the controller has lost track of
    losses

history == <<decided, named>>
fvars == <<scrubber, online, installed, wire, rules, now, history, suspect, losses>>

Effects == {"normal", "forward", "drop"} \cup Hosts

Rule == [tier : 1..4, effect : Effects, cookie : 1..MaxNow]
NoRule == [tier |-> 0, effect |-> "none", cookie |-> 0]

\* What is remembered of a decision: what it said, when, and which targets had
\* been named for its tier by then.
Decided == [tier : 1..4, redirect : Addresses \cup {NoTarget}, at : 1..MaxNow,
            known : SUBSET Addresses]
Undecided == [tier |-> 0, redirect |-> NoTarget, at |-> 0, known |-> {}]

\* Messages of one clear travel together: the flow-mod per installed rule.
AddMsg(f, r)      == [kind |-> "add", flow |-> f, rule |-> r, cookies |-> {}]
ClearMsg(cookies) == [kind |-> "clear", flow |-> CHOOSE f \in Flows : TRUE,
                      rule |-> NoRule, cookies |-> cookies]
Message == [kind : {"add", "clear"}, flow : Flows, rule : Rule \cup {NoRule},
            cookies : SUBSET (0..MaxNow)]

FTypeOK ==
    /\ scrubber \in Addresses \cup {NoTarget}
    /\ online \subseteq Switches
    /\ installed \in [Switches -> [Flows -> 0..MaxNow]]
    /\ wire \in [Switches -> Seq(Message)]
    /\ rules \in [Switches -> [Flows -> Rule \cup {NoRule}]]
    /\ now \in 1..MaxNow
    /\ decided \in [Flows -> Decided \cup {Undecided}]
    /\ named \subseteq Addresses
    /\ suspect \subseteq Switches
    /\ losses \in 0..MaxLosses

FInit ==
    /\ scrubber = NoTarget /\ online = {}
    /\ installed = [s \in Switches |-> [f \in Flows |-> 0]]
    /\ wire = [s \in Switches |-> <<>>]
    /\ rules = [s \in Switches |-> [f \in Flows |-> NoRule]]
    /\ now = 1
    /\ decided = [f \in Flows |-> Undecided] /\ named = {}
    /\ suspect = {} /\ losses = 0

\* _out_port_for_dst knows the hosts of the fat-tree only; everything else is
\* left to the switch's own learning.
Forward(f) == IF f \in LocalFlows THEN "forward" ELSE "normal"

\* A redirect without a target forwards; one to an address outside the fat-tree
\* drops.
Redirect(f, target) == IF target = NoTarget THEN Forward(f)
                       ELSE IF target \in Hosts THEN target ELSE "drop"

Effect(f, t, target) == CASE t = 1 -> "normal"
                          [] t = 2 -> Forward(f)
                          [] t = 3 -> Redirect(f, target)
                          [] t = 4 -> "drop"

-----------------------------------------------------------------------------
(* The controller.                                                          *)

\* Mutant: the target that was given first stays.
TargetOfFirst(d) == IF scrubber # NoTarget THEN scrubber ELSE d.redirect

\* directive_for returns the shared table entry: a target given once stays
\* there for later events of the tier.
TargetOf(d) == IF d.redirect # NoTarget THEN d.redirect ELSE scrubber

RuleFor(d) == [tier |-> d.tier, effect |-> Effect(d.flow, d.tier, TargetOf(d)),
               cookie |-> now]

\* Mutant: only the first cookie of a flow is kept.
NotedOnce(old) == IF old = 0 THEN now ELSE old

\* What is noted of an installed rule: its cookie.
Noted(old) == now

\* Every switch with a session gets the rule.
Targets(f) == online

\* The bound on the connections: every switch with a session takes one more.
Room == \A s \in online : Len(wire[s]) < MaxWire

\* The history of a decision is what was posted, not what was made of it.
Remember(d) ==
    /\ named' = IF d.tier = 3 THEN named \cup ({d.redirect} \ {NoTarget}) ELSE named
    /\ decided' = IF d.tier = 0 THEN decided
                  ELSE [decided EXCEPT ![d.flow] =
                          [tier |-> d.tier, redirect |-> d.redirect, at |-> now,
                           known |-> named]]

\* apply_tier.  Tier 0 installs nothing and removes nothing: whatever rule the
\* switches have for the flow stays until it expires, is replaced or cleared.
ApplyTier(d) ==
    /\ Room
    /\ scrubber' = IF d.tier = 3 THEN TargetOf(d) ELSE scrubber
    /\ IF d.tier = 0 THEN UNCHANGED <<installed, wire>>
       ELSE /\ wire' = [s \in Switches |->
                           IF s \in Targets(d.flow)
                           THEN Append(wire[s], AddMsg(d.flow, RuleFor(d)))
                           ELSE wire[s]]
            /\ installed' = [s \in Switches |->
                                IF s \in Targets(d.flow)
                                THEN [installed[s] EXCEPT ![d.flow] = Noted(@)]
                                ELSE installed[s]]
    /\ Remember(d)
    /\ UNCHANGED <<online, rules, now, suspect, losses>>

CookiesOf(s) == {installed[s][f] : f \in Flows} \ {0}

\* clear_all_tier_rules.  Switches without a session are skipped, and forgotten
\* all the same.
ClearAllTierRules ==
    /\ Room
    /\ wire' = [s \in Switches |->
                   IF s \in online /\ CookiesOf(s) # {}
                   THEN Append(wire[s], ClearMsg(CookiesOf(s)))
                   ELSE wire[s]]
    /\ installed' = [s \in Switches |-> [f \in Flows |-> 0]]
    /\ decided' = [f \in Flows |-> Undecided]
    /\ UNCHANGED <<scrubber, online, rules, now, named, suspect, losses>>

\* _on_switch_features and dpset: base routes are installed (they have a lower
\* priority and no cookie), tier rules are not.
Join(s) ==
    /\ s \notin online
    /\ online' = online \cup {s}
    /\ UNCHANGED <<scrubber, installed, wire, rules, now, history, suspect, losses>>

-----------------------------------------------------------------------------
(* The switches, the connections and the clock.                             *)

\* A flow-mod takes effect.  An added rule replaces the one of the same match.
Deliver(s) ==
    /\ wire[s] # <<>>
    /\ LET m == Head(wire[s])
       IN rules' = [rules EXCEPT ![s] =
              IF m.kind = "add" THEN [@ EXCEPT ![m.flow] = m.rule]
              ELSE [f \in Flows |-> IF @[f].cookie \in m.cookies THEN NoRule ELSE @[f]]]
    /\ wire' = [wire EXCEPT ![s] = Tail(@)]
    /\ UNCHANGED <<scrubber, online, installed, now, history, suspect, losses>>

\* idle_timeout and hard_timeout: the controller is not told.
Expire(s, f) ==
    /\ rules[s][f] # NoRule
    /\ rules' = [rules EXCEPT ![s][f] = NoRule]
    /\ UNCHANGED <<scrubber, online, installed, wire, now, history, suspect, losses>>

\* A session ends, and what was on the wire is lost.
Lose(s) ==
    /\ s \in online /\ losses < MaxLosses
    /\ losses' = losses + 1
    /\ online' = online \ {s}
    /\ wire' = [wire EXCEPT ![s] = <<>>]
    /\ suspect' = suspect \cup {s}
    /\ UNCHANGED <<scrubber, installed, rules, now, history>>

\* A switch comes up again, with an empty table.
Reboot(s) ==
    /\ s \notin online /\ losses < MaxLosses
    /\ losses' = losses + 1
    /\ rules' = [rules EXCEPT ![s] = [f \in Flows |-> NoRule]]
    /\ suspect' = suspect \ {s}
    /\ UNCHANGED <<scrubber, online, installed, wire, now, history>>

\* The controller is started again: record and directive table are fresh.
Restart ==
    /\ losses < MaxLosses
    /\ losses' = losses + 1
    /\ scrubber' = NoTarget /\ online' = {}
    /\ installed' = [s \in Switches |-> [f \in Flows |-> 0]]
    /\ wire' = [s \in Switches |-> <<>>]
    /\ suspect' = Switches
    /\ named' = {}
    /\ UNCHANGED <<rules, now, decided>>

\* A millisecond passes; events within one share a cookie.
Tick == /\ now < MaxNow
        /\ now' = now + 1
        /\ UNCHANGED <<scrubber, online, installed, wire, rules, history, suspect, losses>>

Network == \/ \E s \in Switches : Join(s) \/ Deliver(s) \/ Lose(s) \/ Reboot(s)
           \/ \E s \in Switches, f \in Flows : Expire(s, f)
           \/ Restart \/ Tick

FNext == \/ \E d \in Decisions : ApplyTier(d)
         \/ ClearAllTierRules
         \/ Network

FSpec == FInit /\ [][FNext]_fvars

-----------------------------------------------------------------------------
(* Properties.                                                              *)

Settled(s) == wire[s] = <<>>
Trusted == Switches \ suspect

Passes == {"normal", "forward"}
Towards(target) == IF target \in Hosts THEN target ELSE "drop"

\* What the directives of tier_to_flowmod.py promise for a decision: monitored
\* and rate-limited flows go on to their destination, a blackholed one nowhere, a
\* redirected one to the target its decision names, and nowhere if that is no
\* host.  Without a target of its own it goes to one named before for the tier,
\* or on to its destination ("until then Ryu still rate-limits").
Promised(d, effect) ==
    \/ d.tier = 1 /\ effect = "normal"
    \/ d.tier = 2 /\ effect \in Passes
    \/ d.tier = 3 /\ d.redirect # NoTarget /\ effect = Towards(d.redirect)
    \/ d.tier = 3 /\ d.redirect = NoTarget /\
          effect \in IF d.known = {} THEN Passes ELSE {Towards(a) : a \in d.known}
    \/ d.tier = 4 /\ effect = "drop"

\* A rule in a switch that never lost its session is that of the last decision
\* above Tier 0 on the flow since the last clear, and does what the directive of
\* that decision promises: no order of decisions, clears, joins and time-outs
\* leaves an older rule behind, or one that was cleared.  Nothing is said of what
\* a decision of Tier 0 asks for: the rule before it stays.
SwitchHoldsLastRule ==
    \A s \in Trusted : Settled(s) =>
        \A f \in Flows : rules[s][f] # NoRule =>
            /\ rules[s][f].tier = decided[f].tier
            /\ rules[s][f].cookie = decided[f].at
            /\ Promised(decided[f], rules[s][f].effect)

\* The controller can still clear what a switch holds: every rule is on record
\* under the cookie it has in the switch.
RulesAreOnRecord ==
    \A s \in Trusted : Settled(s) =>
        \A f \in Flows : rules[s][f] # NoRule => installed[s][f] = rules[s][f].cookie

=============================================================================
