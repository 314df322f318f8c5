----------------------------- MODULE Blackhole ------------------------------
(***************************************************************************)
(* The blackhole container (docker/vnf-blackhole/blackhole.py): the list of *)
(* addresses it reports against the DROP rules it has put into the kernel.  *)
(* HTTPServer handles one request at a time.  iptables -I adds a rule even  *)
(* if there is an equal one, iptables -D removes one of them and fails if   *)
(* there is none.                                                           *)
(***************************************************************************)
EXTENDS Integers

CONSTANTS
    Addresses,   \* what callers ask to have dropped
    MaxRules,    \* bound: equal rules in the kernel
    MaxFaults    \* bound: iptables calls that fail although they could succeed,
                 \*        and restarts

ASSUME BlackholeAssumption ==
    MaxRules \in Nat /\ MaxFaults \in Nat

VARIABLES
    real,         \* _REAL_IPTABLES: iptables is installed and we are root
    mode,         \* _state['mode']
    listed,       \* _state['blackholed_ips']
    rules,        \* kernel: number of DROP rules for each address
    deactivating, \* a /deactivate is under way,
    toDelete,     \* and these addresses are still to be deleted
    excused,      \* history: addresses posted while they had a rule, or hit by a
                  \* failed call or a restart
    faults

vars == <<real, mode, listed, rules, toDelete, deactivating, excused, faults>>

BTypeOK ==
    /\ real \in BOOLEAN
    /\ mode \in {"standby", "active"}
    /\ listed \subseteq Addresses
    /\ rules \in [Addresses -> 0..MaxRules]
    /\ toDelete \subseteq listed
    /\ deactivating \in BOOLEAN /\ (toDelete # {} => deactivating)
    /\ excused \subseteq Addresses
    /\ faults \in 0..MaxFaults

\* Whether there is an iptables is found out once, when the module is loaded.
Init ==
    /\ real \in BOOLEAN
    /\ mode = "standby" /\ listed = {} /\ rules = [a \in Addresses |-> 0]
    /\ toDelete = {} /\ deactivating = FALSE
    /\ excused = {} /\ faults = 0

-----------------------------------------------------------------------------
(* iptables.  A call that fails, or is given up after five seconds, may have *)
(* had its effect.  Without iptables the calls only log, and always succeed. *)

Added(a)   == IF real THEN [rules EXCEPT ![a] = @ + 1] ELSE rules
Deleted(a) == IF real THEN [rules EXCEPT ![a] = IF @ > 0 THEN @ - 1 ELSE 0] ELSE rules

Works == UNCHANGED faults
Fails == faults < MaxFaults /\ faults' = faults + 1

\* _iptables_del: deleting a rule that is not there fails without anybody's
\* fault, and nobody reads the result.
Delete(a) ==
    \/ Works /\ rules' = Deleted(a) /\ UNCHANGED excused
    \/ real /\ Fails /\ rules' \in {rules, Deleted(a)} /\ excused' = excused \cup {a}

-----------------------------------------------------------------------------
Idle == ~deactivating

\* POST /activate
Activate ==
    /\ Idle /\ mode' = "active"
    /\ UNCHANGED <<real, listed, rules, toDelete, deactivating, excused, faults>>

\* Mutant: the address is on the list before the rule is in the kernel.
ListingEarly(a, ok) == listed \cup {a}

\* The list after a POST whose iptables call went well or not.
Listing(a, ok) == IF ok THEN listed \cup {a} ELSE listed

\* POST /blackhole; refused in standby mode.
Block(a) ==
    /\ Idle /\ mode = "active" /\ rules[a] < MaxRules
    /\ \E ok \in BOOLEAN :
          /\ listed' = Listing(a, ok)
          /\ \/ /\ ok /\ Works /\ rules' = Added(a)
                /\ excused' = IF rules[a] > 0 THEN excused \cup {a} ELSE excused
             \/ /\ ~ok /\ real /\ Fails /\ rules' \in {rules, Added(a)}
                /\ excused' = excused \cup {a}
    /\ UNCHANGED <<real, mode, toDelete, deactivating>>

\* DELETE /blackhole: the address leaves the list whatever iptables says, and in
\* any mode.
Unblock(a) ==
    /\ Idle
    /\ Delete(a)
    /\ listed' = listed \ {a}
    /\ UNCHANGED <<real, mode, toDelete, deactivating>>

\* Mutant: the list is emptied first and then gone through.
SnapshotLate == {}

\* The addresses /deactivate goes through.
Snapshot == listed

\* POST /deactivate, its beginning: standby from here on.
BeginDeactivate ==
    /\ Idle
    /\ deactivating' = TRUE /\ mode' = "standby" /\ toDelete' = Snapshot
    /\ UNCHANGED <<real, listed, rules, excused, faults>>

\* One round of its loop.
DeleteNext(a) ==
    /\ a \in toDelete
    /\ Delete(a)
    /\ toDelete' = toDelete \ {a}
    /\ UNCHANGED <<real, mode, listed, deactivating>>

EndDeactivate ==
    /\ deactivating /\ toDelete = {}
    /\ deactivating' = FALSE /\ listed' = {}
    /\ UNCHANGED <<real, mode, rules, toDelete, excused, faults>>

\* The process ends and is started again.  Its rules are gone with the network
\* namespace of the container, or stay where the pod keeps it.
Restart ==
    /\ Fails /\ UNCHANGED real
    /\ mode' = "standby" /\ listed' = {} /\ toDelete' = {} /\ deactivating' = FALSE
    /\ rules' \in {rules, [a \in Addresses |-> 0]}
    /\ excused' = excused \cup { a \in Addresses : rules'[a] > 0 }

Next ==
    \/ Activate \/ BeginDeactivate \/ EndDeactivate \/ Restart
    \/ \E a \in Addresses : Block(a) \/ Unblock(a) \/ DeleteNext(a)

Spec == Init /\ [][Next]_vars

-----------------------------------------------------------------------------
\* Where there is an iptables, what GET /blackholed answers is dropped: between
\* requests every listed address has a rule in the kernel, whatever failed, timed
\* out or was restarted.  Where there is none (the shipped image installs none)
\* addresses are listed with nothing behind them.
ListedIsDropped == real /\ Idle => \A a \in listed : rules[a] > 0

\* In standby nothing is dropped, unless the address was posted twice, or a call
\* for it failed, or the process was restarted under its rules; only these outlive
\* a /deactivate.
StandbyDropsNothing ==
    Idle /\ mode = "standby" => \A a \in Addresses : rules[a] > 0 => a \in excused

=============================================================================
