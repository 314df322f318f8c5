------------------------------ MODULE DualPath ------------------------------
(***************************************************************************)
(* publish() (dual_path_publisher.py): one decision is posted to the fast   *)
(* path (Ryu, two seconds) and to the slow path (CLAMP, ten seconds) at the *)
(* same time, and the outcome is shown when both have answered or timed     *)
(* out.  A request that timed out may still be on its way.                  *)
(***************************************************************************)
EXTENDS FastPath

CONSTANT MaxPublished   \* bound: calls of publish()

ASSUME DualPathAssumption == MaxPublished \in Nat

VARIABLES
    pub,        \* "idle", or "out" inside publish()
    published,  \* decisions, in the order of their calls
    fastReq,    \* state of the POST to Ryu, per call
    slowReq,    \* state of the POST to CLAMP, per call
    fast,       \* answer of the fast path in the current call
    slow,       \* answer of the slow path in the current call
    loop,       \* tier of the last operation CLAMP was given
    shown,      \* scenario_state: active_tier and the status of the two paths
    late        \* history: a request was on its way when its caller gave up

dvars == <<fvars, pub, published, fastReq, slowReq, fast, slow, loop, shown, late>>

Calls == 1..MaxPublished
Current == Len(published)
Answers == {"none", "wait", "ok", "error"}

DTypeOK ==
    /\ FTypeOK
    /\ pub \in {"idle", "out"}
    /\ published \in Seq(Decisions) /\ Len(published) <= MaxPublished
    /\ {fastReq, slowReq} \subseteq [Calls -> {"none", "flight", "done", "lost"}]
    /\ {fast, slow} \subseteq Answers
    /\ pub = "idle" => "wait" \notin {fast, slow}
    /\ loop \in 0..4
    /\ shown \in [tier : 0..4, fast : Answers, slow : Answers]
    /\ late \in BOOLEAN

DInit ==
    /\ FInit
    /\ pub = "idle" /\ published = <<>>
    /\ fastReq = [n \in Calls |-> "none"] /\ slowReq = fastReq
    /\ fast = "none" /\ slow = "none"
    /\ loop = 0
    /\ shown = [tier |-> 0, fast |-> "none", slow |-> "none"]
    /\ late = FALSE

\* Both requests are submitted to the pool.
Publish(d) ==
    /\ pub = "idle" /\ Current < MaxPublished
    /\ pub' = "out"
    /\ published' = Append(published, d)
    /\ fastReq' = [fastReq EXCEPT ![Current + 1] = "flight"]
    /\ slowReq' = [slowReq EXCEPT ![Current + 1] = "flight"]
    /\ fast' = "wait" /\ slow' = "wait"
    /\ UNCHANGED <<fvars, loop, shown, late>>

\* Ryu handles a request; the answer reaches the caller, if it still waits.
RyuHandles(n) ==
    /\ fastReq[n] = "flight"
    /\ ApplyTier(published[n])
    /\ fastReq' = [fastReq EXCEPT ![n] = "done"]
    /\ \/ n = Current /\ fast = "wait" /\ fast' = "ok"
       \/ UNCHANGED fast
    /\ UNCHANGED <<pub, published, slowReq, slow, loop, shown, late>>

\* CLAMP handles a request.
ClampHandles(n) ==
    /\ slowReq[n] = "flight"
    /\ loop' = published[n].tier
    /\ slowReq' = [slowReq EXCEPT ![n] = "done"]
    /\ \/ n = Current /\ slow = "wait" /\ slow' = "ok"
       \/ UNCHANGED slow
    /\ UNCHANGED <<fvars, pub, published, fastReq, fast, shown, late>>

\* _post_ryu gives up: the request never arrived, is on its way, or was handled.
FastFails ==
    /\ fast = "wait" /\ fast' = "error"
    /\ \/ /\ fastReq[Current] = "flight"
          /\ fastReq' = [fastReq EXCEPT ![Current] = "lost"]
          /\ UNCHANGED late
       \/ /\ UNCHANGED fastReq
          /\ late' = (late \/ fastReq[Current] = "flight")
    /\ UNCHANGED <<fvars, pub, published, slowReq, slow, loop, shown>>

\* _post_clamp gives up.
SlowFails ==
    /\ slow = "wait" /\ slow' = "error"
    /\ \/ /\ slowReq[Current] = "flight"
          /\ slowReq' = [slowReq EXCEPT ![Current] = "lost"]
          /\ UNCHANGED late
       \/ /\ UNCHANGED slowReq
          /\ late' = (late \/ slowReq[Current] = "flight")
    /\ UNCHANGED <<fvars, pub, published, fastReq, fast, loop, shown>>

\* Mutant: publish() does not wait for the slow path.
AnsweredFast == fast # "wait"

\* Both futures have a result.
Answered == fast # "wait" /\ slow # "wait"

\* The outcome is written to the scenario state.
Show ==
    /\ pub = "out" /\ Answered
    /\ pub' = "idle"
    /\ shown' = [tier |-> published[Current].tier, fast |-> fast, slow |-> slow]
    /\ UNCHANGED <<fvars, published, fastReq, slowReq, fast, slow, loop, late>>

\* DELETE /pad/tier, by the operator.
Clear == /\ ClearAllTierRules
         /\ UNCHANGED <<pub, published, fastReq, slowReq, fast, slow, loop, shown, late>>

World == /\ Network
         /\ UNCHANGED <<pub, published, fastReq, slowReq, fast, slow, loop, shown, late>>

DNext == \/ \E d \in Decisions : Publish(d)
         \/ \E n \in Calls : RyuHandles(n) \/ ClampHandles(n)
         \/ FastFails \/ SlowFails \/ Show \/ Clear \/ World

DSpec == DInit /\ [][DNext]_dvars

-----------------------------------------------------------------------------

\* When a call has ended well on both paths, and no earlier request can still
\* arrive, the loop runs the tier that is shown, and a trusted switch treats
\* the flow as that tier asks, if it has a rule for it; Tier 0 excepted, which
\* leaves the previous rule in place.
BothPathsEndAtShownTier ==
    pub = "idle" /\ ~late /\ shown.fast = "ok" /\ shown.slow = "ok" =>
        /\ loop = shown.tier
        /\ shown.tier > 0 =>
             \A s \in Trusted : Settled(s) =>
                 LET r == rules[s][published[Current].flow]
                 IN r = NoRule \/ r.tier = shown.tier

\* The same, with the types of the variables: what the run checks of publish().
DualPathInv == DTypeOK /\ BothPathsEndAtShownTier

=============================================================================
