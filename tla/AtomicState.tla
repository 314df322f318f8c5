---------------------------- MODULE AtomicState ----------------------------
(***************************************************************************)
(* The scenario state as its users see it (scenario_state.py): one record    *)
(* that every call changes in a single step.  Of the record the model keeps  *)
(* one operator field, one pipeline field and the history.                   *)
(***************************************************************************)
EXTENDS Naturals, Sequences

CONSTANT Ring   \* entries the history keeps (200)

VARIABLE state

Modes == {"ai_assisted", "rule_only"}
Statuses == {"idle", "active", "done"}
Events == {"scenario_start", "decision"}

\* DEFAULT_STATE
Default == [mode |-> "ai_assisted", status |-> "idle", history |-> <<>>]

\* Calls that patch fields (update, mark_stage, update_node, update_kpis, set_mode,
\* select_node), push_event, and reset, which may carry a mode over.
Ops == [field : {"mode"}, value : Modes] \cup [field : {"status"}, value : Statuses]
       \cup [field : {"history"}, value : Events] \cup [field : {"all"}, value : Modes]

\* state["history"][-200:]
Pushed(h, e) ==
    LET all == Append(h, e)
    IN  SubSeq(all, 1 + (IF Len(all) > Ring THEN Len(all) - Ring ELSE 0), Len(all))

Apply(op, s) ==
    CASE op.field = "mode"    -> [s EXCEPT !.mode = op.value]
      [] op.field = "status"  -> [s EXCEPT !.status = op.value]
      [] op.field = "history" -> [s EXCEPT !.history = Pushed(s.history, op.value)]
      [] op.field = "all"     -> [Default EXCEPT !.mode = op.value]

Init == state = Default
Next == \E op \in Ops : state' = Apply(op, state)
Spec == Init /\ [][Next]_state

=============================================================================
