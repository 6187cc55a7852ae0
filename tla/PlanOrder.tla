----------------------------- MODULE PlanOrder -----------------------------
(***************************************************************************)
(* What planning the plugins of a package promises: every plugin is placed *)
(* once, after everything it depends on, and planning gives up only on a   *)
(* genuine cycle.  Which of the plugins that are ready comes next is left  *)
(* open.                                                                   *)
(***************************************************************************)
EXTENDS Naturals, Sequences

VARIABLES
    graph,   \* plugin |-> plugins it depends on
    order,   \* the plugins placed so far
    outcome  \* "idle", "planning", "ordered" or "cycle"
vars == <<graph, order, outcome>>

Placed == {order[i] : i \in DOMAIN order}

\* Every member of the set waits for another member.
Cyclic(S) == S # {} /\ \A p \in S : graph[p] \cap S # {}

Init == order = <<>> /\ outcome = "idle"

Begin ==
    /\ outcome = "idle"
    /\ outcome' = "planning"
    /\ UNCHANGED <<graph, order>>

Place(p) ==
    /\ outcome = "planning"
    /\ p \notin Placed
    /\ graph[p] \subseteq Placed
    /\ order' = Append(order, p)
    /\ UNCHANGED <<graph, outcome>>

Complete == outcome = "planning" /\ DOMAIN graph \subseteq Placed

Finish ==
    /\ Complete
    /\ outcome' = "ordered"
    /\ UNCHANGED <<graph, order>>

GiveUp ==
    /\ outcome = "planning"
    /\ \E S \in SUBSET DOMAIN graph : Cyclic(S)
    /\ outcome' = "cycle"
    /\ UNCHANGED <<graph, order>>

\* The plan has been used, or was made for validation only; the next package.
Discard ==
    /\ outcome \in {"idle", "ordered"} \/ Complete
    /\ outcome' = "idle"
    /\ order' = <<>>

Next == Begin \/ (\E p \in DOMAIN graph : Place(p)) \/ Finish \/ GiveUp \/ Discard

Spec == Init /\ [][Next]_vars
=============================================================================
