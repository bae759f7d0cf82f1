------------------------------- MODULE Router -------------------------------
(***************************************************************************)
(* From a plan to candidate calls.  A subtask names a capability, never a  *)
(* tool; route() looks up whoever is registered for it right now.          *)
(***************************************************************************)
EXTENDS ToolRegistry, Sequences

CONSTANT Ids    (* Subtask ids; their order stands for that of sorted(). *)

ASSUME IdsAreOrdered == Ids \subseteq Nat

(* A planner-emitted unit of work.  Nothing checks that ids are unique or  *)
(* that depends_on names a subtask of the plan.                            *)
Subtask == [id : Ids, cap : Caps, deps : SUBSET Ids]

UniqueIds(plan) == \A i, j \in DOMAIN plan : plan[i].id = plan[j].id => i = j

(* What stays in a dict filled in plan order, keyed by subtask id, from    *)
(* the subtasks at the positions I: the last one of each id.               *)
LastWithId(plan, I, id) ==
  {i \in I : plan[i].id = id /\ \A j \in I : plan[j].id = id => j <= i}

(* A ToolCall paired with what the gate and the resolver read of the       *)
(* RegisteredTool captured next to it; rank is its place in the list.      *)
Candidate == [id : Ids, cap : Caps, tool : Tools, scope : Scopes, rank : Nat]

RouterModes == {"all", "priority"}

(* Mutant of Chosen: every tool of the highest priority is taken.          *)
ChosenOfTopPriority(reg, cap, mode) ==
  {n \in Offers(reg, cap) :
     mode = "all" \/ \A m \in Offers(reg, cap) :
       reg[m].manifest.priority <= reg[n].manifest.priority}

(* matches, or matches[:1] in PRIORITY mode.                               *)
Chosen(reg, cap, mode) ==
  {n \in Offers(reg, cap) : mode = "all" \/ Rank(reg, cap, n) = 0}

CandidatesFor(subtask, reg, mode) ==
  {[id |-> subtask.id, cap |-> subtask.cap, tool |-> n,
    scope |-> reg[n].manifest.scope, rank |-> Rank(reg, subtask.cap, n)] :
      n \in Chosen(reg, subtask.cap, mode)}

(* Positions of the subtasks whose capability has a registered tool.       *)
Routable(plan, reg) == {i \in DOMAIN plan : Offers(reg, plan[i].cap) # {}}

(* RouteResult.candidates: a dict from subtask id to its candidates.       *)
RouteCandidates(plan, reg, mode) ==
  LET routable == Routable(plan, reg)
  IN  [id \in {plan[i].id : i \in routable} |->
         UNION {CandidatesFor(plan[i], reg, mode) :
                  i \in LastWithId(plan, routable, id)}]

(* RouteResult.unroutable.                                                 *)
RouteUnroutable(plan, reg) ==
  {plan[i].id : i \in DOMAIN plan \ Routable(plan, reg)}
=============================================================================
