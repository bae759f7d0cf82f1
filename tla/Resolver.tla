------------------------------ MODULE Resolver ------------------------------
(***************************************************************************)
(* Conflict detection and the three resolution policies, as operators over *)
(* the set of tool results and the live registry.                          *)
(***************************************************************************)
EXTENDS PermissionGate

CONSTANTS
  Data,     (* Payloads of successful calls, compared for equality only.   *)
  NoData    (* What stands for the payload of a failed call.               *)

(* A ToolResult; observed is the freshness timestamp.                      *)
ToolResult ==
  [call : Candidate, ok : BOOLEAN, data : Data \cup {NoData}, observed : Nat]

(* Mutant of Successes: failed results take part.                          *)
AllResultsOf(results, id) == {r \in results : r.call.id = id}

(* The successful results of a subtask.                                    *)
Successes(results, id) == {r \in results : r.ok /\ r.call.id = id}

(* Mutant of DetectConflicts: only the first two candidates are compared.  *)
FirstTwoDiffer(results) ==
  {id \in {r.call.id : r \in results} :
     \E r, q \in Successes(results, id) :
       r.data # q.data /\ r.call.rank = 0 /\ q.call.rank = 1}

(* detect_conflicts: the subtasks whose successful payloads differ.        *)
DetectConflicts(results) ==
  {id \in {r.call.id : r \in results} :
     \E r, q \in Successes(results, id) : r.data # q.data}

(* max(group, key=...): the first of the results with the largest key, in  *)
(* the order the group lists them, which is the router's.  The set of that *)
(* one result.                                                             *)
FirstMax(group, key) ==
  {r \in group :
     \A q \in group : \/ key[r] > key[q]
                      \/ key[r] = key[q] /\ r.call.rank <= q.call.rank}

(* The priority a tool has in the live registry, 0 once unregistered.      *)
LivePriority(reg, tool) ==
  IF tool \in DOMAIN reg THEN reg[tool].manifest.priority ELSE 0

(* _resolve_priority and _resolve_freshest, on the results of a conflict.  *)
PriorityWinner(group, reg) ==
  FirstMax(group, [r \in group |-> LivePriority(reg, r.call.tool)])

FreshestWinner(group) == FirstMax(group, [r \in group |-> r.observed])
=============================================================================
