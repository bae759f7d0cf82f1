--------------------------- MODULE PermissionGate ---------------------------
(***************************************************************************)
(* The permission gate: splits the router's candidates by session scope.   *)
(* A Denial carries the subtask, capability, tool and scope of the         *)
(* candidate it drops, so the candidate itself stands for it.              *)
(***************************************************************************)
EXTENDS Router

(* All candidates of all subtasks.                                         *)
AllCandidates(candidates) == UNION {candidates[id] : id \in DOMAIN candidates}

(* Mutant of GateAllowed: one granted candidate lets the others through.   *)
AllowsWholeSubtask(candidates, scope) ==
  UNION {candidates[id] : id \in
           {i \in DOMAIN candidates : \E c \in candidates[i] : c.scope \in scope}}

(* Mutant of GateAllowed: a session without scopes is taken as unlimited.  *)
AllowsAllWithoutScope(candidates, scope) ==
  {c \in AllCandidates(candidates) : scope = {} \/ c.scope \in scope}

(* GateResult.allowed.                                                     *)
GateAllowed(candidates, scope) ==
  {c \in AllCandidates(candidates) : c.scope \in scope}

(* GateResult.denials.                                                     *)
GateDenials(candidates, scope) ==
  {c \in AllCandidates(candidates) : c.scope \notin scope}

(* fully_denied_subtasks: subtasks with no allowed call.                   *)
FullyDenied(candidates, allowedCalls) ==
  {id \in DOMAIN candidates : \A c \in allowedCalls : c.id # id}
=============================================================================
