------------------------ MODULE OrchestratorProperties ------------------------
(***************************************************************************)
(* What a run of the orchestrator has to satisfy.                          *)
(***************************************************************************)
EXTENDS Orchestrator

Started == {i.call : i \in invocations}

(* The gate has decided for good and the tools may run, or have run.       *)
PastGate == node \in {"executor", "check_conflicts", "resolver", "aggregator",
                      "end"}

PastExecutor == node \in {"check_conflicts", "resolver", "aggregator", "end"}

-----------------------------------------------------------------------------
(* Permissions.                                                            *)

(* No tool starts before the gate's last word, none for a call the gate    *)
(* dropped, and none for a call whose tool was outside the session scope   *)
(* when it was routed (permissions.gate, executor.run).                    *)
OnlyGatedCallsStart ==
  /\ node \in {"planner", "router", "permission_gate"} => Started = {}
  /\ \A c \in Started : c \in allowed /\ c.scope \in request.scope

(* Callers never re-register a name with another scope.                    *)
StableScopes ==
  \A n \in Tools : \A m1, m2 \in Manifests[n] : m1.scope = m2.scope

(* The scope of what really runs: the tool found under the call's name     *)
(* when it is invoked is within the session's scope ("applies scope checks *)
(* before execution").  The gate read the tool the router captured; this   *)
(* asks whether that check still speaks for the tool _invoke finds.        *)
ScopeHeldAtInvocation == \A i \in invocations : i.scope \in request.scope

(* Across the replan: a tool that was ever denied to this session never    *)
(* runs in it, whatever the second plan asks for and however the registry  *)
(* changed in between (as long as scopes are stable).                      *)
DeniedToolNeverRuns ==
  \A d \in allDenials : \A c \in Started : c.tool # d.tool

(* The executor is entered with a subtask nobody may run only after the    *)
(* planner was asked once more; and when it is asked, it is told about     *)
(* every such subtask (permission_gate_node).                              *)
GapsAreReplanned ==
  LET gaps == FullyDenied(candidates, allowed)
  IN  /\ PastGate /\ gaps # {} => replans = MAX_REPLANS
      /\ node = "planner" /\ replans > 0 =>
           gaps # {} /\ gaps \subseteq {d.id : d \in pendingDenials}

-----------------------------------------------------------------------------
(* Execution.                                                              *)

(* A call starts, or is given up, only when every call of every runnable   *)
(* subtask it depends on has its result (executor.run: "dependencies are   *)
(* already satisfied by prior batches"), unless a cycle holds its subtask  *)
(* up.                                                                     *)
DependenciesSettleFirst ==
  PastGate =>
    \A c \in running \cup Settled : c.id \notin Stuck(Deps) =>
      \A d \in allowed : d.id \in Deps[c.id] => d \in Settled

(* When the executor is done, each allowed call has exactly one result,    *)
(* and no tool is left running (_run_batch, gather).                       *)
EveryAllowedCallSettles ==
  PastExecutor =>
    /\ Settled = allowed /\ running = {}
    /\ \A r, q \in results : r.call = q.call => r = q

(* "One provider cannot take down its batch mates": whatever ends a run    *)
(* from within a batch, at most the call that did so lacks its result      *)
(* (_invoke's handlers, _run_batch).                                       *)
FaultIsolation ==
  node = "raised" => \A c, d \in BatchCalls \ Settled : c = d

-----------------------------------------------------------------------------
(* Conflicts.                                                              *)

(* In PRIORITY mode a subtask has one candidate, so nothing ever disagrees *)
(* (router.route, Registry.find_by_capability).                            *)
PriorityModeNeverConflicts == request.mode = "priority" => conflicts = {}

(* Each conflict reaches the digest with exactly one resolution; one       *)
(* without would be skipped there in silence (the continue of              *)
(* _summarize_for_answer).                                                 *)
EveryConflictResolvedOnce ==
  node \in {"aggregator", "end"} =>
    \A id \in conflicts : \E res \in resolutions :
      {q \in resolutions : q.id = id} = {res}

(* next(...) in the digest finds a result for every resolution, and it is  *)
(* a successful one of that conflict (resolver.resolve).                   *)
WinnerIsASuccess ==
  \A res \in resolutions :
    /\ res.id \in conflicts
    /\ \E r \in results : r.call.id = res.id /\ r.call.tool = res.tool
    /\ \A r \in results : r.call.id = res.id /\ r.call.tool = res.tool => r.ok

(* Who wins in one of these ways is registered at that moment, as long as  *)
(* a successful candidate of the conflict is.                              *)
WinnerRegistered(ways) ==
  \A res \in resolutions' \ resolutions :
    res.via \in ways /\ res.tool \notin DOMAIN tools =>
      \A r \in Successes(results, res.id) : r.call.tool \notin DOMAIN tools

(* When the model named no candidate or could not be reached, the fallback *)
(* selects "the highest-priority registered candidate"                     *)
(* (_priority_fallback).                                                   *)
RegisteredWinner == [][WinnerRegistered({"fallback"})]_vars

-----------------------------------------------------------------------------
(* The digest.                                                             *)

Digested == node \in {"aggregator", "end"}

(* What the digest says of a subtask, it says once: results that disagree  *)
(* were resolved, and only the winner is shown (check_conflicts_node,      *)
(* resolver_node, _summarize_for_answer).                                  *)
OneAnswerPerSubtask ==
  Digested =>
    \A l, m \in ResultLines : l.ok /\ m.ok /\ l.id = m.id => l.data = m.data

(* Each value in the digest is one that this tool returned for this        *)
(* subtask and this capability: the facts are "always accurate".           *)
DigestAccurate ==
  Digested =>
    \A l \in ResultLines :
      \E r \in results : /\ r.call.id = l.id /\ r.call.tool = l.tool
                         /\ r.call.cap = l.cap
                         /\ r.ok = l.ok /\ r.data = l.data

(* The same, for the plans the planner is asked for ("unique short id").   *)
DigestAccurateForUniqueIds == UniqueIds(plan) => DigestAccurate

(* Nothing the final plan asked for goes unmentioned: every subtask has a  *)
(* value, a failure, a denial or an unroutable line.                       *)
EverySubtaskAccounted ==
  Digested /\ UniqueIds(plan) =>
    \A i \in DOMAIN plan :
      \/ \E l \in ResultLines : l.id = plan[i].id
      \/ \E d \in DeniedLines : d.cap = plan[i].cap
      \/ plan[i].cap \in UnroutableLines

(* The replan prompt calls the listed capabilities denied and not to be    *)
(* used again; then no listed capability has a candidate that was allowed. *)
ReplanPromptTruthful ==
  node = "planner" => \A c \in allowed : c.cap \notin PromptForbids

-----------------------------------------------------------------------------
(* The run ends and leaves no tool running: replans are bounded, every     *)
(* call settles, and cycles do not stall the batches.                      *)
Returns == <>(Over /\ running = {})

(* What the state of a run means in terms of the contract.                 *)
Deciding == node \in {"planner", "router", "permission_gate"}

Phase ==
  CASE Deciding -> "deciding"
    [] node = "executor" -> "acting"
    [] node \in {"check_conflicts", "resolver", "aggregator"} -> "reporting"
    [] node = "end" -> "closed"
    [] node = "raised" -> "aborted"

(* The calls of a gate that asked for a replan were never permitted.       *)
Permitted ==
  IF Deciding \/ (node = "raised" /\ batches = <<>>) THEN {} ELSE allowed

Contract == INSTANCE RunContract WITH
  Calls <- Candidate, phase <- Phase, permitted <- Permitted,
  started <- Started, settled <- Settled

(* Every run, through replans, registry edits, failures and escaping       *)
(* cancellations, is one the contract allows: the calls are fixed before   *)
(* the first starts, none starts twice, the report waits for all of them.  *)
ImplementsContract == Contract!ContractSpec
=============================================================================
