---------------------------- MODULE Orchestrator ----------------------------
(***************************************************************************)
(* One request through the orchestrator's graph:                           *)
(*                                                                         *)
(*   planner -> router -> permission_gate -> executor -> check_conflicts   *)
(*      ^                       |                        -> resolver       *)
(*      +------- replan --------+                        -> aggregator     *)
(*                                                                         *)
(* next to callers that register and unregister tools while it runs.  The  *)
(* planner, the adjudicator and the aggregator await a language model,     *)
(* and a tool is a coroutine that may succeed, fail, time out or let a     *)
(* cancellation escape; each is a choice over what can come back.          *)
(***************************************************************************)
EXTENDS Resolver, Batching

CONSTANTS
  Plans,              (* Plans the model may reply with.                   *)
  Requests,           (* The parameters a caller passes.                   *)
  InitialRegistries,  (* Registries a run may start with.                  *)
  ObservedAt,         (* Freshness timestamps a result may carry.          *)
  MaxEdits            (* Bound on the registry edits during the run.       *)

Policies == {"priority", "freshest", "llm_adjudicate"}

(* The arguments of run_orchestrator.                                      *)
Request == [scope : SUBSET Scopes, mode : RouterModes, policy : Policies,
            sequential : BOOLEAN]

(* Registry.register numbers insertions; those of the run come after the   *)
(* initial ones.                                                           *)
FirstStamp == Cardinality(Tools)

ASSUME PlansTyped == Plans \subseteq Seq(Subtask)
ASSUME RequestsTyped == Requests \subseteq Request
ASSUME ObservedAtTyped == ObservedAt \subseteq Nat
ASSUME MaxEditsTyped == MaxEdits \in Nat
ASSUME NoDataIsNoPayload == NoData \notin Data
ASSUME InitialRegistriesTyped ==
  \A reg \in InitialRegistries :
    /\ IsRegistry(reg)
    /\ \A n \in DOMAIN reg : /\ reg[n].manifest \in Manifests[n]
                             /\ reg[n].since < FirstStamp

MAX_REPLANS == 1

(* The nodes of the graph, and the two ways a run is over: end is the      *)
(* graph's END, raised an exception that leaves run_orchestrator.          *)
Nodes == {"planner", "router", "permission_gate", "executor",
          "check_conflicts", "resolver", "aggregator", "end", "raised"}

VARIABLES
  request,          (* The caller's arguments; no step changes them.       *)
  tools,            (* The live registry, shared with other callers.       *)
  edits,            (* How often it was edited.                            *)
  node,             (* Where the graph is.                                 *)
  plan,
  pendingDenials,   (* {} stands for None as well.                         *)
  allDenials,
  replans,
  candidates,
  unroutable,
  allowed,          (* allowed_calls                                       *)
  batches,          (* The subtask ids of each batch begun so far.         *)
  running,          (* Calls whose tool has started and not returned.      *)
  invocations,      (* History: each tool started, with its live scope.    *)
  results,
  conflicts,
  resolutions,
  answer            (* "none", "prose" of the model, or the raw "digest".  *)

planVars == <<plan, pendingDenials>>
routeVars == <<candidates, unroutable>>
gateVars == <<allowed, allDenials, replans>>
runVars == <<batches, running, invocations, results>>
reportVars == <<conflicts, resolutions, answer>>
registryVars == <<tools, edits>>
vars == <<request, registryVars, node, planVars, routeVars, gateVars, runVars,
          reportVars>>

Invocation == [call : Candidate, scope : Scopes]
Resolution == [id : Ids, tool : Tools,
               via : {"priority", "freshest", "choice", "fallback"}]

TypeOK ==
  /\ request \in Requests
  /\ IsRegistry(tools)
  /\ edits \in 0..MaxEdits
  /\ node \in Nodes
  /\ plan \in Plans \cup {<<>>}
  /\ pendingDenials \subseteq Candidate
  /\ allDenials \subseteq Candidate
  /\ replans \in 0..MAX_REPLANS
  /\ DOMAIN candidates \subseteq Ids
  /\ candidates \in [DOMAIN candidates -> SUBSET Candidate]
  /\ unroutable \subseteq Ids
  /\ allowed \subseteq Candidate
  /\ batches \in Seq(SUBSET Ids)
  /\ running \subseteq allowed
  /\ invocations \subseteq Invocation
  /\ results \subseteq ToolResult
  /\ conflicts \subseteq Ids
  /\ resolutions \subseteq Resolution
  /\ answer \in {"none", "prose", "digest"}

(* initial_state of run_orchestrator.                                      *)
Init ==
  /\ request \in Requests
  /\ tools \in InitialRegistries
  /\ edits = 0
  /\ node = "planner"
  /\ plan = <<>>
  /\ pendingDenials = {} /\ allDenials = {} /\ replans = 0
  /\ candidates = [id \in {} |-> {}] /\ unroutable = {}
  /\ allowed = {}
  /\ batches = <<>> /\ running = {} /\ invocations = {} /\ results = {}
  /\ conflicts = {} /\ resolutions = {} /\ answer = "none"

Over == node \in {"end", "raised"}

-----------------------------------------------------------------------------
(* Callers that share the registry.                                        *)

(* register(manifest, fn, replace=...): without replace, a taken name      *)
(* raises and changes nothing.                                             *)
RegisterTool(n, m, replace) ==
  /\ ~Over /\ edits < MaxEdits
  /\ n \in DOMAIN tools => replace
  /\ tools' = Register(tools, n, m, FirstStamp + edits)
  /\ edits' = edits + 1
  /\ UNCHANGED <<request, node, planVars, routeVars, gateVars, runVars,
                 reportVars>>

UnregisterTool(n) ==
  /\ ~Over /\ edits < MaxEdits
  /\ n \in DOMAIN tools
  /\ tools' = Unregister(tools, n)
  /\ edits' = edits + 1
  /\ UNCHANGED <<request, node, planVars, routeVars, gateVars, runVars,
                 reportVars>>

-----------------------------------------------------------------------------
(* planner_node, router_node, permission_gate_node.                        *)

(* The capabilities a replan prompt lists as denied and not to be used.    *)
PromptForbids == {d.cap : d \in pendingDenials}

(* The model answers with any plan: nothing ties it to the catalog.        *)
PlannerNode ==
  /\ node = "planner"
  /\ plan' \in Plans
  /\ pendingDenials' = {}
  /\ node' = "router"
  /\ UNCHANGED <<request, registryVars, routeVars, gateVars, runVars,
                 reportVars>>

(* An exception of the model call, in a node that does not catch it.       *)
ModelRaises ==
  /\ \/ node \in {"planner", "aggregator"}
     \/ node = "resolver" /\ request.policy = "llm_adjudicate"
  /\ node' = "raised"
  /\ UNCHANGED <<request, registryVars, planVars, routeVars, gateVars, runVars,
                 reportVars>>

RouterNode ==
  /\ node = "router"
  /\ candidates' = RouteCandidates(plan, tools, request.mode)
  /\ unroutable' = RouteUnroutable(plan, tools)
  /\ node' = "permission_gate"
  /\ UNCHANGED <<request, registryVars, planVars, gateVars, runVars,
                 reportVars>>

(* Mutants of ShouldReplan: no bound; only when nothing at all may run.    *)
ReplansWhileDenied(allowedCalls) ==
  FullyDenied(candidates, allowedCalls) # {}
ReplansIfNothingRuns(allowedCalls) ==
  allowedCalls = {} /\ candidates # [id \in {} |-> {}] /\ replans < MAX_REPLANS

(* should_replan, and with it the edge route_after_gate takes.             *)
ShouldReplan(allowedCalls) ==
  FullyDenied(candidates, allowedCalls) # {} /\ replans < MAX_REPLANS

(* Mutant of PermissionGateNode: only a replan records its denials.        *)
GateForgetsFinalDenials ==
  /\ node = "permission_gate"
  /\ allowed' = GateAllowed(candidates, request.scope)
  /\ IF ShouldReplan(allowed')
       THEN /\ pendingDenials' = GateDenials(candidates, request.scope)
            /\ allDenials' = allDenials \cup pendingDenials'
            /\ replans' = replans + 1
            /\ node' = "planner"
       ELSE /\ node' = "executor"
            /\ UNCHANGED <<pendingDenials, allDenials, replans>>
  /\ UNCHANGED <<request, registryVars, plan, routeVars, runVars, reportVars>>

PermissionGateNode ==
  /\ node = "permission_gate"
  /\ allowed' = GateAllowed(candidates, request.scope)
  /\ allDenials' = allDenials \cup GateDenials(candidates, request.scope)
  /\ IF ShouldReplan(allowed')
       THEN /\ pendingDenials' = GateDenials(candidates, request.scope)
            /\ replans' = replans + 1
            /\ node' = "planner"
       ELSE /\ node' = "executor"
            /\ UNCHANGED <<pendingDenials, replans>>
  /\ UNCHANGED <<request, registryVars, plan, routeVars, runVars, reportVars>>

-----------------------------------------------------------------------------
(* executor_node: run, _run_batch and _invoke.                             *)

Runnable == {c.id : c \in allowed}

(* deps: of the subtasks with an id, the last one counts, and only the     *)
(* dependencies that are themselves runnable.                              *)
Deps ==
  [id \in Runnable |->
     Runnable \cap UNION {plan[i].deps : i \in LastWithId(plan, DOMAIN plan, id)}]

Taken == UNION {batches[k] : k \in DOMAIN batches}
Remaining == Runnable \ Taken

(* The calls of the batch begun last.                                      *)
BatchCalls ==
  IF batches = <<>> THEN {}
  ELSE {c \in allowed : c.id \in batches[Len(batches)]}

Settled == {r.call : r \in results}
(* Mutant of Waiting: a failed call is tried again.                        *)
WaitingOrFailed ==
  BatchCalls \ (running \cup {r.call : r \in {q \in results : q.ok}})

Waiting == BatchCalls \ (running \cup Settled)

(* Mutants of BatchSettled: calls need only be started; all must succeed.  *)
BatchStarted == Waiting = {}
BatchSucceeded == BatchCalls \subseteq {r.call : r \in {q \in results : q.ok}}

BatchSettled == BatchCalls \subseteq Settled

(* batch_calls lists the calls by id, then in the router's order; gather   *)
(* and the sequential loop both start them in that order.                  *)
Before(c, d) == c.id < d.id \/ (c.id = d.id /\ c.rank < d.rank)

(* Mutant of StartBatch: only nodes that are ready make a batch.           *)
StartReadyBatch ==
  /\ node = "executor" /\ BatchSettled /\ ReadyIds(Deps, Remaining) # {}
  /\ batches' = Append(batches, ReadyIds(Deps, Remaining))
  /\ UNCHANGED <<request, registryVars, node, planVars, routeVars, gateVars,
                 running, invocations, results, reportVars>>

StartBatch ==
  /\ node = "executor" /\ BatchSettled /\ Remaining # {}
  /\ batches' = Append(batches, NextBatch(Deps, Remaining))
  /\ UNCHANGED <<request, registryVars, node, planVars, routeVars, gateVars,
                 running, invocations, results, reportVars>>

(* The call whose turn it is: gather starts all of a batch, the sequential *)
(* loop awaits each.                                                       *)
NextToStart(c) ==
  /\ node = "executor" /\ c \in Waiting
  /\ \A d \in Waiting \ {c} : Before(c, d)
  /\ request.sequential => running = {}

(* _invoke looks the tool up by name once more and starts whatever is      *)
(* registered under it now.                                                *)
InvokeTool(c) ==
  /\ NextToStart(c) /\ c.tool \in DOMAIN tools
  /\ running' = running \cup {c}
  /\ invocations' = invocations \cup
       {[call |-> c, scope |-> tools[c.tool].manifest.scope]}
  /\ UNCHANGED <<request, registryVars, node, planVars, routeVars, gateVars,
                 batches, results, reportVars>>

Failure(c) == [call |-> c, ok |-> FALSE, data |-> NoData, observed |-> 0]
Success(c, d, t) == [call |-> c, ok |-> TRUE, data |-> d, observed |-> t]

InvokeMissing(c) ==
  /\ NextToStart(c) /\ c.tool \notin DOMAIN tools
  /\ results' = results \cup {Failure(c)}
  /\ UNCHANGED <<request, registryVars, node, planVars, routeVars, gateVars,
                 batches, running, invocations, reportVars>>

(* A running call returns to _invoke with result r.                        *)
Settle(c, r) ==
  /\ node = "executor" /\ c \in running
  /\ running' = running \ {c}
  /\ results' = results \cup {r}
  /\ UNCHANGED <<request, registryVars, node, planVars, routeVars, gateVars,
                 batches, invocations, reportVars>>

(* gather's tasks all begin before the first of them gets to its tool's    *)
(* body, which wait_for makes a task behind them (Python 3.11).            *)
BodiesRun == request.sequential \/ Waiting = {}

ToolSucceeds(c) ==
  BodiesRun /\ \E d \in Data, t \in ObservedAt : Settle(c, Success(c, d, t))

(* An "error" payload, a timeout or an exception of the tool; or a         *)
(* TypeError for its arguments, which comes before there is a task.        *)
ToolFails(c) == Settle(c, Failure(c))

(* A CancelledError raised by the tool is no Exception: _invoke lets it    *)
(* through, and gather hands it on without waiting for the other calls.    *)
CancellationEscapes(c) ==
  /\ node = "executor" /\ BodiesRun /\ c \in running
  /\ running' = running \ {c}
  /\ node' = "raised"
  /\ UNCHANGED <<request, registryVars, planVars, routeVars, gateVars,
                 batches, invocations, results, reportVars>>

(* A call that gather left behind comes to its end; nobody takes its       *)
(* result.                                                                 *)
OrphanEnds(c) ==
  /\ node = "raised" /\ c \in running
  /\ running' = running \ {c}
  /\ UNCHANGED <<request, registryVars, node, planVars, routeVars, gateVars,
                 batches, invocations, results, reportVars>>

FinishExecutor ==
  /\ node = "executor" /\ BatchSettled /\ Remaining = {}
  /\ node' = "check_conflicts"
  /\ UNCHANGED <<request, registryVars, planVars, routeVars, gateVars, runVars,
                 reportVars>>

-----------------------------------------------------------------------------
(* check_conflicts_node, resolver_node.                                    *)

CheckConflictsNode ==
  /\ node = "check_conflicts"
  /\ conflicts' = DetectConflicts(results)
  /\ node' = IF conflicts' = {} THEN "aggregator" ELSE "resolver"
  /\ UNCHANGED <<request, registryVars, planVars, routeVars, gateVars, runVars,
                 resolutions, answer>>

(* The winner under a policy that asks no model.                           *)
RuleWinner(id) ==
  IF request.policy = "priority"
    THEN PriorityWinner(Successes(results, id), tools)
    ELSE FreshestWinner(Successes(results, id))

(* Such a policy settles every conflict in one go.                         *)
ResolveByRule ==
  /\ node = "resolver" /\ request.policy # "llm_adjudicate"
  /\ resolutions' =
       UNION {{[id |-> id, tool |-> r.call.tool, via |-> request.policy] :
                 r \in RuleWinner(id)} : id \in conflicts}
  /\ node' = "aggregator"
  /\ UNCHANGED <<request, registryVars, planVars, routeVars, gateVars, runVars,
                 conflicts, answer>>

Unresolved == conflicts \ {r.id : r \in resolutions}

(* Conflicts are listed in the order their results came in.                *)
BatchOf(id) == CHOOSE k \in DOMAIN batches : id \in batches[k]
ListedBefore(id, other) ==
  \/ BatchOf(id) < BatchOf(other)
  \/ (BatchOf(id) = BatchOf(other) /\ id <= other)

(* Mutant of Resolve: the loop returns with its first resolution.          *)
ResolvesOnlyFirst(id, tool, via) ==
  /\ node = "resolver" /\ request.policy = "llm_adjudicate"
  /\ id \in Unresolved /\ \A other \in Unresolved : ListedBefore(id, other)
  /\ resolutions' = resolutions \cup {[id |-> id, tool |-> tool, via |-> via]}
  /\ node' = "aggregator"
  /\ UNCHANGED <<request, registryVars, planVars, routeVars, gateVars, runVars,
                 conflicts, answer>>

(* One turn of the llm_adjudicate loop.                                    *)
Resolve(id, tool, via) ==
  /\ node = "resolver" /\ request.policy = "llm_adjudicate"
  /\ id \in Unresolved /\ \A other \in Unresolved : ListedBefore(id, other)
  /\ resolutions' = resolutions \cup {[id |-> id, tool |-> tool, via |-> via]}
  /\ node' = IF Unresolved = {id} THEN "aggregator" ELSE "resolver"
  /\ UNCHANGED <<request, registryVars, planVars, routeVars, gateVars, runVars,
                 conflicts, answer>>

(* The model names a candidate of the conflict.                            *)
ModelChooses(id) ==
  \E r \in Successes(results, id) : Resolve(id, r.call.tool, "choice")

(* It names another tool, or the call ends in an LLMError.                 *)
FallBackToPriority(id) ==
  \E r \in PriorityWinner(Successes(results, id), tools) :
    Resolve(id, r.call.tool, "fallback")

-----------------------------------------------------------------------------
(* aggregator_node.                                                        *)

(* The digest's lines on one subtask: the winner of its conflict, or all   *)
(* of its results.  They carry the capability the plan names under the id. *)
Line(subtask, r) ==
  [id |-> subtask.id, cap |-> subtask.cap, tool |-> r.call.tool,
   ok |-> r.ok, data |-> r.data]

(* Mutant of WinnerOf: the tool's results of every subtask.                *)
ResultsOfTool(res) == {r \in results : r.call.tool = res.tool}

WinnerOf(res) ==
  {r \in results : r.call.id = res.id /\ r.call.tool = res.tool}

SubtaskLines(subtask) ==
  LET resolved == {res \in resolutions : res.id = subtask.id}
      shown == IF subtask.id \in conflicts
                 THEN UNION {WinnerOf(res) : res \in resolved}
                 ELSE {r \in results : r.call.id = subtask.id}
  IN  {Line(subtask, r) : r \in shown}

ResultLines == UNION {SubtaskLines(plan[i]) : i \in DOMAIN plan}

(* The DENIED lines, of both plans, and the capabilities of the UNROUTABLE *)
(* lines.                                                                  *)
DeniedLines ==
  {[tool |-> d.tool, cap |-> d.cap, scope |-> d.scope] : d \in allDenials}

UnroutableLines ==
  UNION {{plan[i].cap : i \in LastWithId(plan, DOMAIN plan, id)} :
           id \in unroutable}

(* The model writes prose, or an LLMError has the digest itself returned.  *)
AggregatorNode(outcome) ==
  /\ node = "aggregator"
  /\ answer' = outcome
  /\ node' = "end"
  /\ UNCHANGED <<request, registryVars, planVars, routeVars, gateVars, runVars,
                 conflicts, resolutions>>

(* The run is over and no tool of it is left running.                      *)
Returned == Over /\ running = {} /\ UNCHANGED vars

EditStep ==
  \E n \in Tools :
    \/ \E m \in Manifests[n], replace \in BOOLEAN : RegisterTool(n, m, replace)
    \/ UnregisterTool(n)

DecideStep ==
  \/ PlannerNode
  \/ RouterNode
  \/ PermissionGateNode

CallStep(c) ==
  \/ InvokeTool(c)
  \/ InvokeMissing(c)
  \/ ToolSucceeds(c)
  \/ ToolFails(c)
  \/ CancellationEscapes(c)
  \/ OrphanEnds(c)

ExecuteStep ==
  \/ StartBatch
  \/ \E c \in allowed : CallStep(c)
  \/ FinishExecutor

ReportStep ==
  \/ CheckConflictsNode
  \/ ResolveByRule
  \/ \E id \in conflicts : ModelChooses(id) \/ FallBackToPriority(id)
  \/ \E outcome \in {"prose", "digest"} : AggregatorNode(outcome)

GraphStep == DecideStep \/ ExecuteStep \/ ReportStep \/ ModelRaises

Next == GraphStep \/ EditStep \/ Returned

(* The event loop keeps running, every tool call is under a timeout, and   *)
(* the model client gives up in the end; nobody has to edit the registry.  *)
Spec == Init /\ [][Next]_vars /\ WF_vars(GraphStep)
=============================================================================
